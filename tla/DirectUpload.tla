---------------------------- MODULE DirectUpload ----------------------------
(***************************************************************************)
(* The direct-upload protocol of DysonFS: a client asks for an upload task *)
(* (prepare), sends the bytes straight to the storage pool with presigned  *)
(* URLs, and asks the server to commit them (complete).  Several handlers, *)
(* the cancel endpoint, the hourly expiry sweep and the processing workers *)
(* touch the same task row, file row and blob with no lock between them;   *)
(* each database statement and each storage call is one action.            *)
(*                                                                         *)
(* The blob of task t is stored under "uploads/<t>/source": keys of new    *)
(* blobs are therefore the tasks themselves, and the blob a file had       *)
(* before any upload of this model is keyed by that file.                  *)
(***************************************************************************)

CONSTANTS
  Task,       \* upload tasks that can be created
  File,       \* ids of file rows: the overwritten ones and fresh ones
  Part,       \* part numbers of a multipart upload
  Req,        \* concurrent HTTP handlers: prepare, presign, complete
  Canceller,  \* concurrent cancel handlers
  Sweeper,    \* processes that run the expiry sweep
  Worker,     \* upload-processing workers
  Target,     \* Target[t]: the file task t overwrites, or None
  Multi,      \* values of "multipart" that clients send to prepare
  Assist,     \* whether clients send metadata and a derivative of their own
  Trashable,  \* files a user may delete meanwhile
  Durable,    \* TRUE: JetStream queue; FALSE: the in-memory bundled queue
  Troubles,   \* the kinds of trouble that may come together
  None

Existing == {Target[t] : t \in Task} \ {None}
Key      == Task \cup File

ASSUME Distinct    == Task \cap File = {} /\ None \notin Key \cup Part
ASSUME TargetFile  == Target \in [Task -> File \cup {None}]
ASSUME ModesAreSet == {Durable} \cup Multi \cup Assist \subseteq BOOLEAN
ASSUME KnownTrouble == Troubles \subseteq SUBSET {"faults", "crashes"}

VARIABLES
  task,      \* persistent_tasks rows
  file,      \* cloud_files rows
  object,    \* file_objects rows, by the key of their blob
  blob,      \* source blobs present in the pool
  derivBlob, \* tasks whose client-made derivative has been sent to the pool
  mpu,       \* state of the task's multipart session in the pool
  parts,     \* parts received by the open session
  url,       \* unexpired presigned URLs: "source", "derivative" or a part
  queue,     \* file.uploaded events that are not acknowledged
  req, cancel, sweep, work,   \* local state of the processes
  cancelled, \* tasks for which a cancel request was accepted
  dropped,   \* blobs deleted by transactions that have not committed
  trouble    \* the trouble of this behaviour, chosen at its start

vars == <<task, file, object, blob, derivBlob, mpu, parts, url, queue,
          req, cancel, sweep, work, cancelled, dropped>>

Faults  == "faults" \in trouble   \* storage, database and publish calls may fail
Crashes == "crashes" \in trouble  \* a process may die between two steps

store  == <<object, blob, derivBlob, mpu, parts>>
procs  == <<cancel, sweep, work>>
ghosts == <<cancelled, dropped>>

Event == [task : Task, file : File]

TaskRow == [up      : {"None", "Uploading", "Processing", "Completed", "Failed"},
            status  : {"pending", "processing", "completed", "failed", "expired"},
            src     : BOOLEAN,   \* source_key is stored
            mpid    : BOOLEAN,   \* upload_id is stored
            assist  : BOOLEAN,   \* the client sends metadata and a derivative
            created : File \cup {None},
            idle    : BOOLEAN]   \* updated_at is older than uploadTaskExpiryAge

\* derived: the bytes whose derivative pass last finished for this file
FileRow == [up      : {"None", "Processing", "Completed", "Failed"},
            key     : Key,
            live    : BOOLEAN,
            derived : Key \cup {None}]

Swapping   == {"c_swap", "c_commit"}
WithObject == Swapping \cup {"c_file"}
BeforeFile == WithObject \cup {"c_object"}
PastClaim  == BeforeFile \cup
              {"c_pending", "c_reload", "c_link", "c_derive", "c_taskDone", "c_fileDone",
               "c_publish"}
ReqPC      == PastClaim \cup
              {"idle", "p_key", "p_session", "p_uploadId", "p_url", "r_touch",
               "r_url", "s_return", "c_list", "c_assemble", "c_stat", "c_claim"}
WorkPC     == {"idle", "derive", "fileDone", "taskDone", "ack", "failTask", "failFile"}

\* old: the key an overwrite read from the file row
ReqRow == [pc : ReqPC, t : Task \cup {None}, f : File \cup {None}, old : Key \cup {None},
           multi : BOOLEAN, mpid : BOOLEAN, assist : BOOLEAN, part : Part \cup {None}]

IdleReq  == [pc |-> "idle", t |-> None, f |-> None, old |-> None, multi |-> FALSE,
             mpid |-> FALSE, assist |-> FALSE, part |-> None]
IdleWork == [pc |-> "idle", t |-> None, f |-> None, key |-> None]

Used(f) == file[f].up # "None"

Init ==
  /\ task = [t \in Task |-> [up |-> "None", status |-> "pending", src |-> FALSE,
                             mpid |-> FALSE, assist |-> FALSE, created |-> None,
                             idle |-> FALSE]]
  /\ file = [f \in File |-> [up |-> IF f \in Existing THEN "Completed" ELSE "None",
                             key |-> f, live |-> f \in Existing,
                             derived |-> IF f \in Existing THEN f ELSE None]]
  /\ object = Existing
  /\ blob = Existing
  /\ derivBlob = {}
  /\ mpu = [t \in Task |-> "none"]
  /\ parts = [t \in Task |-> {}]
  /\ url = [t \in Task |-> {}]
  /\ queue = {}
  /\ req = [r \in Req |-> IdleReq]
  /\ cancel = [c \in Canceller |-> [pc |-> "idle", t |-> None]]
  /\ sweep = [s \in Sweeper |-> [todo |-> {}, pc |-> "idle", t |-> None]]
  /\ work = [w \in Worker |-> IdleWork]
  /\ cancelled = {}
  /\ dropped = {}
  /\ trouble \in Troubles

Goto(r, pc) == req' = [req EXCEPT ![r].pc = pc]
Return(r)   == req' = [req EXCEPT ![r] = IdleReq]

\* TaskService.MarkFailed
MarkFailed(t) == task' = [task EXCEPT ![t] = [@ EXCEPT !.up = "Failed", !.status = "failed", !.idle = FALSE]]
\* TaskService.MarkCompleted, and the same update in markUploadCompleted
MarkCompleted(t) == task' = [task EXCEPT ![t] = [@ EXCEPT !.up = "Completed", !.status = "completed", !.idle = FALSE]]

\* The row lock that the UPDATE of an overwrite holds until its commit.
Unlocked(f) == \A r \in Req : ~(req[r].pc = "c_commit" /\ req[r].f = f)

\* An update of upload_status; gorm leaves soft-deleted rows out of it.
SetFileStatus(f, up) ==
  /\ Unlocked(f)
  /\ file' = [file EXCEPT ![f].up = IF file[f].live THEN up ELSE @]

-----------------------------------------------------------------------------
(* prepareDirectUpload: a new task *)

PrepareNew(r) ==
  /\ req[r].pc = "idle"
  /\ \E t \in Task, multi \in Multi, assist \in Assist :
       /\ task[t].up = "None"
       /\ task' = [task EXCEPT ![t] = [@ EXCEPT !.up = "Uploading", !.assist = assist]]
       /\ req' = [req EXCEPT ![r] = [IdleReq EXCEPT !.pc = "p_key", !.t = t, !.multi = multi,
                                                    !.assist = assist]]
  /\ UNCHANGED <<file, store, url, queue, procs, ghosts>>

PrepareSourceKey(r) ==
  /\ req[r].pc = "p_key"
  /\ task' = [task EXCEPT ![req[r].t] = [@ EXCEPT !.src = TRUE, !.idle = FALSE]]
  /\ Goto(r, IF req[r].multi THEN "p_session" ELSE "p_url")
  /\ UNCHANGED <<file, store, url, queue, procs, ghosts>>

PrepareSession(r) ==
  /\ req[r].pc = "p_session"
  /\ mpu' = [mpu EXCEPT ![req[r].t] = "open"]
  /\ Goto(r, "p_uploadId")
  /\ UNCHANGED <<task, file, object, blob, derivBlob, parts, url, queue, procs, ghosts>>

PrepareUploadId(r) ==
  /\ req[r].pc = "p_uploadId"
  /\ task' = [task EXCEPT ![req[r].t] = [@ EXCEPT !.mpid = TRUE, !.idle = FALSE]]
  /\ Goto(r, "p_url")
  /\ UNCHANGED <<file, store, url, queue, procs, ghosts>>

\* The response carries the source URL unless the upload is multipart, and a
\* derivative URL when the client asked for one.
PrepareReturn(r) ==
  /\ req[r].pc = "p_url"
  /\ url' = [url EXCEPT ![req[r].t] = @ \cup (IF req[r].multi THEN {} ELSE {"source"})
                                        \cup (IF req[r].assist THEN {"derivative"} ELSE {})]
  /\ Return(r)
  /\ UNCHANGED <<task, file, store, queue, procs, ghosts>>

(* prepareDirectUpload: the same file again resumes an Uploading task *)

PrepareResume(r) ==
  /\ req[r].pc = "idle"
  /\ \E t \in Task, multi \in Multi, assist \in Assist :
       /\ task[t].up = "Uploading"
       /\ req' = [req EXCEPT ![r] = [IdleReq EXCEPT !.pc = "r_touch", !.t = t, !.multi = multi,
                                                    !.mpid = task[t].mpid,
                                                    !.assist = IF assist THEN TRUE ELSE task[t].assist]]
  /\ UNCHANGED <<task, file, store, url, queue, procs, ghosts>>

\* Fault: resuming writes upload_status back.
ResumeRevives(r) ==
  /\ req[r].pc = "r_touch"
  /\ task' = [task EXCEPT ![req[r].t] = [@ EXCEPT !.up = "Uploading", !.idle = FALSE]]
  /\ Goto(r, "r_url")
  /\ UNCHANGED <<file, store, url, queue, procs, ghosts>>

\* Both updates select by task_id alone: they do not look at upload_status.
ResumeTouch(r) ==
  /\ req[r].pc = "r_touch"
  /\ task' = [task EXCEPT ![req[r].t] = [@ EXCEPT !.idle = FALSE, !.assist = req[r].assist]]
  /\ Goto(r, "r_url")
  /\ UNCHANGED <<file, store, url, queue, procs, ghosts>>

ResumeReturn(r) ==
  /\ req[r].pc = "r_url"
  /\ url' = [url EXCEPT ![req[r].t] = @ \cup (IF req[r].multi /\ req[r].mpid THEN {} ELSE {"source"})
                                        \cup (IF req[r].assist THEN {"derivative"} ELSE {})]
  /\ Return(r)
  /\ UNCHANGED <<task, file, store, queue, procs, ghosts>>

(* presignUploadPart *)

PresignRead(r) ==
  /\ req[r].pc = "idle"
  /\ \E t \in Task, p \in Part :
       /\ task[t].up = "Uploading" /\ task[t].mpid /\ task[t].src
       /\ req' = [req EXCEPT ![r] = [IdleReq EXCEPT !.pc = "s_return", !.t = t, !.part = p]]
  /\ UNCHANGED <<task, file, store, url, queue, procs, ghosts>>

\* The activity refresh is again unconditional, and the URL leaves the server
\* after it.
PresignReturn(r) ==
  /\ req[r].pc = "s_return"
  /\ task' = [task EXCEPT ![req[r].t].idle = FALSE]
  /\ url' = [url EXCEPT ![req[r].t] = @ \cup {req[r].part}]
  /\ Return(r)
  /\ UNCHANGED <<file, store, queue, procs, ghosts>>

-----------------------------------------------------------------------------
(* The client and the storage pool *)

ClientPut(t) ==
  /\ "source" \in url[t]
  /\ blob' = blob \cup {t}
  /\ UNCHANGED <<task, file, object, derivBlob, mpu, parts, url, queue, req, procs, ghosts>>

ClientPutDerivative(t) ==
  /\ "derivative" \in url[t]
  /\ derivBlob' = derivBlob \cup {t}
  /\ UNCHANGED <<task, file, object, blob, mpu, parts, url, queue, req, procs, ghosts>>

ClientPutPart(t, p) ==
  /\ p \in url[t]
  /\ mpu[t] = "open"
  /\ parts' = [parts EXCEPT ![t] = @ \cup {p}]
  /\ UNCHANGED <<task, file, object, blob, derivBlob, mpu, url, queue, req, procs, ghosts>>

\* URLs live 15 minutes, a task goes idle after six hours without an update,
\* and the prepare handler that creates a task is not that slow.
UrlsExpire(t) ==
  /\ url[t] # {}
  /\ url' = [url EXCEPT ![t] = {}]
  /\ UNCHANGED <<task, file, store, queue, req, procs, ghosts>>

Preparing(t) == \E r \in Req : /\ req[r].t = t
                               /\ req[r].pc \in {"p_key", "p_session", "p_uploadId", "p_url"}

GoIdle(t) ==
  /\ task[t].up = "Uploading" /\ ~task[t].idle
  /\ url[t] = {} /\ ~Preparing(t)
  /\ task' = [task EXCEPT ![t].idle = TRUE]
  /\ UNCHANGED <<file, store, url, queue, req, procs, ghosts>>

-----------------------------------------------------------------------------
(* completeDirectUpload.  A request on a task that is not Uploading answers *)
(* with the stored file or a conflict and changes nothing.                  *)

CompleteRead(r) ==
  /\ req[r].pc = "idle"
  /\ \E t \in Task :
       /\ task[t].up = "Uploading" /\ task[t].src
       /\ req' = [req EXCEPT ![r] = [IdleReq EXCEPT !.pc = IF task[t].mpid THEN "c_list" ELSE "c_stat",
                                                    !.t = t, !.assist = task[t].assist]]
  /\ UNCHANGED <<task, file, store, url, queue, procs, ghosts>>

CompleteListParts(r) ==
  /\ req[r].pc = "c_list"
  /\ IF mpu[req[r].t] = "open" /\ parts[req[r].t] = Part
       THEN Goto(r, "c_assemble")
       ELSE Return(r)
  /\ UNCHANGED <<task, file, store, url, queue, procs, ghosts>>

\* CompleteMultipartUpload: the pool assembles the object and ends the
\* session; on a session that is gone it fails.
CompleteAssemble(r) ==
  /\ req[r].pc = "c_assemble"
  /\ \/ /\ mpu[req[r].t] = "open"
        /\ mpu' = [mpu EXCEPT ![req[r].t] = "done"]
        /\ parts' = [parts EXCEPT ![req[r].t] = {}]
        /\ blob' = blob \cup {req[r].t}
        /\ Goto(r, "c_stat")
     \/ /\ mpu[req[r].t] # "open"
        /\ Return(r)
        /\ UNCHANGED <<mpu, parts, blob>>
  /\ UNCHANGED <<task, file, object, derivBlob, url, queue, procs, ghosts>>

\* Fault: the uploaded object is not looked up before the claim.
CompleteWithoutStat(r) ==
  /\ req[r].pc = "c_stat"
  /\ Goto(r, "c_claim")
  /\ UNCHANGED <<task, file, store, url, queue, procs, ghosts>>

CompleteStat(r) ==
  /\ req[r].pc = "c_stat"
  /\ \/ req[r].t \in blob /\ Goto(r, "c_claim")
     \/ (req[r].t \notin blob \/ Faults) /\ Return(r)
  /\ UNCHANGED <<task, file, store, url, queue, procs, ghosts>>

\* Fault: the claim does not look at upload_status.
MarkProcessingAnyway(t) ==
  task' = [task EXCEPT ![t] = [@ EXCEPT !.up = "Processing", !.status = "processing", !.src = TRUE, !.idle = FALSE]]

\* TaskService.MarkProcessing: an update conditional on Uploading.
MarkProcessing(t) ==
  /\ task[t].up = "Uploading"
  /\ task' = [task EXCEPT ![t] = [@ EXCEPT !.up = "Processing", !.status = "processing", !.src = TRUE, !.idle = FALSE]]

CompleteClaim(r) ==
  /\ req[r].pc = "c_claim"
  /\ MarkProcessing(req[r].t)
  /\ Goto(r, "c_object")
  /\ UNCHANGED <<file, store, url, queue, procs, ghosts>>

CompleteLost(r) ==
  /\ req[r].pc = "c_claim"
  /\ task[req[r].t].up # "Uploading"
  /\ Return(r)
  /\ UNCHANGED <<task, file, store, url, queue, procs, ghosts>>

CreateStoredObject(r) ==
  /\ req[r].pc = "c_object"
  /\ object' = object \cup {req[r].t}
  /\ Goto(r, "c_file")
  /\ UNCHANGED <<task, file, blob, derivBlob, mpu, parts, url, queue, procs, ghosts>>

\* CreateWorkspaceUploadedFile inserts the row as Completed;
\* CreatePendingUploadedFile then updates it to Processing.
CreateUploadedFile(r) ==
  /\ req[r].pc = "c_file" /\ Target[req[r].t] = None
  /\ \E f \in File \ Existing :
       /\ ~Used(f)
       /\ file' = [file EXCEPT ![f] = [up |-> "Completed", key |-> req[r].t, live |-> TRUE,
                                       derived |-> None]]
       /\ req' = [req EXCEPT ![r] = [@ EXCEPT !.pc = "c_pending", !.f = f]]
  /\ UNCHANGED <<task, store, url, queue, procs, ghosts>>

CreatePendingUploadedFile(r) ==
  /\ req[r].pc = "c_pending"
  /\ SetFileStatus(req[r].f, "Processing")
  /\ Goto(r, "c_link")
  /\ UNCHANGED <<task, store, url, queue, procs, ghosts>>

\* OverwriteFile is one transaction.  It reads the row, without a lock, and
\* so the id of the old object.
OverwriteRead(r) ==
  /\ req[r].pc = "c_file"
  /\ LET f == Target[req[r].t] IN
       /\ f # None /\ file[f].live
       /\ req' = [req EXCEPT ![r] = [@ EXCEPT !.pc = "c_swap", !.f = f, !.old = file[f].key]]
  /\ UNCHANGED <<task, file, store, url, queue, procs, ghosts>>

\* Fault: the object id is read after it was replaced.
PurgesNew(r) == object \cap {req[r].t}

\* purgeObjectIfDereferenced spares an object that a row, live or deleted,
\* refers to; the transaction's own row refers to the new object by then.
Dereferenced(r) == {k \in object \cap {req[r].old} :
                      \A g \in File \ {req[r].f} : Used(g) => file[g].key # k}

\* The UPDATE locks the row, and purgeObjectIfDereferenced deletes the blob
\* before the transaction commits.  A pool that refuses the delete keeps the
\* blob.  On a row deleted since it was read the transaction has no effect.
OverwriteSwap(r) ==
  /\ req[r].pc = "c_swap"
  /\ Unlocked(req[r].f)
  /\ \/ /\ file[req[r].f].live
        /\ \/ blob' = blob \ Dereferenced(r) /\ dropped' = dropped \cup Dereferenced(r)
           \/ Faults /\ UNCHANGED <<blob, dropped>>
        /\ Goto(r, "c_commit")
     \/ /\ ~file[req[r].f].live
        /\ Goto(r, "c_reload")
        /\ UNCHANGED <<blob, dropped>>
  /\ UNCHANGED <<task, file, object, derivBlob, mpu, parts, url, queue, procs, cancelled>>

\* The commit makes visible the new object, the soft-deleted derived children
\* and the purged object row.
OverwriteCommit(r) ==
  /\ req[r].pc = "c_commit"
  /\ file' = [file EXCEPT ![req[r].f] = [@ EXCEPT !.key = req[r].t, !.derived = None]]
  /\ object' = object \ Dereferenced(r)
  /\ dropped' = dropped \ Dereferenced(r)
  /\ Goto(r, "c_reload")
  /\ UNCHANGED <<task, blob, derivBlob, mpu, parts, url, queue, procs, cancelled>>

\* OverwriteFile returns the row it reads again.
OverwriteReload(r) ==
  /\ req[r].pc = "c_reload" /\ file[req[r].f].live
  /\ Goto(r, "c_link")
  /\ UNCHANGED <<task, file, store, url, queue, procs, ghosts>>

\* Fault: created_file_id is not stored.
CompleteWithoutLink(r) ==
  /\ req[r].pc = "c_link"
  /\ Goto(r, IF req[r].assist THEN "c_derive" ELSE "c_publish")
  /\ UNCHANGED <<task, file, store, url, queue, procs, ghosts>>

CompleteLink(r) ==
  /\ req[r].pc = "c_link"
  /\ task' = [task EXCEPT ![req[r].t] = [@ EXCEPT !.created = req[r].f, !.idle = FALSE]]
  /\ Goto(r, IF req[r].assist THEN "c_derive" ELSE "c_publish")
  /\ UNCHANGED <<file, store, url, queue, procs, ghosts>>

\* StoreClientSourceMetadata and CreateStoredDerivedFile: the derivative must
\* have been sent and the file must be there.
CreateStoredDerivedFile(r) ==
  /\ req[r].pc = "c_derive"
  /\ req[r].t \in derivBlob /\ file[req[r].f].live
  /\ file' = [file EXCEPT ![req[r].f].derived = req[r].t]
  /\ Goto(r, "c_taskDone")
  /\ UNCHANGED <<task, store, url, queue, procs, ghosts>>

\* Fault: the file row is not updated after its task.
CompleteTaskOnly(r) ==
  /\ req[r].pc = "c_taskDone"
  /\ MarkCompleted(req[r].t)
  /\ Return(r)
  /\ UNCHANGED <<file, store, url, queue, procs, ghosts>>

CompleteTask(r) ==
  /\ req[r].pc = "c_taskDone"
  /\ MarkCompleted(req[r].t)
  /\ Goto(r, "c_fileDone")
  /\ UNCHANGED <<file, store, url, queue, procs, ghosts>>

CompleteFile(r) ==
  /\ req[r].pc = "c_fileDone"
  /\ SetFileStatus(req[r].f, "Completed")
  /\ Return(r)
  /\ UNCHANGED <<task, store, url, queue, procs, ghosts>>

\* Fault: the handler answers without publishing.
CompleteUnpublished(r) ==
  /\ req[r].pc = "c_publish"
  /\ Return(r)
  /\ UNCHANGED <<task, file, store, url, queue, procs, ghosts>>

CompletePublish(r) ==
  /\ req[r].pc = "c_publish"
  /\ queue' = queue \cup {[task |-> req[r].t, file |-> req[r].f]}
  /\ Return(r)
  /\ UNCHANGED <<task, file, store, url, procs, ghosts>>

\* The error branches that call MarkFailed: the derivative or the overwritten
\* file is missing, a write fails, or publishing fails (a publish that times
\* out may still have stored the event).
MayFail(r) ==
  \/ req[r].pc = "c_derive" /\ (req[r].t \notin derivBlob \/ ~file[req[r].f].live)
  \/ req[r].pc = "c_file" /\ Target[req[r].t] \in Existing /\ ~file[Target[req[r].t]].live
  \/ req[r].pc = "c_reload" /\ ~file[req[r].f].live
  \/ Faults /\ req[r].pc \in BeforeFile \cup {"c_pending", "c_reload", "c_derive", "c_publish"}

CompleteFail(r) ==
  /\ MayFail(r)
  /\ MarkFailed(req[r].t)
  /\ \/ queue' = queue
     \/ /\ req[r].pc = "c_publish" /\ Durable
        /\ queue' = queue \cup {[task |-> req[r].t, file |-> req[r].f]}
  /\ Return(r)
  /\ UNCHANGED <<file, store, url, procs, ghosts>>

\* The process dies, or a call fails whose error the handler only reports.  An
\* open transaction is rolled back, a deleted blob stays deleted.
Abandon(r) ==
  /\ (Crashes \/ Faults) /\ req[r].pc # "idle"
  /\ Return(r)
  /\ UNCHANGED <<task, file, store, url, queue, procs, ghosts>>

-----------------------------------------------------------------------------
(* cancelUpload: it does not look at upload_status, it ignores what the pool *)
(* answers, and FailTask writes the status column only.                      *)

CancelRead(c) ==
  /\ cancel[c].pc = "idle"
  /\ \E t \in Task :
       /\ task[t].up # "None"
       /\ cancel' = [cancel EXCEPT ![c] = [t |-> t,
                       pc |-> IF ~task[t].src THEN "fail" ELSE IF task[t].mpid THEN "abort" ELSE "delete"]]
       /\ cancelled' = cancelled \cup {t}
  /\ UNCHANGED <<task, file, store, url, queue, req, sweep, work, dropped>>

CancelAbort(c) ==
  /\ cancel[c].pc = "abort"
  /\ \/ /\ mpu' = [mpu EXCEPT ![cancel[c].t] = IF @ = "open" THEN "aborted" ELSE @]
        /\ parts' = [parts EXCEPT ![cancel[c].t] = {}]
     \/ Faults /\ UNCHANGED <<mpu, parts>>
  /\ cancel' = [cancel EXCEPT ![c].pc = "delete"]
  /\ UNCHANGED <<task, file, object, blob, derivBlob, url, queue, req, sweep, work, ghosts>>

CancelDelete(c) ==
  /\ cancel[c].pc = "delete"
  /\ \/ blob' = blob \ {cancel[c].t}
     \/ Faults /\ blob' = blob
  /\ cancel' = [cancel EXCEPT ![c].pc = "deleteDerived"]
  /\ UNCHANGED <<task, file, object, derivBlob, mpu, parts, url, queue, req, sweep, work, ghosts>>

\* Only a ".thumbnail" derivative is deleted, a ".compressed" one stays.
CancelDeleteDerived(c) ==
  /\ cancel[c].pc = "deleteDerived"
  /\ derivBlob' \in {derivBlob, derivBlob \ {cancel[c].t}}
  /\ cancel' = [cancel EXCEPT ![c].pc = "fail"]
  /\ UNCHANGED <<task, file, object, blob, mpu, parts, url, queue, req, sweep, work, ghosts>>

\* TaskService.FailTask
CancelFail(c) ==
  /\ cancel[c].pc = "fail"
  /\ task' = [task EXCEPT ![cancel[c].t] = [@ EXCEPT !.status = "failed", !.idle = FALSE]]
  /\ cancel' = [cancel EXCEPT ![c] = [pc |-> "idle", t |-> None]]
  /\ UNCHANGED <<file, store, url, queue, req, sweep, work, ghosts>>

CancelCrash(c) ==
  /\ (Crashes \/ Faults) /\ cancel[c].pc # "idle"
  /\ cancel' = [cancel EXCEPT ![c] = [pc |-> "idle", t |-> None]]
  /\ UNCHANGED <<task, file, store, url, queue, req, sweep, work, ghosts>>

-----------------------------------------------------------------------------
(* ExpireStaleUploadTasks *)

Stale(t) == task[t].up = "Uploading" /\ task[t].idle

\* Fault: the sweep looks at the status column as well.
SweepQueryPending(s) ==
  /\ sweep[s].pc = "idle" /\ sweep[s].todo = {}
  /\ \E t \in Task : Stale(t) /\ task[t].status = "pending"
  /\ sweep' = [sweep EXCEPT ![s].todo = {t \in Task : Stale(t) /\ task[t].status = "pending"}]
  /\ UNCHANGED <<task, file, store, url, queue, req, cancel, work, ghosts>>

SweepQuery(s) ==
  /\ sweep[s].pc = "idle" /\ sweep[s].todo = {}
  /\ \E t \in Task : Stale(t)
  /\ sweep' = [sweep EXCEPT ![s].todo = {t \in Task : Stale(t)}]
  /\ UNCHANGED <<task, file, store, url, queue, req, cancel, work, ghosts>>

\* Fault: the claim does not repeat the condition.
SweepClaimAnyway(s) ==
  /\ sweep[s].pc = "idle"
  /\ \E t \in sweep[s].todo :
       /\ task' = [task EXCEPT ![t] = [@ EXCEPT !.up = "Failed", !.status = "expired"]]
       /\ sweep' = [sweep EXCEPT ![s] = [todo |-> @.todo \ {t}, t |-> t, pc |-> "delete"]]
  /\ UNCHANGED <<file, store, url, queue, req, cancel, work, ghosts>>

\* The claim repeats the condition of the query in the UPDATE.  With no pool
\* backend the sweep goes on to the next task.
SweepClaim(s) ==
  /\ sweep[s].pc = "idle"
  /\ \E t \in sweep[s].todo :
       /\ Stale(t)
       /\ task' = [task EXCEPT ![t] = [@ EXCEPT !.up = "Failed", !.status = "expired", !.idle = FALSE]]
       /\ \/ /\ task[t].src
             /\ sweep' = [sweep EXCEPT ![s] = [todo |-> @.todo \ {t}, t |-> t,
                            pc |-> IF task[t].mpid THEN "abort" ELSE "delete"]]
          \/ /\ ~task[t].src \/ Faults
             /\ sweep' = [sweep EXCEPT ![s].todo = @ \ {t}]
  /\ UNCHANGED <<file, store, url, queue, req, cancel, work, ghosts>>

SweepSkip(s) ==
  /\ sweep[s].pc = "idle"
  /\ \E t \in sweep[s].todo :
       /\ ~Stale(t)
       /\ sweep' = [sweep EXCEPT ![s].todo = @ \ {t}]
  /\ UNCHANGED <<task, file, store, url, queue, req, cancel, work, ghosts>>

SweepAbort(s) ==
  /\ sweep[s].pc = "abort"
  /\ \/ /\ mpu' = [mpu EXCEPT ![sweep[s].t] = IF @ = "open" THEN "aborted" ELSE @]
        /\ parts' = [parts EXCEPT ![sweep[s].t] = {}]
     \/ Faults /\ UNCHANGED <<mpu, parts>>
  /\ sweep' = [sweep EXCEPT ![s].pc = "delete"]
  /\ UNCHANGED <<task, file, object, blob, derivBlob, url, queue, req, cancel, work, ghosts>>

SweepDelete(s) ==
  /\ sweep[s].pc = "delete"
  /\ \/ blob' = blob \ {sweep[s].t}
     \/ Faults /\ blob' = blob
  /\ sweep' = [sweep EXCEPT ![s].pc = "deleteDerived"]
  /\ UNCHANGED <<task, file, object, derivBlob, mpu, parts, url, queue, req, cancel, work, ghosts>>

SweepDeleteDerived(s) ==
  /\ sweep[s].pc = "deleteDerived"
  /\ \/ derivBlob' = derivBlob \ {sweep[s].t}
     \/ Faults /\ derivBlob' = derivBlob
  /\ sweep' = [sweep EXCEPT ![s] = [@ EXCEPT !.pc = "idle", !.t = None]]
  /\ UNCHANGED <<task, file, object, blob, mpu, parts, url, queue, req, cancel, work, ghosts>>

SweepCrash(s) ==
  /\ Crashes /\ sweep[s].pc # "idle"
  /\ sweep' = [sweep EXCEPT ![s] = [todo |-> {}, pc |-> "idle", t |-> None]]
  /\ UNCHANGED <<task, file, store, url, queue, req, cancel, work, ghosts>>

-----------------------------------------------------------------------------
(* The worker: SubscribeFileUploaded or runUploadWorker around               *)
(* ProcessUploadedFile.                                                      *)

Readable(f) == file[f].live /\ file[f].key \in object /\ file[f].key \in blob

\* JetStream gives a message that a live worker holds to another worker only
\* once AckWait has passed; the bundled channel drops it when it is taken.
WorkTake(w, e) ==
  /\ work[w].pc = "idle"
  /\ e \in queue
  /\ Crashes \/ \A v \in Worker : <<work[v].t, work[v].f>> # <<e.task, e.file>>
  /\ queue' = IF Durable THEN queue ELSE queue \ {e}
  /\ work' = [work EXCEPT ![w] = [pc |-> IF Readable(e.file) THEN "derive" ELSE "failTask",
                                  t |-> e.task, f |-> e.file, key |-> file[e.file].key]]
  /\ UNCHANGED <<task, file, store, url, req, cancel, sweep, ghosts>>

\* processDerived: the derivatives are made from the bytes that were read and
\* attached to the file as it is now.  Undecodable media is an error; a type
\* without a derivative handler passes even when the row is gone.
ProcessDerived(w) ==
  /\ work[w].pc = "derive"
  /\ \/ /\ Unlocked(work[w].f)
        /\ file' = [file EXCEPT ![work[w].f].derived =
                      IF file[work[w].f].live THEN work[w].key ELSE @]
        /\ work' = [work EXCEPT ![w].pc = "fileDone"]
     \/ /\ work' = [work EXCEPT ![w].pc = "failTask"]
        /\ file' = file
  /\ UNCHANGED <<task, store, url, queue, req, cancel, sweep, ghosts>>

\* markUploadCompleted updates the file, then the task.
WorkFileDone(w) ==
  /\ work[w].pc = "fileDone"
  /\ SetFileStatus(work[w].f, "Completed")
  /\ work' = [work EXCEPT ![w].pc = "taskDone"]
  /\ UNCHANGED <<task, store, url, queue, req, cancel, sweep, ghosts>>

WorkTaskDone(w) ==
  /\ work[w].pc = "taskDone"
  /\ MarkCompleted(work[w].t)
  /\ work' = [work EXCEPT ![w].pc = "ack"]
  /\ UNCHANGED <<file, store, url, queue, req, cancel, sweep, ghosts>>

WorkAck(w) ==
  /\ work[w].pc = "ack"
  /\ queue' = queue \ {[task |-> work[w].t, file |-> work[w].f]}
  /\ work' = [work EXCEPT ![w] = IdleWork]
  /\ UNCHANGED <<task, file, store, url, req, cancel, sweep, ghosts>>

\* A write of markUploadCompleted fails, and the message is nak'd.
WorkError(w) ==
  /\ Faults /\ work[w].pc \in {"fileDone", "taskDone"}
  /\ work' = [work EXCEPT ![w] = IdleWork]
  /\ UNCHANGED <<task, file, store, url, queue, req, cancel, sweep, ghosts>>

\* markUploadFailed updates the task, then the file, and ignores errors; the
\* message is nak'd and stays in the durable queue.
WorkFailTask(w) ==
  /\ work[w].pc = "failTask"
  /\ MarkFailed(work[w].t) \/ (Faults /\ task' = task)
  /\ work' = [work EXCEPT ![w].pc = "failFile"]
  /\ UNCHANGED <<file, store, url, queue, req, cancel, sweep, ghosts>>

WorkFailFile(w) ==
  /\ work[w].pc = "failFile"
  /\ SetFileStatus(work[w].f, "Failed") \/ (Faults /\ file' = file)
  /\ work' = [work EXCEPT ![w] = IdleWork]
  /\ UNCHANGED <<task, store, url, queue, req, cancel, sweep, ghosts>>

\* A worker dies; with the bundled dispatcher its process takes the channel
\* with it.
WorkCrash(w) ==
  /\ Crashes /\ (work[w].pc # "idle" \/ (~Durable /\ queue # {}))
  /\ work' = [work EXCEPT ![w] = IdleWork]
  /\ queue' = IF Durable THEN queue ELSE {}
  /\ UNCHANGED <<task, file, store, url, req, cancel, sweep, ghosts>>

\* DeleteFile: the soft delete of a file row.
DeleteFile(f) ==
  /\ f \in Trashable /\ Used(f) /\ file[f].live /\ Unlocked(f)
  /\ file' = [file EXCEPT ![f].live = FALSE]
  /\ UNCHANGED <<task, store, url, queue, req, procs, ghosts>>

-----------------------------------------------------------------------------
Prepare(r) ==
  \/ PrepareSourceKey(r) \/ PrepareSession(r) \/ PrepareUploadId(r) \/ PrepareReturn(r)
  \/ ResumeTouch(r) \/ ResumeReturn(r) \/ PresignReturn(r)

Complete(r) ==
  \/ CompleteListParts(r) \/ CompleteAssemble(r) \/ CompleteStat(r)
  \/ CompleteClaim(r) \/ CompleteLost(r) \/ CreateStoredObject(r)
  \/ CreateUploadedFile(r) \/ CreatePendingUploadedFile(r)
  \/ OverwriteRead(r) \/ OverwriteSwap(r) \/ OverwriteCommit(r) \/ OverwriteReload(r)
  \/ CompleteLink(r) \/ CreateStoredDerivedFile(r)
  \/ CompleteTask(r) \/ CompleteFile(r) \/ CompletePublish(r) \/ CompleteFail(r)

Start(r) == PrepareNew(r) \/ PrepareResume(r) \/ PresignRead(r) \/ CompleteRead(r)

Cancel(c) == \/ CancelRead(c) \/ CancelAbort(c) \/ CancelDelete(c)
             \/ CancelDeleteDerived(c) \/ CancelFail(c)

Sweep(s) == \/ SweepQuery(s) \/ SweepClaim(s) \/ SweepSkip(s)
            \/ SweepAbort(s) \/ SweepDelete(s) \/ SweepDeleteDerived(s)

Work(w) == \/ ProcessDerived(w) \/ WorkFileDone(w) \/ WorkTaskDone(w) \/ WorkAck(w)
           \/ WorkError(w) \/ WorkFailTask(w) \/ WorkFailFile(w)

Client(t) == \/ ClientPut(t) \/ ClientPutDerivative(t)
             \/ \E p \in Part : ClientPutPart(t, p)

Next ==
  /\ \/ \E r \in Req : Start(r) \/ Prepare(r) \/ Complete(r) \/ Abandon(r)
     \/ \E t \in Task : Client(t) \/ UrlsExpire(t) \/ GoIdle(t)
     \/ \E c \in Canceller : Cancel(c) \/ CancelCrash(c)
     \/ \E s \in Sweeper : Sweep(s) \/ SweepCrash(s)
     \/ \E w \in Worker : Work(w) \/ WorkCrash(w)
     \/ \E w \in Worker, e \in queue : WorkTake(w, e)
     \/ \E f \in File : DeleteFile(f)
  /\ UNCHANGED trouble

Spec == Init /\ [][Next]_<<vars, trouble>>

\* A handler that started runs to its end, the sweep runs every hour, time
\* passes, and the queue delivers what it holds.  Nothing obliges a client.
Fairness ==
  /\ \A r \in Req : WF_vars(Prepare(r) \/ Complete(r))
  /\ \A t \in Task : WF_vars(UrlsExpire(t)) /\ WF_vars(GoIdle(t))
  /\ \A s \in Sweeper : WF_vars(Sweep(s))
  /\ \A w \in Worker : WF_vars(Work(w))
  /\ \A e \in Event : SF_vars(\E w \in Worker : WorkTake(w, e))

FairSpec == Spec /\ Fairness

-----------------------------------------------------------------------------
(* Properties *)

TaskOK == task \in [Task -> TaskRow]
FileOK == file \in [File -> FileRow]
StoreOK == /\ object \subseteq Key /\ blob \subseteq Key /\ dropped \subseteq Key
           /\ derivBlob \subseteq Task
           /\ mpu \in [Task -> {"none", "open", "done", "aborted"}]
           /\ parts \in [Task -> SUBSET Part]
UrlOK == url \in [Task -> SUBSET ({"source", "derivative"} \cup Part)]
QueueOK == queue \subseteq Event
ReqOK == req \in [Req -> ReqRow]
CancelOK == /\ cancel \in [Canceller -> [pc : {"idle", "abort", "delete", "deleteDerived", "fail"},
                                        t : Task \cup {None}]]
            /\ cancelled \subseteq Task
SweepOK == sweep \in [Sweeper -> [todo : SUBSET Task, t : Task \cup {None},
                                 pc : {"idle", "abort", "delete", "deleteDerived"}]]
WorkOK == work \in [Worker -> [pc : WorkPC, t : Task \cup {None}, f : File \cup {None},
                              key : Key \cup {None}]]

\* Every variable stays in its type: no handler writes a status, key or
\* program point the code does not have.
TypeOK ==
  TaskOK /\ FileOK /\ StoreOK /\ UrlOK /\ QueueOK /\ ReqOK /\ CancelOK /\ SweepOK /\ WorkOK

\* A task makes at most one visible file, however many complete requests
\* race or repeat: MarkProcessing lets one of them past.
OneFilePerTask ==
  \A f, g \in File : Used(f) /\ Used(g) /\ file[f].key = file[g].key => f = g

Committing(t) == \E r \in Req : req[r].t = t /\ req[r].pc \in PastClaim
Committed(t)  == \E f \in File : Used(f) /\ file[f].key = t

\* The expiry sweep cleans up a task only when no completion got past its
\* claim: it never deletes the bytes of a file that exists or is being made.
SweepSparesCommitted ==
  \A s \in Sweeper : LET t == sweep[s].t IN
    t # None => ~Committing(t) /\ ~Committed(t)

\* A file row, deleted or not, keeps its object row, and its blob unless
\* somebody cancelled the upload that brought the blob or a transaction that
\* deleted it is open or was rolled back.
CommittedBytesKept ==
  \A f \in File : Used(f) =>
    /\ file[f].key \in object
    /\ file[f].key \in blob \cup cancelled \cup dropped

\* A task the sweep expired stays failed, although the updates of a late
\* prepare, presign, worker or handler do not look at its status.
ExpiredStaysFailed ==
  [][\A t \in Task : task[t].status = "expired" => task'[t].up = "Failed"]_vars

\* A task is Completed only with its file stored in created_file_id, which a
\* repeated complete request answers with.
CompletedHasFile ==
  \A t \in Task : task[t].up = "Completed" =>
    task[t].created \in File /\ Used(task[t].created)

Quiet(t) == /\ \A r \in Req : req[r].t # t
            /\ \A w \in Worker : work[w].t # t
            /\ \A e \in queue : e.task # t

\* Every call succeeds, no process dies, and no two tasks overwrite one file.
TargetsApart == \A t, u \in Task : Target[t] = Target[u] /\ Target[t] # None => t = u
Untroubled  == ~Faults /\ ~Crashes /\ TargetsApart

\* Once nothing works on a completed upload any more, the file it made is
\* Completed too, not only its task, unless a call failed or a process died
\* on the way or another upload overwrites the file.
CompletedTogether ==
  Untroubled =>
    \A t \in Task : Quiet(t) /\ task[t].up = "Completed" =>
      LET f == task[t].created IN file[f].live => file[f].up = "Completed"

\* An upload that was claimed for processing ends where no call fails and no
\* process dies: its task becomes Completed or Failed.
ProcessingEnds ==
  \A t \in Task : ~Faults /\ ~Crashes /\ task[t].up = "Processing"
                   ~> task[t].up \in {"Completed", "Failed"}

\* Activity that refreshes updated_at of an Uploading task.
Touch(t) ==
  \/ \E r \in Req : req[r].t = t /\ (ResumeTouch(r) \/ PresignReturn(r))
  \/ \E c \in Canceller : cancel[c].t = t /\ CancelFail(c)

\* An upload that nobody touches any more does not stay Uploading: the sweep
\* expires it, cancelled or not.
AbandonedUploadsEnd ==
  \A t \in Task : <>[](task[t].up = "Uploading") => []<><<Touch(t)>>_vars
-----------------------------------------------------------------------------
(* What the documentation says and the code does not keep *)

\* memo/UPLOAD_FLOW.md: "Cancel aborts the multipart session (discarding
\* uploaded parts) and marks the task failed."  An answered cancel leaves no
\* task Uploading, so nobody resumes or completes it.
CancelMarksFailed ==
  \A t \in cancelled : (\A c \in Canceller : cancel[c].t # t) => task[t].up # "Uploading"

\* memo/UPLOAD_FLOW.md on a failed complete: "The task remains available for
\* the client to retry while it is still `Uploading`."  A multipart task that
\* nobody cancelled and no handler works on still has its session.
RetryRemainsPossible ==
  \A t \in Task \ cancelled :
    task[t].up = "Uploading" /\ task[t].mpid /\ (\A r \in Req : req[r].t # t) => mpu[t] = "open"

\* memo/UPLOAD_FLOW.md on Completed: "Source processing and required
\* derivatives finished successfully."  Of the bytes the file has now.
CompletedIsProcessed ==
  \A f \in File : file[f].up = "Completed" /\ file[f].live => file[f].derived = file[f].key

\* service.go on purgeObjectIfDereferenced: rows "still pointing at this
\* object" and "Soft-deleted recycle entries must keep the blob until they are
\* purged too."  No handler works on the file and nobody cancelled.
ReferencedBytesKept ==
  \A f \in File : Used(f) /\ (\A r \in Req : req[r].f # f)
                     => file[f].key \in blob \cup cancelled
-----------------------------------------------------------------------------
(* The inductive invariant behind the safety properties above *)

WithFile == (PastClaim \ BeforeFile) \cup Swapping

\* A process in the middle of an operation knows what it works on.
LocalsSet ==
  /\ \A r \in Req : /\ req[r].pc # "idle" => req[r].t \in Task
                    /\ req[r].pc \in WithFile => req[r].f \in File /\ Used(req[r].f)
                    /\ req[r].pc \in Swapping => req[r].old \in Key
                    /\ req[r].pc = "s_return" => req[r].part \in Part
  /\ \A c \in Canceller : cancel[c].pc # "idle" => cancel[c].t \in cancelled
  /\ \A s \in Sweeper : sweep[s].pc # "idle" => sweep[s].t \in Task
  /\ \A w \in Worker : work[w].pc # "idle" =>
                        work[w].t \in Task /\ work[w].f \in File /\ work[w].key \in Key
  /\ \A f \in File : file[f].live \/ f \in Existing => Used(f)

\* Something of a completion of t exists: a handler past its claim, a file
\* that has its bytes or had them when it was read, or an event.
Claimed(t) == \/ Committing(t) \/ Committed(t)
              \/ \E r \in Req : req[r].pc \in Swapping /\ req[r].old = t
              \/ \E e \in queue : e.task = t
              \/ \E w \in Worker : work[w].t = t

\* Such traces are found only after the task left Uploading, for good.
ClaimEndsUploading == \A t \in Task : Claimed(t) => task[t].up \notin {"None", "Uploading"}

OneClaimer ==
  \A r1, r2 \in Req : /\ req[r1].pc \in PastClaim /\ req[r2].pc \in PastClaim
                      /\ req[r1].t = req[r2].t
                      => r1 = r2

NotYetMade == \A r \in Req : req[r].pc \in BeforeFile =>
                /\ ~Committed(req[r].t)
                /\ \A o \in Req : req[o].pc \in Swapping => req[o].old # req[r].t

Lost(t) == task[t].status = "expired" \/ \E s \in Sweeper : sweep[s].t = t

ExpiredAlone == \A t \in Task : Lost(t) => task[t].up = "Failed" /\ ~Claimed(t)

\* What Stat saw is still there when the claim succeeds, and until the file
\* row refers to it.
BytesAwaitFile ==
  \A r \in Req :
    /\ req[r].pc = "c_claim" /\ task[req[r].t].up \in {"None", "Uploading"}
         => req[r].t \in blob \cup cancelled
    /\ req[r].pc \in BeforeFile => req[r].t \in blob \cup cancelled
    /\ req[r].pc \in WithObject => req[r].t \in object

\* What keeps the claim, the files and their bytes right.
ClaimInv == /\ TypeOK /\ LocalsSet /\ ClaimEndsUploading /\ OneClaimer /\ NotYetMade
            /\ OneFilePerTask /\ ExpiredAlone /\ BytesAwaitFile /\ CommittedBytesKept

\* Nobody processes an upload while its handler is past the claim ...
ClaimerFirst ==
  \A r \in Req : req[r].pc \in PastClaim =>
    /\ \A e \in queue : e.task # req[r].t
    /\ \A w \in Worker : work[w].t # req[r].t

\* ... and from the link on, handlers, events, workers and the row of the task
\* speak of one file.
AfterLink == {"c_derive", "c_taskDone", "c_fileDone", "c_publish"}

FilesLinked ==
  /\ \A r \in Req : req[r].pc \in AfterLink => task[req[r].t].created = req[r].f
  /\ \A e \in queue : task[e.task].created = e.file
  /\ \A w \in Worker : work[w].pc # "idle" => task[work[w].t].created = work[w].f
  /\ \A t \in Task : task[t].created # None => Used(task[t].created)

\* The file that a completion of t makes or overwrites.
Makes(t, f) == IF f \in Existing THEN Target[t] = f ELSE file[f].key = t

FilesMade ==
  /\ \A r \in Req : req[r].pc \in WithFile => Makes(req[r].t, req[r].f)
  /\ \A t \in Task : task[t].created # None => Makes(t, task[t].created)

\* How a completion ends, when no call fails and no process dies: one worker
\* takes the event; the task becomes Completed in the last step of the handler
\* but one, or in the last of the worker; and the file is Completed before the
\* task or in the handler's last step.
OneWorkerEach ==
  \A v, w \in Worker : work[v].pc # "idle" /\ work[w].pc # "idle" /\ work[v].t = work[w].t => v = w

HandlerNotDone ==
  \A r \in Req : req[r].pc \in PastClaim \ {"c_fileDone"} => task[req[r].t].up # "Completed"

OnlyAckLeft ==
  /\ \A e \in queue : task[e.task].up = "Completed" =>
       \E w \in Worker : work[w].pc = "ack" /\ work[w].t = e.task
  /\ \A w \in Worker : work[w].pc # "idle" /\ task[work[w].t].up = "Completed" => work[w].pc = "ack"

FileThenTask ==
  \A w \in Worker : work[w].pc = "taskDone" /\ file[work[w].f].live
                      => file[work[w].f].up = "Completed"

TaskThenFile ==
  \A t \in Task : LET f == task[t].created IN
    task[t].up = "Completed" /\ file[f].live /\ file[f].up # "Completed"
      => \E r \in Req : req[r].pc = "c_fileDone" /\ req[r].t = t

LastSteps == OneWorkerEach /\ HandlerNotDone /\ OnlyAckLeft /\ FileThenTask /\ TaskThenFile

\* The conjunction that every step preserves.
IInv == /\ ClaimInv /\ ClaimerFirst /\ FilesLinked /\ FilesMade
        /\ CompletedHasFile /\ (Untroubled => LastSteps)
=============================================================================
