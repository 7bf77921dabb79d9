--------------------------- MODULE ChunkedUpload ---------------------------
(***************************************************************************)
(* Uploads whose bytes pass through the server: in chunks over HTTP, in    *)
(* parts over gRPC, or whole in one request.                               *)
(*                                                                         *)
(* The chunks of a task are written at their offsets into one staged file  *)
(* and each is recorded as a row.  Completing the task checks the rows and *)
(* the size of the file, not its bytes, and then stores it, creates the    *)
(* file row and sends an event; the worker that gets it reads the staged   *)
(* file once more and removes it.                                          *)
(***************************************************************************)
EXTENDS Naturals, Sequences, FiniteSets

CONSTANTS
  Task,     \* rows of persistent_tasks, or uploads in one request
  Chunks,   \* number of chunks of a task
  Req,      \* requests the server handles at a time
  Worlds,
  MaxFiles, \* bound: files one task creates
  None

Owner == "me"
Account == {Owner, "other"}
Milestones == [level1 |-> 1, level10 |-> 2, level60 |-> 5, level120 |-> 10, perks |-> <<2, 4, 6>>]
Q == INSTANCE Quota

Chunk == 1 .. Chunks

Mode == {"early",    \* a client completes before its chunks are acknowledged
         "resend",   \* ... sends chunks that are acknowledged
         "oversize", \* ... sends a chunk with a byte too many, once
         "again",    \* ... completes again though it has been told of success
         "overlap",  \* completions overlap
         "cancel",   \* clients cancel
         "serial",   \* an upload begins when no other is open
         "idle",     \* clients pause for 30 minutes
         "faults",   \* one storage, database or queue call fails
         "crash"}    \* the server process restarts once

\* In chunks or parts of a task, or in one request: a form or a stream.
Kinds == {"http", "grpc", "form", "stream"}

World == [kind  : [Task -> Kinds],
          by    : [Task -> Account],
          space : [Task -> Q!Space],
          size  : [Task -> Nat],
          rate  : [Task -> Nat],
          level : [Account -> Nat], perk : [Account -> Nat],
          valve : [Account -> Nat],    \* the quota by Valve; 0: no answer
          plan  : Nat,                 \* max_storage_bytes of the organization
          mode  : SUBSET Mode]

ASSUME Bounds == Chunks \in Nat \ {0} /\ MaxFiles \in Nat
ASSUME WorldsTyped == Worlds \subseteq World
ASSUME TaskFinite == IsFiniteSet(Task)

VARIABLES
  task,   \* rows of persistent_tasks and upload_chunks
  staged, \* the staged file of a task, in the server's temporary directory
  files,  \* the files a task has created
  events, \* file uploaded events not yet handled
  req,    \* local state of the requests
  client, \* what the client of a task believes
  spent,  \* the faults, crash and oversize chunk that have happened
  world

vars == <<task, staged, files, events, req, client, spent, world>>

Is(mode) == mode \in world.mode

Kind(t) == world.kind[t]

InOne(t) == Kind(t) \in {"form", "stream"}

\* rows: the rows of upload_chunks; list: the column uploaded_chunks, which
\* was written when there were no such rows.
TaskRow == [status : {"none", "pending", "completed", "failed"},
            rows : SUBSET Chunk, list : SUBSET Chunk]

\* What is at the place of a chunk: nothing, the client's bytes, or others.
Bytes == {"hole", "good", "bad"}

\* The file has its full size once its last chunk is written.
StagedFile == [at : [Chunk -> Bytes], size : {"short", "full", "long"}]

NoBytes == [at |-> [c \in Chunk |-> "hole"], size |-> "short"]

FileRow == [bytes : Bytes, hash : Bytes, derived : Bytes \cup {None}]

PC == {"idle", "write", "row", "check", "inspect", "put", "record", "publish", "mark"}

ASSUME NoneIsNone ==
  None \notin Task /\ None \notin Chunk /\ None \notin Bytes /\ None \notin StagedFile

ReqRow == [pc : PC, t : Task \cup {None}, c : Chunk \cup {None}, whole : BOOLEAN,
           hash : Bytes, bytes : Bytes]

IdleReq == [pc |-> "idle", t |-> None, c |-> None, whole |-> FALSE,
            hash |-> "hole", bytes |-> "hole"]

\* acked: chunks it takes for staged; done: it has been told of the file.
ClientRow == [acked : SUBSET Chunk, done : BOOLEAN]

Event == [t : Task, i : 1 .. MaxFiles, read : BOOLEAN]

Init ==
  /\ world \in Worlds
  /\ task = [t \in Task |-> [status |-> "none", rows |-> {}, list |-> {}]]
  /\ staged = [t \in Task |-> None]
  /\ files = [t \in Task |-> <<>>]
  /\ events = {}
  /\ req = [r \in Req |-> IdleReq]
  /\ client = [t \in Task |-> [acked |-> {}, done |-> FALSE]]
  /\ spent = {}

\* What a reader of the staged file gets.
Content(t) == IF \A c \in Chunk : staged[t].at[c] = "good" THEN "good" ELSE "bad"

Goto(r, pc) == req' = [req EXCEPT ![r].pc = pc]

Reply(r) == req' = [req EXCEPT ![r] = IdleReq]

Completing(r) == req[r].pc \in {"check", "inspect", "put", "record", "publish", "mark"}

\* The client does not overlap its own requests unless it is told to.
Alone(t) == \A r \in Req : req[r].t # t

MayComplete == Is("overlap") \/ \A r \in Req : ~Completing(r)

\* One call of the world's fails.
Fault == Is("faults") /\ "fault" \notin spent /\ spent' = spent \cup {"fault"}

(***************************************************************************)
(* Quota.  There is no reservation: only rows of files are charged.        *)
(***************************************************************************)

LiveRow(t, i) == [id |-> <<t, i>>, by |-> world.by[t], space |-> world.space[t],
                  size |-> world.size[t], rate |-> world.rate[t]]

LiveRows == {LiveRow(p[1], p[2]) : p \in {p \in Task \X (1 .. MaxFiles) : p[2] <= Len(files[p[1]])}}

Personal(t) == world.space[t] = "personal"

Total(a) == Q!AccountQuota(world.level[a], world.perk[a], world.valve[a])

\* The drive has the quota of its owner by Valve.  Without an answer it has the
\* leveling and the perk of the account that uploads.
DriveTotal(a) == Q!AccountQuota(world.level[a], world.perk[a], world.valve[Owner])

\* An organization has the quota of its plan.
WorkspaceTotal(t) ==
  IF world.space[t] = "drive" THEN DriveTotal(world.by[t]) ELSE world.plan

WorkspaceAdmits(t) ==
  Q!CheckWorkspaceUploadQuota(LiveRows, world.space[t], world.size[t], WorkspaceTotal(t))

\* Personal uploads answer to the account, others to the workspace.
Admitted(t, rate) ==
  IF Personal(t)
  THEN Q!CheckUploadQuota(LiveRows, world.by[t], world.size[t], rate, Total(world.by[t]))
  ELSE WorkspaceAdmits(t)

\* A second check, of uploads to a workspace only.
AdmittedAtEnd(t) == Personal(t) \/ WorkspaceAdmits(t)

Open(t) == task[t].status = "pending" \/ ~Alone(t)

\* "serial" is about the clients.
MayBegin == Is("serial") => \A u \in Task : ~Open(u)

InsertTask(t) ==
  /\ task[t].status = "none"
  /\ task' = [task EXCEPT ![t].status = "pending"]
  /\ UNCHANGED <<staged, files, events, req, client, spent, world>>

CreateUploadTask(t) == 
  Kind(t) = "http" /\ MayBegin /\ Admitted(t, world.rate[t]) /\ InsertTask(t)

\* prepareUpload: the checks of the gRPC calls that begin an upload.
PrepareUpload(t) ==
  Kind(t) \in {"grpc", "stream"} /\ MayBegin /\ Admitted(t, world.rate[t])

CreateMultipartUpload(t) == Kind(t) = "grpc" /\ PrepareUpload(t) /\ InsertTask(t)

(***************************************************************************)
(* Chunks.                                                                 *)
(***************************************************************************)

\* The chunk list that the resume handler answers with: it loads the task
\* without its chunk rows.
UploadResume(t) == task[t].list

\* What a client sends: what it takes for missing, each chunk once at a time.
Sends(t, c) ==
  /\ Is("resend") \/ (c \notin client[t].acked /\ ~client[t].done)
  /\ \A q \in Req : req[q].t # t \/ req[q].c # c
  /\ Is("resend") \/ Is("overlap") \/ \A q \in Req : req[q].t = t => ~Completing(q)

BeginChunk(r, t, c) ==
  /\ req[r].pc = "idle"
  /\ Sends(t, c)
  /\ req' = [req EXCEPT ![r] = [IdleReq EXCEPT !.pc = "write", !.t = t, !.c = c]]
  /\ UNCHANGED <<task, staged, files, events, client, spent, world>>

\* The HTTP handler does not ask for the status of the task.
UploadChunk(r, t, c) ==
  Kind(t) = "http" /\ task[t].status # "none" /\ BeginChunk(r, t, c)

\* gRPC does, and receives the part into a file of its own.
UploadMultipartPart(r, t, c) ==
  Kind(t) = "grpc" /\ task[t].status = "pending" /\ BeginChunk(r, t, c)

Before(t) == IF staged[t] = None THEN NoBytes ELSE staged[t]

SizeWith(s, c) == IF c = Chunks /\ s.size = "short" THEN "full" ELSE s.size

\* The file is created when it is missing; other chunks stay as they are.
WriteUploadChunk(r) ==
  LET t == req[r].t  c == req[r].c  s == Before(t)
  IN /\ req[r].pc = "write"
     /\ staged' = [staged EXCEPT ![t] =
          [at |-> [s.at EXCEPT ![c] = "good"], size |-> SizeWith(s, c)]]
     /\ Goto(r, "row")
     /\ UNCHANGED <<task, files, events, client, spent, world>>

\* A write that breaks off: a prefix is written, no row.
WriteFails(r) ==
  LET t == req[r].t  c == req[r].c  s == Before(t)
  IN /\ req[r].pc = "write"
     /\ Fault
     /\ staged' = [staged EXCEPT ![t] =
          [s EXCEPT !.at[c] = IF s.at[c] = "good" THEN "good" ELSE "bad"]]
     /\ Reply(r)
     /\ UNCHANGED <<task, files, events, client, world>>

Oversize == Is("oversize") /\ "oversize" \notin spent /\ spent' = spent \cup {"oversize"}

\* The last byte falls on the next chunk, or behind the end of the file.
Overrun(s, c) ==
  [at   |-> [d \in Chunk |-> CASE d = c -> "good" [] d = c + 1 -> "bad" [] OTHER -> s.at[d]],
   size |-> IF c = Chunks THEN "long" ELSE s.size]

\* The chunk is refused after expected + 1 of its bytes have been written.
WriteOversized(r) ==
  LET t == req[r].t
  IN /\ req[r].pc = "write" /\ Kind(t) = "http"
     /\ Oversize
     /\ staged' = [staged EXCEPT ![t] = Overrun(Before(t), req[r].c)]
     /\ Reply(r)
     /\ UNCHANGED <<task, files, events, client, world>>

\* Mutant: the part is written to the staged file as it comes in.
RefusePartLate(r) ==
  LET t == req[r].t
  IN /\ req[r].pc = "write" /\ Kind(t) = "grpc"
     /\ Oversize
     /\ staged' = [staged EXCEPT ![t] = Overrun(Before(t), req[r].c)]
     /\ Reply(r)
     /\ UNCHANGED <<task, files, events, client, world>>

\* Over gRPC it is refused before any of it is written.
RefusePart(r) ==
  /\ req[r].pc = "write" /\ Kind(req[r].t) = "grpc"
  /\ Oversize
  /\ Reply(r)
  /\ UNCHANGED <<task, staged, files, events, client, world>>

\* Mutant: the list of chunks is replaced and not extended.
UpdateUploadedChunkOnly(r) ==
  LET t == req[r].t
  IN /\ req[r].pc = "row"
     /\ task' = [task EXCEPT ![t].rows = {req[r].c}]
     /\ client' = [client EXCEPT ![t].acked = @ \cup {req[r].c}]
     /\ Reply(r)
     /\ UNCHANGED <<staged, files, events, spent, world>>

\* INSERT ... ON CONFLICT DO NOTHING, and the count, in one transaction.
UpdateUploadedChunk(r) ==
  LET t == req[r].t
  IN /\ req[r].pc = "row"
     /\ task' = [task EXCEPT ![t].rows = @ \cup {req[r].c}]
     /\ client' = [client EXCEPT ![t].acked = @ \cup {req[r].c}]
     /\ Reply(r)
     /\ UNCHANGED <<staged, files, events, spent, world>>

RowFails(r) ==
  /\ req[r].pc = "row"
  /\ Fault
  /\ Reply(r)
  /\ UNCHANGED <<task, staged, files, events, client, world>>

(***************************************************************************)
(* Completion.                                                             *)
(***************************************************************************)

\* populateUploadedChunks
Uploaded(t) == task[t].rows \cup task[t].list

\* The client has been told that all is there, and has not been answered.
Completes(t) ==
  /\ Is("early") \/ client[t].acked = Chunk
  /\ Is("again") \/ ~client[t].done
  /\ Is("resend") \/ Is("overlap") \/ Alone(t)
  /\ MayComplete

\* The task is loaded with its chunk rows.
LoadTask(r, t) ==
  /\ req[r].pc = "idle"
  /\ Completes(t)
  /\ req' = [req EXCEPT ![r] = [IdleReq EXCEPT !.pc = "check", !.t = t,
                                               !.whole = (Uploaded(t) = Chunk)]]
  /\ UNCHANGED <<task, staged, files, events, client, spent, world>>

\* Here too HTTP does not ask for the status.
CompleteUpload(r, t) == Kind(t) = "http" /\ task[t].status # "none" /\ LoadTask(r, t)

\* Mutant: gRPC does not either.
CompleteMultipartAgain(r, t) == Kind(t) = "grpc" /\ task[t].status # "none" /\ LoadTask(r, t)

CompleteMultipartUpload(r, t) == Kind(t) = "grpc" /\ task[t].status = "pending" /\ LoadTask(r, t)

\* os.Stat
StagedSize(t) == IF staged[t] = None THEN "none" ELSE staged[t].size

\* "upload is incomplete" leaves the client to send the rest; after any other
\* refusal it starts anew.  Over HTTP the removal of the staged file is
\* deferred before the checks.  A missing file is looked for among legacy
\* chunks, and the empty file that the merge has created is removed as well.
Refuse(r) ==
  LET t == req[r].t
  IN /\ req[r].pc = "check" /\ Kind(t) = "http"
     /\ ~req[r].whole \/ ~AdmittedAtEnd(t) \/ StagedSize(t) # "full"
     /\ staged' = [staged EXCEPT ![t] = None]
     /\ client' = IF req[r].whole THEN [client EXCEPT ![t].acked = {}] ELSE client
     /\ Reply(r)
     /\ UNCHANGED <<task, files, events, spent, world>>

\* Over gRPC after them.
RefuseMultipart(r) ==
  LET t == req[r].t
  IN /\ req[r].pc = "check" /\ Kind(t) = "grpc"
     /\ ~req[r].whole \/ ~AdmittedAtEnd(t) \/ StagedSize(t) # "full"
     /\ client' = IF req[r].whole THEN [client EXCEPT ![t].acked = {}] ELSE client
     /\ Reply(r)
     /\ UNCHANGED <<task, staged, files, events, spent, world>>

\* Mutant: no second quota check.
AcceptUnbilled(r) ==
  LET t == req[r].t
  IN /\ req[r].pc = "check" /\ req[r].whole
     /\ StagedSize(t) = "full"
     /\ Goto(r, "inspect")
     /\ UNCHANGED <<task, staged, files, events, client, spent, world>>

Accept(r) ==
  LET t == req[r].t
  IN /\ req[r].pc = "check" /\ req[r].whole
     /\ AdmittedAtEnd(t)
     /\ StagedSize(t) = "full"
     /\ Goto(r, "inspect")
     /\ UNCHANGED <<task, staged, files, events, client, spent, world>>

\* One request with all the bytes, hashed while they are staged.
Receive(r, t) ==
  /\ req[r].pc = "idle"
  /\ ~client[t].done /\ Alone(t) /\ MayComplete
  /\ staged' = [staged EXCEPT ![t] = [at |-> [c \in Chunk |-> "good"], size |-> "full"]]
  /\ req' = [req EXCEPT ![r] = [IdleReq EXCEPT !.pc = "put", !.t = t, !.hash = "good"]]
  /\ UNCHANGED <<task, files, events, client, spent, world>>

\* A form is checked without the multiplier of its pool.
UploadForm(r, t) == Kind(t) = "form" /\ MayBegin /\ Admitted(t, 1) /\ Receive(r, t)

UploadStream(r, t) == Kind(t) = "stream" /\ PrepareUpload(t) /\ Receive(r, t)

\* InspectStagedFile: size, type and hash.
Inspect(r) ==
  LET t == req[r].t
  IN /\ req[r].pc = "inspect"
     /\ staged[t] # None
     /\ req' = [req EXCEPT ![r].pc = "put", ![r].hash = Content(t)]
     /\ UNCHANGED <<task, staged, files, events, client, spent, world>>

\* UploadStagedFile: the file is read again.
Put(r) ==
  LET t == req[r].t
  IN /\ req[r].pc = "put"
     /\ staged[t] # None
     /\ req' = [req EXCEPT ![r].pc = "record", ![r].bytes = Content(t)]
     /\ UNCHANGED <<task, staged, files, events, client, spent, world>>

\* The object row, then a new file row or an overwrite of the target's.
RecordFile(r) ==
  LET t == req[r].t
  IN /\ req[r].pc = "record"
     /\ Len(files[t]) < MaxFiles
     /\ files' = [files EXCEPT ![t] =
          Append(@, [bytes |-> req[r].bytes, hash |-> req[r].hash, derived |-> None])]
     /\ Goto(r, "publish")
     /\ UNCHANGED <<task, staged, events, client, spent, world>>

PublishFileUploaded(r) ==
  LET t == req[r].t
  IN /\ req[r].pc = "publish"
     /\ events' = events \cup {[t |-> t, i |-> Len(files[t]), read |-> FALSE]}
     /\ Goto(r, "mark")
     /\ UNCHANGED <<task, staged, files, client, spent, world>>

\* An upload in one request has no row to mark.
WithStatus(t, status) == IF InOne(t) THEN task ELSE [task EXCEPT ![t].status = status]

MarkCompleted(r) ==
  LET t == req[r].t
  IN /\ req[r].pc = "mark"
     /\ task' = WithStatus(t, "completed")
     /\ client' = [client EXCEPT ![t].done = TRUE]
     /\ Reply(r)
     /\ UNCHANGED <<staged, files, events, spent, world>>

\* The staged file is gone or a call fails: the error removes what is staged,
\* whatever has been done before, and the client starts anew.
Abandon(r) ==
  LET t == req[r].t
  IN /\ \/ /\ req[r].pc \in {"inspect", "put"} /\ staged[t] = None
           /\ UNCHANGED spent
        \/ req[r].pc \in {"inspect", "put", "record", "publish"} /\ Fault
     /\ staged' = [staged EXCEPT ![t] = None]
     /\ client' = [client EXCEPT ![t].acked = {}]
     /\ Reply(r)
     /\ UNCHANGED <<task, files, events, world>>

\* HTTP ignores that the task was not marked; gRPC does not.
MarkFails(r) ==
  LET t == req[r].t
  IN /\ req[r].pc = "mark" /\ ~InOne(t)
     /\ Fault
     /\ IF Kind(t) = "http"
        THEN client' = [client EXCEPT ![t].done = TRUE] /\ UNCHANGED staged
        ELSE /\ client' = [client EXCEPT ![t].acked = {}]
             /\ staged' = [staged EXCEPT ![t] = None]
     /\ Reply(r)
     /\ UNCHANGED <<task, files, events, world>>

\* cancelUpload marks the task; the staged file stays, and over HTTP the
\* chunks and the completion of the task are still taken.
CancelUpload(t) ==
  /\ Is("cancel")
  /\ task[t].status \in {"pending", "completed"}
  /\ task' = [task EXCEPT ![t].status = "failed"]
  /\ UNCHANGED <<staged, files, events, req, client, spent, world>>

(***************************************************************************)
(* The worker, the clean-up of temporary files, restarts.                  *)
(***************************************************************************)

\* What the worker derives from: the staged file, storage without it.
Source(e) == IF staged[e.t] # None THEN Content(e.t) ELSE files[e.t][e.i].bytes

\* Handled, but for the removal of what was staged.
Handled(e) ==
  IF staged[e.t] # None THEN (events \ {e}) \cup {[e EXCEPT !.read = TRUE]} ELSE events \ {e}

\* Mutant: nothing is read from storage.
ProcessStagedOnly(e) ==
  /\ e \in events /\ ~e.read
  /\ files' = [files EXCEPT ![e.t][e.i].derived = IF staged[e.t] # None THEN Source(e) ELSE "hole"]
  /\ task' = WithStatus(e.t, "completed")
  /\ events' = Handled(e)
  /\ UNCHANGED <<staged, req, client, spent, world>>

\* ProcessUploadedFile marks the task too, whether or not its completion has
\* or will: from then on gRPC refuses its parts and its completion.
ProcessUploadedFile(e) ==
  /\ e \in events /\ ~e.read
  /\ files' = [files EXCEPT ![e.t][e.i].derived = Source(e)]
  /\ task' = WithStatus(e.t, "completed")
  /\ events' = Handled(e)
  /\ UNCHANGED <<staged, req, client, spent, world>>

\* markUploadFailed, or a task that could not be marked as completed.  The
\* event is delivered again by NATS, and dropped by the bundled queue.
ProcessFails(e) ==
  /\ e \in events /\ ~e.read
  /\ Fault
  /\ \/ task' = WithStatus(e.t, "failed") /\ UNCHANGED files
     \/ files' = [files EXCEPT ![e.t][e.i].derived = Source(e)] /\ UNCHANGED task
  /\ events' \in {events, events \ {e}}
  /\ UNCHANGED <<staged, req, client, world>>

RemoveProcessed(e) ==
  /\ e \in events /\ e.read
  /\ staged' = [staged EXCEPT ![e.t] = None]
  /\ events' = events \ {e}
  /\ UNCHANGED <<task, files, req, client, spent, world>>

\* What has not been written to for 30 minutes is removed; the rows stay.
CleanupTempArtifacts(t) ==
  /\ Is("idle")
  /\ staged[t] # None /\ Alone(t)
  /\ staged' = [staged EXCEPT ![t] = None]
  /\ UNCHANGED <<task, files, events, req, client, spent, world>>

\* No deferred removal runs; an in-memory queue loses its events.
Restart ==
  /\ Is("crash") /\ "crash" \notin spent
  /\ spent' = spent \cup {"crash"}
  /\ req' = [r \in Req |-> IdleReq]
  /\ events' \in {events, {}}
  /\ UNCHANGED <<task, staged, files, client, world>>

Handle(r) ==
  \/ WriteUploadChunk(r) \/ UpdateUploadedChunk(r)
  \/ Refuse(r) \/ RefuseMultipart(r) \/ Accept(r)
  \/ Inspect(r) \/ Put(r) \/ RecordFile(r) \/ PublishFileUploaded(r)
  \/ MarkCompleted(r) \/ Abandon(r)

Fails(r) == WriteFails(r) \/ WriteOversized(r) \/ RefusePart(r) \/ RowFails(r) \/ MarkFails(r)

Send(r, t, c) == UploadChunk(r, t, c) \/ UploadMultipartPart(r, t, c)

Complete(r, t) == CompleteUpload(r, t) \/ CompleteMultipartUpload(r, t)

Ask(r, t) ==
  \/ \E c \in Chunk : Send(r, t, c)
  \/ Complete(r, t)
  \/ UploadForm(r, t) \/ UploadStream(r, t)

Process == \E e \in events : ProcessUploadedFile(e) \/ RemoveProcessed(e)

Next ==
  \/ \E t \in Task : CreateUploadTask(t) \/ CreateMultipartUpload(t)
  \/ \E t \in Task : CancelUpload(t) \/ CleanupTempArtifacts(t)
  \/ \E r \in Req : \/ Handle(r) \/ Fails(r)
                    \/ \E t \in Task : Ask(r, t)
  \/ Process
  \/ \E e \in events : ProcessFails(e)
  \/ Restart

\* A client sends what it takes for missing, and then completes.
GoOn(t) == \E r \in Req : \/ \E c \in Chunk \ client[t].acked : Send(r, t, c)
                          \/ client[t].acked = Chunk /\ Complete(r, t)

Spec == Init /\ [][Next]_vars

\* Requests and workers run, and clients go on with what they began.
FairSpec ==
  /\ Spec
  /\ \A r \in Req : WF_vars(Handle(r))
  /\ \A t \in Task : SF_vars(GoOn(t))
  /\ WF_vars(Process)

(***************************************************************************)
(* Properties.                                                             *)
(***************************************************************************)

TypeOK ==
  /\ task \in [Task -> TaskRow]
  /\ staged \in [Task -> StagedFile \cup {None}]
  /\ files \in [Task -> Seq(FileRow)] /\ \A t \in Task : Len(files[t]) <= MaxFiles
  /\ events \subseteq Event
  /\ req \in [Req -> ReqRow]
  /\ client \in [Task -> ClientRow]
  /\ world \in Worlds

\* Uploads of which the code keeps the promise below.  In one request, always.
\* In chunks, without overlapping completions, and over HTTP without an early
\* completion or an oversized chunk, both of which leave rows of chunks that
\* are not staged.
Chunked(t) == /\ ~InOne(t) /\ ~Is("idle") /\ ~Is("overlap")
              /\ Kind(t) = "http" => ~Is("early") /\ ~Is("oversize")

\* Then either nothing fails and no client over HTTP completes again ...
Once(t) == /\ ~Is("overlap") /\ ~Is("faults") /\ ~Is("crash")
           /\ Kind(t) = "http" => ~Is("again")

\* ... or the client sends just what it takes for missing and completes after
\* that: it survives a failed call over HTTP, or a restart, if no quota can
\* refuse what has been stored already.
Strict(t) == /\ ~Is("early") /\ ~Is("resend")
             /\ Is("faults") => Kind(t) = "http" /\ ~Is("crash")
             /\ Is("crash") => Personal(t)

Careful(t) == InOne(t) \/ (Chunked(t) /\ (Once(t) \/ Strict(t)))

\* However requests, failures and restarts interleave, a file made by a task
\* holds all of the client's bytes and carries their hash.
\* completeUpload, CompleteMultipartUpload.
FilesWhole ==
  \A t \in Task : Careful(t) =>
    \A i \in 1 .. Len(files[t]) : files[t][i].bytes = "good" /\ files[t][i].hash = "good"

\* The chunk rows, which the completion and a resuming client go by, tell of
\* bytes that are staged, until the file exists or a call has failed.
RowsStaged ==
  \A t \in Task :
    (Careful(t) /\ ~Is("faults") /\ files[t] = <<>> /\ AdmittedAtEnd(t)) =>
      \A c \in task[t].rows : staged[t] # None /\ staged[t].at[c] = "good"

\* A task makes one file when completions do not overlap and nothing fails;
\* over HTTP, only if the client does not complete it again.
SingleFile == \A t \in Task : Once(t) => Len(files[t]) <= 1

\* What the worker derives is derived from the bytes the file has.
DerivedFromFile ==
  \A t \in Task : Careful(t) =>
    \A i \in 1 .. Len(files[t]) : files[t][i].derived \in {None, files[t][i].bytes}

\* Uploads one after the other, none of which is completed twice, and pools
\* that bill no less than the bytes.
InTurn == /\ Is("serial")
          /\ world.mode \cap {"cancel", "again", "faults", "crash"} = {}
          /\ \A t \in Task : world.rate[t] >= 1

\* The organization's plan is kept when completions do not overlap, however
\* many uploads are open.  The drive's quota, which personal uploads are only
\* checked against when they begin, is kept if there is one upload at a time:
\* its owner's, or without an answer by Valve that of some account.
QuotaKept ==
  ~Is("overlap") =>
    /\ Q!ChargedWorkspaceBytes(LiveRows, "org") <= world.plan
    /\ InTurn =>
         \E a \in Account : Q!ChargedWorkspaceBytes(LiveRows, "drive") <= DriveTotal(a)

\* "the storage limit is the owner's personal quota (leveling + perk + extra)",
\* also without Valve, where "extra quota ... is skipped":
\* service.go:3991-3996.  Uploads one after the other, as in QuotaKept.
DriveHasOwnersQuota ==
  InTurn => Q!ChargedWorkspaceBytes(LiveRows, "drive") <= DriveTotal(Owner)

\* What follows makes the properties above inductive.

Whole(t) == staged[t] # None /\ \A c \in Chunk : staged[t].at[c] = "good"

Active(t) == {r \in Req : Completing(r) /\ req[r].t = t}

Sending(t) == {r \in Req : req[r].pc \in {"write", "row"} /\ req[r].t = t}

EventsOf(t) == {e \in events : e.t = t}

\* A request has a task while it is served, and a chunk while it brings one.
LocalsSet ==
  \A r \in Req :
    /\ req[r].pc = "idle" => req[r] = IdleReq
    /\ req[r].pc # "idle" => req[r].t \in Task
    /\ req[r].pc \in {"write", "row"} => req[r].c \in Chunk
    /\ req[r].pc \in {"write", "row", "check", "inspect"} => ~InOne(req[r].t)

OneCompletion ==
  ~Is("overlap") => \A q, r \in Req : Completing(q) /\ Completing(r) => q = r

\* A client is acknowledged chunks that have rows, a task is there while it is
\* served, with all its rows unless it was completed early, events are of files
\* there are, and the last chunk sets the size.
Recorded(t) ==
  /\ client[t].acked \subseteq task[t].rows /\ task[t].list = {}
  /\ InOne(t) => task[t].rows = {} /\ task[t].status = "none"
  /\ (~InOne(t) /\ task[t].status = "none") =>
       files[t] = <<>> /\ Active(t) = {} /\ Sending(t) = {} /\ ~client[t].done
  /\ \A q \in Active(t) : /\ req[q].pc = "check" => Is("early") \/ req[q].whole
                          /\ req[q].pc = "check" /\ req[q].whole => task[t].rows = Chunk
                          /\ req[q].pc \in {"publish", "mark"} => files[t] # <<>>
  /\ \A e \in EventsOf(t) : e.i \in 1 .. Len(files[t])
  /\ staged[t] # None =>
       /\ InOne(t) => Whole(t)
       /\ staged[t].at[Chunks] = "good" => staged[t].size # "short"
       /\ staged[t].size = "long" => Kind(t) = "http" /\ Is("oversize")

\* No second file is on its way.
Claimed(t) ==
  Once(t) =>
    /\ files[t] # <<>> => \/ IF Kind(t) = "grpc" THEN task[t].status \notin {"none", "pending"}
                                                ELSE client[t].done
                          \/ \E q \in Active(t) : req[q].pc \in {"publish", "mark"}
    /\ \A q \in Active(t) : req[q].pc \notin {"publish", "mark"} => files[t] = <<>>
    /\ \A q \in Active(t) : req[q].pc # "mark" => EventsOf(t) = {}
    /\ \A e, f \in EventsOf(t) : e = f

\* A chunk that is about to get its row is staged as long as rows are.
RowsWillBeStaged(t) ==
  (Careful(t) /\ ~Is("faults") /\ files[t] = <<>> /\ AdmittedAtEnd(t)) =>
    \A r \in Sending(t) :
      req[r].pc = "row" => staged[t] # None /\ staged[t].at[req[r].c] = "good"

\* When nothing fails, the staged file stays until the worker has read it.
StaysStaged(t) ==
  (Chunked(t) /\ Once(t)) =>
    /\ \A q \in Active(t) : req[q].pc \notin {"check", "mark"} => Whole(t)
    /\ EventsOf(t) # {} => Whole(t)

Crashed == Is("crash") /\ "crash" \in spent

\* A client that sends what is missing sends nothing while a completion is
\* under way ...
CompletesInStep(t) ==
  \A q \in Active(t) :
    /\ client[t].acked = Chunk /\ Sending(t) = {}
    /\ (~client[t].done /\ ~Crashed) =>
         /\ req[q].pc \in {"record", "publish"} => staged[t] # None
         /\ req[q].pc = "mark" => /\ EventsOf(t) # {} => staged[t] # None
                                  /\ \A e, f \in EventsOf(t) : e = f

\* ... nor what it has been acknowledged, which is what is staged ...
SendsInStep(t) ==
  /\ \A r \in Sending(t) :
       /\ req[r].c \notin client[t].acked /\ ~client[t].done
       /\ req[r].pc = "row" => staged[t] # None /\ staged[t].at[req[r].c] = "good"
       /\ \A q \in Sending(t) : req[q].c = req[r].c => q = r
  /\ staged[t] = None => client[t].acked \in {{}, Chunk} \/ client[t].done
  /\ staged[t] # None =>
       \A c \in Chunk : c \in client[t].acked \/ client[t].done => staged[t].at[c] = "good"

\* ... nor, unless it has been told of the file, while an event is under way.
EventsInStep(t) ==
  (EventsOf(t) # {} /\ ~client[t].done) =>
    /\ client[t].acked = Chunk
    /\ \/ \E q \in Active(t) : req[q].pc = "mark"
       \/ /\ Crashed /\ staged[t] # None
          /\ \A e, f \in EventsOf(t) : e = f

InStep(t) ==
  (Chunked(t) /\ Strict(t)) => CompletesInStep(t) /\ SendsInStep(t) /\ EventsInStep(t)

\* What a completion has read.
ReadsGood(t) ==
  Careful(t) =>
    \A q \in Active(t) : /\ req[q].pc \in {"put", "record"} => req[q].hash = "good"
                         /\ req[q].pc = "record" => req[q].bytes = "good"

\* A completion that has been admitted still is when the file is recorded.
StaysAdmitted(t) ==
  ~Is("overlap") =>
    \A q \in Active(t) : req[q].pc \in {"inspect", "put", "record"} => AdmittedAtEnd(t)

\* The quota of the owner has room for the one upload that is under way.
Underway(t) == task[t].status = "pending" \/ Active(t) # {}

HasRoom ==
  (~Is("overlap") /\ InTurn) =>
    /\ \A t, u \in Task : Underway(t) /\ Underway(u) => t = u
    /\ \A t \in Task :
         /\ task[t].status # "failed"
         /\ task[t].status = "completed" =>
              client[t].done \/ \E q \in Active(t) : req[q].pc = "mark"
         /\ (Underway(t) /\ files[t] = <<>> /\ Personal(t) /\ world.by[t] = Owner) =>
              Q!ChargedWorkspaceBytes(LiveRows, "drive") + world.size[t] <= DriveTotal(Owner)

IInv == /\ TypeOK /\ LocalsSet /\ OneCompletion /\ FilesWhole /\ SingleFile /\ RowsStaged
        /\ DerivedFromFile /\ QuotaKept /\ HasRoom
        /\ \A t \in Task : /\ Recorded(t) /\ Claimed(t) /\ RowsWillBeStaged(t) /\ StaysStaged(t)
                           /\ InStep(t) /\ ReadsGood(t) /\ StaysAdmitted(t)

\* A client that resumes is told which chunks have been uploaded.
\* memo/CONTENT_EDIT_API.md:203-210; uploadResume, UpdateUploadedChunk.
ResumeListsChunks ==
  \A t \in Task : task[t].status = "pending" => UploadResume(t) = task[t].rows

\* A client that goes on is told of the file in the end, also after a failed
\* call and a restart.  Over gRPC the worker may mark the task first, and the
\* completion is refused from then on: the task has its file at least.
UploadsEnd ==
  \A t \in Task :
    (/\ task[t].status = "pending" /\ Personal(t)
     /\ ~Is("idle") /\ ~Is("cancel") /\ (Kind(t) = "http" => ~Is("early"))) ~>
    \/ client[t].done
    \/ Kind(t) = "grpc" /\ task[t].status # "pending" /\ files[t] # <<>>
=============================================================================
