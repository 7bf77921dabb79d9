----------------------------- MODULE Reanalysis -----------------------------
(***************************************************************************)
(* Metadata of uploaded media: what the client sent, what the server reads *)
(* from the bytes, the background queue that replaces the one by the       *)
(* other, the repair that an administrator starts, and the snapshots that  *)
(* other services are sent.                                                *)
(*                                                                         *)
(* Of the metadata of an object this is kept: whose it is and the EXIF     *)
(* tags.                                                                   *)
(***************************************************************************)
EXTENDS Naturals, FiniteSets

CONSTANTS
  Object,  \* file_objects rows, each with one file
  Tag,     \* EXIF tags
  Worker,  \* processes that run the reanalysis queue
  Admin,   \* administrators' repairs
  Batch,   \* rows a pass reads
  Worlds,
  None

MaxAttempts == 3   \* sourceReanalysisMaxAttempts

Mode == {"crash",   \* a worker may die, once
         "faults",  \* storage, the database and publishing may fail for a time
         "lost",    \* an update of the queue fails, once for each worker
         "repair",  \* administrators repair files
         "overlap", \* ... and do not wait for each other
         "deletes"}

World == [running : SUBSET Worker,
          client : [Object -> SUBSET Tag],  \* tags a client reads; none: no assistance
          sent   : [Object -> {"v2", "other", "invalid"}],  \* the form they are sent in
          server : [Object -> SUBSET Tag],  \* tags the server reads
          broken : SUBSET Object,           \* bytes that cannot be analysed
          mode   : SUBSET Mode]

ASSUME WorldsTyped == Worlds \subseteq World
ASSUME BatchPositive == Batch \in Nat \ {0}

VARIABLES
  object,    \* file_objects rows
  live,      \* objects that a live file refers to
  thumbs,    \* derived children of each file
  ripe,      \* objects whose updated_at is more than 30 seconds old
  seen,      \* whose metadata the last snapshot of each file had
  upload,    \* how far the completion of the upload got
  work,      \* local state of the workers
  repair,    \* local state of the repairs
  tries,     \* how often a broken object has been downloaded in vain
  spent,     \* workers that died or lost an update, administrators that have repaired
  world

vars == <<object, live, thumbs, ripe, seen, upload, work, repair, tries, spent, world>>

Is(mode) == mode \in world.mode

Source == {"none", "client", "server"}

ObjectRow == [source : Source, exif : SUBSET Tag, needs : BOOLEAN,
              attempts : 0 .. MaxAttempts]

\* todo: objects of the batch with the attempts they had when it was read
WorkRow == [pc : {"idle", "take", "download", "read", "write", "reload", "publish", "clear", "retire"},
            todo : SUBSET (Object \X (0 .. MaxAttempts)),
            o : Object \cup {None}, attempts : 0 .. MaxAttempts, exif : SUBSET Tag,
            snapshot : Source]

RepairRow == [pc : {"idle", "take", "lookup", "put", "read", "write"}, todo : SUBSET Object,
              o : Object \cup {None}, missing : BOOLEAN, source : Source, exif : SUBSET Tag]

IdleWork   == [pc |-> "idle", todo |-> {}, o |-> None, attempts |-> 0, exif |-> {},
               snapshot |-> "none"]
IdleRepair == [pc |-> "idle", todo |-> {}, o |-> None, missing |-> FALSE, source |-> "none",
               exif |-> {}]

Init ==
  /\ world \in Worlds
  /\ object = [o \in Object |-> [source |-> "none", exif |-> {}, needs |-> FALSE,
                                 attempts |-> 0]]
  /\ live = {o \in Object : world.client[o] # {} \/ world.server[o] # {}}
  /\ thumbs = [o \in Object |-> 0]
  /\ ripe = {}
  /\ seen = [o \in Object |-> "none"]
  /\ upload = [o \in Object |-> "new"]
  /\ work = [w \in Worker |-> IdleWork]
  /\ repair = [a \in Admin |-> IdleRepair]
  /\ tries = [o \in Object |-> 0]
  /\ spent = {}

(***************************************************************************)
(* Completing the upload.                                                  *)
(***************************************************************************)

\* SourceAnalysisUpdates, merged: tags of the server replace the map, if any.
MergeAnalysis(exif, o) == IF world.server[o] = {} THEN exif ELSE world.server[o]

\* Tags in another form are ignored, and the rest of the metadata is kept.
normalizeClientSourceMetadata(o) == IF world.sent[o] = "v2" THEN world.client[o] ELSE {}

\* StoreClientSourceMetadata: what the client sent, as it sent it; values of
\* a wrong type or size fail the completion.
StoreClientSourceMetadata(o) ==
  /\ upload[o] = "new"
  /\ world.client[o] # {}
  /\ IF world.sent[o] = "invalid"
     THEN /\ upload' = [upload EXCEPT ![o] = "failed"]
          /\ UNCHANGED <<object, ripe>>
     ELSE /\ object' = [object EXCEPT ![o].source = "client",
                                      ![o].exif = normalizeClientSourceMetadata(o)]
          /\ upload' = [upload EXCEPT ![o] = "stored"]
          /\ ripe' = ripe \ {o}
  /\ UNCHANGED <<live, thumbs, seen, work, repair, tries, spent, world>>

ScheduleSourceReanalysis(o) ==
  /\ upload[o] = "stored"
  /\ object' = [object EXCEPT ![o].needs = TRUE, ![o].attempts = 0]
  /\ upload' = [upload EXCEPT ![o] = "done"]
  /\ ripe' = ripe \ {o}
  /\ UNCHANGED <<live, thumbs, seen, work, repair, tries, spent, world>>

\* Without assistance the server analyses the bytes before it answers.
StoreSourceAnalysis(o) ==
  /\ upload[o] = "new" /\ o \in live
  /\ world.client[o] = {}
  /\ object' = IF o \in world.broken THEN object
               ELSE [object EXCEPT ![o].source = "server", ![o].exif = MergeAnalysis(@, o)]
  /\ upload' = [upload EXCEPT ![o] = "done"]
  /\ UNCHANGED <<live, thumbs, ripe, seen, work, repair, tries, spent, world>>

Ripen(o) ==
  /\ o \notin ripe /\ upload[o] # "new"
  /\ ripe' = ripe \cup {o}
  /\ UNCHANGED <<object, live, thumbs, seen, upload, work, repair, tries, spent, world>>

DeleteFile(o) ==
  /\ Is("deletes")
  /\ o \in live
  /\ live' = live \ {o}
  /\ UNCHANGED <<object, thumbs, ripe, seen, upload, work, repair, tries, spent, world>>

(***************************************************************************)
(* The queue.                                                              *)
(***************************************************************************)
Goto(w, pc) == work' = [work EXCEPT ![w].pc = pc]

\* clearReanalysis; like every update, it moves updated_at.
Clear(o) == /\ object' = [object EXCEPT ![o].needs = FALSE, ![o].attempts = 0]
            /\ ripe' = ripe \ {o}

Next1(w) == IF work[w].todo = {} THEN "idle" ELSE "take"

NextObject(w) ==
  work' = [work EXCEPT ![w] = [IdleWork EXCEPT !.pc = Next1(w), !.todo = work[w].todo]]

Queued == {o \in ripe : object[o].needs}

\* processReanalysisQueue reads the rows of a batch once.
Scan(w) ==
  /\ work[w].pc = "idle" /\ w \in world.running
  /\ \E S \in SUBSET Queued :
       /\ S # {}
       /\ Cardinality(S) = Batch \/ (S = Queued /\ Cardinality(S) < Batch)
       /\ work' = [work EXCEPT ![w].pc = "take",
                               ![w].todo = {<<o, object[o].attempts>> : o \in S}]
  /\ UNCHANGED <<object, live, thumbs, ripe, seen, upload, repair, tries, spent, world>>

\* ReanalyzeStoredObject looks for a live file of the object.
Take(w) ==
  /\ work[w].pc = "take"
  /\ \E e \in work[w].todo :
       work' = [work EXCEPT ![w].todo = @ \ {e}, ![w].o = e[1], ![w].attempts = e[2],
                            ![w].pc = IF e[1] \in live THEN "download" ELSE "retire"]
  /\ UNCHANGED <<object, live, thumbs, ripe, seen, upload, repair, tries, spent, world>>

\* No live file: the entry leaves the queue.
Retire(w) ==
  /\ work[w].pc = "retire"
  /\ Clear(work[w].o)
  /\ NextObject(w)
  /\ UNCHANGED <<live, thumbs, seen, upload, repair, tries, spent, world>>

\* Mutant: a failure is not counted.
FailReanalysisUncounted(w) ==
  /\ ripe' = ripe \ {work[w].o}
  /\ UNCHANGED object
  /\ NextObject(w)

\* failReanalysis counts on from the attempts that the batch read.
FailReanalysis(w) ==
  LET o        == work[w].o
      attempts == work[w].attempts + 1
  IN  /\ object' = [object EXCEPT ![o].attempts = attempts,
                                  ![o].needs = @ /\ attempts < MaxAttempts]
      /\ ripe' = ripe \ {o}
      /\ NextObject(w)

\* The download or the analysis of broken bytes fails, or any statement fails
\* for now: the transaction's, the re-read's or publishing.
Fails(w) ==
  /\ work[w].pc \in {"download", "read", "write", "reload", "publish"}
  /\ ~Is("faults") => work[w].pc = "download" /\ work[w].o \in world.broken
  /\ tries' = [tries EXCEPT ![work[w].o] = IF @ <= MaxAttempts THEN @ + 1 ELSE @]

DownloadFails(w) ==
  /\ Fails(w)
  /\ FailReanalysis(w)
  /\ UNCHANGED <<live, thumbs, seen, upload, repair, spent, world>>

\* The update that would count the attempt, or clear the flag, fails in its
\* turn. That is logged; the row stays in the queue as it was.
UpdateLost(w) ==
  /\ Is("lost") /\ w \notin spent
  /\ \/ Fails(w)
     \/ work[w].pc \in {"retire", "clear"} /\ UNCHANGED tries
  /\ spent' = spent \cup {w}
  /\ NextObject(w)
  /\ UNCHANGED <<object, live, thumbs, ripe, seen, upload, repair, world>>

\* RefreshStoredObjectAnalysis: the bytes are read, hashed and analysed; the
\* hash and the type of what was read are stored at once.
Download(w) ==
  /\ work[w].pc = "download"
  /\ work[w].o \notin world.broken
  /\ Goto(w, "read")
  /\ ripe' = ripe \ {work[w].o}
  /\ UNCHANGED <<object, live, thumbs, seen, upload, repair, tries, spent, world>>

\* applyServerSourceAnalysis reads the metadata in a transaction ...
ApplyRead(w) ==
  /\ work[w].pc = "read"
  /\ work' = [work EXCEPT ![w].pc = "write", ![w].exif = object[work[w].o].exif]
  /\ UNCHANGED <<object, live, thumbs, ripe, seen, upload, repair, tries, spent, world>>

\* Mutant: the server's map replaces the stored one.
MergeSourceExifReplace(stored, extracted) == IF extracted = {} THEN stored ELSE extracted

\* ... merges the tags, and writes the rows of the object and the file.
MergeSourceExif(stored, extracted) == stored \cup extracted

ApplyWrite(w) ==
  /\ work[w].pc = "write"
  /\ LET o == work[w].o
     IN  /\ object' = [object EXCEPT
                        ![o].exif = MergeSourceExif(work[w].exif, world.server[o]),
                        ![o].source = "server"]
         /\ ripe' = ripe \ {o}
  /\ Goto(w, "reload")
  /\ UNCHANGED <<live, thumbs, seen, upload, repair, tries, spent, world>>

\* GetFile: the row that will be published.
Reload(w) ==
  /\ work[w].pc = "reload"
  /\ IF work[w].o \in live
     THEN work' = [work EXCEPT ![w].pc = "publish",
                               ![w].snapshot = object[work[w].o].source]
     ELSE Goto(w, "retire")
  /\ UNCHANGED <<object, live, thumbs, ripe, seen, upload, repair, tries, spent, world>>

\* Mutant: the flag is cleared first.
PublishAfterClear(w) ==
  /\ work[w].pc = "publish"
  /\ Clear(work[w].o)
  /\ Goto(w, "clear")
  /\ UNCHANGED <<live, thumbs, seen, upload, repair, tries, spent, world>>

Publish(w) ==
  /\ work[w].pc = "publish"
  /\ seen' = [seen EXCEPT ![work[w].o] = work[w].snapshot]
  /\ Goto(w, "clear")
  /\ UNCHANGED <<object, live, thumbs, ripe, upload, repair, tries, spent, world>>

ClearReanalysis(w) ==
  /\ work[w].pc = "clear"
  /\ Clear(work[w].o)
  /\ NextObject(w)
  /\ UNCHANGED <<live, thumbs, seen, upload, repair, tries, spent, world>>

WorkerDies(w) ==
  /\ Is("crash") /\ w \notin spent /\ work[w].pc # "idle"
  /\ spent' = spent \cup {w}
  /\ work' = [work EXCEPT ![w] = IdleWork]
  /\ UNCHANGED <<object, live, thumbs, ripe, seen, upload, repair, tries, world>>

(***************************************************************************)
(* Repairs that an administrator starts.                                   *)
(***************************************************************************)

\* reanalysisReason: no metadata, no tags, or no derived child.
Candidates == {o \in live : upload[o] = "done" /\ (object[o].exif = {} \/ thumbs[o] = 0)}

\* runReanalysis takes the files that the scan lists, reanalyzeFiles those
\* of the request.
RepairStart(a) ==
  /\ Is("repair") /\ a \notin spent
  /\ Is("overlap") \/ \A b \in Admin : repair[b].pc = "idle"
  /\ \E S \in {Candidates} \cup SUBSET {o \in live : upload[o] # "new"} :
       /\ S # {}
       /\ repair' = [repair EXCEPT ![a].pc = "take", ![a].todo = S]
  /\ spent' = spent \cup {a}
  /\ UNCHANGED <<object, live, thumbs, ripe, seen, upload, work, tries, world>>

NextRepair(a) ==
  repair' = [repair EXCEPT ![a] = IF repair[a].todo = {} THEN IdleRepair
                                  ELSE [IdleRepair EXCEPT !.pc = "take", !.todo = repair[a].todo]]

\* prepareSourceReanalysis: a file that cannot be read or analysed is
\* counted as failed, and the next one is taken.
RepairTake(a) ==
  /\ repair[a].pc = "take"
  /\ \E o \in repair[a].todo :
       repair' = [repair EXCEPT ![a] =
         LET rest == repair[a].todo \ {o}
         IN  IF o \in live \ world.broken
             THEN [IdleRepair EXCEPT !.pc = "lookup", !.todo = rest, !.o = o]
             ELSE [IdleRepair EXCEPT !.pc = IF rest = {} THEN "idle" ELSE "take", !.todo = rest]]
  /\ UNCHANGED <<object, live, thumbs, ripe, seen, upload, work, tries, spent, world>>

\* Mutant: the child is not looked for.
RepairLookupNever(a) ==
  /\ repair[a].pc = "lookup"
  /\ repair' = [repair EXCEPT ![a].pc = "put", ![a].missing = TRUE]
  /\ UNCHANGED <<object, live, thumbs, ripe, seen, upload, work, tries, spent, world>>

\* persistReanalysisVariant looks for the child ...
RepairLookup(a) ==
  /\ repair[a].pc = "lookup"
  /\ repair' = [repair EXCEPT ![a].pc = "put", ![a].missing = thumbs[repair[a].o] = 0]
  /\ UNCHANGED <<object, live, thumbs, ripe, seen, upload, work, tries, spent, world>>

\* ... stores the variant, and creates a child if it found none.
RepairVariant(a) ==
  /\ repair[a].pc = "put"
  /\ thumbs' = [thumbs EXCEPT ![repair[a].o] = IF repair[a].missing THEN @ + 1 ELSE @]
  /\ repair' = [repair EXCEPT ![a].pc = "read"]
  /\ UNCHANGED <<object, live, ripe, seen, upload, work, tries, spent, world>>

\* StoreSourceAnalysis reads the metadata in a transaction ...
RepairRead(a) ==
  /\ repair[a].pc = "read"
  /\ repair' = [repair EXCEPT ![a].pc = "write",
                               ![a].source = object[repair[a].o].source,
                               ![a].exif = object[repair[a].o].exif]
  /\ UNCHANGED <<object, live, thumbs, ripe, seen, upload, work, tries, spent, world>>

\* ... and writes all of it back, whatever it says of its source; updated_at
\* of the object row moves.
RepairStore(a) ==
  /\ repair[a].pc = "write"
  /\ object' = [object EXCEPT ![repair[a].o].source = repair[a].source,
                               ![repair[a].o].exif = MergeAnalysis(repair[a].exif, repair[a].o)]
  /\ ripe' = ripe \ {repair[a].o}
  /\ NextRepair(a)
  /\ UNCHANGED <<live, thumbs, seen, upload, work, tries, spent, world>>

Work(w) ==
  \/ Scan(w) \/ Take(w) \/ Retire(w) \/ Download(w) \/ ApplyRead(w) \/ ApplyWrite(w)
  \/ Reload(w) \/ Publish(w) \/ ClearReanalysis(w) \/ DownloadFails(w) \/ UpdateLost(w)

Upload(o) == StoreClientSourceMetadata(o) \/ ScheduleSourceReanalysis(o) \/ StoreSourceAnalysis(o)

Next ==
  \/ \E o \in Object : Upload(o) \/ Ripen(o) \/ DeleteFile(o)
  \/ \E w \in Worker : Work(w) \/ WorkerDies(w)
  \/ \E a \in Admin : \/ RepairStart(a) \/ RepairTake(a) \/ RepairLookup(a)
                      \/ RepairVariant(a) \/ RepairRead(a) \/ RepairStore(a)

Spec == Init /\ [][Next]_vars

FairSpec ==
  /\ Spec
  /\ \A w \in Worker : WF_vars(Work(w))
  /\ \A o \in Object : WF_vars(Ripen(o))

-----------------------------------------------------------------------------
TypeOK ==
  /\ world \in Worlds
  /\ object \in [Object -> ObjectRow]
  /\ live \subseteq Object
  /\ thumbs \in [Object -> Nat]
  /\ ripe \subseteq Object
  /\ seen \in [Object -> Source]
  /\ upload \in [Object -> {"new", "stored", "done", "failed"}]
  /\ work \in [Worker -> WorkRow]
  /\ repair \in [Admin -> RepairRow]
  /\ tries \in [Object -> Nat]
  /\ spent \subseteq Worker \cup Admin

\* "the metadata is recomputed here and republished to the fleet": an object
\* that left the queue with success was published with the server's metadata.
Republished ==
  \A o \in live :
    (/\ upload[o] = "done" /\ world.client[o] # {}
     /\ ~object[o].needs /\ object[o].attempts = 0)
      => seen[o] = "server"

\* An object whose metadata the queue replaced is not forgotten before other
\* services have a snapshot with the server's metadata (worker/worker.go:136),
\* whoever dies and whatever fails. A repair next to it writes stale metadata
\* back.
ClearedWasPublished == ~Is("repair") => Republished

\* "a reanalysis never loses a field the client already extracted": the
\* queue's read and write of the tags, next to other passes.
TagsKept ==
  [][~Is("repair") => \A o \in Object : object[o].exif \subseteq object'[o].exif]_vars

\* "a permanently unanalyzable object never occupies the queue forever"
\* (worker/worker.go:158): whatever crashes, the queue gets empty.
QueueDrains == <>[](\A o \in Object : ~object[o].needs)

\* With one worker that does not die and loses no update, no object is tried
\* more than three times.
TriesBounded ==
  (~Is("crash") /\ ~Is("lost") /\ \A v, w \in world.running : v = w)
    => \A o \in Object : tries[o] <= MaxAttempts

\* Repairs that do not overlap make one thumbnail, whoever looked first.
OneVariant == ~Is("overlap") => \A o \in Object : thumbs[o] <= 1

\* "Replacing the whole map would leave the file with fewer EXIF fields after
\* a reanalysis than it had at upload time."
RepairKeepsTags == [][\A o \in Object : object[o].exif \subseteq object'[o].exif]_vars

\* What follows makes the properties above inductive.

On(w) == work[w].pc \notin {"idle", "take"}

\* What is queued has been uploaded with assistance and was not tried in vain
\* three times; nothing is known of an object before its upload has ended.
Uploaded(o) == upload[o] = "done" /\ world.client[o] # {}

QueuedRow(o) ==
  /\ object[o].needs => Uploaded(o) /\ object[o].attempts < MaxAttempts
  /\ upload[o] # "done" => tries[o] = 0
  /\ upload[o] = "new" => object[o].attempts = 0
  /\ upload[o] = "stored" => world.client[o] # {} /\ object[o].attempts = 0

\* What a worker holds, and what it has done to get where it is.
Working(w) ==
  /\ work[w].pc = "idle" => work[w].todo = {}
  /\ \A e \in work[w].todo : Uploaded(e[1]) /\ e[2] < MaxAttempts
  /\ On(w) => work[w].o \in Object /\ Uploaded(work[w].o) /\ work[w].attempts < MaxAttempts
  /\ work[w].pc = "retire" => work[w].o \notin live
  /\ ~Is("repair") => /\ work[w].pc = "reload" => object[work[w].o].source = "server"
                      /\ work[w].pc = "publish" => work[w].snapshot = "server"
                      /\ work[w].pc = "clear" => seen[work[w].o] = "server"

\* The tags are the client's, with the server's once they have been merged.
Merged(o) == {normalizeClientSourceMetadata(o),
              normalizeClientSourceMetadata(o) \cup world.server[o]}

TagsMerged ==
  ~Is("repair") =>
    /\ \A o \in Object : /\ upload[o] = "new" => object[o].exif = {}
                         /\ upload[o] \in {"stored", "done"} /\ world.client[o] # {}
                              => object[o].exif \in Merged(o)
    /\ \A w \in Worker : work[w].pc = "write" => work[w].exif \in Merged(work[w].o)

\* One worker counts the attempts it makes, and loses none.
Sole == ~Is("crash") /\ ~Is("lost") /\ \A v, w \in world.running : v = w

Counted ==
  Sole =>
    /\ \A o \in Object : tries[o] <= MaxAttempts /\ (object[o].needs => tries[o] = object[o].attempts)
    /\ \A w \in Worker :
         /\ w \notin world.running => work[w].pc = "idle"
         /\ \A e \in work[w].todo : object[e[1]].needs /\ object[e[1]].attempts = e[2]
         /\ On(w) => /\ object[work[w].o].needs /\ object[work[w].o].attempts = work[w].attempts
                     /\ \A e \in work[w].todo : e[1] # work[w].o

\* One repair at a time, which creates the child that it did not find.
OneChild ==
  /\ \A a \in Admin : repair[a].pc \in {"lookup", "put", "read", "write"} => repair[a].o \in Object
  /\ ~Is("repair") => \A a \in Admin : repair[a].pc = "idle"
  /\ ~Is("overlap") =>
       /\ \A a, b \in Admin : repair[a].pc # "idle" /\ repair[b].pc # "idle" => a = b
       /\ \A a \in Admin : repair[a].pc = "put" /\ repair[a].missing => thumbs[repair[a].o] = 0

IInv == /\ TypeOK /\ ClearedWasPublished /\ TriesBounded /\ OneVariant
        /\ TagsMerged /\ Counted /\ OneChild
        /\ \A o \in Object : QueuedRow(o)
        /\ \A w \in Worker : Working(w)
=============================================================================
