--------------------------- MODULE PoolMigration ---------------------------
(***************************************************************************)
(* Moving files between storage pools: durable tasks that any worker       *)
(* claims, one file at a time, next to the writers of the files' bytes.    *)
(*                                                                         *)
(* A row names a pool and, if it has one, a storage key of its own; else   *)
(* the key of its object counts.  Rows that share an object share the key. *)
(***************************************************************************)
EXTENDS Naturals, FiniteSets

CONSTANTS
  File,    \* rows of cloud_files
  Key,     \* storage keys
  Pool,
  Task,    \* pool.migration tasks
  Worker,  \* goroutines that run processPoolMigrations
  Writer,  \* requests that write bytes in place
  Worlds,
  None

Mode == {"slow",   \* a worker that is alive may leave its task idle for 15 minutes
         "calm",   \* no write overlaps a migration
         "crash",  \* a worker may die, once
        "writes", \* writers write, once each
        "deletes",
         "faults"} \* storage and database calls may fail

World == [pool : [File -> Pool],         \* where the files are at first
          own  : [File -> BOOLEAN],      \* whether the row has the key itself
          key  : [File -> Key],          \* its key, or that of its object
          src  : [Task -> Pool], dst : [Task -> Pool],
          ids  : [Task -> SUBSET File],  \* the files a task names; none: all of them
          twin : SUBSET Pool,            \* pools with one and the same storage_config
          mode : SUBSET Mode]

ASSUME WorldsTyped == Worlds \subseteq World
ASSUME FilesFinite == IsFiniteSet(File)
ASSUME NoneIsNone  == None \notin Task \cup File \cup Pool

VARIABLES
  pool,    \* pool_id of the rows
  live,    \* rows that are not deleted
  stored,  \* <<pool, key>>: bytes that exist
  latest,  \* ... and are those written last under that key
  task,    \* rows of persistent_tasks
  work,    \* local state of the workers
  write,   \* local state of the writers
  spent,   \* workers that have been restarted, writers that have written
  world

vars == <<pool, live, stored, latest, task, work, write, spent, world>>

bytes == <<stored, latest>>

Is(mode) == mode \in world.mode

Status == {"none", "pending", "processing", "completed", "failed"}

\* idle: last_activity is more than 15 minutes ago
TaskRow == [status : Status, idle : BOOLEAN, moved : Nat, count : Nat]

WorkPC == {"idle", "pick", "get", "put", "update", "count", "delete", "progress"}

WorkRow == [pc : WorkPC, t : Task \cup {None}, f : File \cup {None}, now : BOOLEAN]

IdleWork  == [pc |-> "idle", t |-> None, f |-> None, now |-> FALSE]
IdleWrite == [f |-> None, pool |-> None]

KeyOf(f) == world.key[f]

\* Pools with the same configuration keep their bytes in one place.
Site(p) == IF p \in world.twin THEN CHOOSE q \in world.twin : TRUE ELSE p

At(p, f) == <<Site(p), KeyOf(f)>>

\* reflect.DeepEqual of the two configurations
Apart(t) == Site(world.src[t]) # Site(world.dst[t])

\* The rows a task has still to move.
Left(t) == {f \in live : /\ pool[f] = world.src[t]
                         /\ world.ids[t] # {} => f \in world.ids[t]}

Init ==
  /\ world \in Worlds
  /\ pool = world.pool
  /\ live = File
  /\ stored = {<<Site(pool[f]), world.key[f]>> : f \in File}
  /\ latest = stored
  /\ task = [t \in Task |-> [status |-> "none", idle |-> FALSE, moved |-> 0, count |-> 0]]
  /\ work = [w \in Worker |-> IdleWork]
  /\ write = [c \in Writer |-> IdleWrite]
  /\ spent = {}

Goto(w, pc) == work' = [work EXCEPT ![w].pc = pc]

(***************************************************************************)
(* The tasks.                                                              *)
(***************************************************************************)

\* Mutant: the task of a crashed worker is left alone.
ResetStaleNever(w) ==
  /\ work[w].pc = "idle"
  /\ FALSE
  /\ UNCHANGED vars

\* The files it names must be in the source pool, and are counted.
CreatePoolMigrationTask(t) ==
  /\ task[t].status = "none"
  /\ world.src[t] # world.dst[t]
  /\ world.ids[t] \subseteq Left(t)
  /\ task' = [task EXCEPT ![t] = [status |-> "pending", idle |-> FALSE, moved |-> 0,
                                  count |-> Cardinality(Left(t))]]
  /\ UNCHANGED <<pool, live, bytes, work, write, spent, world>>

\* 15 minutes without a sign of life.
GoIdle(t) ==
  /\ task[t].status = "processing" /\ ~task[t].idle
  /\ Is("slow") \/ \A w \in Worker : work[w].t # t
  /\ task' = [task EXCEPT ![t].idle = TRUE]
  /\ UNCHANGED <<pool, live, bytes, work, write, spent, world>>

\* Every pass begins by putting such tasks back.
ResetStale(w) ==
  /\ work[w].pc = "idle"
  /\ \E t \in Task : task[t].idle /\ task[t].status = "processing"
  /\ task' = [t \in Task |-> IF task[t].idle /\ task[t].status = "processing"
                             THEN [task[t] EXCEPT !.status = "pending", !.idle = FALSE]
                             ELSE task[t]]
  /\ UNCHANGED <<pool, live, bytes, work, write, spent, world>>

\* UPDATE ... WHERE status = 'pending': one worker gets the row.
Claim(w, t) ==
  /\ work[w].pc = "idle"
  /\ task[t].status = "pending"
  /\ Is("calm") => \A c \in Writer : write[c] = IdleWrite
  /\ task' = [task EXCEPT ![t].status = "processing", ![t].idle = FALSE]
  /\ work' = [work EXCEPT ![w] = [IdleWork EXCEPT !.pc = "pick", !.t = t]]
  /\ UNCHANGED <<pool, live, bytes, write, spent, world>>

\* Any error ends the run and fails the task.
Fail(w) ==
  /\ task' = [task EXCEPT ![work[w].t].status = "failed"]
  /\ work' = [work EXCEPT ![w] = IdleWork]

Fault(w) ==
  /\ Is("faults")
  /\ work[w].pc \in {"pick", "put", "update", "count", "delete", "progress"}
  /\ Fail(w)
  /\ UNCHANGED <<pool, live, bytes, write, spent, world>>

(***************************************************************************)
(* One file.                                                               *)
(***************************************************************************)
Pick(w) ==
  /\ work[w].pc = "pick"
  /\ \E f \in Left(work[w].t) :
       work' = [work EXCEPT ![w].f = f, ![w].now = FALSE,
                            ![w].pc = IF Apart(work[w].t) THEN "get" ELSE "update"]
  /\ UNCHANGED <<pool, live, bytes, task, write, spent, world>>

\* Mutant: one file is taken for all.
FinishEarly(w) ==
  /\ work[w].pc = "pick"
  /\ task[work[w].t].moved > 0 \/ Left(work[w].t) = {}
  /\ task' = [task EXCEPT ![work[w].t].status = "completed", ![work[w].t].idle = FALSE]
  /\ work' = [work EXCEPT ![w] = IdleWork]
  /\ UNCHANGED <<pool, live, bytes, write, spent, world>>

Finish(w) ==
  /\ work[w].pc = "pick"
  /\ Left(work[w].t) = {}
  /\ task' = [task EXCEPT ![work[w].t].status = "completed", ![work[w].t].idle = FALSE]
  /\ work' = [work EXCEPT ![w] = IdleWork]
  /\ UNCHANGED <<pool, live, bytes, write, spent, world>>

Get(w) ==
  LET from == At(world.src[work[w].t], work[w].f)
  IN  /\ work[w].pc = "get"
      /\ \/ /\ from \in stored
            /\ work' = [work EXCEPT ![w].pc = "put", ![w].now = from \in latest]
            /\ UNCHANGED task
         \/ /\ from \notin stored
            /\ Fail(w)
      /\ UNCHANGED <<pool, live, bytes, write, spent, world>>

\* Mutant: an error of the Put is dropped.
PutTargetFails(w) ==
  /\ work[w].pc = "put"
  /\ Goto(w, "update")
  /\ UNCHANGED <<pool, live, bytes, task, write, spent, world>>

PutTarget(w) ==
  LET to == At(world.dst[work[w].t], work[w].f)
  IN  /\ work[w].pc = "put"
      /\ stored' = stored \cup {to}
      /\ latest' = IF work[w].now THEN latest \cup {to} ELSE latest \ {to}
      /\ Goto(w, "update")
      /\ UNCHANGED <<pool, live, task, write, spent, world>>

\* UPDATE by id, whatever pool the row is in by now.
UpdatePool(w) ==
  /\ work[w].pc = "update"
  /\ pool' = IF work[w].f \in live THEN [pool EXCEPT ![work[w].f] = world.dst[work[w].t]] ELSE pool
  /\ Goto(w, IF Apart(work[w].t) THEN "count" ELSE "progress")
  /\ UNCHANGED <<live, bytes, task, write, spent, world>>

\* Mutant: the rows that share the key are not counted.
CountRefsNone(w) ==
  /\ work[w].pc = "count"
  /\ Goto(w, "delete")
  /\ UNCHANGED <<pool, live, bytes, task, write, spent, world>>

\* Rows of the source pool that have the key themselves.
CountRefs(w) ==
  /\ work[w].pc = "count"
  /\ LET refs == {g \in live : /\ pool[g] = world.src[work[w].t]
                               /\ world.own[g] /\ KeyOf(g) = KeyOf(work[w].f)}
     IN  Goto(w, IF refs = {} THEN "delete" ELSE "progress")
  /\ UNCHANGED <<pool, live, bytes, task, write, spent, world>>

DeleteSource(w) ==
  /\ work[w].pc = "delete"
  /\ stored' = stored \ {At(world.src[work[w].t], work[w].f)}
  /\ latest' = latest \ {At(world.src[work[w].t], work[w].f)}
  /\ Goto(w, "progress")
  /\ UNCHANGED <<pool, live, task, write, spent, world>>

Progress(w) ==
  /\ work[w].pc = "progress"
  /\ task' = [task EXCEPT ![work[w].t].moved = @ + 1, ![work[w].t].idle = FALSE]
  /\ work' = [work EXCEPT ![w].pc = "pick", ![w].f = None]
  /\ UNCHANGED <<pool, live, bytes, write, spent, world>>

\* The worker dies between two calls; its task stays "processing".
WorkerDies(w) ==
  /\ Is("crash") /\ w \notin spent /\ work[w].pc # "idle"
  /\ spent' = spent \cup {w}
  /\ work' = [work EXCEPT ![w] = IdleWork]
  /\ UNCHANGED <<pool, live, bytes, task, write, world>>

(***************************************************************************)
(* Other requests.                                                         *)
(***************************************************************************)

\* OverwriteInPlace and FastOverwriteFile resolve the backend of the row ...
WriteRead(c, f) ==
  /\ Is("writes") /\ write[c] = IdleWrite /\ c \notin spent
  /\ f \in live
  /\ Is("calm") => \A w \in Worker : work[w].pc = "idle"
  /\ write' = [write EXCEPT ![c] = [f |-> f, pool |-> pool[f]]]
  /\ UNCHANGED <<pool, live, bytes, task, work, spent, world>>

\* ... and put the new bytes there later.
WritePut(c) ==
  LET to == At(write[c].pool, write[c].f)
  IN  /\ write[c].f # None
      /\ stored' = stored \cup {to}
      /\ latest' = {l \in latest : l[2] # to[2]} \cup {to}
      /\ work' = [w \in Worker |-> IF work[w].f # None /\ KeyOf(work[w].f) = to[2]
                                   THEN [work[w] EXCEPT !.now = FALSE] ELSE work[w]]
      /\ write' = [write EXCEPT ![c] = IdleWrite]
      /\ spent' = spent \cup {c}
      /\ UNCHANGED <<pool, live, task, world>>

DeleteFile(f) ==
  /\ Is("deletes") /\ f \in live
  /\ live' = live \ {f}
  /\ UNCHANGED <<pool, bytes, task, work, write, spent, world>>

Run(w) ==
  \/ ResetStale(w)
  \/ \E t \in Task : Claim(w, t)
  \/ Pick(w) \/ Finish(w) \/ Get(w) \/ PutTarget(w) \/ UpdatePool(w)
  \/ CountRefs(w) \/ DeleteSource(w) \/ Progress(w)

Next ==
  \/ \E t \in Task : CreatePoolMigrationTask(t) \/ GoIdle(t)
  \/ \E w \in Worker : Run(w) \/ Fault(w) \/ WorkerDies(w)
  \/ \E c \in Writer : WritePut(c) \/ \E f \in File : WriteRead(c, f)
  \/ \E f \in File : DeleteFile(f)

Spec == Init /\ [][Next]_vars

\* The clock runs, the ticker starts passes, and a worker goes on.
FairSpec ==
  /\ Spec
  /\ \A t \in Task : WF_vars(GoIdle(t))
  /\ \A w \in Worker : WF_vars(Run(w))
  /\ \A c \in Writer : WF_vars(WritePut(c))

-----------------------------------------------------------------------------
TypeOK ==
  /\ world \in Worlds
  /\ pool \in [File -> Pool]
  /\ live \subseteq File
  /\ stored \subseteq Pool \X Key
  /\ latest \subseteq stored
  /\ task \in [Task -> TaskRow]
  /\ work \in [Worker -> WorkRow]
  /\ write \in [Writer -> [f : File \cup {None}, pool : Pool \cup {None}]]
  /\ spent \subseteq Worker \cup Writer

\* Rows that share a key all have it in a column of their own, which is
\* what the count before the delete looks at (worker/worker.go:289).
KeysCounted == \A f, g \in File : f # g /\ world.key[f] = world.key[g] => world.own[f]

\* No task fills the pool or the store that another one empties, and a store
\* that is emptied is that of one pool only.
OneWay ==
  \A s, t \in Task :
    /\ world.dst[s] # world.src[t]
    /\ Apart(t) => /\ Site(world.dst[s]) # Site(world.src[t])
                   /\ world.src[t] \notin world.twin

\* Whatever workers die, stall or repeat, the bytes of a row are in the pool
\* that the row names at every moment of a migration.
RowsReadable ==
  KeysCounted /\ OneWay => \A f \in live : At(pool[f], f) \in stored

\* No two rows share an object.
KeysApart == \A f, g \in File : world.key[f] = world.key[g] => f = g

\* ... and they are the bytes written last, if no write overlapped a move
\* and no two rows share an object.
WritesSurvive ==
  OneWay /\ Is("calm") /\ KeysApart => \A f \in live : At(pool[f], f) \in latest

\* As long as no worker stalls for 15 minutes, a task has one runner, and
\* a task that ended stays as it ended.
OneRunner ==
  ~Is("slow") =>
    \A v, w \in Worker : v # w /\ work[v].t # None => work[v].t # work[w].t

\* Every task that was created ends, through crashes and restarts.
TasksEnd ==
  \A t \in Task : task[t].status = "pending" ~> task[t].status \in {"completed", "failed"}

\* A file a completed task was about is out of the source pool, until a
\* later task brings it back.
CompletedMoved ==
  OneWay => \A t \in Task : task[t].status = "completed" => Left(t) = {}

\* The locals of a worker or a writer fit the statement it is at.
LocalsSet ==
  /\ \A c \in Writer : write[c].f # None => write[c].pool # None
  /\ \A w \in Worker :
       /\ work[w].pc = "idle" <=> work[w].t = None
       /\ work[w].pc \notin {"idle", "pick"} => work[w].f # None
       /\ work[w].pc \in {"get", "put", "count", "delete"} => Apart(work[w].t)

\* A task that a worker runs is marked so, and was heard of.
RunsAreMarked ==
  ~Is("slow") =>
    \A w \in Worker : work[w].t # None =>
      task[work[w].t].status = "processing" /\ ~task[work[w].t].idle

\* Before the row names the target pool the copy is there, before the rows
\* that share the key are counted the file's own is out of the source pool,
\* and before the source is deleted they all are.
MovesAreSafe ==
  KeysCounted /\ OneWay =>
    \A w \in Worker :
      /\ work[w].pc = "update" => At(world.dst[work[w].t], work[w].f) \in stored
      /\ work[w].pc = "count" /\ work[w].f \in live => pool[work[w].f] # world.src[work[w].t]
      /\ work[w].pc = "delete" =>
           \A g \in live : KeyOf(g) = KeyOf(work[w].f) => pool[g] # world.src[work[w].t]

\* While workers run nobody writes, and a writer puts where the row is; what
\* a worker is to read, has read and has copied are the bytes written last.
CopiesAreLatest ==
  OneWay /\ Is("calm") /\ KeysApart =>
    /\ \A c \in Writer :
         write[c] # IdleWrite =>
           /\ \A w \in Worker : work[w].pc = "idle"
           /\ write[c].pool = pool[write[c].f]
    /\ \A w \in Worker :
         LET from == At(world.src[work[w].t], work[w].f)
         IN  /\ work[w].pc = "get" /\ from \in stored => from \in latest
             /\ work[w].pc = "put" => work[w].now
             /\ work[w].pc = "update" => At(world.dst[work[w].t], work[w].f) \in latest

\* The inductive invariant.
IInv == /\ TypeOK /\ LocalsSet /\ RunsAreMarked /\ OneRunner /\ CompletedMoved
        /\ MovesAreSafe /\ RowsReadable /\ CopiesAreLatest /\ WritesSurvive
=============================================================================
