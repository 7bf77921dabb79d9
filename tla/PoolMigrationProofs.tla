------------------------ MODULE PoolMigrationProofs ------------------------
(***************************************************************************)
(* Proofs about PoolMigration: its inductive invariant holds for any       *)
(* number of files, pools, tasks, workers and writers.                     *)
(***************************************************************************)
EXTENDS PoolMigration, FiniteSetTheorems, TLAPS

\* What a worker does at one statement or another.
Step(w) == \/ Pick(w) \/ Finish(w) \/ Get(w) \/ PutTarget(w) \/ UpdatePool(w)
           \/ CountRefs(w) \/ DeleteSource(w) \/ Progress(w)

-----------------------------------------------------------------------------
(* Operators *)

\* Pools that share a store are in one of them.
LEMMA SiteType ==
  ASSUME TypeOK, NEW p \in Pool
  PROVE  Site(p) \in Pool
<1>1. world.twin \in SUBSET Pool  BY WorldsTyped DEF TypeOK, World
<1>. QED  BY <1>1 DEF Site

LEMMA AtType ==
  ASSUME TypeOK, NEW p \in Pool, NEW f \in File
  PROVE  At(p, f) \in Pool \X Key
<1>1. KeyOf(f) \in Key  BY WorldsTyped DEF TypeOK, World, KeyOf
<1>. QED  BY <1>1, SiteType DEF At

\* A pool that is emptied into another store is the only one in its own.
LEMMA OnlyItself ==
  ASSUME OneWay, NEW t \in Task, Apart(t), NEW p \in Pool, Site(p) = Site(world.src[t])
  PROVE  p = world.src[t]
<1>1. world.src[t] \notin world.twin  BY DEF OneWay
<1>2. CASE p \in world.twin  BY <1>1, <1>2 DEF Site
<1>3. CASE p \notin world.twin  BY <1>1, <1>3 DEF Site
<1>. QED  BY <1>2, <1>3

-----------------------------------------------------------------------------
(* Types and locals *)

LEMMA InitTypeOK == Init => TypeOK /\ LocalsSet
<1>. SUFFICES ASSUME Init PROVE TypeOK /\ LocalsSet
  OBVIOUS
<1>1. world \in World  BY WorldsTyped DEF Init
<1>2. world.twin \in SUBSET Pool /\ world.key \in [File -> Key] /\ world.pool \in [File -> Pool]
  BY <1>1 DEF World
<1>3. \A f \in File : Site(pool[f]) \in Pool
  BY <1>2 DEF Init, Site
<1>4. stored \subseteq Pool \X Key
  BY <1>2, <1>3 DEF Init
<1>. QED  BY <1>2, <1>4, NoneIsNone DEF Init, TypeOK, LocalsSet, TaskRow, Status, WorkRow, WorkPC, IdleWork, IdleWrite

\* What a deployment says stays.
LEMMA SameWorld ==
  ASSUME world' = world
  PROVE  /\ \A p \in Pool : Site(p)' = Site(p)
         /\ \A t : Apart(t)' <=> Apart(t)
BY DEF Site, Apart

\* A worker that is busy has a task, and a file if it is past its choice.
LEMMA BusyType ==
  ASSUME TypeOK, LocalsSet, NEW w \in Worker, work[w].pc # "idle"
  PROVE  /\ work[w].t \in Task
         /\ world.src[work[w].t] \in Pool /\ world.dst[work[w].t] \in Pool
         /\ work[w].pc # "pick" => work[w].f \in File
<1>1. work[w] \in WorkRow /\ world \in World  BY WorldsTyped DEF TypeOK
<1>2. work[w].t # None /\ (work[w].pc # "pick" => work[w].f # None)  BY DEF LocalsSet
<1>3. world.src \in [Task -> Pool] /\ world.dst \in [Task -> Pool]  BY <1>1 DEF World
<1>4. work[w].t \in Task \cup {None} /\ work[w].f \in File \cup {None}  BY <1>1 DEF WorkRow
<1>. QED  BY <1>2, <1>3, <1>4

\* Steps of workers keep the types.
LEMMA StepTypeOK ==
  ASSUME TypeOK, LocalsSet, NEW w \in Worker, Step(w)
  PROVE  TypeOK' /\ LocalsSet'
<1>. DEFINE t == work[w].t
            f == work[w].f
<1>1. work[w].pc # "idle" /\ world' = world
  BY DEF Step, Pick, Finish, Get, PutTarget, UpdatePool, CountRefs, DeleteSource, Progress
<1>2. /\ t \in Task /\ world.src[t] \in Pool /\ world.dst[t] \in Pool
      /\ work[w].pc # "pick" => f \in File
  BY <1>1, BusyType
<1>3. \A u : Apart(u)' <=> Apart(u)  BY <1>1, SameWorld
<1>4. work[w] \in WorkRow /\ task[t] \in TaskRow /\ world' \in Worlds  BY <1>1, <1>2 DEF TypeOK
<1>5. CASE Pick(w)
  <2>1. PICK g \in Left(t) :
          work' = [work EXCEPT ![w].f = g, ![w].now = FALSE,
                               ![w].pc = IF Apart(t) THEN "get" ELSE "update"]
    BY <1>5 DEF Pick
  <2>2. g \in File  BY <2>1 DEF Left, TypeOK
  <2>3. UNCHANGED <<pool, live, stored, latest, task, write, spent, world>> /\ work[w].pc = "pick"
    BY <1>5 DEF Pick, bytes
  <2>4. TypeOK'  BY <2>1, <2>2, <2>3 DEF TypeOK, WorkRow, WorkPC
  <2>5. LocalsSet'
    BY <1>3, <2>1, <2>2, <2>3, NoneIsNone DEF LocalsSet, TypeOK, WorkRow, WorkPC
  <2>. QED  BY <2>4, <2>5
<1>6. CASE Finish(w)
  <2>1. task' \in [Task -> TaskRow]
    <3>. DEFINE r == [task[t] EXCEPT !.status = "completed", !.idle = FALSE]
    <3>1. r \in TaskRow  BY <1>4 DEF TaskRow, Status
    <3>2. task' = [task EXCEPT ![t] = r]  BY <1>2, <1>6 DEF Finish, TypeOK
    <3>. QED  BY <3>1, <3>2 DEF TypeOK
  <2>2. work' = [work EXCEPT ![w] = IdleWork] /\ IdleWork \in WorkRow
    BY <1>6 DEF Finish, IdleWork, WorkRow, WorkPC
  <2>3. TypeOK'  BY <1>6, <2>1, <2>2 DEF Finish, bytes, TypeOK
  <2>4. LocalsSet'  BY <1>3, <1>6, <2>2 DEF Finish, LocalsSet, TypeOK, IdleWork
  <2>. QED  BY <2>3, <2>4
<1>7. CASE Get(w)
  <2>1. CASE /\ work' = [work EXCEPT ![w].pc = "put", ![w].now = At(world.src[t], f) \in latest]
             /\ task' = task
    <3>. DEFINE now == At(world.src[t], f) \in latest
    <3>0. now \in BOOLEAN  OBVIOUS
    <3>4. work' = [work EXCEPT ![w].pc = "put", ![w].now = now]  BY <2>1
    <3>. HIDE DEF now
    <3>5. work' \in [Worker -> WorkRow]  BY <1>4, <3>0, <3>4 DEF TypeOK, WorkRow, WorkPC
    <3>1. TypeOK'  BY <1>7, <2>1, <3>5 DEF Get, bytes, TypeOK
    <3>2. LocalsSet'  BY <1>3, <1>7, <2>1 DEF Get, LocalsSet, TypeOK, WorkRow
    <3>. QED  BY <3>1, <3>2
  <2>2. CASE Fail(w)
    <3>1. task' \in [Task -> TaskRow]
      BY <1>2, <1>4, <2>2 DEF Fail, TypeOK, TaskRow, Status
    <3>2. work' = [work EXCEPT ![w] = IdleWork] /\ IdleWork \in WorkRow
      BY <2>2 DEF Fail, IdleWork, WorkRow, WorkPC
    <3>3. TypeOK'  BY <1>7, <3>1, <3>2 DEF Get, bytes, TypeOK
    <3>4. LocalsSet'  BY <1>3, <1>7, <3>2 DEF Get, LocalsSet, TypeOK, IdleWork
    <3>. QED  BY <3>3, <3>4
  <2>. QED  BY <1>7, <2>1, <2>2 DEF Get
<1>8. CASE PutTarget(w)
  <2>1. At(world.dst[t], f) \in Pool \X Key
    BY <1>2, <1>8, AtType DEF PutTarget
  <2>2. TypeOK'
    BY <1>8, <2>1 DEF PutTarget, Goto, TypeOK, WorkRow, WorkPC
  <2>3. LocalsSet'
    BY <1>3, <1>8 DEF PutTarget, Goto, LocalsSet, TypeOK, WorkRow
  <2>. QED  BY <2>2, <2>3
<1>9. CASE UpdatePool(w)
  <2>1. TypeOK'
    BY <1>2, <1>9 DEF UpdatePool, Goto, bytes, TypeOK, WorkRow, WorkPC
  <2>2. LocalsSet'
    BY <1>3, <1>9 DEF UpdatePool, Goto, LocalsSet, TypeOK, WorkRow
  <2>. QED  BY <2>1, <2>2
<1>10. CASE CountRefs(w)
  <2>1. PICK pc \in {"delete", "progress"} : work' = [work EXCEPT ![w].pc = pc]
    BY <1>10 DEF CountRefs, Goto
  <2>2. TypeOK'  BY <1>10, <2>1 DEF CountRefs, bytes, TypeOK, WorkRow, WorkPC
  <2>3. LocalsSet'  BY <1>3, <1>10, <2>1 DEF CountRefs, LocalsSet, TypeOK, WorkRow
  <2>. QED  BY <2>2, <2>3
<1>11. CASE DeleteSource(w)
  <2>1. TypeOK'  BY <1>11 DEF DeleteSource, Goto, TypeOK, WorkRow, WorkPC
  <2>2. LocalsSet'  BY <1>3, <1>11 DEF DeleteSource, Goto, LocalsSet, TypeOK, WorkRow
  <2>. QED  BY <2>1, <2>2
<1>12. CASE Progress(w)
  <2>1. task' \in [Task -> TaskRow]
    <3>. DEFINE n == task[t].moved + 1
                r == [task[t] EXCEPT !.moved = n, !.idle = FALSE]
    <3>0. n \in Nat  BY <1>4 DEF TaskRow
    <3>. HIDE DEF n
    <3>1. r \in TaskRow  BY <1>4, <3>0 DEF TaskRow, Status
    <3>2. task' = [task EXCEPT ![t] = r]  BY <1>2, <1>12 DEF Progress, TypeOK, n
    <3>. QED  BY <3>1, <3>2 DEF TypeOK
  <2>2. work' = [work EXCEPT ![w].pc = "pick", ![w].f = None]  BY <1>12 DEF Progress
  <2>3. work' \in [Worker -> WorkRow]  BY <1>4, <2>2 DEF TypeOK, WorkRow, WorkPC
  <2>5. TypeOK'  BY <1>12, <2>1, <2>3 DEF Progress, bytes, TypeOK
  <2>4. LocalsSet'  BY <1>3, <1>12, <2>2 DEF Progress, LocalsSet, TypeOK, WorkRow
  <2>. QED  BY <2>4, <2>5
<1>. QED  BY <1>5, <1>6, <1>7, <1>8, <1>9, <1>10, <1>11, <1>12 DEF Step

\* ... and so do all the others.
LEMMA NextTypeOK ==
  ASSUME TypeOK, LocalsSet, [Next]_vars
  PROVE  TypeOK' /\ LocalsSet'
<1>1. world' = world
  BY DEF Next, Run, vars, CreatePoolMigrationTask, GoIdle, ResetStale, Claim, Pick, Finish, Get,
         PutTarget, UpdatePool, CountRefs, DeleteSource, Progress, Fault, WorkerDies, WriteRead,
         WritePut, DeleteFile
<1>2. \A u : Apart(u)' <=> Apart(u)  BY <1>1, SameWorld
<1>3. IdleWork \in WorkRow  BY DEF IdleWork, WorkRow, WorkPC
<1>4. ASSUME NEW t \in Task, CreatePoolMigrationTask(t)  PROVE TypeOK' /\ LocalsSet'
  <2>1. IsFiniteSet(Left(t))
    <3>1. Left(t) \subseteq File  BY DEF Left, TypeOK
    <3>. QED  BY <3>1, FilesFinite, FS_Subset
  <2>2. Cardinality(Left(t)) \in Nat  BY <2>1, FS_CardinalityType
  <2>3. TypeOK'
    BY <1>4, <2>2 DEF CreatePoolMigrationTask, bytes, TypeOK, TaskRow, Status
  <2>4. LocalsSet'  BY <1>2, <1>4 DEF CreatePoolMigrationTask, LocalsSet
  <2>. QED  BY <2>3, <2>4
<1>5. ASSUME NEW t \in Task, GoIdle(t)  PROVE TypeOK' /\ LocalsSet'
  <2>1. TypeOK'  BY <1>5 DEF GoIdle, bytes, TypeOK, TaskRow
  <2>2. LocalsSet'  BY <1>2, <1>5 DEF GoIdle, LocalsSet
  <2>. QED  BY <2>1, <2>2
<1>6. ASSUME NEW w \in Worker, ResetStale(w)  PROVE TypeOK' /\ LocalsSet'
  <2>1. TypeOK'  BY <1>6 DEF ResetStale, bytes, TypeOK, TaskRow, Status
  <2>2. LocalsSet'  BY <1>2, <1>6 DEF ResetStale, LocalsSet
  <2>. QED  BY <2>1, <2>2
<1>7. ASSUME NEW w \in Worker, NEW t \in Task, Claim(w, t)  PROVE TypeOK' /\ LocalsSet'
  <2>1. task' \in [Task -> TaskRow]
    <3>. DEFINE r == [task[t] EXCEPT !.status = "processing", !.idle = FALSE]
    <3>1. r \in TaskRow  BY DEF TypeOK, TaskRow, Status
    <3>2. task' = [task EXCEPT ![t] = r]  BY <1>7 DEF Claim, TypeOK
    <3>. QED  BY <3>1, <3>2 DEF TypeOK
  <2>2. /\ work' = [work EXCEPT ![w] = [IdleWork EXCEPT !.pc = "pick", !.t = t]]
        /\ [IdleWork EXCEPT !.pc = "pick", !.t = t] \in WorkRow
    BY <1>7 DEF Claim, IdleWork, WorkRow, WorkPC
  <2>3. TypeOK'  BY <1>7, <2>1, <2>2 DEF Claim, bytes, TypeOK
  <2>4. LocalsSet'
    BY <1>2, <1>7, <2>2, NoneIsNone DEF Claim, LocalsSet, TypeOK, WorkRow, IdleWork
  <2>. QED  BY <2>3, <2>4
<1>8. ASSUME NEW w \in Worker, Fault(w)  PROVE TypeOK' /\ LocalsSet'
  <2>1. work[w].t \in Task  BY <1>8, BusyType DEF Fault
  <2>2. task' \in [Task -> TaskRow]
    BY <1>8, <2>1 DEF Fault, Fail, TypeOK, TaskRow, Status
  <2>3. work' = [work EXCEPT ![w] = IdleWork]  BY <1>8 DEF Fault, Fail
  <2>4. TypeOK'  BY <1>3, <1>8, <2>2, <2>3 DEF Fault, bytes, TypeOK
  <2>5. LocalsSet'  BY <1>2, <1>8, <2>3 DEF Fault, LocalsSet, TypeOK, IdleWork
  <2>. QED  BY <2>4, <2>5
<1>9. ASSUME NEW w \in Worker, WorkerDies(w)  PROVE TypeOK' /\ LocalsSet'
  <2>1. TypeOK'  BY <1>3, <1>9 DEF WorkerDies, bytes, TypeOK
  <2>2. LocalsSet'
    BY <1>2, <1>9 DEF WorkerDies, LocalsSet, TypeOK, IdleWork
  <2>. QED  BY <2>1, <2>2
<1>10. ASSUME NEW c \in Writer, WritePut(c)  PROVE TypeOK' /\ LocalsSet'
  <2>1. write[c].f \in File /\ write[c].pool \in Pool
    BY <1>10 DEF WritePut, TypeOK, LocalsSet
  <2>2. At(write[c].pool, write[c].f) \in Pool \X Key
    BY <2>1, AtType
  <2>3. work' \in [Worker -> WorkRow] /\ \A w \in Worker : /\ work'[w].pc = work[w].pc
                                                            /\ work'[w].t = work[w].t
                                                            /\ work'[w].f = work[w].f
    BY <1>10 DEF WritePut, TypeOK, WorkRow
  <2>4. stored' \subseteq Pool \X Key /\ latest' \subseteq stored'
    BY <1>10, <2>2 DEF WritePut, TypeOK
  <2>5. write' = [write EXCEPT ![c] = IdleWrite] /\ IdleWrite.f = None /\ IdleWrite.pool = None
    BY <1>10 DEF WritePut, IdleWrite
  <2>6. TypeOK'
    BY <1>10, <2>3, <2>4 DEF WritePut, TypeOK, IdleWrite
  <2>7. LocalsSet'
    BY <1>2, <2>3, <2>5 DEF TypeOK, LocalsSet
  <2>. QED  BY <2>6, <2>7
<1>11. ASSUME NEW c \in Writer, NEW f \in File, WriteRead(c, f)  PROVE TypeOK' /\ LocalsSet'
  <2>1. TypeOK'  BY <1>11 DEF WriteRead, bytes, TypeOK
  <2>2. LocalsSet'
    BY <1>2, <1>11, NoneIsNone DEF WriteRead, LocalsSet, TypeOK
  <2>. QED  BY <2>1, <2>2
<1>12. ASSUME NEW f \in File, DeleteFile(f)  PROVE TypeOK' /\ LocalsSet'
  <2>1. TypeOK'  BY <1>12 DEF DeleteFile, bytes, TypeOK
  <2>2. LocalsSet'  BY <1>2, <1>12 DEF DeleteFile, LocalsSet
  <2>. QED  BY <2>1, <2>2
<1>13. CASE UNCHANGED vars
  BY <1>2, <1>13 DEF vars, bytes, TypeOK, LocalsSet
<1>. QED
  BY <1>4, <1>5, <1>6, <1>7, <1>8, <1>9, <1>10, <1>11, <1>12, <1>13, StepTypeOK DEF Next, Run, Step

LEMMA WorldStays == [Next]_vars => world' = world
BY DEF Next, Run, vars, CreatePoolMigrationTask, GoIdle, ResetStale, Claim, Pick, Finish, Get,
       PutTarget, UpdatePool, CountRefs, DeleteSource, Progress, Fault, WorkerDies, WriteRead,
       WritePut, DeleteFile, Fail, Goto

-----------------------------------------------------------------------------
(* Who runs a task *)

Marks == RunsAreMarked /\ OneRunner

\* A worker that ends its run changes no task but its own, which nobody else runs.
LEMMA EndingKeepsMarks ==
  ASSUME TypeOK, Marks, world' = world, NEW w \in Worker,
         work' = [work EXCEPT ![w] = IdleWork],
         \A t \in Task : t # work[w].t => task'[t] = task[t]
  PROVE  Marks'
<1>. SUFFICES ASSUME ~Is("slow")
              PROVE  /\ \A v \in Worker : work'[v].t # None =>
                          task'[work'[v].t].status = "processing" /\ ~task'[work'[v].t].idle
                     /\ \A u, v \in Worker : u # v /\ work'[u].t # None => work'[u].t # work'[v].t
  BY DEF Marks, RunsAreMarked, OneRunner, Is
<1>1. work'[w].t = None /\ \A v \in Worker \ {w} : work'[v] = work[v]
  BY DEF TypeOK, IdleWork
<1>2. \A v \in Worker \ {w} : work[v].t # None => work[v].t \in Task /\ work[v].t # work[w].t
  BY DEF Marks, OneRunner, TypeOK, WorkRow
<1>. QED  BY <1>1, <1>2 DEF Marks, RunsAreMarked, OneRunner

\* So does a step that leaves everybody's task, or a mark on tasks nobody runs.
LEMMA RunningKeepsMarks ==
  ASSUME TypeOK, Marks, world' = world,
         \A v \in Worker : work'[v].t = work[v].t,
         ~Is("slow") => \A v \in Worker : work[v].t # None =>
           /\ task'[work[v].t].status = task[work[v].t].status
           /\ task'[work[v].t].idle => task[work[v].t].idle
  PROVE  Marks'
BY DEF Marks, RunsAreMarked, OneRunner, Is

LEMMA NextMarks ==
  ASSUME TypeOK, LocalsSet, Marks, [Next]_vars
  PROVE  Marks'
<1>1. world' = world  BY WorldStays
<1>2. \A v \in Worker : work[v].t # None => work[v].t \in Task /\ task[work[v].t] \in TaskRow
  BY DEF TypeOK, WorkRow
<1>3. ASSUME NEW t \in Task, CreatePoolMigrationTask(t)  PROVE Marks'
  <2>1. ~Is("slow") => \A v \in Worker : work[v].t # t
    BY <1>3, NoneIsNone DEF CreatePoolMigrationTask, Marks, RunsAreMarked
  <2>2. work' = work /\ \A u \in Task \ {t} : task'[u] = task[u]
    BY <1>3 DEF CreatePoolMigrationTask, TypeOK
  <2>. QED  BY <1>1, <1>2, <2>1, <2>2, RunningKeepsMarks
<1>4. ASSUME NEW t \in Task, GoIdle(t)  PROVE Marks'
  <2>1. ~Is("slow") => \A v \in Worker : work[v].t # t
    BY <1>4 DEF GoIdle
  <2>2. work' = work /\ \A u \in Task \ {t} : task'[u] = task[u]
    BY <1>4 DEF GoIdle, TypeOK
  <2>. QED  BY <1>1, <1>2, <2>1, <2>2, RunningKeepsMarks
<1>5. ASSUME NEW w \in Worker, ResetStale(w)  PROVE Marks'
  <2>1. work' = work /\ \A u \in Task : ~task[u].idle => task'[u] = task[u]
    BY <1>5 DEF ResetStale
  <2>2. ~Is("slow") => \A v \in Worker : work[v].t # None => ~task[work[v].t].idle
    BY DEF Marks, RunsAreMarked
  <2>. QED  BY <1>1, <1>2, <2>1, <2>2, RunningKeepsMarks
<1>6. ASSUME NEW w \in Worker, NEW t \in Task, Claim(w, t)  PROVE Marks'
  <2>. SUFFICES ASSUME ~Is("slow")
                PROVE  /\ \A v \in Worker : work'[v].t # None =>
                            task'[work'[v].t].status = "processing" /\ ~task'[work'[v].t].idle
                       /\ \A u, v \in Worker : u # v /\ work'[u].t # None => work'[u].t # work'[v].t
    BY <1>1 DEF Marks, RunsAreMarked, OneRunner, Is
  <2>1. work'[w].t = t /\ \A v \in Worker \ {w} : work'[v] = work[v]
    BY <1>6 DEF Claim, TypeOK, IdleWork
  <2>2. task'[t].status = "processing" /\ ~task'[t].idle /\ \A u \in Task \ {t} : task'[u] = task[u]
    BY <1>6 DEF Claim, TypeOK, TaskRow
  <2>3. \A v \in Worker : work[v].t # t
    BY <1>6, NoneIsNone DEF Claim, Marks, RunsAreMarked
  <2>. QED  BY <1>2, <2>1, <2>2, <2>3 DEF Marks, RunsAreMarked, OneRunner
<1>7. ASSUME NEW w \in Worker, Finish(w)  PROVE Marks'
  <2>1. work' = [work EXCEPT ![w] = IdleWork] /\ \A u \in Task : u # work[w].t => task'[u] = task[u]
    BY <1>7 DEF Finish, TypeOK
  <2>. QED  BY <1>1, <2>1, EndingKeepsMarks
<1>8. ASSUME NEW w \in Worker, Fail(w)  PROVE Marks'
  <2>1. work' = [work EXCEPT ![w] = IdleWork] /\ \A u \in Task : u # work[w].t => task'[u] = task[u]
    BY <1>8 DEF Fail, TypeOK
  <2>. QED  BY <1>1, <2>1, EndingKeepsMarks
<1>9. ASSUME NEW w \in Worker, WorkerDies(w)  PROVE Marks'
  <2>1. work' = [work EXCEPT ![w] = IdleWork] /\ task' = task
    BY <1>9 DEF WorkerDies
  <2>. QED  BY <1>1, <2>1, EndingKeepsMarks
<1>10. ASSUME NEW w \in Worker, Progress(w)  PROVE Marks'
  <2>1. \A v \in Worker : work'[v].t = work[v].t  BY <1>10 DEF Progress, TypeOK, WorkRow
  <2>2. work[w].t \in Task  BY <1>10, BusyType DEF Progress
  <2>3. /\ \A u \in Task \ {work[w].t} : task'[u] = task[u]
        /\ task'[work[w].t].status = task[work[w].t].status
        /\ ~task'[work[w].t].idle
    BY <1>10, <2>2 DEF Progress, TypeOK, TaskRow
  <2>. QED  BY <1>1, <1>2, <2>1, <2>3, RunningKeepsMarks
<1>11. ASSUME task' = task, \A v \in Worker : work'[v].t = work[v].t  PROVE Marks'
  BY <1>1, <1>11, RunningKeepsMarks
<1>12. ASSUME NEW w \in Worker, Step(w)  PROVE Marks'
  <2>1. CASE Finish(w)  BY <1>7, <2>1
  <2>2. CASE Progress(w)  BY <1>10, <2>2
  <2>3. CASE Get(w)
    <3>1. CASE task' = task /\ work' = [work EXCEPT ![w].pc = "put", ![w].now = At(world.src[work[w].t], work[w].f) \in latest]
      <4>1. \A v \in Worker : work'[v].t = work[v].t  BY <3>1 DEF TypeOK, WorkRow
      <4>. QED  BY <1>11, <3>1, <4>1
    <3>. QED  BY <1>8, <2>3, <3>1 DEF Get
  <2>4. CASE Pick(w)
    <3>1. task' = task /\ \A v \in Worker : work'[v].t = work[v].t
      BY <2>4 DEF Pick, TypeOK, WorkRow
    <3>. QED  BY <1>11, <3>1
  <2>5. CASE PutTarget(w) \/ UpdatePool(w) \/ CountRefs(w) \/ DeleteSource(w)
    <3>1. task' = task /\ \E pc \in WorkPC : Goto(w, pc)
      BY <2>5 DEF PutTarget, UpdatePool, CountRefs, DeleteSource, WorkPC
    <3>2. \A v \in Worker : work'[v].t = work[v].t
      BY <3>1 DEF Goto, TypeOK, WorkRow
    <3>. QED  BY <1>11, <3>1, <3>2
  <2>. QED  BY <1>12, <2>1, <2>2, <2>3, <2>4, <2>5 DEF Step
<1>13. ASSUME NEW c \in Writer, WritePut(c)  PROVE Marks'
  <2>1. task' = task /\ \A v \in Worker : work'[v].t = work[v].t
    BY <1>13 DEF WritePut, TypeOK, WorkRow
  <2>. QED  BY <1>11, <2>1
<1>14. CASE \/ \E c \in Writer, f \in File : WriteRead(c, f)
            \/ \E f \in File : DeleteFile(f)
            \/ UNCHANGED vars
  <2>1. task' = task /\ work' = work  BY <1>14 DEF WriteRead, DeleteFile, vars
  <2>. QED  BY <1>11, <2>1
<1>. QED
  BY <1>3, <1>4, <1>5, <1>6, <1>8, <1>9, <1>12, <1>13, <1>14 DEF Next, Run, Step, Fault

-----------------------------------------------------------------------------
(* What a completed task leaves behind *)

\* Rows move into the target of a task only, and deleted ones stay deleted.
LEMMA RowsMove ==
  ASSUME [Next]_vars
  PROVE  live' \subseteq live /\ (pool' = pool \/ \E w \in Worker : UpdatePool(w))
BY DEF Next, Run, vars, CreatePoolMigrationTask, GoIdle, ResetStale, Claim, Pick, Finish, Get,
       PutTarget, UpdatePool, CountRefs, DeleteSource, Progress, Fault, WorkerDies, WriteRead,
       WritePut, DeleteFile

\* A source pool that no task fills only loses rows.
LEMMA LeftShrinks ==
  ASSUME TypeOK, LocalsSet, OneWay, [Next]_vars, NEW t \in Task
  PROVE  Left(t)' \subseteq Left(t)
<1>1. world' = world  BY WorldStays
<1>2. live' \subseteq live  BY RowsMove
<1>3. ASSUME NEW f \in live', pool'[f] = world.src[t]  PROVE pool[f] = world.src[t]
  <2>1. CASE pool' = pool  BY <1>3, <2>1
  <2>2. ASSUME NEW w \in Worker, UpdatePool(w), pool[f] # world.src[t]  PROVE FALSE
    <3>1. work[w].t \in Task  BY <2>2, BusyType DEF UpdatePool
    <3>2. pool'[f] = pool[f] \/ pool'[f] = world.dst[work[w].t]
      BY <1>2, <2>2 DEF UpdatePool, TypeOK
    <3>. QED  BY <1>3, <2>2, <3>1, <3>2 DEF OneWay
  <2>. QED  BY <2>1, <2>2, RowsMove
<1>. QED  BY <1>1, <1>2, <1>3 DEF Left

\* A task becomes completed when it finds its source pool empty.
LEMMA Completing ==
  ASSUME TypeOK, LocalsSet, [Next]_vars, NEW t \in Task, task'[t].status = "completed"
  PROVE  task[t].status = "completed" \/ Left(t) = {}
<1>1. CASE \E u \in Task : CreatePoolMigrationTask(u)
  BY <1>1 DEF CreatePoolMigrationTask, TypeOK
<1>2. CASE \E u \in Task : GoIdle(u)
  BY <1>2 DEF GoIdle, TypeOK, TaskRow
<1>3. CASE \E w \in Worker : ResetStale(w)
  <2>1. task'[t] = task[t] \/ task'[t] = [task[t] EXCEPT !.status = "pending", !.idle = FALSE]
    BY <1>3 DEF ResetStale
  <2>2. [task[t] EXCEPT !.status = "pending", !.idle = FALSE].status = "pending"
    BY DEF TypeOK, TaskRow
  <2>. QED  BY <2>1, <2>2
<1>4. CASE \E w \in Worker, u \in Task : Claim(w, u)
  BY <1>4 DEF Claim, TypeOK, TaskRow
<1>5. CASE \E w \in Worker : Finish(w)
  BY <1>5 DEF Finish, TypeOK
<1>6. ASSUME NEW w \in Worker, Fail(w)  PROVE task[t].status = "completed"
  BY <1>6 DEF Fail, TypeOK, TaskRow
<1>7. CASE \E w \in Worker : Progress(w)
  BY <1>7 DEF Progress, TypeOK, TaskRow
<1>8. CASE task' = task
  BY <1>8
<1>9. ASSUME NEW w \in Worker, Step(w)
      PROVE  Finish(w) \/ Fail(w) \/ Progress(w) \/ task' = task
  BY <1>9 DEF Step, Pick, Get, PutTarget, UpdatePool, CountRefs, DeleteSource
<1>10. ASSUME NEW w \in Worker, Fault(w) \/ WorkerDies(w)  PROVE Fail(w) \/ task' = task
  BY <1>10 DEF Fault, WorkerDies
<1>11. CASE \/ \E c \in Writer : WritePut(c) \/ \E f \in File : WriteRead(c, f)
            \/ \E f \in File : DeleteFile(f)
            \/ UNCHANGED vars
  <2>1. task' = task  BY <1>11 DEF WritePut, WriteRead, DeleteFile, vars
  <2>. QED  BY <1>8, <2>1
<1>. QED
  BY <1>1, <1>2, <1>3, <1>4, <1>5, <1>6, <1>7, <1>8, <1>9, <1>10, <1>11 DEF Next, Run, Step

LEMMA NextCompletedMoved ==
  ASSUME TypeOK, LocalsSet, CompletedMoved, [Next]_vars
  PROVE  CompletedMoved'
<1>1. world' = world /\ (OneWay' => OneWay)  BY WorldStays, SameWorld DEF OneWay, Site, Apart
<1>. SUFFICES ASSUME OneWay, NEW t \in Task, task'[t].status = "completed"
              PROVE  Left(t)' = {}
  BY <1>1 DEF CompletedMoved
<1>2. Left(t) = {}  BY Completing DEF CompletedMoved
<1>. QED  BY <1>2, LeftShrinks

-----------------------------------------------------------------------------
(* The bytes of the rows *)

\* A worker that is at a statement with something to be lost is where it was.
Stands(w) ==
  work'[w].pc \in {"update", "count", "delete"} =>
    work'[w].pc = work[w].pc /\ work'[w].t = work[w].t /\ work'[w].f = work[w].f

LEMMA SameConditions ==
  ASSUME world' = world
  PROVE  /\ (KeysCounted /\ OneWay)' => KeysCounted /\ OneWay
         /\ \A p, f : At(p, f)' = At(p, f)
BY DEF KeysCounted, OneWay, Apart, Site, At, KeyOf

\* The conditions of the two invariants, without the worlds they are about.
Rows == \A f \in live : At(pool[f], f) \in stored

Safe(w) ==
  /\ work[w].pc = "update" => At(world.dst[work[w].t], work[w].f) \in stored
  /\ work[w].pc = "count" /\ work[w].f \in live => pool[work[w].f] # world.src[work[w].t]
  /\ work[w].pc = "delete" =>
       \A g \in live : KeyOf(g) = KeyOf(work[w].f) => pool[g] # world.src[work[w].t]

\* Bytes that are added, and workers that stand or withdraw, harm nobody.
LEMMA AddingIsSafe ==
  ASSUME Rows, world' = world, pool' = pool, live' \subseteq live, stored \subseteq stored',
         NEW w, Safe(w), Stands(w)
  PROVE  Rows' /\ Safe(w)'
<1>1. \A p, f : At(p, f)' = At(p, f)  BY SameConditions
<1>2. Rows'  BY <1>1 DEF Rows
<1>3. Safe(w)'  BY <1>1 DEF Safe, Stands, KeyOf
<1>. QED  BY <1>2, <1>3

LEMMA StepSafe ==
  ASSUME TypeOK, LocalsSet, KeysCounted, OneWay, Rows, \A v \in Worker : Safe(v),
         NEW w \in Worker, Step(w)
  PROVE  Rows' /\ \A v \in Worker : Safe(v)'
<1>. DEFINE t == work[w].t
            f == work[w].f
<1>1. work[w].pc # "idle" /\ world' = world
  BY DEF Step, Pick, Finish, Get, PutTarget, UpdatePool, CountRefs, DeleteSource, Progress
<1>2. /\ t \in Task /\ world.src[t] \in Pool /\ world.dst[t] \in Pool
      /\ work[w].pc # "pick" => f \in File
  BY <1>1, BusyType
<1>3. \A p, g : At(p, g)' = At(p, g)  BY <1>1, SameConditions
<1>4. ASSUME work' = [work EXCEPT ![w] = work'[w]], NEW v \in Worker, v # w  PROVE Stands(v)
  BY <1>4 DEF TypeOK, Stands
<1>5. ASSUME pool' = pool, live' = live, stored \subseteq stored',
             work' = [work EXCEPT ![w] = work'[w]], Safe(w)'
      PROVE  Rows' /\ \A v \in Worker : Safe(v)'
  <2>1. Rows'  BY <1>3, <1>5 DEF Rows
  <2>2. \A v \in Worker : v # w => Safe(v)'  BY <1>1, <1>4, <1>5, AddingIsSafe
  <2>. QED  BY <1>5, <2>1, <2>2
<1>6. CASE Pick(w)
  <2>1. PICK g \in Left(t) :
          work' = [work EXCEPT ![w].f = g, ![w].now = FALSE,
                               ![w].pc = IF Apart(t) THEN "get" ELSE "update"]
    BY <1>6 DEF Pick
  <2>2. /\ work'[w].t = t /\ work'[w].f = g
        /\ work'[w].pc = IF Apart(t) THEN "get" ELSE "update"
        /\ work' = [work EXCEPT ![w] = work'[w]]
    BY <2>1 DEF TypeOK, WorkRow
  <2>3. ~Apart(t) => At(world.dst[t], g) = At(pool[g], g)
    BY <2>1 DEF Apart, At, Left
  <2>4. ~Apart(t) => At(world.dst[t], g) \in stored
    BY <2>1, <2>3 DEF Rows, Left
  <2>5. Safe(w)'
    BY <1>1, <1>3, <1>6, <2>2, <2>4 DEF Safe, Pick, bytes
  <2>. QED  BY <1>5, <1>6, <2>2, <2>5 DEF Pick, bytes
<1>7. CASE Finish(w)
  <2>1. work' = [work EXCEPT ![w] = work'[w]] /\ work'[w].pc = "idle"
    BY <1>7 DEF Finish, TypeOK, IdleWork
  <2>2. Safe(w)'  BY <2>1 DEF Safe
  <2>. QED  BY <1>5, <1>7, <2>1, <2>2 DEF Finish, bytes
<1>8. CASE Get(w)
  <2>1. work' = [work EXCEPT ![w] = work'[w]] /\ work'[w].pc \in {"put", "idle"}
    BY <1>8 DEF Get, Fail, TypeOK, IdleWork, WorkRow
  <2>2. Safe(w)'  BY <2>1 DEF Safe
  <2>. QED  BY <1>5, <1>8, <2>1, <2>2 DEF Get, bytes
<1>9. CASE PutTarget(w)
  <2>1. /\ work' = [work EXCEPT ![w] = work'[w]]
        /\ work'[w].pc = "update" /\ work'[w].t = t /\ work'[w].f = f
    BY <1>9 DEF PutTarget, Goto, TypeOK, WorkRow
  <2>2. Safe(w)'  BY <1>1, <1>3, <1>9, <2>1 DEF Safe, PutTarget
  <2>. QED  BY <1>5, <1>9, <2>1, <2>2 DEF PutTarget
<1>10. CASE UpdatePool(w)
  <2>1. /\ work' = [work EXCEPT ![w] = work'[w]]
        /\ work'[w].pc \in {"count", "progress"} /\ work'[w].t = t /\ work'[w].f = f
    BY <1>10 DEF UpdatePool, Goto, TypeOK, WorkRow
  <2>2. /\ f \in live => pool'[f] = world.dst[t]
        /\ \A g \in live : g # f => pool'[g] = pool[g]
        /\ live' = live /\ stored' = stored /\ At(world.dst[t], f) \in stored
    BY <1>10 DEF UpdatePool, TypeOK, Safe, bytes
  <2>3. Rows'  BY <1>3, <2>2 DEF Rows
  <2>4. Safe(w)'  BY <1>1, <1>2, <2>1, <2>2 DEF Safe, OneWay
  <2>5. ASSUME NEW v \in Worker, v # w  PROVE Safe(v)'
    <3>1. work'[v] = work[v]  BY <2>1, <2>5 DEF TypeOK
    <3>2. work[v].pc \in {"count", "delete"} => work[v].t \in Task
      BY BusyType
    <3>3. ASSUME NEW g \in live, NEW u \in Task, pool[g] # world.src[u]
          PROVE  pool'[g] # world.src[u]
      BY <1>2, <2>2, <3>3 DEF OneWay
    <3>. QED  BY <1>1, <1>3, <2>2, <3>1, <3>2, <3>3 DEF Safe, KeyOf
  <2>. QED  BY <2>3, <2>4, <2>5
<1>11. CASE CountRefs(w)
  <2>. DEFINE refs == {g \in live : /\ pool[g] = world.src[t]
                                    /\ world.own[g] /\ KeyOf(g) = KeyOf(f)}
  <2>1. /\ work' = [work EXCEPT ![w] = work'[w]]
        /\ work'[w].pc = IF refs = {} THEN "delete" ELSE "progress"
        /\ work'[w].t = t /\ work'[w].f = f
    BY <1>11 DEF CountRefs, Goto, TypeOK, WorkRow
  <2>2. ASSUME refs = {}, NEW g \in live, KeyOf(g) = KeyOf(f)
        PROVE  pool[g] # world.src[t]
    <3>1. CASE g = f  BY <1>11, <3>1 DEF CountRefs, Safe
    <3>2. CASE g # f
      <4>1. world.own[g]  BY <1>2, <1>11, <2>2, <3>2 DEF KeysCounted, KeyOf, TypeOK, CountRefs
      <4>. QED  BY <2>2, <4>1
    <3>. QED  BY <3>1, <3>2
  <2>3. Safe(w)'  BY <1>1, <1>11, <2>1, <2>2 DEF Safe, CountRefs, KeyOf
  <2>. QED  BY <1>5, <1>11, <2>1, <2>3 DEF CountRefs, bytes
<1>12. CASE DeleteSource(w)
  <2>. DEFINE from == At(world.src[t], f)
  <2>1. /\ work' = [work EXCEPT ![w] = work'[w]] /\ work'[w].pc = "progress"
        /\ pool' = pool /\ live' = live /\ stored' = stored \ {from}
    BY <1>12 DEF DeleteSource, Goto, TypeOK, WorkRow
  <2>2. Apart(t)  BY <1>12 DEF DeleteSource, LocalsSet
  <2>3. ASSUME NEW g \in live  PROVE At(pool[g], g) # from
    <3>1. KeyOf(g) = KeyOf(f) => pool[g] # world.src[t]  BY <1>12 DEF DeleteSource, Safe
    <3>2. pool[g] \in Pool  BY DEF TypeOK
    <3>3. Site(pool[g]) = Site(world.src[t]) => pool[g] = world.src[t]
      BY <1>2, <2>2, <3>2, OnlyItself
    <3>. QED  BY <3>1, <3>3 DEF At
  <2>4. Rows'  BY <1>3, <2>1, <2>3 DEF Rows
  <2>5. ASSUME NEW v \in Worker, v # w  PROVE Safe(v)'
    <3>1. work'[v] = work[v]  BY <2>1, <2>5 DEF TypeOK
    <3>2. work[v].pc = "update" => At(world.dst[work[v].t], work[v].f) # from
      <4>1. work[v].pc = "update" => work[v].t \in Task  BY BusyType
      <4>2. \A s \in Task : Site(world.dst[s]) # Site(world.src[t])
        BY <1>2, <2>2 DEF OneWay
      <4>. QED  BY <4>1, <4>2 DEF At
    <3>. QED  BY <1>1, <1>3, <2>1, <3>1, <3>2 DEF Safe, KeyOf
  <2>6. Safe(w)'  BY <2>1 DEF Safe
  <2>. QED  BY <2>4, <2>5, <2>6
<1>13. CASE Progress(w)
  <2>1. work' = [work EXCEPT ![w] = work'[w]] /\ work'[w].pc = "pick"
    BY <1>13 DEF Progress, TypeOK, WorkRow
  <2>2. Safe(w)'  BY <2>1 DEF Safe
  <2>. QED  BY <1>5, <1>13, <2>1, <2>2 DEF Progress, bytes
<1>. QED  BY <1>6, <1>7, <1>8, <1>9, <1>10, <1>11, <1>12, <1>13 DEF Step

\* Nothing else deletes bytes or takes a row elsewhere.
LEMMA NextSafe ==
  ASSUME TypeOK, LocalsSet, MovesAreSafe, RowsReadable, [Next]_vars
  PROVE  MovesAreSafe' /\ RowsReadable'
<1>1. world' = world  BY WorldStays
<1>. SUFFICES ASSUME KeysCounted, OneWay
              PROVE  Rows' /\ \A v \in Worker : Safe(v)'
  BY <1>1, SameConditions DEF MovesAreSafe, RowsReadable, Rows, Safe
<1>2. Rows /\ \A v \in Worker : Safe(v)
  BY DEF MovesAreSafe, RowsReadable, Rows, Safe
<1>3. ASSUME pool' = pool, live' \subseteq live, stored \subseteq stored',
             \A v \in Worker : Stands(v)
      PROVE  Rows' /\ \A v \in Worker : Safe(v)'
  <2>1. \A p, g : At(p, g)' = At(p, g)  BY <1>1, SameConditions
  <2>2. Rows'  BY <1>2, <1>3, <2>1 DEF Rows
  <2>3. \A v \in Worker : Safe(v)'  BY <1>1, <1>2, <1>3, AddingIsSafe
  <2>. QED  BY <2>2, <2>3
<1>4. CASE \/ \E t \in Task : CreatePoolMigrationTask(t) \/ GoIdle(t)
           \/ \E w \in Worker : ResetStale(w)
           \/ \E c \in Writer, f \in File : WriteRead(c, f)
           \/ \E f \in File : DeleteFile(f)
           \/ UNCHANGED vars
  <2>1. work' = work /\ pool' = pool /\ live' \subseteq live /\ stored' = stored
    BY <1>4 DEF CreatePoolMigrationTask, GoIdle, ResetStale, WriteRead, DeleteFile, vars, bytes
  <2>. QED  BY <1>3, <2>1 DEF Stands
<1>5. ASSUME NEW w \in Worker,
             \/ \E t \in Task : Claim(w, t)
             \/ Fault(w) \/ WorkerDies(w)
      PROVE  Rows' /\ \A v \in Worker : Safe(v)'
  <2>1. pool' = pool /\ live' = live /\ stored' = stored
    BY <1>5 DEF Claim, Fault, WorkerDies, bytes
  <2>2. /\ work'[w].pc \in {"pick", "idle"}
        /\ \A v \in Worker : v # w => work'[v] = work[v]
    <3>1. ASSUME NEW t \in Task, Claim(w, t)
          PROVE  /\ work'[w].pc = "pick"
                 /\ \A v \in Worker : v # w => work'[v] = work[v]
      <4>. DEFINE r == [IdleWork EXCEPT !.pc = "pick", !.t = t]
      <4>1. work' = [work EXCEPT ![w] = r]  BY <3>1 DEF Claim
      <4>2. r.pc = "pick"  BY DEF IdleWork
      <4>. HIDE DEF r
      <4>. QED  BY <4>1, <4>2 DEF TypeOK
    <3>2. CASE Fault(w) \/ WorkerDies(w)
      BY <3>2 DEF Fault, Fail, WorkerDies, TypeOK, IdleWork
    <3>. QED  BY <1>5, <3>1, <3>2
  <2>. QED  BY <1>3, <2>1, <2>2 DEF Stands
<1>6. ASSUME NEW c \in Writer, WritePut(c)
      PROVE  Rows' /\ \A v \in Worker : Safe(v)'
  <2>1. pool' = pool /\ live' = live /\ stored \subseteq stored'
    BY <1>6 DEF WritePut
  <2>2. \A v \in Worker : /\ work'[v].pc = work[v].pc /\ work'[v].t = work[v].t
                          /\ work'[v].f = work[v].f
    BY <1>6 DEF WritePut, TypeOK, WorkRow
  <2>. QED  BY <1>3, <2>1, <2>2 DEF Stands
<1>7. ASSUME NEW w \in Worker, Step(w)
      PROVE  Rows' /\ \A v \in Worker : Safe(v)'
  BY <1>2, <1>7, StepSafe
<1>. QED  BY <1>4, <1>5, <1>6, <1>7 DEF Next, Run, Step

-----------------------------------------------------------------------------
(* The bytes written last *)

\* The conditions of the two invariants, without the worlds they are about.
RowsLatest == \A f \in live : At(pool[f], f) \in latest

Quiet ==
  \A c \in Writer :
    write[c] # IdleWrite => /\ \A w \in Worker : work[w].pc = "idle"
                            /\ write[c].pool = pool[write[c].f]

Copied(w) ==
  LET from == At(world.src[work[w].t], work[w].f)
  IN  /\ work[w].pc = "get" /\ from \in stored => from \in latest
      /\ work[w].pc = "put" => work[w].now
      /\ work[w].pc = "update" => At(world.dst[work[w].t], work[w].f) \in latest

\* They hold of a world or do not, and where they do no row has its key with
\* another one.
LEMMA SameKeys ==
  ASSUME world' = world
  PROVE  /\ (OneWay /\ Is("calm") /\ KeysApart)' <=> OneWay /\ Is("calm") /\ KeysApart
         /\ KeysApart => KeysCounted
BY DEF KeysApart, KeysCounted, OneWay, Is, Apart, Site

\* A worker that stands still has what it had, if no bytes become old but by
\* going away, what comes is new, and the copy it is about to name stays.
LEMMA CopyStays ==
  ASSUME world' = world, NEW v \in Worker, work'[v] = work[v], Copied(v),
         \A l \in latest : l \in latest' \/ l \notin stored',
         \A l \in stored' : l \in stored \/ l \in latest',
         work[v].pc = "update" => At(world.dst[work[v].t], work[v].f) \in latest'
  PROVE  Copied(v)'
<1>1. \A p, f : At(p, f)' = At(p, f)  BY SameConditions
<1>. QED  BY <1>1 DEF Copied

\* Every statement of a worker keeps the rows at the bytes written last: it
\* copies them whole, and deletes what no row and no copy needs.
LEMMA StepCopies ==
  ASSUME TypeOK, LocalsSet, KeysCounted, OneWay, MovesAreSafe, RowsLatest,
         \A v \in Worker : Copied(v), NEW w \in Worker, Step(w)
  PROVE  RowsLatest' /\ \A v \in Worker : Copied(v)'
<1>. DEFINE t == work[w].t
            f == work[w].f
<1>1. work[w].pc # "idle" /\ world' = world /\ live' = live
  BY DEF Step, Pick, Finish, Get, PutTarget, UpdatePool, CountRefs, DeleteSource, Progress
<1>2. /\ t \in Task /\ world.src[t] \in Pool /\ world.dst[t] \in Pool
      /\ work[w].pc # "pick" => f \in File
  BY <1>1, BusyType
<1>3. \A p, g : At(p, g)' = At(p, g)  BY <1>1, SameConditions
<1>4. /\ work \in [Worker -> WorkRow] /\ latest \subseteq stored
      /\ \A v \in Worker : Copied(v)
  BY DEF TypeOK
<1>5. ASSUME pool' = pool, UNCHANGED bytes, work' = [work EXCEPT ![w] = work'[w]], Copied(w)'
      PROVE  RowsLatest' /\ \A v \in Worker : Copied(v)'
  <2>1. RowsLatest'  BY <1>1, <1>3, <1>5 DEF RowsLatest, bytes
  <2>2. ASSUME NEW v \in Worker, v # w  PROVE Copied(v)'
    <3>1. work'[v] = work[v]  BY <1>4, <1>5, <2>2
    <3>. QED  BY <1>1, <1>3, <1>4, <1>5, <3>1 DEF Copied, bytes
  <2>. QED  BY <1>5, <2>1, <2>2
<1>6. CASE Pick(w)
  <2>1. PICK g \in Left(t) :
          work' = [work EXCEPT ![w].f = g, ![w].now = FALSE,
                               ![w].pc = IF Apart(t) THEN "get" ELSE "update"]
    BY <1>6 DEF Pick
  <2>2. /\ work'[w].t = t /\ work'[w].f = g
        /\ work'[w].pc = IF Apart(t) THEN "get" ELSE "update"
        /\ work' = [work EXCEPT ![w] = work'[w]]
    BY <2>1 DEF TypeOK, WorkRow
  <2>3. At(world.src[t], g) \in latest  BY <2>1 DEF RowsLatest, Left
  <2>4. ~Apart(t) => At(world.dst[t], g) = At(world.src[t], g)  BY DEF Apart, At
  <2>5. UNCHANGED bytes /\ pool' = pool  BY <1>6 DEF Pick
  <2>6. Copied(w)'  BY <1>1, <1>3, <2>2, <2>3, <2>4, <2>5 DEF Copied, bytes
  <2>. QED  BY <1>5, <2>2, <2>5, <2>6
<1>7. CASE Finish(w) \/ Progress(w) \/ CountRefs(w)
  <2>1. work' = [work EXCEPT ![w] = work'[w]] /\ work'[w].pc \in {"idle", "pick", "delete", "progress"}
    BY <1>7 DEF Finish, Progress, CountRefs, Goto, TypeOK, IdleWork, WorkRow
  <2>2. Copied(w)'  BY <2>1 DEF Copied
  <2>3. UNCHANGED bytes /\ pool' = pool  BY <1>7 DEF Finish, Progress, CountRefs
  <2>. QED  BY <1>5, <2>1, <2>2, <2>3
<1>8. CASE Get(w)
  <2>1. UNCHANGED bytes /\ pool' = pool  BY <1>8 DEF Get
  <2>2. CASE Fail(w)
    <3>1. work' = [work EXCEPT ![w] = work'[w]] /\ work'[w].pc = "idle"
      BY <2>2 DEF Fail, TypeOK, IdleWork
    <3>. QED  BY <1>5, <2>1, <3>1 DEF Copied
  <2>3. CASE ~Fail(w)
    <3>1. /\ At(world.src[t], f) \in stored /\ work[w].pc = "get"
          /\ work' = [work EXCEPT ![w].pc = "put", ![w].now = At(world.src[t], f) \in latest]
      BY <1>8, <2>3 DEF Get
    <3>2. At(world.src[t], f) \in latest  BY <1>4, <3>1 DEF Copied
    <3>3. work' = [work EXCEPT ![w] = work'[w]] /\ work'[w].pc = "put" /\ work'[w].now
      BY <1>4, <3>1, <3>2 DEF WorkRow
    <3>. QED  BY <1>5, <2>1, <3>3 DEF Copied
  <2>. QED  BY <2>2, <2>3
<1>9. CASE PutTarget(w)
  <2>. DEFINE to == At(world.dst[t], f)
  <2>1. work[w].now  BY <1>4, <1>9 DEF PutTarget, Copied
  <2>2. stored' = stored \cup {to} /\ latest' = latest \cup {to} /\ pool' = pool
    BY <1>9, <2>1 DEF PutTarget
  <2>3. /\ work' = [work EXCEPT ![w] = work'[w]]
        /\ work'[w].pc = "update" /\ work'[w].t = t /\ work'[w].f = f
    BY <1>9 DEF PutTarget, Goto, TypeOK, WorkRow
  <2>4. RowsLatest'  BY <1>1, <1>3, <2>2 DEF RowsLatest
  <2>5. Copied(w)'  BY <1>1, <1>3, <2>2, <2>3 DEF Copied
  <2>6. ASSUME NEW v \in Worker, v # w  PROVE Copied(v)'
    <3>1. work'[v] = work[v]  BY <1>4, <2>3, <2>6
    <3>2. work[v].pc = "update" => At(world.dst[work[v].t], work[v].f) \in latest'
      BY <1>4, <2>2 DEF Copied
    <3>. HIDE DEF to
    <3>. QED  BY <1>1, <1>4, <2>2, <3>1, <3>2, CopyStays
  <2>. QED  BY <2>4, <2>5, <2>6
<1>10. CASE UpdatePool(w)
  <2>1. /\ work' = [work EXCEPT ![w] = work'[w]]
        /\ work'[w].pc \in {"count", "progress"}
    BY <1>10 DEF UpdatePool, Goto, TypeOK, WorkRow
  <2>2. /\ f \in live => pool'[f] = world.dst[t]
        /\ \A g \in live : g # f => pool'[g] = pool[g]
        /\ UNCHANGED bytes
    BY <1>10 DEF UpdatePool, TypeOK
  <2>3. At(world.dst[t], f) \in latest  BY <1>4, <1>10 DEF UpdatePool, Copied
  <2>4. RowsLatest'  BY <1>1, <1>3, <2>2, <2>3 DEF RowsLatest, bytes
  <2>5. Copied(w)'  BY <2>1 DEF Copied
  <2>6. ASSUME NEW v \in Worker, v # w  PROVE Copied(v)'
    <3>1. work'[v] = work[v]  BY <1>4, <2>1, <2>6
    <3>. QED  BY <1>1, <1>3, <1>4, <2>2, <3>1 DEF Copied, bytes
  <2>. QED  BY <2>4, <2>5, <2>6
<1>11. CASE DeleteSource(w)
  <2>. DEFINE from == At(world.src[t], f)
  <2>1. /\ work' = [work EXCEPT ![w] = work'[w]] /\ work'[w].pc = "progress"
        /\ pool' = pool /\ stored' = stored \ {from} /\ latest' = latest \ {from}
    BY <1>11 DEF DeleteSource, Goto, TypeOK, WorkRow
  <2>2. Apart(t)  BY <1>11 DEF DeleteSource, LocalsSet
  <2>3. ASSUME NEW g \in live  PROVE At(pool[g], g) # from
    <3>1. KeyOf(g) = KeyOf(f) => pool[g] # world.src[t]  BY <1>11 DEF DeleteSource, MovesAreSafe
    <3>2. pool[g] \in Pool  BY DEF TypeOK
    <3>3. Site(pool[g]) = Site(world.src[t]) => pool[g] = world.src[t]
      BY <1>2, <2>2, <3>2, OnlyItself
    <3>. QED  BY <3>1, <3>3 DEF At
  <2>4. RowsLatest'  BY <1>1, <1>3, <2>1, <2>3 DEF RowsLatest
  <2>5. Copied(w)'  BY <2>1 DEF Copied
  <2>6. ASSUME NEW v \in Worker, v # w  PROVE Copied(v)'
    <3>1. work'[v] = work[v]  BY <1>4, <2>1, <2>6
    <3>2. ASSUME work[v].pc = "update" PROVE At(world.dst[work[v].t], work[v].f) \in latest'
      <4>1. work[v].t \in Task  BY <3>2, BusyType
      <4>2. Site(world.dst[work[v].t]) # Site(world.src[t])  BY <1>2, <2>2, <4>1 DEF OneWay
      <4>3. At(world.dst[work[v].t], work[v].f) # from  BY <4>2 DEF At
      <4>. QED  BY <1>4, <2>1, <3>2, <4>3 DEF Copied
    <3>. HIDE DEF from
    <3>. QED  BY <1>1, <1>4, <2>1, <3>1, <3>2, CopyStays
  <2>. QED  BY <2>4, <2>5, <2>6
<1>. QED  BY <1>6, <1>7, <1>8, <1>9, <1>10, <1>11 DEF Step

\* Where no write overlaps a migration, writers and workers keep out of each
\* other's way, so that writers put new bytes where the row is.
LEMMA NextCopies ==
  ASSUME TypeOK, LocalsSet, MovesAreSafe, CopiesAreLatest, WritesSurvive, [Next]_vars
  PROVE  CopiesAreLatest' /\ WritesSurvive'
<1>1. world' = world  BY WorldStays
<1>2. SUFFICES ASSUME OneWay, Is("calm"), KeysApart
               PROVE  RowsLatest' /\ Quiet' /\ \A v \in Worker : Copied(v)'
  BY <1>1, SameKeys DEF CopiesAreLatest, WritesSurvive, RowsLatest, Quiet, Copied
<1>3. RowsLatest /\ Quiet /\ \A v \in Worker : Copied(v)
  BY <1>2 DEF CopiesAreLatest, WritesSurvive, RowsLatest, Quiet, Copied
<1>4. \A p, g : At(p, g)' = At(p, g)  BY <1>1, SameConditions
<1>5. ASSUME pool' = pool, live' \subseteq live, UNCHANGED bytes,
             \A v \in Worker : work'[v] = work[v] \/ work'[v].pc \in {"idle", "pick"}
      PROVE  RowsLatest' /\ \A v \in Worker : Copied(v)'
  <2>1. RowsLatest'  BY <1>3, <1>4, <1>5 DEF RowsLatest, bytes
  <2>2. \A v \in Worker : Copied(v)'  BY <1>1, <1>3, <1>4, <1>5 DEF Copied, bytes
  <2>. QED  BY <2>1, <2>2
<1>6. CASE \/ \E t \in Task : CreatePoolMigrationTask(t) \/ GoIdle(t)
           \/ \E w \in Worker : ResetStale(w)
           \/ \E f \in File : DeleteFile(f)
           \/ UNCHANGED vars
  <2>1. UNCHANGED <<work, write, pool, bytes>> /\ live' \subseteq live
    BY <1>6 DEF CreatePoolMigrationTask, GoIdle, ResetStale, DeleteFile, vars, bytes
  <2>2. Quiet'  BY <1>3, <2>1 DEF Quiet
  <2>. QED  BY <1>5, <2>1, <2>2
<1>7. ASSUME NEW w \in Worker, NEW t \in Task, Claim(w, t)
      PROVE  RowsLatest' /\ Quiet' /\ \A v \in Worker : Copied(v)'
  <2>. DEFINE r == [IdleWork EXCEPT !.pc = "pick", !.t = t]
  <2>1. work' = [work EXCEPT ![w] = r] /\ UNCHANGED <<pool, live, bytes, write>>
    BY <1>7 DEF Claim
  <2>2. r.pc = "pick"  BY DEF IdleWork
  <2>. HIDE DEF r
  <2>3. \A v \in Worker : work'[v] = work[v] \/ work'[v].pc = "pick"  BY <2>1, <2>2 DEF TypeOK
  <2>4. Quiet'  BY <1>2, <1>7, <2>1 DEF Claim, Quiet
  <2>. QED  BY <1>5, <2>1, <2>3, <2>4
<1>8. ASSUME NEW w \in Worker, Fault(w) \/ WorkerDies(w)
      PROVE  RowsLatest' /\ Quiet' /\ \A v \in Worker : Copied(v)'
  <2>1. work' = [work EXCEPT ![w] = IdleWork] /\ UNCHANGED <<pool, live, bytes, write>>
    BY <1>8 DEF Fault, Fail, WorkerDies
  <2>2. \A v \in Worker : work'[v] = work[v] \/ work'[v].pc = "idle"
    BY <2>1 DEF TypeOK, IdleWork
  <2>3. Quiet'  BY <1>3, <2>1, <2>2 DEF Quiet
  <2>. QED  BY <1>5, <2>1, <2>2, <2>3
<1>9. ASSUME NEW c \in Writer, NEW f \in File, WriteRead(c, f)
      PROVE  RowsLatest' /\ Quiet' /\ \A v \in Worker : Copied(v)'
  <2>1. write' = [write EXCEPT ![c] = [f |-> f, pool |-> pool[f]]] /\ UNCHANGED <<pool, live, bytes, work>>
    BY <1>9 DEF WriteRead
  <2>2. \A w \in Worker : work[w].pc = "idle"  BY <1>2, <1>9 DEF WriteRead
  <2>3. Quiet'  BY <1>3, <2>1, <2>2 DEF Quiet, TypeOK
  <2>. QED  BY <1>5, <2>1, <2>3
<1>10. ASSUME NEW c \in Writer, WritePut(c)
       PROVE  RowsLatest' /\ Quiet' /\ \A v \in Worker : Copied(v)'
  <2>. DEFINE f == write[c].f
              to == At(write[c].pool, f)
  <2>1. /\ f # None /\ latest' = {l \in latest : l[2] # to[2]} \cup {to}
        /\ write' = [write EXCEPT ![c] = IdleWrite] /\ pool' = pool /\ live' = live
    BY <1>10 DEF WritePut
  <2>2. f \in File  BY <2>1 DEF TypeOK
  <2>3. write[c] # IdleWrite  BY <2>1 DEF IdleWrite
  <2>4. (\A w \in Worker : work[w].pc = "idle") /\ write[c].pool = pool[f]  BY <1>3, <2>3 DEF Quiet
  <2>5. \A w \in Worker : work'[w].pc = "idle"  BY <1>10, <2>4 DEF WritePut, TypeOK, WorkRow
  <2>6. ASSUME NEW g \in live  PROVE At(pool[g], g) \in latest'
    <3>1. CASE g = f  BY <2>1, <2>4, <3>1
    <3>2. CASE g # f
      <4>1. KeyOf(g) # KeyOf(f)  BY <1>2, <2>2, <3>2 DEF KeysApart, KeyOf, TypeOK
      <4>2. At(pool[g], g) \in latest /\ At(pool[g], g)[2] # to[2]
        BY <1>3, <4>1 DEF RowsLatest, At
      <4>. QED  BY <2>1, <4>2
    <3>. QED  BY <3>1, <3>2
  <2>7. RowsLatest'  BY <1>4, <2>1, <2>6 DEF RowsLatest
  <2>8. Quiet'  BY <1>3, <2>1, <2>5 DEF Quiet, TypeOK
  <2>. QED  BY <2>5, <2>7, <2>8 DEF Copied
<1>11. ASSUME NEW w \in Worker, Step(w)
       PROVE  RowsLatest' /\ Quiet' /\ \A v \in Worker : Copied(v)'
  <2>1. work[w].pc # "idle" /\ write' = write
    BY <1>11 DEF Step, Pick, Finish, Get, PutTarget, UpdatePool, CountRefs, DeleteSource, Progress
  <2>2. Quiet'  BY <1>3, <2>1 DEF Quiet
  <2>3. KeysCounted  BY <1>1, <1>2, SameKeys
  <2>. QED  BY <1>2, <1>3, <1>11, <2>2, <2>3, StepCopies
<1>. QED  BY <1>6, <1>7, <1>8, <1>9, <1>10, <1>11 DEF Next, Run, Step

-----------------------------------------------------------------------------
(* Theorems *)

LEMMA InitIInv == Init => IInv
<1>. SUFFICES ASSUME Init PROVE IInv
  OBVIOUS
<1>1. TypeOK /\ LocalsSet  BY InitTypeOK
<1>2. \A w \in Worker : work[w].t = None /\ work[w].pc = "idle"
  BY DEF Init, IdleWork
<1>3. \A t \in Task : task[t].status # "completed"
  BY DEF Init
<1>4. RowsReadable
  BY DEF Init, RowsReadable, At, KeyOf
<1>5. WritesSurvive
  BY DEF Init, WritesSurvive, At, KeyOf
<1>6. CopiesAreLatest
  BY <1>2 DEF Init, CopiesAreLatest
<1>. QED
  BY <1>1, <1>2, <1>3, <1>4, <1>5, <1>6 DEF IInv, RunsAreMarked, OneRunner, CompletedMoved, MovesAreSafe

LEMMA NextIInv == IInv /\ [Next]_vars => IInv'
BY NextTypeOK, NextMarks, NextCompletedMoved, NextSafe, NextCopies DEF IInv, Marks

\* Workers that die, stall, fail or race, tasks that overlap and writers that
\* come in between: every step of processPoolMigrations keeps the invariant.
THEOREM Invariance == Spec => []IInv
BY InitIInv, NextIInv, PTL DEF Spec

\* At every moment of any number of migrations the bytes of every row are in
\* the pool that the row names: the copy comes before the update, the update
\* before the count and the count before the delete.
THEOREM FilesReadable == Spec => []RowsReadable
<1>1. IInv => RowsReadable  BY DEF IInv
<1>. QED  BY <1>1, Invariance, PTL

\* If no write overlaps a migration, the bytes a row names are the bytes that
\* were written last, whatever copies of older ones dead workers left behind.
THEOREM WritesKept == Spec => []WritesSurvive
<1>1. IInv => WritesSurvive  BY DEF IInv
<1>. QED  BY <1>1, Invariance, PTL

\* As long as no worker leaves its task idle for 15 minutes, the claim by
\* status gives a task one runner, through crashes and resets.
THEOREM OneRun == Spec => []OneRunner
<1>1. IInv => OneRunner  BY DEF IInv
<1>. QED  BY <1>1, Invariance, PTL
=============================================================================
