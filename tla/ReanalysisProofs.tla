-------------------------- MODULE ReanalysisProofs --------------------------
(***************************************************************************)
(* Proofs about Reanalysis: its inductive invariant holds for any number   *)
(* of objects, workers and administrators, and so do the order of          *)
(* publishing and clearing, the bound on retries, the single thumbnail and *)
(* the tags.                                                               *)
(***************************************************************************)
EXTENDS Reanalysis, TLAPS

-----------------------------------------------------------------------------
(* Rows, and what a step leaves of them. *)

\* The rows that workers and repairs start from.
LEMMA IdleRows ==
  /\ IdleWork \in WorkRow /\ IdleWork.pc = "idle" /\ IdleWork.todo = {}
  /\ IdleRepair \in RepairRow /\ IdleRepair.pc = "idle" /\ IdleRepair.missing = FALSE
BY DEF IdleWork, WorkRow, IdleRepair, RepairRow, MaxAttempts, Source

\* The tags of the world are tags.
LEMMA WorldTyped ==
  ASSUME TypeOK
  PROVE  /\ world.running \subseteq Worker
         /\ \A o \in Object : /\ world.client[o] \subseteq Tag /\ world.server[o] \subseteq Tag
                              /\ normalizeClientSourceMetadata(o) \subseteq Tag
BY WorldsTyped DEF TypeOK, World, normalizeClientSourceMetadata

\* The world is chosen once.
LEMMA WorldStays == Next => world' = world
<1>. SUFFICES ASSUME Next PROVE world' = world
  OBVIOUS
<1>1. ASSUME NEW o \in Object, Upload(o) \/ Ripen(o) \/ DeleteFile(o)
      PROVE  world' = world
  BY <1>1 DEF Upload, StoreClientSourceMetadata, ScheduleSourceReanalysis, StoreSourceAnalysis, Ripen,
     DeleteFile
<1>2. ASSUME NEW w \in Worker, Work(w) \/ WorkerDies(w)
      PROVE  world' = world
  BY <1>2 DEF Work, Scan, Take, Retire, Download, ApplyRead, ApplyWrite, Reload, Publish,
     ClearReanalysis, DownloadFails, UpdateLost, WorkerDies
<1>3. ASSUME NEW a \in Admin,
             \/ RepairStart(a) \/ RepairTake(a) \/ RepairLookup(a) \/ RepairVariant(a)
             \/ RepairRead(a) \/ RepairStore(a)
      PROVE  world' = world
  BY <1>3 DEF RepairStart, RepairTake, RepairLookup, RepairVariant, RepairRead, RepairStore
<1>. QED  BY <1>1, <1>2, <1>3 DEF Next

\* What a worker may hold.
Entry == Object \X (0 .. MaxAttempts)

LEMMA WorkRowOf == WorkRow =
  [pc : {"idle", "take", "download", "read", "write", "reload", "publish", "clear", "retire"},
   todo : SUBSET Entry, o : Object \cup {None}, attempts : 0 .. MaxAttempts, exif : SUBSET Tag,
   snapshot : Source]
BY DEF WorkRow, Entry

\* Setting fields of a worker's row leaves a row.
LEMMA RowSet ==
  ASSUME NEW r \in WorkRow, NEW pc \in {"idle", "take", "download", "retire"},
         NEW T \in SUBSET Entry, NEW o \in Object \cup {None}, NEW n \in 0 .. MaxAttempts
  PROVE  [r EXCEPT !.todo = T, !.o = o, !.attempts = n, !.pc = pc] \in WorkRow
BY WorkRowOf

LEMMA RowBatch ==
  ASSUME NEW r \in WorkRow, NEW pc \in {"idle", "take"}, NEW T \in SUBSET Entry
  PROVE  [r EXCEPT !.pc = pc, !.todo = T] \in WorkRow
BY WorkRowOf

\* The types of the fields of a worker's row.
LEMMA RowHas ==
  ASSUME NEW r \in WorkRow
  PROVE  /\ r.todo \in SUBSET Entry /\ r.o \in Object \cup {None} /\ r.attempts \in 0 .. MaxAttempts
         /\ DOMAIN r = {"pc", "todo", "o", "attempts", "exif", "snapshot"}
BY WorkRowOf

\* The worker goes on to the next entry of its batch.
LEMMA NextEntry ==
  ASSUME TypeOK, NEW w \in Worker, NextObject(w)
  PROVE  /\ work' \in [Worker -> WorkRow] /\ \A v \in Worker \ {w} : work'[v] = work[v]
         /\ work'[w].pc \in {"idle", "take"} /\ work'[w].todo = work[w].todo
         /\ work'[w].pc = "idle" => work[w].todo = {}
<1>. DEFINE row == [IdleWork EXCEPT !.pc = Next1(w), !.todo = work[w].todo]
<1>1. row \in WorkRow /\ row.pc = Next1(w) /\ row.todo = work[w].todo
  <2>1. work[w].todo \in SUBSET Entry  BY RowHas DEF TypeOK
  <2>2. DOMAIN IdleWork = {"pc", "todo", "o", "attempts", "exif", "snapshot"}  BY DEF IdleWork
  <2>3. Next1(w) \in {"idle", "take"}  BY DEF Next1
  <2>4. row \in WorkRow  BY <2>1, <2>3, RowBatch, IdleRows
  <2>. QED  BY <2>2, <2>4
<1>2. work' = [work EXCEPT ![w] = row]  BY DEF NextObject
<1>. HIDE DEF row
<1>. QED  BY <1>1, <1>2 DEF TypeOK, Next1

\* The worker goes on with its object.
LEMMA Went ==
  ASSUME TypeOK, NEW w \in Worker,
         NEW pc \in {"idle", "take", "download", "read", "write", "reload", "publish", "clear", "retire"},
         Goto(w, pc)
  PROVE  /\ work' \in [Worker -> WorkRow] /\ \A v \in Worker \ {w} : work'[v] = work[v]
         /\ work'[w].pc = pc /\ work'[w].todo = work[w].todo /\ work'[w].o = work[w].o
         /\ work'[w].attempts = work[w].attempts /\ work'[w].exif = work[w].exif
         /\ work'[w].snapshot = work[w].snapshot
BY DEF TypeOK, Goto, WorkRow

\* What the steps of a worker do to its row.
Scanned(w) ==
  /\ work[w].pc = "idle" /\ w \in world.running /\ work'[w].pc = "take"
  /\ \E S \in SUBSET Queued : work'[w].todo = {<<o, object[o].attempts>> : o \in S}
  /\ object' = object /\ live' = live /\ seen' = seen /\ tries' = tries

Took(w) ==
  /\ work[w].pc = "take"
  /\ \E e \in work[w].todo :
       /\ work'[w].todo = work[w].todo \ {e} /\ work'[w].o = e[1] /\ work'[w].attempts = e[2]
       /\ work'[w].pc = IF e[1] \in live THEN "download" ELSE "retire"
  /\ object' = object /\ live' = live /\ seen' = seen /\ tries' = tries

WentOn(w) ==
  /\ work'[w].todo = work[w].todo /\ work'[w].o = work[w].o /\ work'[w].attempts = work[w].attempts
  /\ live' = live /\ tries' = tries
  /\ \/ /\ work[w].pc = "download" /\ work'[w].pc = "read"
        /\ object' = object /\ seen' = seen
     \/ /\ work[w].pc = "read" /\ work'[w].pc = "write" /\ work'[w].exif = object[work[w].o].exif
        /\ object' = object /\ seen' = seen
     \/ /\ work[w].pc = "write" /\ work'[w].pc = "reload"
        /\ object' = [object EXCEPT ![work[w].o].exif = work[w].exif \cup world.server[work[w].o],
                                    ![work[w].o].source = "server"]
        /\ seen' = seen
     \/ /\ work[w].pc = "reload" /\ work'[w].pc = "publish" /\ work[w].o \in live
        /\ work'[w].snapshot = object[work[w].o].source
        /\ object' = object /\ seen' = seen
     \/ /\ work[w].pc = "reload" /\ work'[w].pc = "retire" /\ work[w].o \notin live
        /\ object' = object /\ seen' = seen
     \/ /\ work[w].pc = "publish" /\ work'[w].pc = "clear"
        /\ object' = object /\ seen' = [seen EXCEPT ![work[w].o] = work[w].snapshot]

Finished(w) ==
  /\ work[w].pc \in {"retire", "clear"}
  /\ work'[w].pc \in {"idle", "take"} /\ work'[w].todo = work[w].todo
  /\ work'[w].pc = "idle" => work[w].todo = {}
  /\ object' = [object EXCEPT ![work[w].o].needs = FALSE, ![work[w].o].attempts = 0]
  /\ live' = live /\ seen' = seen /\ tries' = tries

Failed(w) ==
  /\ work[w].pc \in {"download", "read", "write", "reload", "publish"}
  /\ work'[w].pc \in {"idle", "take"} /\ work'[w].todo = work[w].todo
  /\ work'[w].pc = "idle" => work[w].todo = {}
  /\ object' = [object EXCEPT ![work[w].o].attempts = work[w].attempts + 1,
                              ![work[w].o].needs = @ /\ work[w].attempts + 1 < MaxAttempts]
  /\ tries' = [tries EXCEPT ![work[w].o] = IF @ <= MaxAttempts THEN @ + 1 ELSE @]
  /\ live' = live /\ seen' = seen

Lost(w) ==
  /\ Is("lost") /\ On(w)
  /\ work'[w].pc \in {"idle", "take"} /\ work'[w].todo = work[w].todo
  /\ work'[w].pc = "idle" => work[w].todo = {}
  /\ \/ tries' = tries
     \/ tries' = [tries EXCEPT ![work[w].o] = IF @ <= MaxAttempts THEN @ + 1 ELSE @]
  /\ object' = object /\ live' = live /\ seen' = seen

Died(w) ==
  /\ Is("crash") /\ work'[w].pc = "idle" /\ work'[w].todo = {}
  /\ object' = object /\ live' = live /\ seen' = seen /\ tries' = tries

Does(w) == Scanned(w) \/ Took(w) \/ WentOn(w) \/ Finished(w) \/ Failed(w) \/ Lost(w) \/ Died(w)

\* Every step of a worker is one of these.
LEMMA WorkDoes ==
  ASSUME TypeOK, \A w \in Worker : Working(w), NEW w \in Worker, Work(w) \/ WorkerDies(w)
  PROVE  /\ work' \in [Worker -> WorkRow] /\ \A v \in Worker \ {w} : work'[v] = work[v]
         /\ Does(w)
         /\ upload' = upload /\ repair' = repair /\ thumbs' = thumbs
<1>0. object \in [Object -> ObjectRow] /\ work \in [Worker -> WorkRow]  BY DEF TypeOK
<1>1. CASE Scan(w)
  <2>1. PICK S \in SUBSET Queued :
          work' = [work EXCEPT ![w].pc = "take", ![w].todo = {<<o, object[o].attempts>> : o \in S}]
    BY <1>1 DEF Scan
  <2>. DEFINE T == {<<o, object[o].attempts>> : o \in S}
              row == [work[w] EXCEPT !.pc = "take", !.todo = T]
  <2>2. T \in SUBSET Entry  BY <1>0 DEF Queued, TypeOK, ObjectRow, Entry
  <2>a. work' = [work EXCEPT ![w] = row]  BY <2>1
  <2>. HIDE DEF T
  <2>b. work[w] \in WorkRow  BY <1>0
  <2>c. row \in WorkRow /\ row.pc = "take" /\ row.todo = T
    BY <2>2, <2>b, RowBatch, RowHas
  <2>. HIDE DEF row
  <2>3. /\ work' \in [Worker -> WorkRow] /\ \A v \in Worker \ {w} : work'[v] = work[v]
        /\ work'[w].pc = "take" /\ work'[w].todo = T
    BY <1>0, <2>a, <2>c
  <2>. QED  BY <1>1, <2>3 DEF Scan, Does, Scanned, T
<1>2. CASE Take(w)
  <2>1. PICK e \in work[w].todo :
          work' = [work EXCEPT ![w].todo = @ \ {e}, ![w].o = e[1], ![w].attempts = e[2],
                               ![w].pc = IF e[1] \in live THEN "download" ELSE "retire"]
    BY <1>2 DEF Take
  <2>. DEFINE row == [work[w] EXCEPT !.todo = work[w].todo \ {e}, !.o = e[1], !.attempts = e[2],
                                     !.pc = IF e[1] \in live THEN "download" ELSE "retire"]
  <2>b. work[w] \in WorkRow  BY <1>0
  <2>2. work[w].todo \in SUBSET Entry  BY <2>b, RowHas
  <2>3. e[1] \in Object /\ e[2] \in 0 .. MaxAttempts /\ work[w].todo \ {e} \in SUBSET Entry
    BY <2>2 DEF Entry
  <2>a. work' = [work EXCEPT ![w] = row]  BY <2>1
  <2>d. row \in WorkRow  BY <2>b, <2>3, RowSet
  <2>c. /\ row \in WorkRow /\ row.todo = work[w].todo \ {e} /\ row.o = e[1] /\ row.attempts = e[2]
        /\ row.pc = IF e[1] \in live THEN "download" ELSE "retire"
    BY <2>b, <2>d, RowHas
  <2>. HIDE DEF row
  <2>4. /\ work' \in [Worker -> WorkRow] /\ \A v \in Worker \ {w} : work'[v] = work[v]
        /\ work'[w].todo = work[w].todo \ {e} /\ work'[w].o = e[1] /\ work'[w].attempts = e[2]
        /\ work'[w].pc = IF e[1] \in live THEN "download" ELSE "retire"
    BY <1>0, <2>a, <2>c
  <2>. QED  BY <1>2, <2>4 DEF Take, Does, Took
<1>3. CASE Download(w)
  BY <1>3, Went DEF Download, Does, WentOn
<1>4. CASE ApplyRead(w)
  <2>1. work[w].o \in Object  BY <1>4 DEF ApplyRead, Working, On
  <2>2. work' = [work EXCEPT ![w].pc = "write", ![w].exif = object[work[w].o].exif]
    BY <1>4 DEF ApplyRead
  <2>3. object[work[w].o].exif \in SUBSET Tag  BY <1>0, <2>1 DEF ObjectRow
  <2>4. /\ work' \in [Worker -> WorkRow] /\ \A v \in Worker \ {w} : work'[v] = work[v]
        /\ work'[w].todo = work[w].todo /\ work'[w].o = work[w].o
        /\ work'[w].attempts = work[w].attempts
        /\ work'[w].pc = "write" /\ work'[w].exif = object[work[w].o].exif
    BY <1>0, <2>2, <2>3 DEF WorkRow
  <2>. QED  BY <1>4, <2>4 DEF ApplyRead, Does, WentOn
<1>5. CASE ApplyWrite(w)
  BY <1>5, Went DEF ApplyWrite, Does, WentOn, MergeSourceExif
<1>6. CASE Reload(w)
  <2>1. work[w].o \in Object  BY <1>6 DEF Reload, Working, On
  <2>2. CASE work[w].o \in live
    <3>1. work' = [work EXCEPT ![w].pc = "publish", ![w].snapshot = object[work[w].o].source]
      BY <1>6, <2>2 DEF Reload
    <3>2. object[work[w].o].source \in Source  BY <1>0, <2>1 DEF ObjectRow
    <3>3. /\ work' \in [Worker -> WorkRow] /\ \A v \in Worker \ {w} : work'[v] = work[v]
          /\ work'[w].todo = work[w].todo /\ work'[w].o = work[w].o
          /\ work'[w].attempts = work[w].attempts
          /\ work'[w].pc = "publish" /\ work'[w].snapshot = object[work[w].o].source
      BY <1>0, <3>1, <3>2 DEF WorkRow
    <3>. QED  BY <1>6, <2>2, <3>3 DEF Reload, Does, WentOn
  <2>3. CASE work[w].o \notin live
    BY <1>6, <2>3, Went DEF Reload, Does, WentOn
  <2>. QED  BY <2>2, <2>3
<1>7. CASE Publish(w)
  BY <1>7, Went DEF Publish, Does, WentOn
<1>8. CASE Retire(w) \/ ClearReanalysis(w)
  BY <1>8, NextEntry DEF Retire, ClearReanalysis, Clear, Does, Finished
<1>9. CASE DownloadFails(w)
  BY <1>9, NextEntry DEF DownloadFails, Fails, FailReanalysis, Does, Failed
<1>11. CASE UpdateLost(w)
  <2>1. Lost(w)
    BY <1>11, NextEntry DEF UpdateLost, Fails, Lost, On
  <2>. QED  BY <1>11, <2>1, NextEntry DEF UpdateLost, Does
<1>10. CASE WorkerDies(w)
  <2>1. work' = [work EXCEPT ![w] = IdleWork]  BY <1>10 DEF WorkerDies
  <2>2. /\ work' \in [Worker -> WorkRow] /\ \A v \in Worker \ {w} : work'[v] = work[v]
        /\ work'[w].pc = "idle" /\ work'[w].todo = {}
    BY <1>0, <2>1, IdleRows
  <2>. QED  BY <1>10, <2>2 DEF WorkerDies, Does, Died
<1>. QED
  BY <1>1, <1>2, <1>3, <1>4, <1>5, <1>6, <1>7, <1>8, <1>9, <1>10, <1>11 DEF Work

\* What the completion of an upload does.
Stored(o) ==
  /\ upload[o] = "new" /\ world.client[o] # {} /\ upload'[o] = "stored"
  /\ object'[o].needs = object[o].needs /\ object'[o].attempts = object[o].attempts
  /\ object'[o].exif = normalizeClientSourceMetadata(o)

Scheduled(o) ==
  /\ upload[o] = "stored" /\ upload'[o] = "done"
  /\ object'[o].needs /\ object'[o].attempts = 0 /\ object'[o].exif = object[o].exif

Analysed(o) ==
  /\ upload[o] = "new" /\ world.client[o] = {} /\ upload'[o] = "done"
  /\ object'[o].needs = object[o].needs /\ object'[o].attempts = object[o].attempts

Refused(o) == upload[o] = "new" /\ upload'[o] = "failed" /\ object'[o] = object[o]

\* Every step of a completion is one of these.
LEMMA UploadDoes ==
  ASSUME TypeOK, NEW o \in Object, Upload(o)
  PROVE  /\ object' \in [Object -> ObjectRow] /\ \A p \in Object \ {o} : object'[p] = object[p]
         /\ upload' \in [Object -> {"new", "stored", "done", "failed"}]
         /\ \A p \in Object \ {o} : upload'[p] = upload[p]
         /\ Stored(o) \/ Scheduled(o) \/ Analysed(o) \/ Refused(o)
         /\ live' = live /\ thumbs' = thumbs /\ seen' = seen /\ work' = work /\ repair' = repair
         /\ tries' = tries /\ spent' = spent /\ ripe' \subseteq ripe
<1>0. /\ object \in [Object -> ObjectRow] /\ upload \in [Object -> {"new", "stored", "done", "failed"}]
      /\ world.client[o] \subseteq Tag /\ world.server[o] \subseteq Tag
      /\ normalizeClientSourceMetadata(o) \subseteq Tag
  BY WorldTyped DEF TypeOK
<1>1. CASE StoreClientSourceMetadata(o)
  <2>1. CASE world.sent[o] = "invalid"
    BY <1>0, <1>1, <2>1 DEF StoreClientSourceMetadata, Refused
  <2>2. CASE world.sent[o] # "invalid"
    <3>1. object' = [object EXCEPT ![o].source = "client", ![o].exif = normalizeClientSourceMetadata(o)]
      BY <1>1, <2>2 DEF StoreClientSourceMetadata
    <3>2. /\ object' \in [Object -> ObjectRow] /\ \A p \in Object \ {o} : object'[p] = object[p]
          /\ object'[o].needs = object[o].needs /\ object'[o].attempts = object[o].attempts
          /\ object'[o].exif = normalizeClientSourceMetadata(o)
      BY <1>0, <3>1 DEF ObjectRow, Source
    <3>. QED  BY <1>0, <1>1, <2>2, <3>2 DEF StoreClientSourceMetadata, Stored
  <2>. QED  BY <2>1, <2>2
<1>2. CASE ScheduleSourceReanalysis(o)
  <2>1. object' = [object EXCEPT ![o].needs = TRUE, ![o].attempts = 0]
    BY <1>2 DEF ScheduleSourceReanalysis
  <2>2. /\ object' \in [Object -> ObjectRow] /\ \A p \in Object \ {o} : object'[p] = object[p]
        /\ object'[o].needs /\ object'[o].attempts = 0 /\ object'[o].exif = object[o].exif
    <3>1. 0 \in 0 .. MaxAttempts  BY DEF MaxAttempts
    <3>. QED  BY <1>0, <2>1, <3>1 DEF ObjectRow
  <2>. QED  BY <1>0, <1>2, <2>2 DEF ScheduleSourceReanalysis, Scheduled
<1>3. CASE StoreSourceAnalysis(o)
  <2>1. /\ object' \in [Object -> ObjectRow] /\ \A p \in Object \ {o} : object'[p] = object[p]
        /\ object'[o].needs = object[o].needs /\ object'[o].attempts = object[o].attempts
    <3>1. CASE o \in world.broken
      BY <1>0, <1>3, <3>1 DEF StoreSourceAnalysis
    <3>2. CASE o \notin world.broken
      <4>1. object' = [object EXCEPT ![o].source = "server",
                                     ![o].exif = IF world.server[o] = {} THEN @ ELSE world.server[o]]
        BY <1>3, <3>2 DEF StoreSourceAnalysis, MergeAnalysis
      <4>. QED  BY <1>0, <4>1 DEF ObjectRow, Source
    <3>. QED  BY <3>1, <3>2
  <2>. QED  BY <1>0, <1>3, <2>1 DEF StoreSourceAnalysis, Analysed
<1>. QED  BY <1>1, <1>2, <1>3 DEF Upload

\* What a repair does.
Repairs(a) == \/ RepairStart(a) \/ RepairTake(a) \/ RepairLookup(a) \/ RepairVariant(a)
              \/ RepairRead(a) \/ RepairStore(a)

RepairTyped ==
  /\ \A a \in Admin : repair[a].pc \in {"lookup", "put", "read", "write"} => repair[a].o \in Object
  /\ ~Is("repair") => \A a \in Admin : repair[a].pc = "idle"

RepairLeft(a) ==
  /\ repair' \in [Admin -> RepairRow] /\ \A b \in Admin \ {a} : repair'[b] = repair[b]
  /\ repair'[a].pc \in {"lookup", "put", "read", "write"} => repair'[a].o \in Object

Begun(a) ==
  /\ Is("repair")
  /\ Is("overlap") \/ \A b \in Admin : repair[b].pc = "idle"
  /\ repair'[a].pc = "take"
  /\ thumbs' = thumbs /\ object' = object

Moved(a) ==
  /\ repair[a].pc # "idle" /\ repair'[a].pc # "put" /\ thumbs' = thumbs
  /\ \A p \in Object : object'[p].needs = object[p].needs /\ object'[p].attempts = object[p].attempts

Looked(a) ==
  /\ repair[a].pc = "lookup" /\ repair'[a].pc = "put" /\ repair'[a].o \in Object
  /\ repair'[a].missing => thumbs[repair'[a].o] = 0
  /\ thumbs' = thumbs /\ object' = object

Put(a) ==
  /\ repair[a].pc = "put" /\ repair'[a].pc = "read"
  /\ thumbs' = [thumbs EXCEPT ![repair[a].o] = IF repair[a].missing THEN @ + 1 ELSE @]
  /\ object' = object

\* A repair goes on to the next file.
LEMMA NextFile ==
  ASSUME TypeOK, NEW a \in Admin, NextRepair(a)
  PROVE  /\ repair' \in [Admin -> RepairRow] /\ \A b \in Admin \ {a} : repair'[b] = repair[b]
         /\ repair'[a].pc \in {"idle", "take"}
<1>1. repair \in [Admin -> RepairRow] /\ repair[a].todo \subseteq Object  BY DEF TypeOK, RepairRow
<1>. DEFINE row == IF repair[a].todo = {} THEN IdleRepair
                   ELSE [IdleRepair EXCEPT !.pc = "take", !.todo = repair[a].todo]
<1>2. row \in RepairRow /\ row.pc \in {"idle", "take"}
  BY <1>1 DEF IdleRepair, RepairRow, Source
<1>3. repair' = [repair EXCEPT ![a] = row]  BY DEF NextRepair
<1>. HIDE DEF row
<1>. QED  BY <1>1, <1>2, <1>3

\* Every step of a repair is one of these.
LEMMA RepairDoes ==
  ASSUME TypeOK, RepairTyped, NEW a \in Admin, Repairs(a)
  PROVE  /\ RepairLeft(a)
         /\ Begun(a) \/ Moved(a) \/ Looked(a) \/ Put(a)
         /\ object' \in [Object -> ObjectRow] /\ thumbs' \in [Object -> Nat]
         /\ ripe' \subseteq ripe /\ spent' \subseteq Worker \cup Admin
         /\ live' = live /\ seen' = seen /\ work' = work /\ tries' = tries /\ upload' = upload
<1>0. /\ object \in [Object -> ObjectRow] /\ repair \in [Admin -> RepairRow]
      /\ thumbs \in [Object -> Nat] /\ spent \subseteq Worker \cup Admin /\ live \subseteq Object
      /\ \A o \in Object : world.server[o] \subseteq Tag
  BY WorldTyped DEF TypeOK
<1>1. CASE RepairStart(a)
  <2>1. PICK S \in {Candidates} \cup SUBSET {o \in live : upload[o] # "new"} :
          repair' = [repair EXCEPT ![a].pc = "take", ![a].todo = S]
    BY <1>1 DEF RepairStart
  <2>2. S \subseteq Object  BY <1>0 DEF Candidates
  <2>3. /\ repair' \in [Admin -> RepairRow] /\ \A b \in Admin \ {a} : repair'[b] = repair[b]
        /\ repair'[a].pc = "take"
    BY <1>0, <2>1, <2>2 DEF RepairRow
  <2>. QED  BY <1>0, <1>1, <2>3 DEF RepairStart, RepairLeft, Begun
<1>2. CASE RepairTake(a)
  <2>1. PICK o \in repair[a].todo :
          repair' = [repair EXCEPT ![a] =
            IF o \in live \ world.broken
            THEN [IdleRepair EXCEPT !.pc = "lookup", !.todo = repair[a].todo \ {o}, !.o = o]
            ELSE [IdleRepair EXCEPT !.pc = IF repair[a].todo \ {o} = {} THEN "idle" ELSE "take",
                                    !.todo = repair[a].todo \ {o}]]
    BY <1>2 DEF RepairTake
  <2>. DEFINE row == IF o \in live \ world.broken
            THEN [IdleRepair EXCEPT !.pc = "lookup", !.todo = repair[a].todo \ {o}, !.o = o]
            ELSE [IdleRepair EXCEPT !.pc = IF repair[a].todo \ {o} = {} THEN "idle" ELSE "take",
                                    !.todo = repair[a].todo \ {o}]
  <2>2. repair[a].todo \subseteq Object  BY <1>0 DEF RepairRow
  <2>3. row \in RepairRow /\ row.pc \in {"idle", "take", "lookup"} /\ (row.pc = "lookup" => row.o \in Object)
    BY <2>2 DEF RepairRow, IdleRepair, Source
  <2>4. repair' = [repair EXCEPT ![a] = row]  BY <2>1
  <2>. HIDE DEF row
  <2>5. /\ repair' \in [Admin -> RepairRow] /\ \A b \in Admin \ {a} : repair'[b] = repair[b]
        /\ repair'[a] = row
    BY <1>0, <2>3, <2>4
  <2>. QED  BY <1>0, <1>2, <2>3, <2>5 DEF RepairTake, RepairLeft, Moved
<1>3. CASE RepairLookup(a)
  <2>1. repair' = [repair EXCEPT ![a].pc = "put", ![a].missing = (thumbs[repair[a].o] = 0)]
    BY <1>3 DEF RepairLookup
  <2>2. repair[a].o \in Object  BY <1>3 DEF RepairLookup, RepairTyped
  <2>3. /\ repair' \in [Admin -> RepairRow] /\ \A b \in Admin \ {a} : repair'[b] = repair[b]
        /\ repair'[a].pc = "put" /\ repair'[a].o = repair[a].o
        /\ repair'[a].missing = (thumbs[repair[a].o] = 0)
    BY <1>0, <2>1 DEF RepairRow
  <2>. QED  BY <1>0, <1>3, <2>2, <2>3 DEF RepairLookup, RepairLeft, Looked
<1>4. CASE RepairVariant(a)
  <2>1. repair' = [repair EXCEPT ![a].pc = "read"]  BY <1>4 DEF RepairVariant
  <2>2. repair[a].o \in Object  BY <1>4 DEF RepairVariant, RepairTyped
  <2>3. /\ repair' \in [Admin -> RepairRow] /\ \A b \in Admin \ {a} : repair'[b] = repair[b]
        /\ repair'[a].pc = "read" /\ repair'[a].o = repair[a].o
    BY <1>0, <2>1 DEF RepairRow
  <2>4. thumbs' \in [Object -> Nat]  BY <1>0, <1>4, <2>2 DEF RepairVariant
  <2>. QED  BY <1>0, <1>4, <2>2, <2>3, <2>4 DEF RepairVariant, RepairLeft, Put
<1>5. CASE RepairRead(a)
  <2>1. repair[a].o \in Object  BY <1>5 DEF RepairRead, RepairTyped
  <2>2. object[repair[a].o].source \in Source /\ object[repair[a].o].exif \in SUBSET Tag
    BY <1>0, <2>1 DEF ObjectRow
  <2>3. repair' = [repair EXCEPT ![a].pc = "write", ![a].source = object[repair[a].o].source,
                                 ![a].exif = object[repair[a].o].exif]
    BY <1>5 DEF RepairRead
  <2>. DEFINE source == object[repair[a].o].source
              exif == object[repair[a].o].exif
              row == [repair[a] EXCEPT !.pc = "write", !.source = source, !.exif = exif]
  <2>a. repair' = [repair EXCEPT ![a] = row]  BY <2>3
  <2>b. source \in Source /\ exif \in SUBSET Tag /\ repair[a] \in RepairRow  BY <1>0, <2>2
  <2>. HIDE DEF source, exif
  <2>c. row \in RepairRow /\ row.pc = "write" /\ row.o = repair[a].o
    BY <2>b DEF RepairRow
  <2>. HIDE DEF row
  <2>4. /\ repair' \in [Admin -> RepairRow] /\ \A b \in Admin \ {a} : repair'[b] = repair[b]
        /\ repair'[a].pc = "write" /\ repair'[a].o = repair[a].o
    BY <1>0, <2>a, <2>c
  <2>. QED  BY <1>0, <1>5, <2>1, <2>4 DEF RepairRead, RepairLeft, Moved
<1>6. CASE RepairStore(a)
  <2>1. repair[a].o \in Object  BY <1>6 DEF RepairStore, RepairTyped
  <2>. DEFINE x == MergeAnalysis(repair[a].exif, repair[a].o)
  <2>2. x \in SUBSET Tag /\ repair[a].source \in Source
    BY <1>0, <2>1 DEF RepairRow, MergeAnalysis
  <2>3. object' = [object EXCEPT ![repair[a].o].source = repair[a].source, ![repair[a].o].exif = x]
    BY <1>6 DEF RepairStore
  <2>. HIDE DEF x
  <2>4. /\ object' \in [Object -> ObjectRow]
        /\ \A p \in Object : object'[p].needs = object[p].needs /\ object'[p].attempts = object[p].attempts
    BY <1>0, <2>1, <2>2, <2>3 DEF ObjectRow
  <2>. QED  BY <1>0, <1>6, <2>4, NextFile DEF RepairStore, RepairLeft, Moved
<1>. QED  BY <1>1, <1>2, <1>3, <1>4, <1>5, <1>6 DEF Repairs

-----------------------------------------------------------------------------
(* Types. *)

Inner == /\ TypeOK /\ RepairTyped
         /\ \A o \in Object : QueuedRow(o)
         /\ \A w \in Worker : Working(w)

\* A worker's step keeps the types.
LEMMA WorkTypes ==
  ASSUME Inner, NEW w \in Worker, Does(w)
  PROVE  /\ object' \in [Object -> ObjectRow] /\ seen' \in [Object -> Source]
         /\ tries' \in [Object -> Nat] /\ live' = live
<1>0. /\ object \in [Object -> ObjectRow] /\ seen \in [Object -> Source]
      /\ tries \in [Object -> Nat] /\ work[w] \in WorkRow
      /\ \A o \in Object : world.server[o] \subseteq Tag
      /\ On(w) => work[w].o \in Object /\ work[w].attempts < MaxAttempts
  BY WorldTyped DEF Inner, TypeOK, Working
<1>1. CASE Scanned(w) \/ Took(w) \/ Died(w)
  BY <1>0, <1>1 DEF Scanned, Took, Died
<1>2. CASE WentOn(w)
  <2>1. work[w].o \in Object  BY <1>0, <1>2 DEF WentOn, On
  <2>2. work[w].exif \subseteq Tag /\ work[w].snapshot \in Source  BY <1>0 DEF WorkRow
  <2>3. [object EXCEPT ![work[w].o].exif = work[w].exif \cup world.server[work[w].o],
                       ![work[w].o].source = "server"] \in [Object -> ObjectRow]
    BY <1>0, <2>1, <2>2 DEF ObjectRow, Source
  <2>4. [seen EXCEPT ![work[w].o] = work[w].snapshot] \in [Object -> Source]
    BY <1>0, <2>1, <2>2
  <2>. QED  BY <1>0, <1>2, <2>3, <2>4 DEF WentOn
<1>3. CASE Finished(w)
  <2>1. work[w].o \in Object  BY <1>0, <1>3 DEF Finished, On
  <2>2. 0 \in 0 .. MaxAttempts  BY DEF MaxAttempts
  <2>3. [object EXCEPT ![work[w].o].needs = FALSE, ![work[w].o].attempts = 0] \in [Object -> ObjectRow]
    BY <1>0, <2>1, <2>2 DEF ObjectRow
  <2>. QED  BY <1>0, <1>3, <2>3 DEF Finished
<1>4. CASE Failed(w)
  <2>1. work[w].o \in Object /\ work[w].attempts < MaxAttempts  BY <1>0, <1>4 DEF Failed, On
  <2>2. work[w].attempts + 1 \in 0 .. MaxAttempts  BY <1>0, <2>1 DEF WorkRow, MaxAttempts
  <2>3. object' \in [Object -> ObjectRow]
    <3>. DEFINE b == object[work[w].o].needs /\ work[w].attempts + 1 < MaxAttempts
    <3>1. b \in BOOLEAN  OBVIOUS
    <3>2. object' = [object EXCEPT ![work[w].o].attempts = work[w].attempts + 1, ![work[w].o].needs = b]
      BY <1>0, <1>4, <2>1 DEF Failed, ObjectRow
    <3>. HIDE DEF b
    <3>. QED  BY <1>0, <2>1, <2>2, <3>1, <3>2 DEF ObjectRow
  <2>4. tries' \in [Object -> Nat]  BY <1>0, <1>4, <2>1 DEF Failed
  <2>. QED  BY <1>0, <1>4, <2>3, <2>4 DEF Failed
<1>5. CASE Lost(w)
  <2>1. tries' \in [Object -> Nat]  BY <1>0, <1>5 DEF Lost
  <2>. QED  BY <1>0, <1>5, <2>1 DEF Lost
<1>. QED  BY <1>1, <1>2, <1>3, <1>4, <1>5 DEF Does

LEMMA WorkMarks ==
  ASSUME NEW w \in Worker, Work(w) \/ WorkerDies(w), TypeOK
  PROVE  ripe' \subseteq ripe /\ spent' \subseteq Worker \cup Admin
BY DEF TypeOK, Work, Scan, Take, Retire, Download, ApplyRead, ApplyWrite, Reload, Publish, ClearReanalysis,
   DownloadFails, FailReanalysis, UpdateLost, WorkerDies, Clear

\* Every step keeps the types.
LEMMA TypeStep == Inner /\ [Next]_vars => TypeOK'
<1>. SUFFICES ASSUME Inner, [Next]_vars PROVE TypeOK'
  OBVIOUS
<1>0. TypeOK  BY DEF Inner
<1>1. ASSUME NEW o \in Object, Upload(o)
      PROVE  TypeOK'
  BY <1>0, <1>1, UploadDoes, WorldStays DEF TypeOK, Next
<1>2. ASSUME NEW o \in Object, Ripen(o) \/ DeleteFile(o)
      PROVE  TypeOK'
  BY <1>0, <1>2 DEF Ripen, DeleteFile, TypeOK
<1>3. ASSUME NEW w \in Worker, Work(w) \/ WorkerDies(w)
      PROVE  TypeOK'
  <2>1. Does(w) /\ work' \in [Worker -> WorkRow] /\ upload' = upload /\ repair' = repair /\ thumbs' = thumbs
    BY <1>3, WorkDoes DEF Inner
  <2>2. world' = world  BY <1>3, WorldStays DEF Next
  <2>. QED  BY <1>0, <1>3, <2>1, <2>2, WorkTypes, WorkMarks DEF TypeOK
<1>4. ASSUME NEW a \in Admin, Repairs(a)
      PROVE  TypeOK'
  <2>1. world' = world  BY <1>4, WorldStays DEF Next, Repairs
  <2>. QED  BY <1>0, <1>4, <2>1, RepairDoes DEF TypeOK, Inner, RepairLeft
<1>5. CASE UNCHANGED vars
  BY <1>0, <1>5 DEF vars, TypeOK
<1>. QED  BY <1>1, <1>2, <1>3, <1>4, <1>5 DEF Next, Repairs

-----------------------------------------------------------------------------
(* The steps, one by one. *)

Plain ==
  /\ object' = object /\ seen' = seen /\ upload' = upload /\ work' = work /\ repair' = repair
  /\ thumbs' = thumbs /\ tries' = tries /\ live' \subseteq live

Completes(o) ==
  /\ \A p \in Object \ {o} : object'[p] = object[p] /\ upload'[p] = upload[p]
  /\ Stored(o) \/ Scheduled(o) \/ Analysed(o) \/ Refused(o)
  /\ live' = live /\ thumbs' = thumbs /\ seen' = seen /\ work' = work /\ repair' = repair /\ tries' = tries

Works(w) ==
  /\ \A v \in Worker \ {w} : work'[v] = work[v]
  /\ Does(w)
  /\ upload' = upload /\ repair' = repair /\ thumbs' = thumbs /\ live' = live

Mends(a) ==
  /\ RepairLeft(a)
  /\ Begun(a) \/ Moved(a) \/ Looked(a) \/ Put(a)
  /\ live' = live /\ seen' = seen /\ work' = work /\ tries' = tries /\ upload' = upload

\* A step of the specification, by who takes it.
LEMMA Steps ==
  ASSUME Inner, [Next]_vars
  PROVE  /\ TypeOK' /\ world' = world
         /\ \/ Plain
            \/ \E o \in Object : Completes(o)
            \/ \E w \in Worker : Works(w)
            \/ \E a \in Admin : Mends(a)
<1>0. TypeOK /\ RepairTyped  BY DEF Inner
<1>1. TypeOK'  BY TypeStep
<1>2. world' = world  BY WorldStays DEF vars
<1>3. ASSUME NEW o \in Object, Upload(o)
      PROVE  Completes(o)
  BY <1>0, <1>3, UploadDoes DEF Completes
<1>4. ASSUME NEW o \in Object, Ripen(o) \/ DeleteFile(o)
      PROVE  Plain
  BY <1>4 DEF Ripen, DeleteFile, Plain
<1>5. ASSUME NEW w \in Worker, Work(w) \/ WorkerDies(w)
      PROVE  Works(w)
  <2>1. /\ Does(w) /\ \A v \in Worker \ {w} : work'[v] = work[v]
        /\ upload' = upload /\ repair' = repair /\ thumbs' = thumbs
    BY <1>5, WorkDoes DEF Inner
  <2>. QED  BY <2>1, WorkTypes DEF Works
<1>6. ASSUME NEW a \in Admin, Repairs(a)
      PROVE  Mends(a)
  BY <1>0, <1>6, RepairDoes DEF Mends
<1>7. ASSUME UNCHANGED vars
      PROVE  Plain
  <2>1. /\ object' = object /\ seen' = seen /\ upload' = upload /\ work' = work /\ repair' = repair
        /\ thumbs' = thumbs /\ tries' = tries /\ live' = live
    BY <1>7 DEF vars
  <2>. QED  BY <2>1 DEF Plain
<1>8. CASE Next
  <2>1. CASE \E o \in Object : Upload(o) \/ Ripen(o) \/ DeleteFile(o)
    BY <1>1, <1>2, <1>3, <1>4, <2>1
  <2>2. CASE \E w \in Worker : Work(w) \/ WorkerDies(w)
    BY <1>1, <1>2, <1>5, <2>2
  <2>3. CASE \E a \in Admin : Repairs(a)
    BY <1>1, <1>2, <1>6, <2>3
  <2>. QED  BY <1>8, <2>1, <2>2, <2>3 DEF Next, Repairs
<1>. QED  BY <1>1, <1>2, <1>7, <1>8

\* What a step of a worker does to the objects: all but one are left.
LEMMA Others ==
  ASSUME Inner, NEW w \in Worker, Does(w), NEW p \in Object, On(w) => p # work[w].o
  PROVE  object'[p] = object[p] /\ seen'[p] = seen[p] /\ tries'[p] = tries[p]
BY DEF Inner, TypeOK, Does, Scanned, Took, WentOn, Finished, Failed, Lost, Died, On

\* What is known of the object a worker holds.
LEMMA Held ==
  ASSUME Inner, NEW w \in Worker, On(w)
  PROVE  /\ work[w].o \in Object /\ Uploaded(work[w].o)
         /\ work[w].attempts \in 0 .. 2
         /\ work[w].exif \in SUBSET Tag /\ work[w].snapshot \in Source
<1>1. work[w] \in WorkRow  BY DEF Inner, TypeOK
<1>. QED  BY <1>1 DEF Inner, Working, WorkRow, MaxAttempts

\* The object a worker holds.
LEMMA TheOne ==
  ASSUME Inner, NEW w \in Worker, Does(w), On(w), NEW o, o = work[w].o
  PROVE  \/ /\ object'[o] = object[o] /\ tries'[o] = tries[o]
            /\ seen'[o] = IF work[w].pc = "publish" /\ work'[w].pc = "clear" THEN work[w].snapshot ELSE seen[o]
         \/ /\ work[w].pc = "write" /\ work'[w].pc = "reload"
            /\ object'[o].needs = object[o].needs /\ object'[o].attempts = object[o].attempts
            /\ object'[o].source = "server" /\ object'[o].exif = work[w].exif \cup world.server[o]
            /\ tries'[o] = tries[o] /\ seen'[o] = seen[o]
         \/ /\ Finished(w)
            /\ ~object'[o].needs /\ object'[o].attempts = 0
            /\ object'[o].source = object[o].source /\ object'[o].exif = object[o].exif
            /\ tries'[o] = tries[o] /\ seen'[o] = seen[o]
         \/ /\ Failed(w)
            /\ object'[o].attempts = work[w].attempts + 1
            /\ object'[o].needs => object[o].needs /\ work[w].attempts + 1 < MaxAttempts
            /\ object'[o].source = object[o].source /\ object'[o].exif = object[o].exif
            /\ tries'[o] = IF tries[o] <= MaxAttempts THEN tries[o] + 1 ELSE tries[o]
            /\ seen'[o] = seen[o]
         \/ Lost(w) /\ object'[o] = object[o] /\ seen'[o] = seen[o]
<1>0. /\ o \in Object /\ object \in [Object -> ObjectRow] /\ seen \in [Object -> Source]
      /\ tries \in [Object -> Nat]
  BY Held DEF Inner, TypeOK
<1>1. CASE Scanned(w) \/ Took(w)
  BY <1>1 DEF Scanned, Took, On
<1>2. CASE Died(w)
  BY <1>2 DEF Died
<1>3. CASE WentOn(w)
  <2>1. CASE work[w].pc = "write"
    BY <1>0, <1>3, <2>1 DEF WentOn, ObjectRow
  <2>2. CASE work[w].pc = "publish"
    BY <1>0, <1>3, <2>2 DEF WentOn
  <2>3. CASE work[w].pc \notin {"write", "publish"}
    BY <1>0, <1>3, <2>3 DEF WentOn
  <2>. QED  BY <2>1, <2>2, <2>3
<1>4. CASE Finished(w)
  <2>1. object' = [object EXCEPT ![o].needs = FALSE, ![o].attempts = 0]  BY <1>4 DEF Finished
  <2>2. /\ ~object'[o].needs /\ object'[o].attempts = 0
        /\ object'[o].source = object[o].source /\ object'[o].exif = object[o].exif
    BY <1>0, <2>1 DEF ObjectRow
  <2>. QED  BY <1>4, <2>2 DEF Finished
<1>5. CASE Failed(w)
  <2>. DEFINE b == object[o].needs /\ work[w].attempts + 1 < MaxAttempts
  <2>1. object' = [object EXCEPT ![o].attempts = work[w].attempts + 1, ![o].needs = b]
    BY <1>0, <1>5 DEF Failed, ObjectRow
  <2>. HIDE DEF b
  <2>2. /\ object'[o].attempts = work[w].attempts + 1 /\ object'[o].needs = b
        /\ object'[o].source = object[o].source /\ object'[o].exif = object[o].exif
    BY <1>0, <2>1 DEF ObjectRow
  <2>3. object'[o].needs => object[o].needs /\ work[w].attempts + 1 < MaxAttempts
    BY <2>2 DEF b
  <2>4. tries'[o] = IF tries[o] <= MaxAttempts THEN tries[o] + 1 ELSE tries[o]
    BY <1>0, <1>5 DEF Failed
  <2>. QED  BY <1>5, <2>2, <2>3, <2>4 DEF Failed
<1>6. CASE Lost(w)
  BY <1>6 DEF Lost
<1>. QED  BY <1>1, <1>2, <1>3, <1>4, <1>5, <1>6 DEF Does

-----------------------------------------------------------------------------
(* What is known of an object stays known. *)

\* Deleted objects stay deleted, uploads stay complete, and what the server
\* has read or published stays so.
LEMMA KnownStays ==
  ASSUME Inner, [Next]_vars
  PROVE  /\ live' \subseteq live
         /\ \A o \in Object : Uploaded(o) => Uploaded(o)'
         /\ ~Is("repair") =>
              /\ \A o \in Object : Uploaded(o) /\ object[o].source = "server" => object'[o].source = "server"
              /\ \A o \in Object : Uploaded(o) /\ seen[o] = "server" => seen'[o] = "server"
<1>0. world' = world  BY Steps
<1>1. CASE Plain
  BY <1>0, <1>1 DEF Plain, Uploaded
<1>2. ASSUME NEW o \in Object, Completes(o)
      PROVE  /\ live' \subseteq live
             /\ \A p \in Object : Uploaded(p) => Uploaded(p)' /\ object'[p].source = object[p].source
             /\ \A p \in Object : seen'[p] = seen[p]
  <2>1. ~Uploaded(o)  BY <1>2 DEF Completes, Stored, Scheduled, Analysed, Refused, Uploaded
  <2>. QED  BY <1>0, <1>2, <2>1 DEF Completes, Uploaded
<1>3. ASSUME NEW w \in Worker, Works(w)
      PROVE  /\ live' \subseteq live
             /\ \A p \in Object : Uploaded(p) => Uploaded(p)'
             /\ ~Is("repair") =>
                  /\ \A p \in Object : object[p].source = "server" => object'[p].source = "server"
                  /\ \A p \in Object : seen[p] = "server" => seen'[p] = "server"
  <2>. SUFFICES ASSUME ~Is("repair"), NEW p \in Object
                PROVE  /\ object[p].source = "server" => object'[p].source = "server"
                       /\ seen[p] = "server" => seen'[p] = "server"
    BY <1>0, <1>3 DEF Works, Uploaded
  <2>1. CASE On(w) => p # work[w].o
    BY <1>3, <2>1, Others DEF Works
  <2>2. CASE On(w) /\ p = work[w].o
    <3>1. work[w].pc = "publish" => work[w].snapshot = "server"  BY DEF Inner, Working
    <3>. QED  BY <1>3, <2>2, <3>1, TheOne DEF Works
  <2>. QED  BY <2>1, <2>2
<1>4. ASSUME NEW a \in Admin, Mends(a)
      PROVE  /\ live' \subseteq live
             /\ \A p \in Object : Uploaded(p) => Uploaded(p)'
             /\ Is("repair")
  BY <1>0, <1>4 DEF Mends, Moved, Begun, Looked, Put, Uploaded, Inner, RepairTyped
<1>. QED  BY <1>1, <1>2, <1>3, <1>4, Steps

\* Every step keeps what is known of a row.
LEMMA QueuedStep ==
  ASSUME Inner, [Next]_vars, NEW p \in Object
  PROVE  QueuedRow(p)'
<1>0. world' = world /\ QueuedRow(p) /\ object[p] \in ObjectRow /\ tries[p] \in Nat
  BY Steps DEF Inner, TypeOK
<1>1. CASE Plain
  BY <1>0, <1>1 DEF Plain, QueuedRow, Uploaded
<1>2. ASSUME NEW o \in Object, Completes(o)
      PROVE  QueuedRow(p)'
  <2>1. CASE p # o
    BY <1>0, <1>2, <2>1 DEF Completes, QueuedRow, Uploaded
  <2>2. CASE p = o
    <3>1. CASE Stored(o)
      BY <1>0, <1>2, <2>2, <3>1 DEF Completes, Stored, QueuedRow, Uploaded
    <3>2. CASE Scheduled(o)
      BY <1>0, <1>2, <2>2, <3>2 DEF Completes, Scheduled, QueuedRow, Uploaded, MaxAttempts
    <3>3. CASE Analysed(o) \/ Refused(o)
      BY <1>0, <1>2, <2>2, <3>3 DEF Completes, Analysed, Refused, QueuedRow, Uploaded
    <3>. QED  BY <1>2, <3>1, <3>2, <3>3 DEF Completes
  <2>. QED  BY <2>1, <2>2
<1>3. ASSUME NEW w \in Worker, Works(w)
      PROVE  QueuedRow(p)'
  <2>1. CASE On(w) => p # work[w].o
    BY <1>0, <1>3, <2>1, Others DEF Works, QueuedRow, Uploaded
  <2>2. CASE On(w) /\ p = work[w].o
    <3>1. Uploaded(p) /\ Uploaded(p)' /\ work[w].attempts \in 0 .. 2
      BY <1>0, <1>3, <2>2, Held DEF Works, Uploaded
    <3>2. object'[p].needs => object'[p].attempts < MaxAttempts
      BY <1>0, <1>3, <2>2, <3>1, TheOne DEF Works, QueuedRow
    <3>. QED  BY <3>1, <3>2 DEF QueuedRow, Uploaded
  <2>. QED  BY <2>1, <2>2
<1>4. ASSUME NEW a \in Admin, Mends(a)
      PROVE  QueuedRow(p)'
  BY <1>0, <1>4 DEF Mends, Moved, Begun, Looked, Put, QueuedRow, Uploaded
<1>. QED  BY <1>1, <1>2, <1>3, <1>4, Steps

\* What is uploaded after the step.
Still(o) == upload'[o] = "done" /\ world'.client[o] # {}

\* What a worker holds, when others step.
LEMMA WorkingKept ==
  ASSUME Inner, [Next]_vars, NEW v \in Worker, work'[v] = work[v]
  PROVE  Working(v)'
<1>1. Working(v) /\ TypeOK /\ work[v] \in WorkRow  BY DEF Inner, TypeOK
<1>2. /\ live' \subseteq live
      /\ \A o \in Object : Uploaded(o) => Still(o)
      /\ ~Is("repair") =>
           /\ \A o \in Object : Uploaded(o) /\ object[o].source = "server" => object'[o].source = "server"
           /\ \A o \in Object : Uploaded(o) /\ seen[o] = "server" => seen'[o] = "server"
  BY KnownStays DEF Uploaded, Still
<1>3. \A e \in work[v].todo : e[1] \in Object  BY <1>1, RowHas DEF Entry
<1>4. \A e \in work'[v].todo : Still(e[1]) /\ e[2] < MaxAttempts
  BY <1>1, <1>2, <1>3 DEF Working
<1>5. On(v)' => On(v)  BY DEF On
<1>6. On(v) => work[v].o \in Object /\ Still(work[v].o) /\ work[v].attempts < MaxAttempts
  BY <1>1, <1>2 DEF Working
<1>7. /\ work[v].pc = "retire" => work[v].o \notin live'
      /\ ~Is("repair") => /\ work[v].pc = "reload" => object'[work[v].o].source = "server"
                          /\ work[v].pc = "publish" => work[v].snapshot = "server"
                          /\ work[v].pc = "clear" => seen'[work[v].o] = "server"
  BY <1>1, <1>2 DEF Working, On
<1>8. work'[v].pc = "idle" => work'[v].todo = {}  BY <1>1 DEF Working
<1>9. On(v)' => work'[v].o \in Object /\ Still(work'[v].o) /\ work'[v].attempts < MaxAttempts
  BY <1>5, <1>6
<1>10. Is("repair")' = Is("repair")  BY Steps DEF Is
<1>. QED  BY <1>4, <1>7, <1>8, <1>9, <1>10 DEF Working, Uploaded, Still

\* Every step keeps what is known of a worker.
LEMMA WorkingStep ==
  ASSUME Inner, [Next]_vars, NEW v \in Worker
  PROVE  Working(v)'
<1>0. Working(v) /\ TypeOK /\ TypeOK' /\ work[v] \in WorkRow /\ Is("repair")' = Is("repair")
  BY Steps DEF Inner, TypeOK, Is
<1>1. CASE work'[v] = work[v]
  BY <1>1, WorkingKept
<1>2. ASSUME Works(v)
      PROVE  Working(v)'
  <2>0. /\ live' = live
        /\ \A o \in Object : Uploaded(o) => Still(o)
    BY <1>2, KnownStays DEF Works, Uploaded, Still
  <2>1. \A e \in work[v].todo : e[1] \in Object /\ Still(e[1]) /\ e[2] < MaxAttempts
    BY <1>0, <2>0, RowHas DEF Entry, Working
  <2>2. On(v) => work[v].o \in Object /\ Still(work[v].o) /\ work[v].attempts < MaxAttempts
    BY <1>0, <2>0 DEF Working
  <2>3. CASE Scanned(v)
    <3>1. PICK S \in SUBSET Queued : work'[v].todo = {<<o, object[o].attempts>> : o \in S}
      BY <2>3 DEF Scanned
    <3>2. \A o \in S : o \in Object /\ object[o].needs  BY <1>0, <3>1 DEF Queued, TypeOK
    <3>3. \A o \in S : Still(o) /\ object[o].attempts < MaxAttempts
      BY <2>0, <3>2 DEF Inner, QueuedRow
    <3>4. \A e \in work'[v].todo : Still(e[1]) /\ e[2] < MaxAttempts
      BY <3>1, <3>3
    <3>5. work'[v].pc = "take"  BY <2>3 DEF Scanned
    <3>. QED  BY <3>4, <3>5 DEF Working, On, Uploaded, Still
  <2>4. CASE Took(v)
    <3>1. PICK e \in work[v].todo :
            /\ work'[v].todo = work[v].todo \ {e} /\ work'[v].o = e[1] /\ work'[v].attempts = e[2]
            /\ work'[v].pc = IF e[1] \in live THEN "download" ELSE "retire"
      BY <2>4 DEF Took
    <3>2. \A f \in work'[v].todo : Still(f[1]) /\ f[2] < MaxAttempts
      BY <2>1, <3>1
    <3>3. work'[v].o \in Object /\ Still(work'[v].o) /\ work'[v].attempts < MaxAttempts
      BY <2>1, <3>1
    <3>4. work'[v].pc \in {"download", "retire"} /\ (work'[v].pc = "retire" => work'[v].o \notin live')
      BY <2>0, <3>1
    <3>. QED  BY <3>2, <3>3, <3>4 DEF Working, Uploaded, Still
  <2>5. CASE WentOn(v)
    <3>1. On(v) /\ work'[v].todo = work[v].todo /\ work'[v].o = work[v].o /\ work'[v].attempts = work[v].attempts
      BY <2>5 DEF WentOn, On
    <3>2. \A f \in work'[v].todo : Still(f[1]) /\ f[2] < MaxAttempts
      BY <2>1, <3>1
    <3>3. work'[v].o \in Object /\ Still(work'[v].o) /\ work'[v].attempts < MaxAttempts
      BY <2>2, <3>1
    <3>4. work'[v].pc \in {"read", "write", "reload", "publish", "retire", "clear"}
      BY <2>5 DEF WentOn
    <3>5. work'[v].pc = "retire" => work'[v].o \notin live'
      BY <2>0, <2>5, <3>1 DEF WentOn
    <3>6. work'[v].pc = "reload" => object'[work'[v].o].source = "server"
      <4>1. SUFFICES ASSUME work'[v].pc = "reload" PROVE object'[work[v].o].source = "server"
        BY <3>1
      <4>2. object' = [object EXCEPT ![work[v].o].exif = work[v].exif \cup world.server[work[v].o],
                                     ![work[v].o].source = "server"]
        BY <2>5, <4>1 DEF WentOn
      <4>3. work[v].o \in Object /\ object \in [Object -> ObjectRow]
        BY <1>0, <2>2, <3>1 DEF TypeOK
      <4>. QED  BY <4>2, <4>3 DEF ObjectRow
    <3>7. ~Is("repair") /\ work'[v].pc = "publish" => work'[v].snapshot = "server"
      BY <1>0, <2>5 DEF WentOn, Working
    <3>8. ~Is("repair") /\ work'[v].pc = "clear" => seen'[work'[v].o] = "server"
      <4>1. SUFFICES ASSUME ~Is("repair"), work'[v].pc = "clear" PROVE seen'[work[v].o] = "server"
        BY <3>1
      <4>2. work[v].pc = "publish" /\ seen' = [seen EXCEPT ![work[v].o] = work[v].snapshot]
        BY <2>5, <4>1 DEF WentOn
      <4>3. work[v].snapshot = "server"  BY <1>0, <4>1, <4>2 DEF Working
      <4>. QED  BY <1>0, <2>2, <3>1, <4>2, <4>3 DEF TypeOK
    <3>. QED  BY <1>0, <3>2, <3>3, <3>4, <3>5, <3>6, <3>7, <3>8 DEF Working, Uploaded, Still
  <2>6. CASE Finished(v) \/ Failed(v) \/ Lost(v)
    <3>1. work'[v].pc \in {"idle", "take"} /\ work'[v].todo = work[v].todo
          /\ (work'[v].pc = "idle" => work[v].todo = {})
      BY <2>6 DEF Finished, Failed, Lost
    <3>2. \A f \in work'[v].todo : Still(f[1]) /\ f[2] < MaxAttempts
      BY <2>1, <3>1
    <3>. QED  BY <3>1, <3>2 DEF Working, On, Uploaded, Still
  <2>7. CASE Died(v)
    BY <2>7 DEF Died, Working, On
  <2>. QED  BY <1>2, <2>3, <2>4, <2>5, <2>6, <2>7 DEF Works, Does
<1>3. ASSUME NEW w \in Worker, Works(w), w # v
      PROVE  work'[v] = work[v]
  BY <1>3 DEF Works
<1>4. Plain \/ (\E o \in Object : Completes(o)) \/ (\E a \in Admin : Mends(a)) => work' = work
  BY DEF Plain, Completes, Mends
<1>. QED  BY <1>1, <1>2, <1>3, <1>4, Steps

-----------------------------------------------------------------------------
(* The properties. *)

\* Only Finished clears: a retired object is not live, the other is published.
LEMMA PublishedStep ==
  ASSUME Inner, ClearedWasPublished, [Next]_vars
  PROVE  ClearedWasPublished'
<1>. SUFFICES ASSUME ~Is("repair"), NEW p \in Object, p \in live',
                     (upload[p] = "done")', (world.client[p] # {})', (~object[p].needs)',
                     (object[p].attempts = 0)'
              PROVE  seen'[p] = "server"
  <2>1. live' \subseteq Object /\ Is("repair")' = Is("repair")  BY Steps DEF TypeOK, Is
  <2>. QED  BY <2>1 DEF ClearedWasPublished, Republished
<1>0. /\ world' = world /\ p \in live /\ object[p] \in ObjectRow
      /\ (Uploaded(p) /\ seen[p] = "server" => seen'[p] = "server")
  BY Steps, KnownStays DEF Inner, TypeOK
<1>1. CASE Plain
  BY <1>0, <1>1 DEF Plain, ClearedWasPublished, Republished
<1>2. ASSUME NEW o \in Object, Completes(o)
      PROVE  seen'[p] = "server"
  BY <1>0, <1>2 DEF Completes, Stored, Scheduled, Analysed, Refused, ClearedWasPublished, Republished
<1>3. ASSUME NEW w \in Worker, Works(w)
      PROVE  seen'[p] = "server"
  <2>0. Uploaded(p)  BY <1>0, <1>3 DEF Works, Uploaded
  <2>1. CASE object'[p].needs = object[p].needs /\ object'[p].attempts = object[p].attempts
    BY <1>0, <1>3, <2>0, <2>1 DEF ClearedWasPublished, Republished, Uploaded
  <2>2. CASE On(w) => p # work[w].o
    BY <1>3, <2>1, <2>2, Others DEF Works
  <2>3. CASE On(w) /\ p = work[w].o
    <3>1. CASE Finished(w)
      BY <1>0, <2>0, <2>3, <3>1 DEF Finished, Inner, Working
    <3>2. CASE Failed(w) /\ object'[p].attempts = work[w].attempts + 1
      BY <2>3, <3>2, Held
    <3>. QED  BY <1>3, <2>1, <2>3, <3>1, <3>2, TheOne DEF Works
  <2>. QED  BY <2>2, <2>3
<1>4. ASSUME NEW a \in Admin, Mends(a)
      PROVE  seen'[p] = "server"
  BY <1>4 DEF Mends, Moved, Begun, Looked, Put, Inner, RepairTyped
<1>. QED  BY <1>1, <1>2, <1>3, <1>4, Steps

\* Tags are the client's, with or without the server's, so a late write adds.
LEMMA TagsStep ==
  ASSUME Inner, TagsMerged, [Next]_vars
  PROVE  /\ TagsMerged'
         /\ ~Is("repair") => \A o \in Object : object[o].exif \subseteq object'[o].exif
<1>. SUFFICES ASSUME ~Is("repair")
              PROVE  /\ TagsMerged'
                     /\ \A o \in Object : object[o].exif \subseteq object'[o].exif
  BY Steps DEF TagsMerged, Is
<1>0. /\ world' = world /\ object \in [Object -> ObjectRow] /\ work \in [Worker -> WorkRow]
      /\ \A o \in Object : Merged(o)' = Merged(o)
  BY Steps DEF Inner, TypeOK, Merged, normalizeClientSourceMetadata
<1>. DEFINE Good(o, up, x) == /\ up = "new" => x = {}
                              /\ up \in {"stored", "done"} /\ world.client[o] # {} => x \in Merged(o)
<1>a. /\ \A o \in Object : Good(o, upload[o], object[o].exif)
      /\ \A w \in Worker : work[w].pc = "write" => work[w].exif \in Merged(work[w].o)
      /\ \A a \in Admin : repair[a].pc = "idle"
  BY DEF TagsMerged, Inner, RepairTyped
<1>b. SUFFICES /\ \A o \in Object : Good(o, upload'[o], object'[o].exif)
               /\ \A w \in Worker : work'[w].pc = "write" => work'[w].exif \in Merged(work'[w].o)
               /\ \A o \in Object : object[o].exif \subseteq object'[o].exif
  <2>. QED  BY <1>0 DEF TagsMerged, Merged, normalizeClientSourceMetadata
<1>1. CASE Plain
  BY <1>a, <1>1 DEF Plain
<1>2. ASSUME NEW o \in Object, Completes(o)
      PROVE  <1>b!1
  <2>1. work' = work /\ repair' = repair  BY <1>2 DEF Completes
  <2>2. \A p \in Object \ {o} : object'[p] = object[p] /\ upload'[p] = upload[p]  BY <1>2 DEF Completes
  <2>3. normalizeClientSourceMetadata(o) \in Merged(o)  BY DEF Merged
  <2>4. Good(o, upload'[o], object'[o].exif) /\ object[o].exif \subseteq object'[o].exif
    BY <1>a, <1>2, <2>3 DEF Completes, Stored, Scheduled, Analysed, Refused
  <2>. HIDE DEF Good
  <2>. QED  BY <1>a, <2>1, <2>2, <2>4
<1>3. ASSUME NEW w \in Worker, Works(w)
      PROVE  <1>b!1
  <2>1. /\ \A v \in Worker \ {w} : work'[v] = work[v]
        /\ upload' = upload /\ repair' = repair /\ Does(w)
    BY <1>3 DEF Works
  <2>2. ASSUME NEW p \in Object, On(w) => p # work[w].o
        PROVE  object'[p] = object[p]
    BY <2>1, <2>2, Others
  <2>3. ASSUME On(w)
        PROVE  /\ object[work[w].o].exif \subseteq object'[work[w].o].exif
               /\ Good(work[w].o, upload[work[w].o], object'[work[w].o].exif)
    <3>. DEFINE o == work[w].o
    <3>0. o \in Object /\ upload[o] = "done" /\ world.client[o] # {} /\ object[o].exif \in Merged(o)
      BY <1>a, <2>3, Held DEF Uploaded
    <3>1. CASE object'[o].exif = object[o].exif
      BY <1>a, <3>0, <3>1
    <3>2. CASE work[w].pc = "write" /\ object'[o].exif = work[w].exif \cup world.server[o]
      <4>1. work[w].exif \in Merged(o)  BY <1>a, <3>2
      <4>2. object'[o].exif = normalizeClientSourceMetadata(o) \cup world.server[o]
        BY <3>2, <4>1 DEF Merged
      <4>. QED  BY <3>0, <4>2 DEF Merged
    <3>. QED  BY <2>1, <2>3, <3>1, <3>2, TheOne
  <2>4. \A p \in Object : /\ object[p].exif \subseteq object'[p].exif
                          /\ Good(p, upload'[p], object'[p].exif)
    <3>. HIDE DEF Good
    <3>. QED  BY <1>a, <2>1, <2>2, <2>3
  <2>5. work'[w].pc = "write" => work'[w].exif \in Merged(work'[w].o)
    <3>1. SUFFICES ASSUME work'[w].pc = "write"
                   PROVE  work'[w].exif \in Merged(work'[w].o)
      OBVIOUS
    <3>2. work[w].pc = "read" /\ work'[w].exif = object[work[w].o].exif /\ work'[w].o = work[w].o
      BY <2>1, <3>1 DEF Does, Scanned, Took, WentOn, Finished, Failed, Lost, Died
    <3>3. On(w)  BY <3>2 DEF On
    <3>4. work[w].o \in Object /\ upload[work[w].o] = "done" /\ world.client[work[w].o] # {}
      BY <3>3, Held DEF Uploaded
    <3>. QED  BY <1>a, <3>2, <3>4
  <2>. QED  BY <1>a, <2>1, <2>4, <2>5
<1>4. ASSUME NEW a \in Admin, Mends(a)
      PROVE  FALSE
  BY <1>a, <1>4 DEF Mends, Begun, Moved, Looked, Put
<1>. QED  BY <1>1, <1>2, <1>3, <1>4, Steps

\* The attempts of the one worker are those of the row.
LEMMA CountedStep ==
  ASSUME Inner, Counted, [Next]_vars
  PROVE  Counted'
<1>. SUFFICES ASSUME Sole PROVE Counted'
  BY Steps DEF Counted, Sole, Is
<1>0. /\ world' = world /\ object \in [Object -> ObjectRow] /\ tries \in [Object -> Nat]
      /\ object' \in [Object -> ObjectRow] /\ tries' \in [Object -> Nat]
      /\ work \in [Worker -> WorkRow]
  BY Steps DEF Inner, TypeOK
<1>. DEFINE Level == \A o \in Object : tries[o] <= MaxAttempts /\ (object[o].needs => tries[o] = object[o].attempts)
            Batch1(w) == \A e \in work[w].todo : object[e[1]].needs /\ object[e[1]].attempts = e[2]
            Single(w) == On(w) => /\ object[work[w].o].needs /\ object[work[w].o].attempts = work[w].attempts
                                  /\ \A e \in work[w].todo : e[1] # work[w].o
            Row(w) == (w \notin world.running => work[w].pc = "idle") /\ Batch1(w) /\ Single(w)
<1>a. Level /\ \A w \in Worker : Row(w)  BY DEF Counted
<1>b. SUFFICES Level' /\ \A w \in Worker : Row(w)'
  BY DEF Counted
<1>c. \A w \in Worker : \A e \in work[w].todo : e[1] \in Object /\ e[2] \in Nat /\ e = <<e[1], e[2]>> /\ Uploaded(e[1])
  <2>. SUFFICES ASSUME NEW w \in Worker, NEW e \in work[w].todo
                PROVE  e[1] \in Object /\ e[2] \in Nat /\ e = <<e[1], e[2]>> /\ Uploaded(e[1])
    OBVIOUS
  <2>1. e \in Entry  BY <1>0, RowHas
  <2>. QED  BY <2>1 DEF Entry, MaxAttempts, Inner, Working
<1>d. \A w \in Worker : On(w) => work[w].o \in Object /\ Uploaded(work[w].o) /\ work[w].attempts \in 0 .. 2
  BY Held
<1>1. ASSUME /\ work' = work /\ tries' = tries
             /\ \A o \in Object : /\ object[o].needs => object'[o].needs
                                  /\ object'[o].needs => tries[o] = object'[o].attempts
                                  /\ Uploaded(o) => object'[o].attempts = object[o].attempts
      PROVE  <1>b!1
  <2>1. Level'  BY <1>a, <1>1
  <2>2. ASSUME NEW w \in Worker PROVE Row(w)'
    <3>1. Row(w)  BY <1>a
    <3>2. Batch1(w)'  BY <1>1, <1>c, <3>1
    <3>3. Single(w)'  BY <1>1, <1>d, <3>1 DEF On
    <3>. QED  BY <1>0, <1>1, <3>1, <3>2, <3>3
  <2>. QED  BY <2>1, <2>2
<1>2. CASE Plain
  <2>. HIDE DEF Level, Row, Batch1, Single
  <2>1. work' = work /\ tries' = tries /\ object' = object  BY <1>2 DEF Plain
  <2>2. \A o \in Object : object[o].needs => tries[o] = object[o].attempts  BY <1>a DEF Level
  <2>. QED  BY <1>1, <2>1, <2>2
<1>3. ASSUME NEW o \in Object, Completes(o)
      PROVE  <1>b!1
  <2>1. /\ work' = work /\ tries' = tries /\ \A p \in Object \ {o} : object'[p] = object[p]
    BY <1>3 DEF Completes
  <2>2. \A p \in Object : object[p].needs => tries[p] = object[p].attempts  BY <1>a
  <2>3. ~Uploaded(o)  BY <1>3 DEF Completes, Stored, Scheduled, Analysed, Refused, Uploaded
  <2>4. ~object[o].needs /\ (upload[o] # "done" => tries[o] = 0)
    BY <2>3 DEF Inner, QueuedRow
  <2>5. object'[o].needs => tries[o] = object'[o].attempts
    BY <1>3, <2>4 DEF Completes, Stored, Scheduled, Analysed, Refused
  <2>. HIDE DEF Level, Row, Batch1, Single
  <2>. QED  BY <1>1, <2>1, <2>2, <2>3, <2>4, <2>5
<1>4. ASSUME NEW a \in Admin, Mends(a)
      PROVE  <1>b!1
  <2>1. /\ work' = work /\ tries' = tries
        /\ \A p \in Object : object'[p].needs = object[p].needs /\ object'[p].attempts = object[p].attempts
    BY <1>4 DEF Mends, Begun, Moved, Looked, Put
  <2>2. \A p \in Object : object[p].needs => tries[p] = object[p].attempts  BY <1>a
  <2>. HIDE DEF Level, Row, Batch1, Single
  <2>. QED  BY <1>1, <2>1, <2>2
<1>5. ASSUME NEW w \in Worker, Works(w)
      PROVE  <1>b!1
  <2>0. Does(w) /\ \A v \in Worker \ {w} : work'[v] = work[v]  BY <1>5 DEF Works
  <2>1. ~Died(w) /\ ~Lost(w)  BY DEF Died, Lost, Sole
  <2>2. w \in world.running
    BY <1>a, <2>0, <2>1 DEF Does, Scanned, Took, WentOn, Finished, Failed
  <2>3. ASSUME NEW v \in Worker \ {w} PROVE Row(v)'
    <3>1. v \notin world.running  BY <2>2 DEF Sole
    <3>2. work[v].pc = "idle" /\ work[v].todo = {}  BY <1>a, <3>1 DEF Inner, Working
    <3>. QED  BY <2>0, <3>2 DEF On
  <2>4. \A p \in Object : (On(w) => p # work[w].o) => object'[p] = object[p] /\ tries'[p] = tries[p]
    BY <2>0, Others
  <2>5. SUFFICES Level' /\ Batch1(w)' /\ Single(w)'
    BY <1>0, <2>2, <2>3
  <2>6. CASE Scanned(w)
    <3>1. PICK S \in SUBSET Queued : work'[w].todo = {<<o, object[o].attempts>> : o \in S}
      BY <2>6 DEF Scanned
    <3>2. \A o \in S : object[o].needs  BY <3>1 DEF Queued
    <3>3. object' = object /\ tries' = tries /\ work'[w].pc = "take"  BY <2>6 DEF Scanned
    <3>. QED  BY <1>a, <3>1, <3>2, <3>3 DEF On
  <2>7. CASE Took(w)
    <3>1. PICK e \in work[w].todo :
            work'[w].todo = work[w].todo \ {e} /\ work'[w].o = e[1] /\ work'[w].attempts = e[2]
      BY <2>7 DEF Took
    <3>2. object' = object /\ tries' = tries  BY <2>7 DEF Took
    <3>3. \A f \in work[w].todo : object[f[1]].needs /\ object[f[1]].attempts = f[2]  BY <1>a
    <3>4. \A f \in work[w].todo \ {e} : f[1] # e[1]
      BY <1>c, <3>1, <3>3
    <3>. QED  BY <1>a, <3>1, <3>2, <3>3, <3>4
  <2>8. CASE WentOn(w) \/ Finished(w) \/ Failed(w)
    <3>. DEFINE o == work[w].o
    <3>1. On(w) /\ work'[w].todo = work[w].todo  BY <2>8 DEF WentOn, Finished, Failed, On
    <3>2. o \in Object /\ object[o].needs /\ object[o].attempts = work[w].attempts
          /\ tries[o] = work[w].attempts /\ work[w].attempts \in 0 .. 2
          /\ \A e \in work[w].todo : e[1] # o
      BY <1>a, <1>d, <3>1
    <3>3. Batch1(w)'  BY <1>a, <1>c, <2>4, <3>1, <3>2
    <3>4. CASE WentOn(w)
      <4>1. work'[w].o = o /\ work'[w].attempts = work[w].attempts /\ tries' = tries
        BY <3>4 DEF WentOn
      <4>2. ~Finished(w) /\ ~Failed(w) /\ ~Lost(w)  BY <2>1, <3>4 DEF WentOn, Finished, Failed
      <4>3. object'[o].needs /\ object'[o].attempts = object[o].attempts
        BY <2>0, <3>1, <3>2, <4>2, TheOne
      <4>. QED  BY <1>a, <2>4, <3>1, <3>2, <3>3, <4>1, <4>3 DEF MaxAttempts
    <3>5. CASE Finished(w) \/ Failed(w)
      <4>1. ~On(w)'  BY <3>5 DEF Finished, Failed, On
      <4>2. tries'[o] <= MaxAttempts /\ (object'[o].needs => tries'[o] = object'[o].attempts)
        BY <1>a, <2>0, <2>1, <3>1, <3>2, <3>5, TheOne DEF MaxAttempts
      <4>3. Level'  BY <1>a, <2>4, <4>2
      <4>. QED  BY <3>3, <4>1, <4>3
    <3>. QED  BY <2>8, <3>4, <3>5
  <2>. QED  BY <2>0, <2>1, <2>6, <2>7, <2>8 DEF Does
<1>. QED  BY <1>2, <1>3, <1>4, <1>5, Steps

\* Between the look-up and the insert no other repair runs.
LEMMA ChildStep ==
  ASSUME Inner, OneChild, OneVariant, [Next]_vars
  PROVE  OneChild' /\ OneVariant'
<1>0. /\ world' = world /\ repair \in [Admin -> RepairRow] /\ repair' \in [Admin -> RepairRow]
      /\ thumbs \in [Object -> Nat]
  BY Steps DEF Inner, TypeOK
<1>1. ASSUME repair' = repair /\ thumbs' = thumbs
      PROVE  OneChild' /\ OneVariant'
  BY <1>0, <1>1 DEF OneChild, OneVariant, Is
<1>2. ASSUME NEW a \in Admin, Mends(a)
      PROVE  OneChild' /\ OneVariant'
  <2>1. /\ \A b \in Admin \ {a} : repair'[b] = repair[b]
        /\ repair'[a].pc \in {"lookup", "put", "read", "write"} => repair'[a].o \in Object
        /\ Is("repair")
        /\ Begun(a) \/ Moved(a) \/ Looked(a) \/ Put(a)
    BY <1>2 DEF Mends, RepairLeft, Begun, Moved, Looked, Put, OneChild
  <2>2. \A b \in Admin : repair'[b].pc \in {"lookup", "put", "read", "write"} => repair'[b].o \in Object
    BY <2>1 DEF OneChild
  <2>3. ASSUME ~Is("overlap")
        PROVE  /\ \A b \in Admin \ {a} : repair[b].pc = "idle" /\ repair'[b].pc = "idle"
               /\ repair'[a].pc = "put" /\ repair'[a].missing => thumbs'[repair'[a].o] = 0
               /\ \A o \in Object : thumbs'[o] <= 1
    <3>1. \A b \in Admin \ {a} : repair[b].pc = "idle" /\ repair'[b].pc = "idle"
      BY <2>1, <2>3 DEF Begun, Moved, Looked, Put, OneChild
    <3>2. CASE Begun(a) \/ Moved(a) \/ Looked(a)
      BY <2>3, <3>1, <3>2 DEF Begun, Moved, Looked, OneVariant
    <3>3. CASE Put(a)
      <4>1. repair[a].o \in Object /\ (repair[a].missing => thumbs[repair[a].o] = 0)
        BY <2>3, <3>3 DEF Put, OneChild
      <4>2. \A o \in Object : thumbs'[o] <= 1
        BY <1>0, <2>3, <3>3, <4>1 DEF Put, OneVariant
      <4>. QED  BY <3>1, <3>3, <4>2 DEF Put
    <3>. QED  BY <2>1, <3>2, <3>3
  <2>4. ~Is("overlap") => /\ \A b, c \in Admin : repair'[b].pc # "idle" /\ repair'[c].pc # "idle" => b = c
                          /\ \A b \in Admin : repair'[b].pc = "put" /\ repair'[b].missing => thumbs'[repair'[b].o] = 0
                          /\ \A o \in Object : thumbs'[o] <= 1
    BY <2>3
  <2>. QED  BY <1>0, <2>1, <2>2, <2>4 DEF OneChild, OneVariant, Is
<1>3. Plain \/ (\E o \in Object : Completes(o)) \/ (\E w \in Worker : Works(w))
        => repair' = repair /\ thumbs' = thumbs
  BY DEF Plain, Completes, Works
<1>. QED  BY <1>1, <1>2, <1>3, Steps

-----------------------------------------------------------------------------

\* The invariant holds at first ...
LEMMA AtFirst == Init => IInv
<1>. SUFFICES ASSUME Init PROVE IInv
  OBVIOUS
<1>0. world \in Worlds /\ world \in World  BY WorldsTyped DEF Init
<1>1. TypeOK
  <2>1. object \in [Object -> ObjectRow]  BY DEF Init, ObjectRow, Source, MaxAttempts
  <2>2. /\ work \in [Worker -> WorkRow] /\ repair \in [Admin -> RepairRow]
    BY IdleRows DEF Init
  <2>3. /\ live \subseteq Object /\ thumbs \in [Object -> Nat] /\ ripe \subseteq Object
        /\ seen \in [Object -> Source] /\ tries \in [Object -> Nat] /\ spent \subseteq Worker \cup Admin
        /\ upload \in [Object -> {"new", "stored", "done", "failed"}]
    BY DEF Init, Source
  <2>. QED  BY <1>0, <2>1, <2>2, <2>3 DEF TypeOK
<1>2. \A w \in Worker : work[w].pc = "idle" /\ work[w].todo = {}  BY IdleRows DEF Init
<1>3. \A a \in Admin : repair[a].pc = "idle"  BY IdleRows DEF Init
<1>4. \A o \in Object : /\ object[o].exif = {} /\ object[o].needs = FALSE /\ object[o].attempts = 0
                        /\ upload[o] = "new" /\ thumbs[o] = 0 /\ tries[o] = 0
  BY DEF Init
<1>5. \A w \in Worker : Working(w)  BY <1>2 DEF Working, On
<1>6. \A o \in Object : QueuedRow(o)  BY <1>4 DEF QueuedRow
<1>7. ClearedWasPublished
  <2>1. live \subseteq Object  BY <1>1 DEF TypeOK
  <2>. QED  BY <1>4, <2>1 DEF ClearedWasPublished, Republished
<1>8. TagsMerged  BY <1>2, <1>3, <1>4 DEF TagsMerged
<1>9. Counted /\ TriesBounded  BY <1>2, <1>4 DEF Counted, TriesBounded, On, MaxAttempts
<1>10. OneChild /\ OneVariant  BY <1>3, <1>4 DEF OneChild, OneVariant
<1>. QED  BY <1>1, <1>5, <1>6, <1>7, <1>8, <1>9, <1>10 DEF IInv

LEMMA InnerHolds == IInv => Inner
BY DEF IInv, Inner, RepairTyped, OneChild

\* ... and every step keeps it.
LEMMA Inductive == IInv /\ [Next]_vars => IInv'
<1>. SUFFICES ASSUME IInv, [Next]_vars PROVE IInv'
  OBVIOUS
<1>1. /\ Inner /\ ClearedWasPublished /\ TagsMerged /\ Counted /\ OneChild /\ OneVariant
  BY InnerHolds DEF IInv
<1>2. TypeOK' /\ ClearedWasPublished' /\ TagsMerged' /\ Counted' /\ OneChild' /\ OneVariant'
  BY <1>1, TypeStep, PublishedStep, TagsStep, CountedStep, ChildStep
<1>3. \A o \in Object : QueuedRow(o)'  BY <1>1, QueuedStep
<1>4. \A w \in Worker : Working(w)'  BY <1>1, WorkingStep
<1>5. TriesBounded'  BY <1>2 DEF Counted, TriesBounded, Sole
<1>. QED  BY <1>2, <1>3, <1>4, <1>5 DEF IInv

\* Whatever the workers, the uploads, the deletions and the repairs do, the
\* inductive invariant holds: rows keep their types, what is queued has been
\* uploaded with assistance, and a worker has done what its place in
\* worker/worker.go's loop says it has.
THEOREM Invariance == Spec => []IInv
BY AtFirst, Inductive, PTL DEF Spec

\* processReanalysisQueue publishes before it clears: an object that left the
\* queue of a live file has been published with the server's metadata, unless
\* administrators repair next to the queue.
THEOREM Published == Spec => []ClearedWasPublished
<1>1. IInv => ClearedWasPublished  BY DEF IInv
<1>. QED  BY <1>1, Invariance, PTL

\* failReanalysis: with one worker that neither dies nor loses an update, an
\* object that cannot be analysed is downloaded at most three times.
THEOREM GivenUp == Spec => []TriesBounded
<1>1. IInv => TriesBounded  BY DEF IInv
<1>. QED  BY <1>1, Invariance, PTL

\* persistReanalysisVariant: repairs that do not overlap never give a file a
\* second thumbnail.
THEOREM OneThumbnail == Spec => []OneVariant
<1>1. IInv => OneVariant  BY DEF IInv
<1>. QED  BY <1>1, Invariance, PTL

\* applyServerSourceAnalysis reads the tags and writes them back in another
\* step: no order of the passes of several workers loses a tag.
THEOREM NoTagLost == Spec => TagsKept
<1>1. IInv /\ [Next]_vars
        => [~Is("repair") => \A o \in Object : object[o].exif \subseteq object'[o].exif]_vars
  BY InnerHolds, TagsStep DEF IInv
<1>. QED  BY <1>1, Invariance, PTL DEF Spec, TagsKept
=============================================================================
