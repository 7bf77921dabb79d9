------------------------ MODULE ChunkedUploadProofs ------------------------
(***************************************************************************)
(* Proofs about ChunkedUpload: its inductive invariant holds for any number *)
(* of uploads, chunks and requests and any quotas.                         *)
(***************************************************************************)
EXTENDS ChunkedUpload, FiniteSetTheorems, WellFoundedInduction, TLAPS

-----------------------------------------------------------------------------
(* Types, locals, and the one completion. *)

Typed == TypeOK /\ LocalsSet /\ OneCompletion

LEMMA ChunkNat == Chunk \subseteq Nat /\ Chunks \in Chunk /\ Chunk # {}
BY Bounds DEF Chunk

LEMMA KindsTyped == ASSUME TypeOK, NEW t \in Task PROVE Kind(t) \in Kinds
BY WorldsTyped DEF TypeOK, World, Kind

LEMMA InitTyped == Init => Typed
<1>. SUFFICES ASSUME Init PROVE Typed
  OBVIOUS
<1>. QED
  BY NoneIsNone, Bounds DEF Typed, Init, TypeOK, LocalsSet, OneCompletion, TaskRow, StagedFile,
            FileRow, ReqRow, PC, IdleReq, ClientRow, Event, Bytes, Completing, NoBytes

\* A step by which a request gets a new row, and no second completion begins.
LEMMA RequestTyped ==
  ASSUME Typed, NEW r \in Req, NEW row \in ReqRow,
         req' = [req EXCEPT ![r] = row], world' = world,
         row.pc = "idle" => row = IdleReq,
         row.pc # "idle" => row.t \in Task,
         row.pc \in {"write", "row"} => row.c \in Chunk,
         row.pc \in {"write", "row", "check", "inspect"} => ~InOne(row.t),
         \/ Completing(r)
         \/ row.pc \in {"idle", "write", "row"}
         \/ MayComplete
  PROVE  req' \in [Req -> ReqRow] /\ LocalsSet' /\ OneCompletion'
<1>1. req' \in [Req -> ReqRow]  BY DEF Typed, TypeOK
<1>2. LocalsSet'  BY DEF Typed, TypeOK, LocalsSet, InOne, Kind
<1>3. OneCompletion'  BY DEF Typed, TypeOK, OneCompletion, Completing, Is, MayComplete
<1>. QED  BY <1>1, <1>2, <1>3

\* What a request that is being served works on.
LEMMA Serving ==
  ASSUME Typed, NEW r \in Req, req[r].pc # "idle"
  PROVE  /\ req[r] \in ReqRow /\ req[r].t \in Task
         /\ req[r].pc \in {"write", "row"} => req[r].c \in Chunk /\ ~InOne(req[r].t)
         /\ req[r].pc \in {"check", "inspect"} => ~InOne(req[r].t)
BY DEF Typed, TypeOK, LocalsSet

LEMMA IdleTyped == IdleReq \in ReqRow
BY DEF IdleReq, ReqRow, PC, Bytes

\* A reply ends a request.
LEMMA ReplyTyped ==
  ASSUME Typed, NEW r \in Req, Reply(r), world' = world
  PROVE  req' \in [Req -> ReqRow] /\ LocalsSet' /\ OneCompletion'
BY IdleTyped, RequestTyped DEF Reply, IdleReq

\* A request goes on with what it has.
LEMMA GotoTyped ==
  ASSUME Typed, NEW r \in Req, NEW pc \in PC, Goto(r, pc), world' = world, pc # "idle",
         \/ req[r].pc = "write" /\ pc = "row"
         \/ req[r].pc = "check" /\ pc = "inspect"
         \/ Completing(r) /\ pc \in {"put", "record", "publish", "mark"}
  PROVE  req' \in [Req -> ReqRow] /\ LocalsSet' /\ OneCompletion'
<1>. DEFINE row == [req[r] EXCEPT !.pc = pc]
<1>1. req[r].pc # "idle"  BY DEF Completing
<1>2. row \in ReqRow /\ row.pc = pc /\ row.t = req[r].t /\ row.c = req[r].c
  BY <1>1, Serving DEF ReqRow
<1>3. req' = [req EXCEPT ![r] = row]  BY DEF Goto
<1>. HIDE DEF row
<1>. QED  BY <1>1, <1>2, <1>3, Serving, RequestTyped DEF Completing

LEMMA BeforeTyped ==
  ASSUME Typed, NEW t \in Task
  PROVE  Before(t) \in StagedFile
BY DEF Before, Typed, TypeOK, NoBytes, StagedFile, Bytes

LEMMA ContentTyped == ASSUME NEW t PROVE Content(t) \in {"good", "bad"}
BY DEF Content

\* A chunk that begins.
LEMMA BeginChunkTyped ==
  ASSUME Typed, NEW r \in Req, NEW t \in Task, NEW c \in Chunk, ~InOne(t), BeginChunk(r, t, c)
  PROVE  Typed'
<1>. DEFINE row == [IdleReq EXCEPT !.pc = "write", !.t = t, !.c = c]
<1>1. row \in ReqRow /\ row.pc = "write" /\ row.t = t /\ row.c = c
  BY DEF IdleReq, ReqRow, PC, Bytes
<1>2. req' = [req EXCEPT ![r] = row] /\ world' = world  BY DEF BeginChunk
<1>. HIDE DEF row
<1>3. req' \in [Req -> ReqRow] /\ LocalsSet' /\ OneCompletion'  BY <1>1, <1>2, RequestTyped
<1>. QED  BY <1>3 DEF Typed, BeginChunk, TypeOK

\* What is written to the staged file.
LEMMA WriteTyped ==
  ASSUME Typed, NEW r \in Req,
         WriteUploadChunk(r) \/ WriteFails(r) \/ WriteOversized(r) \/ RefusePart(r)
  PROVE  Typed'
<1>. DEFINE t == req[r].t
            c == req[r].c
            s == Before(t)
<1>1. t \in Task /\ c \in Chunk /\ req[r].pc = "write"
  BY Serving DEF WriteUploadChunk, WriteFails, WriteOversized, RefusePart
<1>2. s \in StagedFile  BY <1>1, BeforeTyped
<1>3. [at |-> [s.at EXCEPT ![c] = "good"], size |-> SizeWith(s, c)] \in StagedFile
  BY <1>1, <1>2 DEF StagedFile, SizeWith, Bytes
<1>4. [s EXCEPT !.at[c] = IF s.at[c] = "good" THEN "good" ELSE "bad"] \in StagedFile
  BY <1>1, <1>2 DEF StagedFile, Bytes
<1>5. Overrun(s, c) \in StagedFile
  BY <1>1, <1>2 DEF StagedFile, Overrun, Bytes
<1>. HIDE DEF s
<1>6. staged' \in [Task -> StagedFile \cup {None}]
  BY <1>1, <1>3, <1>4, <1>5 DEF s, Typed, TypeOK, WriteUploadChunk, WriteFails, WriteOversized, RefusePart
<1>7. req' \in [Req -> ReqRow] /\ LocalsSet' /\ OneCompletion'
  <2>1. CASE WriteUploadChunk(r)  BY <1>1, <2>1, GotoTyped DEF WriteUploadChunk, PC
  <2>2. CASE WriteFails(r) \/ WriteOversized(r) \/ RefusePart(r)
    BY <2>2, ReplyTyped DEF WriteFails, WriteOversized, RefusePart
  <2>. QED  BY <2>1, <2>2
<1>. QED
  BY <1>6, <1>7 DEF Typed, TypeOK, WriteUploadChunk, WriteFails, WriteOversized, RefusePart

LEMMA RowTyped ==
  ASSUME Typed, NEW r \in Req, UpdateUploadedChunk(r) \/ RowFails(r)
  PROVE  Typed'
<1>1. req[r].t \in Task /\ req[r].c \in Chunk
  BY Serving DEF UpdateUploadedChunk, RowFails
<1>2. req' \in [Req -> ReqRow] /\ LocalsSet' /\ OneCompletion'
  BY ReplyTyped DEF UpdateUploadedChunk, RowFails
<1>3. CASE UpdateUploadedChunk(r)
  <2>. DEFINE t == req[r].t
              row == [task[t] EXCEPT !.rows = @ \cup {req[r].c}]
              told == [client[t] EXCEPT !.acked = @ \cup {req[r].c}]
  <2>a. task[t] \in TaskRow /\ client[t] \in ClientRow  BY <1>1 DEF Typed, TypeOK
  <2>b. row \in TaskRow  BY <1>1, <2>a DEF TaskRow
  <2>1. row \in TaskRow /\ told \in ClientRow  BY <1>1, <2>a, <2>b DEF ClientRow
  <2>2. task' = [task EXCEPT ![t] = row] /\ client' = [client EXCEPT ![t] = told]
    BY <1>3 DEF UpdateUploadedChunk
  <2>. HIDE DEF row, told
  <2>3. task' \in [Task -> TaskRow] /\ client' \in [Task -> ClientRow]
    BY <1>1, <2>1, <2>2 DEF Typed, TypeOK
  <2>. QED  BY <1>2, <1>3, <2>3 DEF Typed, TypeOK, UpdateUploadedChunk
<1>4. CASE RowFails(r)
  BY <1>2, <1>4 DEF Typed, TypeOK, RowFails
<1>. QED  BY <1>3, <1>4

\* A completion that begins.
LEMMA BeginTyped ==
  ASSUME Typed, NEW r \in Req, NEW t \in Task,
         (LoadTask(r, t) /\ ~InOne(t)) \/ Receive(r, t)
  PROVE  Typed'
<1>1. CASE LoadTask(r, t) /\ ~InOne(t)
  <2>. DEFINE row == [IdleReq EXCEPT !.pc = "check", !.t = t, !.whole = (Uploaded(t) = Chunk)]
  <2>1. row \in ReqRow /\ row.pc = "check" /\ row.t = t  BY DEF IdleReq, ReqRow, PC, Bytes
  <2>2. req' = [req EXCEPT ![r] = row] /\ world' = world /\ MayComplete
    BY <1>1 DEF LoadTask, Completes
  <2>. HIDE DEF row
  <2>3. req' \in [Req -> ReqRow] /\ LocalsSet' /\ OneCompletion'
    BY <1>1, <2>1, <2>2, RequestTyped
  <2>. QED  BY <1>1, <2>3 DEF Typed, LoadTask, TypeOK
<1>2. CASE Receive(r, t)
  <2>. DEFINE row == [IdleReq EXCEPT !.pc = "put", !.t = t, !.hash = "good"]
  <2>1. row \in ReqRow /\ row.pc = "put" /\ row.t = t  BY DEF IdleReq, ReqRow, PC, Bytes
  <2>2. req' = [req EXCEPT ![r] = row] /\ world' = world /\ MayComplete
    BY <1>2 DEF Receive
  <2>. HIDE DEF row
  <2>3. req' \in [Req -> ReqRow] /\ LocalsSet' /\ OneCompletion'
    BY <2>1, <2>2, RequestTyped
  <2>4. staged' \in [Task -> StagedFile \cup {None}]
    BY <1>2 DEF Receive, Typed, TypeOK, StagedFile, Bytes
  <2>. QED  BY <1>2, <2>3, <2>4 DEF Typed, Receive, TypeOK
<1>. QED  BY <1>1, <1>2

\* A completion that goes on.
LEMMA GoOnTyped ==
  ASSUME Typed, NEW r \in Req, Recorded(req[r].t),
         Accept(r) \/ Inspect(r) \/ Put(r) \/ RecordFile(r) \/ PublishFileUploaded(r)
  PROVE  Typed'
<1>. DEFINE t == req[r].t
<1>1. t \in Task /\ req[r] \in ReqRow /\ Completing(r)
  BY Serving DEF Accept, Inspect, Put, RecordFile, PublishFileUploaded, Completing
<1>2. CASE Accept(r)
  BY <1>2, GotoTyped DEF Accept, PC, Typed, TypeOK
<1>3. CASE Inspect(r)
  <2>. DEFINE row == [req[r] EXCEPT !.pc = "put", !.hash = Content(t)]
  <2>1. row \in ReqRow /\ row.pc = "put" /\ row.t = t  BY <1>1, ContentTyped DEF ReqRow, PC, Bytes
  <2>2. req' = [req EXCEPT ![r] = row] /\ world' = world  BY <1>3 DEF Inspect, Typed, TypeOK
  <2>. HIDE DEF row
  <2>3. req' \in [Req -> ReqRow] /\ LocalsSet' /\ OneCompletion'
    BY <1>1, <2>1, <2>2, RequestTyped
  <2>. QED  BY <1>3, <2>3 DEF Typed, Inspect, TypeOK
<1>4. CASE Put(r)
  <2>. DEFINE row == [req[r] EXCEPT !.pc = "record", !.bytes = Content(t)]
  <2>1. row \in ReqRow /\ row.pc = "record" /\ row.t = t  BY <1>1, ContentTyped DEF ReqRow, PC, Bytes
  <2>2. req' = [req EXCEPT ![r] = row] /\ world' = world  BY <1>4 DEF Put, Typed, TypeOK
  <2>. HIDE DEF row
  <2>3. req' \in [Req -> ReqRow] /\ LocalsSet' /\ OneCompletion'
    BY <1>1, <2>1, <2>2, RequestTyped
  <2>. QED  BY <1>4, <2>3 DEF Typed, Put, TypeOK
<1>5. CASE RecordFile(r)
  <2>. DEFINE row == [bytes |-> req[r].bytes, hash |-> req[r].hash, derived |-> None]
  <2>1. row \in FileRow  BY <1>1 DEF FileRow, ReqRow
  <2>2. files' = [files EXCEPT ![t] = Append(@, row)] /\ Len(files[t]) < MaxFiles
    BY <1>5 DEF RecordFile
  <2>. HIDE DEF row
  <2>3. files' \in [Task -> Seq(FileRow)] /\ \A u \in Task : Len(files'[u]) <= MaxFiles
    BY <1>1, <2>1, <2>2, Bounds DEF Typed, TypeOK
  <2>4. req' \in [Req -> ReqRow] /\ LocalsSet' /\ OneCompletion'
    BY <1>1, <1>5, GotoTyped DEF RecordFile, PC
  <2>. QED  BY <1>5, <2>3, <2>4 DEF Typed, RecordFile, TypeOK
<1>6. CASE PublishFileUploaded(r)
  <2>1. req' \in [Req -> ReqRow] /\ LocalsSet' /\ OneCompletion'
    BY <1>1, <1>6, GotoTyped DEF PublishFileUploaded, PC
  <2>2. Len(files[t]) \in 1 .. MaxFiles
    BY <1>1, <1>6, Bounds DEF PublishFileUploaded, Recorded, Active, Completing, Typed, TypeOK
  <2>4. [t |-> t, i |-> Len(files[t]), read |-> FALSE] \in Event  BY <1>1, <2>2 DEF Event
  <2>3. events' \subseteq Event  BY <1>6, <2>4 DEF PublishFileUploaded, Typed, TypeOK
  <2>. QED  BY <1>6, <2>1, <2>3 DEF Typed, PublishFileUploaded, TypeOK
<1>. QED  BY <1>2, <1>3, <1>4, <1>5, <1>6

\* A completion that ends.
LEMMA EndTyped ==
  ASSUME Typed, NEW r \in Req,
         Refuse(r) \/ RefuseMultipart(r) \/ MarkCompleted(r) \/ Abandon(r) \/ MarkFails(r)
  PROVE  Typed'
<1>. DEFINE t == req[r].t
            gone == [staged EXCEPT ![t] = None]
            anew == [client EXCEPT ![t].acked = {}]
            told == [client EXCEPT ![t].done = TRUE]
            marked == [task EXCEPT ![t].status = "completed"]
<1>1. t \in Task /\ task[t] \in TaskRow /\ client[t] \in ClientRow
  BY Serving DEF Refuse, RefuseMultipart, MarkCompleted, Abandon, MarkFails, Typed, TypeOK
<1>2. req' \in [Req -> ReqRow] /\ LocalsSet' /\ OneCompletion'
  BY ReplyTyped DEF Refuse, RefuseMultipart, MarkCompleted, Abandon, MarkFails
<1>3. gone \in [Task -> StagedFile \cup {None}]  BY DEF Typed, TypeOK
<1>6. marked \in [Task -> TaskRow]
  <2>1. [task[t] EXCEPT !.status = "completed"] \in TaskRow  BY <1>1 DEF TaskRow
  <2>. QED  BY <2>1 DEF Typed, TypeOK
<1>4. anew \in [Task -> ClientRow] /\ told \in [Task -> ClientRow]
  <2>1. /\ [client[t] EXCEPT !.acked = {}] \in ClientRow
        /\ [client[t] EXCEPT !.done = TRUE] \in ClientRow
    BY <1>1 DEF ClientRow
  <2>. QED  BY <2>1 DEF Typed, TypeOK
<1>5. /\ staged' \in {staged, gone} /\ client' \in {client, anew, told}
      /\ task' \in {task, marked} /\ UNCHANGED <<files, events, world>>
  BY DEF Refuse, RefuseMultipart, MarkCompleted, Abandon, MarkFails, WithStatus
<1>. HIDE DEF gone, anew, told, marked
<1>. QED  BY <1>2, <1>3, <1>4, <1>5, <1>6 DEF Typed, TypeOK

\* The steps of no request.
LEMMA OtherTyped ==
  ASSUME Typed, \A t \in Task : Recorded(t),
         \/ \E t \in Task : InsertTask(t) \/ CancelUpload(t) \/ CleanupTempArtifacts(t)
         \/ Process \/ (\E e \in events : ProcessFails(e)) \/ Restart
  PROVE  Typed'
<1>1. ASSUME NEW t \in Task, InsertTask(t) \/ CancelUpload(t) \/ CleanupTempArtifacts(t)
      PROVE  Typed'
  <2>1. UNCHANGED <<files, events, req, client, world>>
    BY <1>1 DEF InsertTask, CancelUpload, CleanupTempArtifacts
  <2>3. task[t] \in TaskRow  BY DEF Typed, TypeOK
  <2>4. /\ [task[t] EXCEPT !.status = "pending"] \in TaskRow
        /\ [task[t] EXCEPT !.status = "failed"] \in TaskRow
    BY <2>3 DEF TaskRow
  <2>2. task' \in [Task -> TaskRow] /\ staged' \in [Task -> StagedFile \cup {None}]
    BY <1>1, <2>4 DEF InsertTask, CancelUpload, CleanupTempArtifacts, Typed, TypeOK
  <2>. QED  BY <2>1, <2>2 DEF Typed, TypeOK, LocalsSet, OneCompletion, Completing, Is, InOne, Kind
<1>2. ASSUME NEW e \in events, ProcessUploadedFile(e) \/ ProcessFails(e)
      PROVE  Typed'
  <2>. DEFINE row == [files[e.t][e.i] EXCEPT !.derived = Source(e)]
              derived == [files EXCEPT ![e.t] = [@ EXCEPT ![e.i] = row]]
  <2>1. e \in Event /\ e.t \in Task /\ e.i \in 1 .. Len(files[e.t])
    BY DEF Typed, TypeOK, Event, Recorded, EventsOf
  <2>2. files[e.t][e.i] \in FileRow  BY <2>1 DEF Typed, TypeOK
  <2>3. row \in FileRow  BY <2>2, ContentTyped DEF FileRow, Bytes, Source
  <2>4. files' \in {files, derived}
    BY <1>2, <2>1 DEF ProcessUploadedFile, ProcessFails, Typed, TypeOK
  <2>. HIDE DEF row
  <2>5. derived \in [Task -> Seq(FileRow)] /\ \A u \in Task : Len(derived[u]) = Len(files[u])
    BY <2>1, <2>3 DEF Typed, TypeOK
  <2>. HIDE DEF derived
  <2>6. [e EXCEPT !.read = TRUE] \in Event  BY <2>1 DEF Event
  <2>7. events' \subseteq Event
    <3>1. events' \subseteq events \cup {[e EXCEPT !.read = TRUE]}
      <4>1. CASE ProcessUploadedFile(e)  BY <4>1 DEF ProcessUploadedFile, Handled
      <4>2. CASE ProcessFails(e)  BY <4>2 DEF ProcessFails
      <4>. QED  BY <1>2, <4>1, <4>2
    <3>. QED  BY <2>6, <3>1 DEF Typed, TypeOK
  <2>8. UNCHANGED <<staged, req, client, world>>  BY <1>2 DEF ProcessUploadedFile, ProcessFails
  <2>9. \A s \in {"completed", "failed"} : WithStatus(e.t, s) \in [Task -> TaskRow]
    <3>1. task[e.t] \in TaskRow  BY <2>1 DEF Typed, TypeOK
    <3>2. \A s \in {"completed", "failed"} : [task[e.t] EXCEPT !.status = s] \in TaskRow
      BY <3>1 DEF TaskRow
    <3>. QED  BY <2>1, <3>2 DEF WithStatus, Typed, TypeOK
  <2>10. task' \in [Task -> TaskRow]
    BY <1>2, <2>9 DEF ProcessUploadedFile, ProcessFails, Typed, TypeOK
  <2>. QED
    BY <2>4, <2>5, <2>7, <2>8, <2>10
       DEF Typed, TypeOK, LocalsSet, OneCompletion, Completing, Is, InOne, Kind
<1>3. ASSUME NEW e \in events, RemoveProcessed(e)
      PROVE  Typed'
  BY <1>3 DEF RemoveProcessed, Typed, TypeOK, LocalsSet, OneCompletion, Completing, Is, InOne, Kind
<1>4. CASE Restart
  BY <1>4, IdleTyped DEF Restart, Typed, TypeOK, LocalsSet, OneCompletion, Completing, Is, InOne, Kind, IdleReq
<1>. QED  BY <1>1, <1>2, <1>3, <1>4 DEF Process

-----------------------------------------------------------------------------
(* Whose step it is.  A step other than a restart is of one task, and leaves *)
(* what the invariant says of the others alone.                              *)

StepOf(u) ==
  \/ CreateUploadTask(u) \/ CreateMultipartUpload(u) \/ CancelUpload(u) \/ CleanupTempArtifacts(u)
  \/ \E r \in Req : \/ req[r].t = u /\ (Handle(r) \/ Fails(r))
                    \/ Ask(r, u)
  \/ \E e \in EventsOf(u) : ProcessUploadedFile(e) \/ ProcessFails(e) \/ RemoveProcessed(e)

SameRequests(t) ==
  /\ Active(t)' = Active(t) /\ Sending(t)' = Sending(t)
  /\ \A q \in Active(t) \cup Sending(t) : req'[q] = req[q]

Same(t) ==
  /\ staged'[t] = staged[t] /\ task'[t] = task[t] /\ client'[t] = client[t] /\ files'[t] = files[t]
  /\ EventsOf(t)' = EventsOf(t) /\ SameRequests(t)

LEMMA OwnSteps ==
  ASSUME Typed, Next
  PROVE  Restart \/ \E u \in Task : StepOf(u)
<1>1. ASSUME NEW r \in Req, Handle(r) \/ Fails(r)
      PROVE  req[r].t \in Task
  BY <1>1, Serving DEF Handle, Fails, WriteUploadChunk, UpdateUploadedChunk, Refuse, RefuseMultipart,
     Accept, Inspect, Put, RecordFile, PublishFileUploaded, MarkCompleted, Abandon, WriteFails,
     WriteOversized, RefusePart, RowFails, MarkFails
<1>2. \A e \in events : e.t \in Task /\ e \in EventsOf(e.t)
  BY DEF Typed, TypeOK, Event, EventsOf
<1>. QED  BY <1>1, <1>2 DEF Next, StepOf, Process

LEMMA RequestFrame ==
  ASSUME Typed, NEW r \in Req, NEW u \in Task, NEW t \in Task, t # u, NEW row,
         req' = [req EXCEPT ![r] = row],
         req[r].pc = "idle" \/ req[r].t = u, row.pc = "idle" \/ row.t = u
  PROVE  SameRequests(t)
BY DEF Typed, TypeOK, SameRequests, Active, Sending, Completing

LEMMA WorldStays == Next => world' = world
<1>. SUFFICES ASSUME Next PROVE world' = world
  OBVIOUS
<1>1. ASSUME NEW t \in Task, CreateUploadTask(t) \/ CreateMultipartUpload(t) \/ CancelUpload(t)
                             \/ CleanupTempArtifacts(t)
      PROVE  world' = world
  BY <1>1 DEF CreateUploadTask, CreateMultipartUpload, InsertTask, CancelUpload, CleanupTempArtifacts
<1>2. ASSUME NEW r \in Req, Handle(r) \/ Fails(r)
      PROVE  world' = world
  BY <1>2 DEF Handle, Fails, WriteUploadChunk, UpdateUploadedChunk, Refuse, RefuseMultipart, Accept,
     Inspect, Put, RecordFile, PublishFileUploaded, MarkCompleted, Abandon, WriteFails, WriteOversized,
     RefusePart, RowFails, MarkFails
<1>3. ASSUME NEW r \in Req, NEW t \in Task, Ask(r, t)
      PROVE  world' = world
  BY <1>3 DEF Ask, Send, Complete, UploadChunk, UploadMultipartPart, BeginChunk, CompleteUpload,
     CompleteMultipartUpload, LoadTask, UploadForm, UploadStream, Receive
<1>4. CASE Process \/ (\E e \in events : ProcessFails(e)) \/ Restart
  BY <1>4 DEF Process, Restart, ProcessUploadedFile, ProcessFails, RemoveProcessed
<1>. QED  BY <1>1, <1>2, <1>3, <1>4 DEF Next

\* The rows that requests begin with.
SendRow(t, c) == [IdleReq EXCEPT !.pc = "write", !.t = t, !.c = c]

CheckRow(t) == [IdleReq EXCEPT !.pc = "check", !.t = t, !.whole = (Uploaded(t) = Chunk)]

PutRow(t) == [IdleReq EXCEPT !.pc = "put", !.t = t, !.hash = "good"]

LEMMA FirstRows ==
  ASSUME NEW t, NEW c
  PROVE  /\ SendRow(t, c).pc = "write" /\ SendRow(t, c).t = t /\ SendRow(t, c).c = c
         /\ CheckRow(t).pc = "check" /\ CheckRow(t).t = t
         /\ CheckRow(t).whole = (Uploaded(t) = Chunk)
         /\ PutRow(t).pc = "put" /\ PutRow(t).t = t /\ PutRow(t).hash = "good"
BY DEF SendRow, CheckRow, PutRow, IdleReq

LEMMA Begins ==
  ASSUME NEW r \in Req, NEW t, NEW c
  PROVE  /\ BeginChunk(r, t, c) => req' = [req EXCEPT ![r] = SendRow(t, c)]
         /\ LoadTask(r, t) => req' = [req EXCEPT ![r] = CheckRow(t)]
         /\ Receive(r, t) => req' = [req EXCEPT ![r] = PutRow(t)]
BY Zenon DEF BeginChunk, LoadTask, Receive, SendRow, CheckRow, PutRow

LEMMA AskBegins ==
  ASSUME NEW r \in Req, NEW u \in Task, Ask(r, u)
  PROVE  \/ \E c \in Chunk : BeginChunk(r, u, c)
         \/ LoadTask(r, u)
         \/ Receive(r, u)
BY DEF Ask, Send, Complete, UploadChunk, UploadMultipartPart, CompleteUpload, CompleteMultipartUpload,
   UploadForm, UploadStream

LEMMA Frame ==
  ASSUME Typed, NEW u \in Task, StepOf(u), NEW t \in Task, t # u
  PROVE  Same(t)
<1>1. CASE CreateUploadTask(u) \/ CreateMultipartUpload(u) \/ CancelUpload(u) \/ CleanupTempArtifacts(u)
  BY <1>1 DEF Typed, TypeOK, Same, SameRequests, Active, Sending, Completing, EventsOf,
     CreateUploadTask, CreateMultipartUpload, InsertTask, CancelUpload, CleanupTempArtifacts
<1>2. ASSUME NEW r \in Req, req[r].t = u, Handle(r)
      PROVE  Same(t)
  <2>1. SameRequests(t)
    <3>1. CASE Inspect(r)
      <4>1. req' = [req EXCEPT ![r] = [req[r] EXCEPT !.pc = "put", !.hash = Content(u)]]
        BY <1>2, <3>1 DEF Inspect, Typed, TypeOK
      <4>2. [req[r] EXCEPT !.pc = "put", !.hash = Content(u)].t = u
        BY <1>2 DEF Typed, TypeOK, ReqRow
      <4>. QED  BY <1>2, <4>1, <4>2, RequestFrame
    <3>2. CASE Put(r)
      <4>1. req' = [req EXCEPT ![r] = [req[r] EXCEPT !.pc = "record", !.bytes = Content(u)]]
        BY <1>2, <3>2 DEF Put, Typed, TypeOK
      <4>2. [req[r] EXCEPT !.pc = "record", !.bytes = Content(u)].t = u
        BY <1>2 DEF Typed, TypeOK, ReqRow
      <4>. QED  BY <1>2, <4>1, <4>2, RequestFrame
    <3>3. ASSUME NEW pc, Goto(r, pc)  PROVE SameRequests(t)
      <4>1. req' = [req EXCEPT ![r] = [req[r] EXCEPT !.pc = pc]]  BY <3>3 DEF Goto
      <4>2. [req[r] EXCEPT !.pc = pc].t = u  BY <1>2 DEF Typed, TypeOK, ReqRow
      <4>. QED  BY <1>2, <4>1, <4>2, RequestFrame
    <3>4. ASSUME Reply(r)  PROVE SameRequests(t)
      BY <1>2, <3>4, RequestFrame DEF Reply, IdleReq
    <3>. QED
      BY <1>2, <3>1, <3>2, <3>3, <3>4 DEF Handle, WriteUploadChunk, UpdateUploadedChunk, Refuse,
         RefuseMultipart, Accept, RecordFile, PublishFileUploaded, MarkCompleted, Abandon
  <2>2. EventsOf(t)' = EventsOf(t)
    BY <1>2 DEF Handle, WriteUploadChunk, UpdateUploadedChunk, Refuse,
         RefuseMultipart, Accept, Inspect, Put, RecordFile, PublishFileUploaded, MarkCompleted, Abandon,
         EventsOf
  <2>3. staged'[t] = staged[t] /\ task'[t] = task[t] /\ client'[t] = client[t] /\ files'[t] = files[t]
    BY <1>2 DEF Handle, WriteUploadChunk, UpdateUploadedChunk, Refuse,
         RefuseMultipart, Accept, Inspect, Put, RecordFile, PublishFileUploaded, MarkCompleted, Abandon,
         WithStatus, Typed, TypeOK
  <2>. QED  BY <2>1, <2>2, <2>3 DEF Same
<1>3. ASSUME NEW r \in Req, req[r].t = u, Fails(r)
      PROVE  Same(t)
  <2>1. Reply(r) /\ UNCHANGED <<task, files, events>>
    BY <1>3 DEF Fails, WriteFails, WriteOversized, RefusePart, RowFails, MarkFails
  <2>2. SameRequests(t)
    BY <1>3, <2>1, RequestFrame DEF Reply, IdleReq
  <2>3. staged'[t] = staged[t] /\ client'[t] = client[t]
    BY <1>3 DEF Fails, WriteFails, WriteOversized, RefusePart, RowFails, MarkFails, Typed, TypeOK
  <2>. QED  BY <2>1, <2>2, <2>3 DEF Same, EventsOf
<1>4. ASSUME NEW r \in Req, Ask(r, u)
      PROVE  Same(t)
  <2>1. PICK row : req' = [req EXCEPT ![r] = row] /\ row.t = u /\ req[r].pc = "idle"
    <3>1. \/ \E c \in Chunk : req' = [req EXCEPT ![r] = SendRow(u, c)]
          \/ req' = [req EXCEPT ![r] = CheckRow(u)]
          \/ req' = [req EXCEPT ![r] = PutRow(u)]
      BY <1>4, AskBegins, Begins
    <3>2. req[r].pc = "idle"  BY <1>4, AskBegins DEF BeginChunk, LoadTask, Receive
    <3>3. (\A c : SendRow(u, c).t = u) /\ CheckRow(u).t = u /\ PutRow(u).t = u  BY FirstRows
    <3>4. CASE \E c \in Chunk : req' = [req EXCEPT ![r] = SendRow(u, c)]  BY <3>2, <3>3, <3>4, Zenon
    <3>5. CASE req' = [req EXCEPT ![r] = CheckRow(u)]  BY <3>2, <3>3, <3>5, Zenon
    <3>6. CASE req' = [req EXCEPT ![r] = PutRow(u)]  BY <3>2, <3>3, <3>6, Zenon
    <3>. QED  BY <3>1, <3>4, <3>5, <3>6
  <2>2. SameRequests(t)  BY <2>1, RequestFrame
  <2>3. /\ staged'[t] = staged[t] /\ UNCHANGED <<task, client, files, events>>
    BY <1>4 DEF Ask, Send, Complete, UploadChunk, UploadMultipartPart, BeginChunk, CompleteUpload,
       CompleteMultipartUpload, LoadTask, UploadForm, UploadStream, Receive, Typed, TypeOK
  <2>. QED  BY <2>2, <2>3 DEF Same, EventsOf
<1>5. ASSUME NEW e \in EventsOf(u), ProcessUploadedFile(e) \/ ProcessFails(e) \/ RemoveProcessed(e)
      PROVE  Same(t)
  <2>1. SameRequests(t)
    BY <1>5 DEF ProcessUploadedFile, ProcessFails, RemoveProcessed, SameRequests, Active, Sending, Completing
  <2>2. EventsOf(t)' = EventsOf(t)
    BY <1>5 DEF ProcessUploadedFile, ProcessFails, RemoveProcessed, Handled, EventsOf, Typed, TypeOK, Event
  <2>3. e.t = u  BY DEF EventsOf
  <2>4. staged'[t] = staged[t] /\ client'[t] = client[t] /\ files'[t] = files[t]
    BY <1>5, <2>3 DEF ProcessUploadedFile, ProcessFails, RemoveProcessed, Typed, TypeOK
  <2>5. task'[t] = task[t]
    BY <1>5, <2>3 DEF ProcessUploadedFile, ProcessFails, RemoveProcessed, WithStatus, Typed, TypeOK
  <2>. QED  BY <2>1, <2>2, <2>4, <2>5 DEF Same
<1>. QED  BY <1>1, <1>2, <1>3, <1>4, <1>5 DEF StepOf

-----------------------------------------------------------------------------
(* What a step does to its task. *)

\* The request r is at pc now, for the task u or for none.
Takes(r, u, pc) ==
  /\ req'[r].pc = pc
  /\ \A q \in Req \ {r} : req'[q] = req[q]
  /\ Active(u)' = IF pc \in PC \ {"idle", "write", "row"} THEN Active(u) \cup {r} ELSE Active(u) \ {r}
  /\ Sending(u)' = IF pc \in {"write", "row"} THEN Sending(u) \cup {r} ELSE Sending(u) \ {r}

SameRecords(u) == task'[u] = task[u] /\ client'[u] = client[u]

SameData(u) == staged'[u] = staged[u] /\ files'[u] = files[u] /\ EventsOf(u)' = EventsOf(u)

LEMMA TakesRow ==
  ASSUME Typed, NEW r \in Req, NEW u \in Task, NEW row, NEW pc \in PC, row.pc = pc,
         req' = [req EXCEPT ![r] = row],
         req[r].pc = "idle" \/ req[r].t = u, pc = "idle" \/ row.t = u
  PROVE  Takes(r, u, pc) /\ req'[r] = row
BY DEF Typed, TypeOK, Takes, Active, Sending, Completing, PC

LEMMA TakesGoto ==
  ASSUME Typed, NEW r \in Req, NEW pc \in PC, Goto(r, pc), req[r].pc # "idle"
  PROVE  /\ Takes(r, req[r].t, pc)
         /\ req'[r].c = req[r].c /\ req'[r].whole = req[r].whole
         /\ req'[r].hash = req[r].hash /\ req'[r].bytes = req[r].bytes
<1>. DEFINE row == [req[r] EXCEPT !.pc = pc]
<1>1. /\ row.pc = pc /\ row.t = req[r].t /\ row.c = req[r].c /\ row.whole = req[r].whole
      /\ row.hash = req[r].hash /\ row.bytes = req[r].bytes
  BY DEF Typed, TypeOK, ReqRow
<1>2. req' = [req EXCEPT ![r] = row]  BY DEF Goto
<1>. HIDE DEF row
<1>. QED  BY <1>1, <1>2, TakesRow, Serving

LEMMA TakesReply ==
  ASSUME Typed, NEW r \in Req, Reply(r), req[r].pc # "idle"
  PROVE  Takes(r, req[r].t, "idle")
<1>1. IdleReq.pc = "idle" /\ "idle" \in PC  BY DEF IdleReq, PC
<1>2. req' = [req EXCEPT ![r] = IdleReq]  BY DEF Reply
<1>3. req[r].t \in Task  BY Serving
<1>. QED  BY <1>1, <1>2, <1>3, TakesRow

LEMMA Actors ==
  ASSUME Typed, NEW r \in Req, req[r].pc # "idle"
  PROVE  /\ req[r].pc \in {"write", "row"} =>
              r \in Sending(req[r].t) /\ r \notin Active(req[r].t) /\ req[r].c \in Chunk
         /\ req[r].pc \notin {"write", "row"} =>
              /\ r \in Active(req[r].t) /\ r \notin Sending(req[r].t)
              /\ ~Is("overlap") => Active(req[r].t) = {r}
BY Serving DEF Active, Sending, Completing, OneCompletion, Typed, ReqRow, PC

SameActive(u) == Active(u)' = Active(u) /\ \A q \in Active(u) : req'[q] = req[q]

SameSending(u) == Sending(u)' = Sending(u) /\ \A q \in Sending(u) : req'[q] = req[q]

\* A request that brings a chunk.
SendBegins(r, u, c) ==
  /\ r \notin Sending(u) /\ Sending(u)' = Sending(u) \cup {r} /\ SameActive(u)
  /\ req'[r].pc = "write" /\ req'[r].c = c /\ \A q \in Sending(u) : req'[q] = req[q]

SendGoesOn(r, u) ==
  /\ r \in Sending(u) /\ Sending(u)' = Sending(u) /\ SameActive(u)
  /\ req[r].pc = "write" /\ req[r].c \in Chunk /\ ~InOne(u)
  /\ req'[r].pc = "row" /\ req'[r].c = req[r].c /\ \A q \in Sending(u) \ {r} : req'[q] = req[q]

SendEnds(r, u) ==
  /\ r \in Sending(u) /\ Sending(u)' = Sending(u) \ {r} /\ SameActive(u)
  /\ req[r].c \in Chunk /\ ~InOne(u)
  /\ \A q \in Sending(u) \ {r} : req'[q] = req[q]

\* A request that completes.
Starts(r, u, pc) ==
  /\ r \notin Active(u) /\ Active(u)' = Active(u) \cup {r} /\ SameSending(u)
  /\ ~Is("overlap") => Active(u) = {}
  /\ req'[r].pc = pc /\ \A q \in Active(u) : req'[q] = req[q]

GoesOn(r, u, pc) ==
  /\ r \in Active(u) /\ Active(u)' = Active(u) /\ SameSending(u)
  /\ ~Is("overlap") => Active(u) = {r}
  /\ req'[r].pc = pc /\ \A q \in Active(u) \ {r} : req'[q] = req[q]

Ends(r, u) ==
  /\ r \in Active(u) /\ Active(u)' = Active(u) \ {r} /\ SameSending(u)
  /\ ~Is("overlap") => Active(u) = {r}
  /\ \A q \in Active(u) \ {r} : req'[q] = req[q]

LEMMA TakesSend ==
  ASSUME Typed, NEW r \in Req, req[r].pc \in {"write", "row"}
  PROVE  /\ Takes(r, req[r].t, "idle") => SendEnds(r, req[r].t)
         /\ (req[r].pc = "write" /\ Takes(r, req[r].t, "row") /\ req'[r].c = req[r].c) =>
              SendGoesOn(r, req[r].t)
<1>. DEFINE u == req[r].t
<1>1. r \in Sending(u) /\ r \notin Active(u) /\ req[r].c \in Chunk /\ ~InOne(u)  BY Actors, Serving
<1>2. Active(u) \subseteq Req /\ Sending(u) \subseteq Req  BY DEF Active, Sending
<1>. HIDE DEF u
<1>3. Takes(r, u, "idle") => SendEnds(r, u)
  BY <1>1, <1>2 DEF Takes, SendEnds, SameActive, PC
<1>4. (req[r].pc = "write" /\ Takes(r, u, "row") /\ req'[r].c = req[r].c) => SendGoesOn(r, u)
  BY <1>1, <1>2 DEF Takes, SendGoesOn, SameActive, PC
<1>. QED  BY <1>3, <1>4 DEF u

LEMMA TakesActive ==
  ASSUME Typed, NEW r \in Req, req[r].pc \in PC \ {"idle", "write", "row"}
  PROVE  /\ Takes(r, req[r].t, "idle") => Ends(r, req[r].t)
         /\ \A pc \in PC \ {"idle", "write", "row"} :
              Takes(r, req[r].t, pc) => GoesOn(r, req[r].t, pc)
<1>. DEFINE u == req[r].t
<1>1. r \in Active(u) /\ r \notin Sending(u) /\ (~Is("overlap") => Active(u) = {r})  BY Actors DEF PC
<1>2. Active(u) \subseteq Req /\ Sending(u) \subseteq Req  BY DEF Active, Sending
<1>. HIDE DEF u
<1>3. Takes(r, u, "idle") => Ends(r, u)
  BY <1>1, <1>2 DEF Takes, Ends, SameSending, PC
<1>4. ASSUME NEW pc \in PC \ {"idle", "write", "row"}, Takes(r, u, pc)
      PROVE  GoesOn(r, u, pc)
  BY <1>1, <1>2, <1>4 DEF Takes, GoesOn, SameSending
<1>. QED  BY <1>3, <1>4 DEF u

LEMMA TakesIdle ==
  ASSUME Typed, NEW r \in Req, NEW u \in Task, req[r].pc = "idle"
  PROVE  /\ \A c : (Takes(r, u, "write") /\ req'[r].c = c) => SendBegins(r, u, c)
         /\ \A pc \in PC \ {"idle", "write", "row"} :
              (Takes(r, u, pc) /\ (Is("overlap") \/ Active(u) = {})) => Starts(r, u, pc)
<1>1. r \notin Active(u) /\ r \notin Sending(u)  BY DEF Active, Sending, Completing
<1>2. Active(u) \subseteq Req /\ Sending(u) \subseteq Req  BY DEF Active, Sending
<1>3. ASSUME NEW c, Takes(r, u, "write"), req'[r].c = c
      PROVE  SendBegins(r, u, c)
  BY <1>1, <1>2, <1>3 DEF Takes, SendBegins, SameActive, PC
<1>4. ASSUME NEW pc \in PC \ {"idle", "write", "row"}, Takes(r, u, pc), Is("overlap") \/ Active(u) = {}
      PROVE  Starts(r, u, pc)
  BY <1>1, <1>2, <1>4 DEF Takes, Starts, SameSending
<1>. QED  BY <1>3, <1>4

LEMMA Replied ==
  ASSUME Typed, NEW r \in Req, NEW u, req[r].t = u, Reply(r)
  PROVE  /\ req[r].pc \in {"write", "row"} => SendEnds(r, u)
         /\ req[r].pc \in PC \ {"idle", "write", "row"} => Ends(r, u)
BY TakesReply, TakesSend, TakesActive

LEMMA Gone ==
  ASSUME Typed, NEW r \in Req, NEW u, req[r].t = u, NEW pc \in PC, Goto(r, pc)
  PROVE  /\ (req[r].pc = "write" /\ pc = "row") => SendGoesOn(r, u)
         /\ (req[r].pc \in PC \ {"idle", "write", "row"} /\ pc \in PC \ {"idle", "write", "row"}) =>
              GoesOn(r, u, pc)
         /\ req[r].pc # "idle" => req'[r].whole = req[r].whole /\ req'[r].hash = req[r].hash
                                 /\ req'[r].bytes = req[r].bytes
BY TakesGoto, TakesSend, TakesActive

SameServing(u) == Active(u)' = Active(u) /\ Sending(u)' = Sending(u) /\ req' = req

Wrote(r, u) ==
  /\ SendGoesOn(r, u) /\ SameRecords(u) /\ files'[u] = files[u] /\ EventsOf(u)' = EventsOf(u)
  /\ staged'[u] # None /\ staged'[u].at[req[r].c] = "good"
  /\ staged'[u].size = SizeWith(Before(u), req[r].c)
  /\ \A d \in Chunk \ {req[r].c} : staged'[u].at[d] = Before(u).at[d]

Broke(r, u) ==
  /\ SendEnds(r, u) /\ SameRecords(u) /\ files'[u] = files[u] /\ EventsOf(u)' = EventsOf(u)
  /\ req[r].pc = "write" /\ Is("faults")
  /\ staged'[u] # None /\ staged'[u].size = Before(u).size
  /\ \A d \in Chunk : IF d = req[r].c /\ Before(u).at[d] # "good"
                      THEN staged'[u].at[d] = "bad"
                      ELSE staged'[u].at[d] = Before(u).at[d]

Overran(r, u) ==
  /\ SendEnds(r, u) /\ SameRecords(u) /\ files'[u] = files[u] /\ EventsOf(u)' = EventsOf(u)
  /\ req[r].pc = "write" /\ Kind(u) = "http" /\ Is("oversize")
  /\ staged'[u] # None
  /\ staged'[u].at[Chunks] = "good" =>
       \/ staged'[u].size = "long"
       \/ staged[u] # None /\ staged'[u].size = staged[u].size /\ staged[u].at[Chunks] = "good"

Dropped(r, u) == SendEnds(r, u) /\ SameRecords(u) /\ SameData(u)

Acknowledged(r, u) ==
  /\ SendEnds(r, u) /\ SameData(u) /\ req[r].pc = "row"
  /\ task'[u].status = task[u].status /\ task'[u].list = task[u].list
  /\ task'[u].rows = task[u].rows \cup {req[r].c}
  /\ client'[u].acked = client[u].acked \cup {req[r].c} /\ client'[u].done = client[u].done

Refused(r, u) ==
  /\ Ends(r, u) /\ task'[u] = task[u] /\ files'[u] = files[u] /\ EventsOf(u)' = EventsOf(u)
  /\ req[r].pc = "check" /\ ~InOne(u)
  /\ ~req[r].whole \/ ~AdmittedAtEnd(u) \/ StagedSize(u) # "full"
  /\ staged'[u] = IF Kind(u) = "http" THEN None ELSE staged[u]
  /\ client'[u].acked = IF req[r].whole THEN {} ELSE client[u].acked
  /\ client'[u].done = client[u].done

Accepted(r, u) ==
  /\ GoesOn(r, u, "inspect") /\ SameRecords(u) /\ SameData(u)
  /\ req[r].pc = "check" /\ req[r].whole /\ AdmittedAtEnd(u) /\ StagedSize(u) = "full"

Inspected(r, u) ==
  /\ GoesOn(r, u, "put") /\ SameRecords(u) /\ SameData(u)
  /\ req[r].pc = "inspect" /\ staged[u] # None /\ req'[r].hash = Content(u)

Stored(r, u) ==
  /\ GoesOn(r, u, "record") /\ SameRecords(u) /\ SameData(u)
  /\ req[r].pc = "put" /\ staged[u] # None
  /\ req'[r].bytes = Content(u) /\ req'[r].hash = req[r].hash

MadeFile(r, u) ==
  /\ GoesOn(r, u, "publish") /\ SameRecords(u)
  /\ req[r].pc = "record" /\ staged'[u] = staged[u] /\ EventsOf(u)' = EventsOf(u)
  /\ files[u] \in Seq(FileRow) /\ Len(files'[u]) = Len(files[u]) + 1
  /\ \A i \in 1 .. Len(files[u]) : files'[u][i] = files[u][i]
  /\ files'[u][Len(files[u]) + 1] = [bytes |-> req[r].bytes, hash |-> req[r].hash, derived |-> None]

Published(r, u) ==
  /\ GoesOn(r, u, "mark") /\ SameRecords(u) /\ staged'[u] = staged[u] /\ files'[u] = files[u]
  /\ req[r].pc = "publish"
  /\ EventsOf(u)' = EventsOf(u) \cup {[t |-> u, i |-> Len(files[u]), read |-> FALSE]}

Marked(r, u) ==
  /\ Ends(r, u) /\ SameData(u) /\ req[r].pc = "mark"
  /\ task'[u].rows = task[u].rows /\ task'[u].list = task[u].list
  /\ task'[u].status = IF InOne(u) THEN task[u].status ELSE "completed"
  /\ client'[u].done /\ client'[u].acked = client[u].acked

Abandoned(r, u) ==
  /\ Ends(r, u) /\ task'[u] = task[u] /\ files'[u] = files[u] /\ EventsOf(u)' = EventsOf(u)
  /\ \/ req[r].pc \in {"inspect", "put"} /\ staged[u] = None
     \/ req[r].pc \in {"inspect", "put", "record", "publish"} /\ Is("faults")
  /\ staged'[u] = None /\ client'[u].acked = {} /\ client'[u].done = client[u].done

MarkFailed(r, u) ==
  /\ Ends(r, u) /\ task'[u] = task[u] /\ files'[u] = files[u] /\ EventsOf(u)' = EventsOf(u)
  /\ req[r].pc = "mark" /\ ~InOne(u) /\ Is("faults")
  /\ Kind(u) = "http" => /\ staged'[u] = staged[u] /\ client'[u].done
                         /\ client'[u].acked = client[u].acked
  /\ Kind(u) # "http" => /\ staged'[u] = None /\ client'[u].acked = {}
                         /\ client'[u].done = client[u].done

BeganChunk(r, u, c) ==
  /\ SendBegins(r, u, c) /\ SameRecords(u) /\ SameData(u)
  /\ Sends(u, c) /\ ~InOne(u) /\ task[u].status # "none"

Loaded(r, u) ==
  /\ Starts(r, u, "check") /\ SameRecords(u) /\ SameData(u)
  /\ req'[r].whole = (task[u].rows \cup task[u].list = Chunk)
  /\ Completes(u) /\ ~InOne(u) /\ task[u].status # "none"
  /\ Kind(u) = "grpc" => task[u].status = "pending"

Received(r, u) ==
  /\ Starts(r, u, "put") /\ SameRecords(u) /\ files'[u] = files[u] /\ EventsOf(u)' = EventsOf(u)
  /\ InOne(u) /\ ~client[u].done /\ Active(u) = {} /\ Sending(u) = {} /\ req'[r].hash = "good"
  /\ staged'[u] # None /\ staged'[u].size = "full" /\ \A c \in Chunk : staged'[u].at[c] = "good"
  /\ MayBegin /\ (Admitted(u, 1) \/ Admitted(u, world.rate[u]))

Inserted(u) ==
  /\ SameServing(u) /\ client'[u] = client[u] /\ SameData(u)
  /\ ~InOne(u) /\ task[u].status = "none" /\ task'[u].status = "pending"
  /\ MayBegin /\ Admitted(u, world.rate[u])
  /\ task'[u].rows = task[u].rows /\ task'[u].list = task[u].list

Cancelled(u) ==
  /\ SameServing(u) /\ client'[u] = client[u] /\ SameData(u)
  /\ Is("cancel") /\ task[u].status \in {"pending", "completed"} /\ task'[u].status = "failed"
  /\ task'[u].rows = task[u].rows /\ task'[u].list = task[u].list

Cleaned(u) ==
  /\ SameServing(u) /\ SameRecords(u) /\ files'[u] = files[u] /\ EventsOf(u)' = EventsOf(u)
  /\ Is("idle") /\ Active(u) = {} /\ Sending(u) = {} /\ staged'[u] = None

\* The worker writes the status of a task.
Marks(u, status) ==
  /\ client'[u] = client[u] /\ task'[u].rows = task[u].rows /\ task'[u].list = task[u].list
  /\ task'[u].status = IF InOne(u) THEN task[u].status ELSE status

Processed(u, e) ==
  /\ SameServing(u) /\ Marks(u, "completed") /\ staged'[u] = staged[u]
  /\ Len(files'[u]) = Len(files[u]) /\ e.i \in 1 .. Len(files[u])
  /\ \A i \in 1 .. Len(files[u]) \ {e.i} : files'[u][i] = files[u][i]
  /\ files'[u][e.i].bytes = files[u][e.i].bytes /\ files'[u][e.i].hash = files[u][e.i].hash
  /\ files'[u][e.i].derived = IF staged[u] # None THEN Content(u) ELSE files[u][e.i].bytes
  /\ staged[u] = None => EventsOf(u)' = EventsOf(u) \ {e}
  /\ staged[u] # None =>
       \E read : read.i = e.i /\ EventsOf(u)' = (EventsOf(u) \ {e}) \cup {read}

ProcessFailed(u, e) ==
  /\ SameServing(u) /\ staged'[u] = staged[u] /\ Is("faults")
  /\ Marks(u, "failed") \/ SameRecords(u)
  /\ Len(files'[u]) = Len(files[u]) /\ e.i \in 1 .. Len(files[u])
  /\ \A i \in 1 .. Len(files[u]) \ {e.i} : files'[u][i] = files[u][i]
  /\ files'[u][e.i].bytes = files[u][e.i].bytes /\ files'[u][e.i].hash = files[u][e.i].hash
  /\ files'[u][e.i].derived \in {files[u][e.i].derived,
                                 IF staged[u] # None THEN Content(u) ELSE files[u][e.i].bytes}
  /\ EventsOf(u)' \in {EventsOf(u), EventsOf(u) \ {e}}

Removed(u, e) ==
  /\ SameServing(u) /\ SameRecords(u) /\ files'[u] = files[u]
  /\ staged'[u] = None /\ EventsOf(u)' = EventsOf(u) \ {e}

Restarted(u) ==
  /\ SameRecords(u) /\ files'[u] = files[u] /\ staged'[u] = staged[u]
  /\ Is("crash") /\ "crash" \notin spent /\ "crash" \in spent'
  /\ EventsOf(u)' \subseteq EventsOf(u) /\ Active(u)' = {} /\ Sending(u)' = {}

LEMMA WriteEffect ==
  ASSUME Typed, NEW r \in Req, NEW u \in Task, req[r].t = u, WriteUploadChunk(r)
  PROVE  Wrote(r, u)
<1>. DEFINE c == req[r].c
            row == [at |-> [Before(u).at EXCEPT ![c] = "good"], size |-> SizeWith(Before(u), c)]
<1>1. req[r].pc = "write" /\ c \in Chunk  BY Serving DEF WriteUploadChunk
<1>2. Before(u) \in StagedFile  BY BeforeTyped
<1>3. /\ row \in StagedFile /\ row.at[c] = "good" /\ row.size = SizeWith(Before(u), c)
      /\ \A d \in Chunk \ {c} : row.at[d] = Before(u).at[d]
  BY <1>1, <1>2 DEF StagedFile, SizeWith, Bytes
<1>4. staged' = [staged EXCEPT ![u] = row]  BY DEF WriteUploadChunk
<1>. HIDE DEF row
<1>5. staged'[u] = row  BY <1>4 DEF Typed, TypeOK
<1>6. row # None  BY <1>3, NoneIsNone
<1>. QED
  BY <1>1, <1>3, <1>5, <1>6, Gone DEF WriteUploadChunk, PC, SameRecords, EventsOf, Wrote

LEMMA WriteFailsEffect ==
  ASSUME Typed, NEW r \in Req, NEW u \in Task, req[r].t = u, WriteFails(r)
  PROVE  Broke(r, u)
<1>. DEFINE c == req[r].c
            s == Before(u)
            row == [s EXCEPT !.at[c] = IF s.at[c] = "good" THEN "good" ELSE "bad"]
<1>1. req[r].pc = "write" /\ c \in Chunk  BY Serving DEF WriteFails
<1>2. s \in StagedFile  BY BeforeTyped
<1>3. /\ row \in StagedFile /\ row.size = s.size
      /\ \A d \in Chunk : IF d = c /\ s.at[d] # "good" THEN row.at[d] = "bad" ELSE row.at[d] = s.at[d]
  BY <1>1, <1>2 DEF StagedFile, Bytes
<1>4. staged' = [staged EXCEPT ![u] = row]  BY DEF WriteFails
<1>. HIDE DEF row, s
<1>5. staged'[u] = row  BY <1>4 DEF Typed, TypeOK
<1>6. row # None  BY <1>3, NoneIsNone
<1>. QED
  BY <1>1, <1>3, <1>5, <1>6, Replied DEF WriteFails, Fault, SameRecords, EventsOf, s, Broke

LEMMA OversizedEffect ==
  ASSUME Typed, NEW r \in Req, NEW u \in Task, req[r].t = u, WriteOversized(r)
  PROVE  Overran(r, u)
<1>. DEFINE c == req[r].c
            s == Before(u)
<1>1. req[r].pc = "write" /\ c \in Chunk  BY Serving DEF WriteOversized
<1>2. s \in StagedFile  BY BeforeTyped
<1>3. /\ Overrun(s, c) \in StagedFile
      /\ Overrun(s, c).at[Chunks] = "good" =>
           Overrun(s, c).size = "long" \/ (Overrun(s, c).size = s.size /\ s.at[Chunks] = "good")
  <2>1. s.at \in [Chunk -> Bytes] /\ s.size \in {"short", "full", "long"}  BY <1>2 DEF StagedFile
  <2>. HIDE DEF s
  <2>. DEFINE at == [d \in Chunk |-> CASE d = c -> "good" [] d = c + 1 -> "bad" [] OTHER -> s.at[d]]
              size == IF c = Chunks THEN "long" ELSE s.size
  <2>2. \A d \in Chunk : at[d] = IF d = c THEN "good" ELSE IF d = c + 1 THEN "bad" ELSE s.at[d]
    BY <1>1, ChunkNat
  <2>3. at \in [Chunk -> Bytes]
    <3>1. \A d \in Chunk : at[d] \in Bytes  BY <2>1, <2>2 DEF Bytes
    <3>. HIDE DEF at
    <3>2. at = [d \in Chunk |-> at[d]]  BY DEF at
    <3>. QED  BY <3>1, <3>2
  <2>4. at[Chunks] = "good" => size = "long" \/ (size = s.size /\ s.at[Chunks] = "good")
    <3>1. at[Chunks] = IF Chunks = c THEN "good" ELSE IF Chunks = c + 1 THEN "bad" ELSE s.at[Chunks]
      BY <2>2, ChunkNat
    <3>2. c = Chunks => size = "long"  OBVIOUS
    <3>3. c # Chunks => size = s.size  OBVIOUS
    <3>. HIDE DEF at, size
    <3>. QED  BY <3>1, <3>2, <3>3
  <2>5. size \in {"short", "full", "long"}  BY <2>1
  <2>6. Overrun(s, c) = [at |-> at, size |-> size]  BY Zenon DEF Overrun
  <2>. HIDE DEF at, size
  <2>. QED  BY <2>3, <2>4, <2>5, <2>6 DEF StagedFile
<1>4. staged'[u] = Overrun(s, c)  BY DEF WriteOversized, Typed, TypeOK
<1>5. Overrun(s, c) # None  BY <1>3, NoneIsNone
<1>6. s.at[Chunks] = "good" => staged[u] # None /\ s = staged[u]
  BY ChunkNat DEF Before, NoBytes
<1>7. SendEnds(r, u)  BY <1>1, Replied DEF WriteOversized
<1>8. /\ Kind(u) = "http" /\ Is("oversize")
      /\ SameRecords(u) /\ files'[u] = files[u] /\ EventsOf(u)' = EventsOf(u)
  BY DEF WriteOversized, Oversize, SameRecords, EventsOf
<1>. HIDE DEF s
<1>. QED
  <2>1. staged'[u] # None  BY <1>4, <1>5
  <2>2. staged'[u].at[Chunks] = "good" =>
          \/ staged'[u].size = "long"
          \/ staged[u] # None /\ staged'[u].size = staged[u].size /\ staged[u].at[Chunks] = "good"
    <3>. DEFINE o == Overrun(s, c)
    <3>1. staged'[u] = o  BY <1>4
    <3>2. o.at[Chunks] = "good" => o.size = "long" \/ (o.size = s.size /\ s.at[Chunks] = "good")
      BY <1>3
    <3>. HIDE DEF o
    <3>3. o.at[Chunks] = "good" =>
            o.size = "long" \/ (staged[u] # None /\ o.size = staged[u].size /\ staged[u].at[Chunks] = "good")
      BY <1>6, <3>2
    <3>. QED  BY <3>1, <3>3, Zenon
  <2>. QED  BY <1>1, <1>7, <1>8, <2>1, <2>2 DEF Overran

LEMMA SendEndsEffect ==
  ASSUME Typed, NEW r \in Req, NEW u \in Task, req[r].t = u, RefusePart(r) \/ RowFails(r)
  PROVE  Dropped(r, u)
BY Replied DEF RefusePart, RowFails, SameRecords, SameData, EventsOf, Dropped

LEMMA RowEffect ==
  ASSUME Typed, NEW r \in Req, NEW u \in Task, req[r].t = u, UpdateUploadedChunk(r)
  PROVE  Acknowledged(r, u)
BY Replied DEF UpdateUploadedChunk, SameData, EventsOf, Typed, TypeOK, TaskRow, ClientRow, Acknowledged

LEMMA RefuseEffect ==
  ASSUME Typed, NEW r \in Req, NEW u \in Task, req[r].t = u, Refuse(r) \/ RefuseMultipart(r)
  PROVE  Refused(r, u)
<1>1. client[u] \in ClientRow /\ u \in DOMAIN client /\ u \in DOMAIN staged  BY DEF Typed, TypeOK
<1>2. /\ client'[u].acked = IF req[r].whole THEN {} ELSE client[u].acked
      /\ client'[u].done = client[u].done
  BY <1>1 DEF Refuse, RefuseMultipart, ClientRow
<1>3. staged'[u] = IF Kind(u) = "http" THEN None ELSE staged[u]
  BY <1>1 DEF Refuse, RefuseMultipart
<1>4. Ends(r, u)  BY Replied DEF Refuse, RefuseMultipart, PC
<1>. QED  BY <1>2, <1>3, <1>4 DEF Refuse, RefuseMultipart, EventsOf, InOne, Refused

LEMMA AcceptEffect ==
  ASSUME Typed, NEW r \in Req, NEW u \in Task, req[r].t = u, Accept(r)
  PROVE  Accepted(r, u)
BY Gone DEF Accept, SameRecords, SameData, EventsOf, PC, Accepted

LEMMA ReadEffect ==
  ASSUME Typed, NEW r \in Req, NEW u \in Task, req[r].t = u, Inspect(r) \/ Put(r)
  PROVE  (Inspect(r) /\ Inspected(r, u)) \/ (Put(r) /\ Stored(r, u))
<1>1. CASE Inspect(r)
  <2>. DEFINE row == [req[r] EXCEPT !.pc = "put", !.hash = Content(u)]
  <2>1. row.pc = "put" /\ row.t = u /\ row.hash = Content(u)  BY DEF Typed, TypeOK, ReqRow
  <2>2. req' = [req EXCEPT ![r] = row]  BY <1>1 DEF Inspect, Typed, TypeOK
  <2>. HIDE DEF row
  <2>3. /\ req[r].pc = "inspect" /\ staged[u] # None /\ UNCHANGED <<task, client, staged, files, events>>
    BY <1>1 DEF Inspect
  <2>4. Takes(r, u, "put") /\ req'[r] = row  BY <2>1, <2>2, <2>3, TakesRow DEF PC
  <2>6. GoesOn(r, u, "put")  BY <2>3, <2>4, TakesActive DEF PC
  <2>. QED  BY <1>1, <2>1, <2>3, <2>4, <2>6 DEF SameRecords, SameData, EventsOf, Inspected
<1>2. CASE Put(r)
  <2>. DEFINE row == [req[r] EXCEPT !.pc = "record", !.bytes = Content(u)]
  <2>1. row.pc = "record" /\ row.t = u /\ row.bytes = Content(u) /\ row.hash = req[r].hash
    BY DEF Typed, TypeOK, ReqRow
  <2>2. req' = [req EXCEPT ![r] = row]  BY <1>2 DEF Put, Typed, TypeOK
  <2>. HIDE DEF row
  <2>3. /\ req[r].pc = "put" /\ staged[u] # None /\ UNCHANGED <<task, client, staged, files, events>>
    BY <1>2 DEF Put
  <2>4. Takes(r, u, "record") /\ req'[r] = row  BY <2>1, <2>2, <2>3, TakesRow DEF PC
  <2>6. GoesOn(r, u, "record")  BY <2>3, <2>4, TakesActive DEF PC
  <2>. QED  BY <1>2, <2>1, <2>3, <2>4, <2>6 DEF SameRecords, SameData, EventsOf, Stored
<1>. QED  BY <1>1, <1>2

LEMMA RecordEffect ==
  ASSUME Typed, NEW r \in Req, NEW u \in Task, req[r].t = u, RecordFile(r)
  PROVE  MadeFile(r, u)
<1>1. GoesOn(r, u, "publish")  BY Gone DEF RecordFile, PC
<1>2. u \in DOMAIN files /\ files[u] \in Seq(FileRow)  BY DEF Typed, TypeOK
<1>. DEFINE row == [bytes |-> req[r].bytes, hash |-> req[r].hash, derived |-> None]
<1>3. files'[u] = Append(files[u], row)  BY <1>2 DEF RecordFile
<1>4. /\ req[r].pc = "record" /\ SameRecords(u) /\ staged'[u] = staged[u] /\ EventsOf(u)' = EventsOf(u)
  BY DEF RecordFile, SameRecords, EventsOf
<1>. HIDE DEF row
<1>5. /\ Len(files'[u]) = Len(files[u]) + 1 /\ files'[u][Len(files[u]) + 1] = row
      /\ \A i \in 1 .. Len(files[u]) : files'[u][i] = files[u][i]
  BY <1>2, <1>3
<1>. QED  BY <1>1, <1>2, <1>4, <1>5 DEF row, MadeFile

LEMMA PublishEffect ==
  ASSUME Typed, NEW r \in Req, NEW u \in Task, req[r].t = u, PublishFileUploaded(r)
  PROVE  Published(r, u)
BY Gone DEF PublishFileUploaded, SameRecords, EventsOf, PC, Published

LEMMA MarkEffect ==
  ASSUME Typed, NEW r \in Req, NEW u \in Task, req[r].t = u, MarkCompleted(r)
  PROVE  Marked(r, u)
<1>1. Ends(r, u)  BY Replied DEF MarkCompleted, PC
<1>2. client[u] \in ClientRow /\ task[u] \in TaskRow /\ u \in DOMAIN client /\ u \in DOMAIN task
  BY DEF Typed, TypeOK
<1>3. client'[u].done /\ client'[u].acked = client[u].acked  BY <1>2 DEF MarkCompleted, ClientRow
<1>4. /\ task'[u].rows = task[u].rows /\ task'[u].list = task[u].list
      /\ task'[u].status = IF InOne(u) THEN task[u].status ELSE "completed"
  BY <1>2 DEF MarkCompleted, WithStatus, TaskRow
<1>. QED  BY <1>1, <1>3, <1>4 DEF MarkCompleted, SameData, EventsOf, Marked

LEMMA AbandonEffect ==
  ASSUME Typed, NEW r \in Req, NEW u \in Task, req[r].t = u, Abandon(r)
  PROVE  Abandoned(r, u)
<1>1. Ends(r, u)  BY Replied DEF Abandon, PC
<1>2. client[u] \in ClientRow /\ u \in DOMAIN client /\ u \in DOMAIN staged  BY DEF Typed, TypeOK
<1>3. client'[u].acked = {} /\ client'[u].done = client[u].done  BY <1>2 DEF Abandon, ClientRow
<1>. QED  BY <1>1, <1>2, <1>3 DEF Abandon, Fault, EventsOf, Abandoned

LEMMA MarkFailsEffect ==
  ASSUME Typed, NEW r \in Req, NEW u \in Task, req[r].t = u, MarkFails(r)
  PROVE  MarkFailed(r, u)
<1>1. client[u] \in ClientRow /\ u \in DOMAIN client /\ u \in DOMAIN staged  BY DEF Typed, TypeOK
<1>2. Kind(u) = "http" => /\ staged'[u] = staged[u] /\ client'[u].done
                         /\ client'[u].acked = client[u].acked
  BY <1>1 DEF MarkFails, ClientRow
<1>3. Kind(u) # "http" => /\ staged'[u] = None /\ client'[u].acked = {}
                         /\ client'[u].done = client[u].done
  BY <1>1 DEF MarkFails, ClientRow
<1>4. Ends(r, u)  BY Replied DEF MarkFails, PC
<1>. QED  BY <1>2, <1>3, <1>4 DEF MarkFails, Fault, EventsOf, MarkFailed

LEMMA BeginChunkEffect ==
  ASSUME Typed, NEW r \in Req, NEW u \in Task, NEW c \in Chunk, BeginChunk(r, u, c),
         ~InOne(u), task[u].status # "none"
  PROVE  BeganChunk(r, u, c)
<1>1. req[r].pc = "idle" /\ Takes(r, u, "write") /\ req'[r] = SendRow(u, c)
  <2>1. req[r].pc = "idle"  BY DEF BeginChunk
  <2>2. req' = [req EXCEPT ![r] = SendRow(u, c)]  BY Begins
  <2>3. SendRow(u, c).pc = "write" /\ SendRow(u, c).t = u  BY FirstRows
  <2>4. "write" \in PC  BY DEF PC
  <2>. QED  BY <2>1, <2>2, <2>3, <2>4, TakesRow
<1>2. req'[r].c = c  BY <1>1, FirstRows
<1>3. SendBegins(r, u, c)  BY <1>1, <1>2, TakesIdle
<1>. QED  BY <1>1, <1>2, <1>3 DEF BeginChunk, SameRecords, SameData, EventsOf, BeganChunk

LEMMA LoadEffect ==
  ASSUME Typed, NEW r \in Req, NEW u \in Task, LoadTask(r, u), ~InOne(u),
         task[u].status # "none", Kind(u) = "grpc" => task[u].status = "pending"
  PROVE  Loaded(r, u)
<1>1. req[r].pc = "idle" /\ Takes(r, u, "check") /\ req'[r] = CheckRow(u)
  <2>1. req[r].pc = "idle"  BY DEF LoadTask
  <2>2. req' = [req EXCEPT ![r] = CheckRow(u)]  BY Begins
  <2>3. CheckRow(u).pc = "check" /\ CheckRow(u).t = u  BY FirstRows
  <2>4. "check" \in PC  BY DEF PC
  <2>. QED  BY <2>1, <2>2, <2>3, <2>4, TakesRow
<1>2. req'[r].whole = (task[u].rows \cup task[u].list = Chunk)
  <2>1. CheckRow(u).whole = (Uploaded(u) = Chunk)  BY FirstRows
  <2>. QED  BY <1>1, <2>1 DEF Uploaded
<1>3. ~Is("overlap") => Active(u) = {}  BY DEF LoadTask, Completes, MayComplete, Active
<1>4. Starts(r, u, "check")  BY <1>1, <1>3, TakesIdle DEF PC
<1>. QED  BY <1>1, <1>2, <1>4 DEF LoadTask, SameRecords, SameData, EventsOf, Loaded

LEMMA ReceiveEffect ==
  ASSUME Typed, NEW r \in Req, NEW u \in Task, Receive(r, u), InOne(u), MayBegin,
         Admitted(u, 1) \/ Admitted(u, world.rate[u])
  PROVE  Received(r, u)
<1>1. req[r].pc = "idle" /\ Takes(r, u, "put") /\ req'[r] = PutRow(u)
  <2>1. req[r].pc = "idle"  BY DEF Receive
  <2>2. req' = [req EXCEPT ![r] = PutRow(u)]  BY Begins
  <2>3. PutRow(u).pc = "put" /\ PutRow(u).t = u  BY FirstRows
  <2>4. "put" \in PC  BY DEF PC
  <2>. QED  BY <2>1, <2>2, <2>3, <2>4, TakesRow
<1>2. req'[r].hash = "good"  BY <1>1, FirstRows
<1>3. Active(u) = {} /\ Sending(u) = {}  BY DEF Receive, Alone, Active, Sending
<1>4. staged'[u] = [at |-> [c \in Chunk |-> "good"], size |-> "full"]  BY DEF Receive, Typed, TypeOK
<1>5. [at |-> [c \in Chunk |-> "good"], size |-> "full"] \in StagedFile  BY DEF StagedFile, Bytes
<1>6. staged'[u] # None  BY <1>4, <1>5, NoneIsNone
<1>7. Starts(r, u, "put")  BY <1>1, <1>3, TakesIdle DEF PC
<1>. QED  BY <1>1, <1>2, <1>3, <1>4, <1>6, <1>7 DEF Receive, SameRecords, EventsOf, Received

LEMMA InsertEffect ==
  ASSUME Typed, NEW u \in Task, InsertTask(u), ~InOne(u), MayBegin, Admitted(u, world.rate[u])
  PROVE  Inserted(u)
<1>1. task[u] \in TaskRow /\ u \in DOMAIN task  BY DEF Typed, TypeOK
<1>2. SameServing(u)  BY DEF InsertTask, SameServing, Active, Sending, Completing
<1>. QED  BY <1>1, <1>2 DEF InsertTask, SameData, EventsOf, TaskRow, Inserted

LEMMA CancelEffect ==
  ASSUME Typed, NEW u \in Task, CancelUpload(u)
  PROVE  Cancelled(u)
<1>1. task[u] \in TaskRow /\ u \in DOMAIN task  BY DEF Typed, TypeOK
<1>2. SameServing(u)  BY DEF CancelUpload, SameServing, Active, Sending, Completing
<1>. QED  BY <1>1, <1>2 DEF CancelUpload, SameData, EventsOf, TaskRow, Cancelled

LEMMA CleanupEffect ==
  ASSUME Typed, NEW u \in Task, CleanupTempArtifacts(u)
  PROVE  Cleaned(u)
<1>1. SameServing(u)  BY DEF CleanupTempArtifacts, SameServing, Active, Sending, Completing
<1>2. Active(u) = {} /\ Sending(u) = {}  BY DEF CleanupTempArtifacts, Alone, Active, Sending
<1>3. staged'[u] = None  BY DEF CleanupTempArtifacts, Typed, TypeOK
<1>. QED  BY <1>1, <1>2, <1>3 DEF CleanupTempArtifacts, SameRecords, EventsOf, Cleaned

\* One row gets what is derived from it.
LEMMA Derives ==
  ASSUME Typed, NEW u \in Task, NEW e \in EventsOf(u), Recorded(u),
         files' = [files EXCEPT ![e.t][e.i].derived = Source(e)]
  PROVE  /\ Len(files'[u]) = Len(files[u]) /\ e.i \in 1 .. Len(files[u])
         /\ \A i \in 1 .. Len(files[u]) \ {e.i} : files'[u][i] = files[u][i]
         /\ files'[u][e.i].bytes = files[u][e.i].bytes /\ files'[u][e.i].hash = files[u][e.i].hash
         /\ files'[u][e.i].derived = IF staged[u] # None THEN Content(u) ELSE files[u][e.i].bytes
<1>. DEFINE to == IF staged[u] # None THEN Content(u) ELSE files[u][e.i].bytes
            row == [files[u][e.i] EXCEPT !.derived = to]
<1>1. e.t = u /\ e \in Event /\ e.i \in 1 .. Len(files[u]) /\ files[u] \in Seq(FileRow)
  BY DEF EventsOf, Typed, TypeOK, Recorded
<1>2. files[u][e.i] \in FileRow  BY <1>1
<1>3. row.bytes = files[u][e.i].bytes /\ row.hash = files[u][e.i].hash /\ row.derived = to
  BY <1>2 DEF FileRow
<1>4. files' = [files EXCEPT ![u] = [@ EXCEPT ![e.i] = row]]
  BY <1>1 DEF Source, Typed, TypeOK
<1>. HIDE DEF row
<1>5. files'[u] = [files[u] EXCEPT ![e.i] = row]  BY <1>4 DEF Typed, TypeOK
<1>6. /\ Len(files'[u]) = Len(files[u]) /\ files'[u][e.i] = row
      /\ \A i \in 1 .. Len(files[u]) \ {e.i} : files'[u][i] = files[u][i]
  BY <1>1, <1>5
<1>. QED  BY <1>1, <1>3, <1>6

LEMMA MarksEffect ==
  ASSUME Typed, NEW u \in Task, NEW status, task' = WithStatus(u, status), client' = client
  PROVE  Marks(u, status)
<1>1. task[u] \in TaskRow /\ u \in DOMAIN task  BY DEF Typed, TypeOK
<1>. QED  BY <1>1 DEF WithStatus, TaskRow, Marks

LEMMA ProcessEffect ==
  ASSUME Typed, NEW u \in Task, NEW e \in EventsOf(u), ProcessUploadedFile(e), Recorded(u)
  PROVE  Processed(u, e)
<1>. DEFINE read == [e EXCEPT !.read = TRUE]
<1>1. e.t = u /\ e \in Event  BY DEF EventsOf, Typed, TypeOK
<1>2. read.t = u /\ read.i = e.i  BY <1>1 DEF Event
<1>3. events' = IF staged[u] # None THEN (events \ {e}) \cup {read} ELSE events \ {e}
  BY <1>1 DEF ProcessUploadedFile, Handled
<1>. HIDE DEF read
<1>4. /\ staged[u] # None => EventsOf(u)' = (EventsOf(u) \ {e}) \cup {read}
      /\ staged[u] = None => EventsOf(u)' = EventsOf(u) \ {e}
  BY <1>2, <1>3 DEF EventsOf
<1>5. SameServing(u) /\ staged'[u] = staged[u]
  BY DEF ProcessUploadedFile, SameServing, Active, Sending, Completing
<1>6. Marks(u, "completed")  BY <1>1, MarksEffect DEF ProcessUploadedFile
<1>7. files' = [files EXCEPT ![e.t][e.i].derived = Source(e)]  BY DEF ProcessUploadedFile
<1>. QED  BY <1>2, <1>4, <1>5, <1>6, <1>7, Derives DEF Processed

LEMMA ProcessFailsEffect ==
  ASSUME Typed, NEW u \in Task, NEW e \in EventsOf(u), ProcessFails(e), Recorded(u)
  PROVE  ProcessFailed(u, e)
<1>1. e.t = u /\ e.i \in 1 .. Len(files[u])  BY DEF EventsOf, Recorded
<1>2. EventsOf(u)' \in {EventsOf(u), EventsOf(u) \ {e}}  BY DEF ProcessFails, EventsOf
<1>3. SameServing(u) /\ staged'[u] = staged[u] /\ Is("faults") /\ client' = client
  BY DEF ProcessFails, Fault, SameServing, Active, Sending, Completing
<1>4. CASE task' = WithStatus(u, "failed") /\ files' = files
  BY <1>1, <1>2, <1>3, <1>4, MarksEffect DEF ProcessFailed
<1>5. CASE files' = [files EXCEPT ![e.t][e.i].derived = Source(e)] /\ task' = task
  BY <1>2, <1>3, <1>5, Derives DEF ProcessFailed, SameRecords
<1>. QED  BY <1>1, <1>4, <1>5 DEF ProcessFails

LEMMA RemoveEffect ==
  ASSUME Typed, NEW u \in Task, NEW e \in EventsOf(u), RemoveProcessed(e)
  PROVE  Removed(u, e)
BY DEF RemoveProcessed, SameRecords, SameServing, Active, Sending, Completing, EventsOf, Typed, TypeOK, Removed

LEMMA RestartEffect ==
  ASSUME Typed, Restart, NEW u \in Task
  PROVE  Restarted(u)
BY DEF Restart, SameRecords, EventsOf, Active, Sending, Completing, IdleReq, Restarted

\* The world is what it was, and so is what a run is about.
LEMMA SameModes ==
  ASSUME world' = world, NEW t
  PROVE  /\ Kind(t)' = Kind(t) /\ InOne(t)' = InOne(t) /\ Is("oversize")' = Is("oversize")
         /\ Is("overlap")' = Is("overlap") /\ Is("faults")' = Is("faults") /\ Is("crash")' = Is("crash")
         /\ Chunked(t)' = Chunked(t) /\ Once(t)' = Once(t) /\ Strict(t)' = Strict(t)
         /\ Careful(t)' = Careful(t) /\ Personal(t)' = Personal(t) /\ Is("early")' = Is("early")
BY DEF Kind, InOne, Chunked, Once, Strict, Careful, Personal, Is

-----------------------------------------------------------------------------
(* What is recorded of a task. *)

LEMMA InitRecorded == Init => \A t \in Task : Recorded(t)
BY DEF Init, Recorded, Active, Sending, Completing, EventsOf, IdleReq

LEMMA RecordedFrame ==
  ASSUME NEW t \in Task, Recorded(t), Same(t), world' = world
  PROVE  Recorded(t)'
BY DEF Recorded, Same, SameRequests, InOne, Kind, Whole, Is

-----------------------------------------------------------------------------
(* All that a step does to the task it is of. *)

SendDoes(r, u) ==
  \/ Wrote(r, u) \/ Broke(r, u) \/ Overran(r, u) \/ Dropped(r, u) \/ Acknowledged(r, u)
  \/ \E c \in Chunk : BeganChunk(r, u, c)

CompletionDoes(r, u) ==
  \/ Loaded(r, u) \/ Received(r, u) \/ Refused(r, u) \/ Accepted(r, u) \/ Inspected(r, u)
  \/ Stored(r, u) \/ MadeFile(r, u) \/ Published(r, u) \/ Marked(r, u) \/ Abandoned(r, u)
  \/ MarkFailed(r, u)

Does(u) ==
  \/ \E r \in Req : SendDoes(r, u) \/ CompletionDoes(r, u)
  \/ Inserted(u) \/ Cancelled(u) \/ Cleaned(u)
  \/ \E e \in EventsOf(u) : Processed(u, e) \/ ProcessFailed(u, e) \/ Removed(u, e)

LEMMA StepDoes ==
  ASSUME Typed, NEW u \in Task, Recorded(u), StepOf(u)
  PROVE  Does(u)
<1>1. ASSUME NEW r \in Req, req[r].t = u, Handle(r) \/ Fails(r)
      PROVE  SendDoes(r, u) \/ CompletionDoes(r, u)
  <2>1. ASSUME WriteUploadChunk(r) \/ UpdateUploadedChunk(r) \/ Fails(r)
        PROVE  SendDoes(r, u) \/ CompletionDoes(r, u)
    BY <1>1, <2>1, WriteEffect, WriteFailsEffect, OversizedEffect, SendEndsEffect, RowEffect,
       MarkFailsEffect DEF Fails, SendDoes, CompletionDoes
  <2>2. ASSUME Refuse(r) \/ RefuseMultipart(r) \/ Accept(r) \/ Inspect(r) \/ Put(r) \/ RecordFile(r)
               \/ PublishFileUploaded(r) \/ MarkCompleted(r) \/ Abandon(r)
        PROVE  CompletionDoes(r, u)
    BY <1>1, <2>2, RefuseEffect, AcceptEffect, ReadEffect, RecordEffect, PublishEffect, MarkEffect,
       AbandonEffect DEF CompletionDoes
  <2>. QED  BY <1>1, <2>1, <2>2 DEF Handle
<1>2. ASSUME NEW r \in Req, Ask(r, u)
      PROVE  SendDoes(r, u) \/ CompletionDoes(r, u)
  <2>1. \/ (\E c \in Chunk : BeginChunk(r, u, c)) /\ ~InOne(u) /\ task[u].status # "none"
        \/ /\ LoadTask(r, u) /\ ~InOne(u) /\ task[u].status # "none"
           /\ Kind(u) = "grpc" => task[u].status = "pending"
        \/ /\ Receive(r, u) /\ InOne(u) /\ MayBegin
           /\ Admitted(u, 1) \/ Admitted(u, world.rate[u])
    BY <1>2 DEF Ask, Send, Complete, UploadChunk, UploadMultipartPart, CompleteUpload,
       CompleteMultipartUpload, UploadForm, UploadStream, PrepareUpload, InOne
  <2>. QED
    BY <2>1, BeginChunkEffect, LoadEffect, ReceiveEffect DEF SendDoes, CompletionDoes
<1>3. ASSUME CreateUploadTask(u) \/ CreateMultipartUpload(u) \/ CancelUpload(u) \/ CleanupTempArtifacts(u)
      PROVE  Inserted(u) \/ Cancelled(u) \/ Cleaned(u)
  <2>1. CASE CreateUploadTask(u) \/ CreateMultipartUpload(u)
    <3>1. ~InOne(u) /\ InsertTask(u) /\ MayBegin /\ Admitted(u, world.rate[u])
      BY <2>1 DEF CreateUploadTask, CreateMultipartUpload, PrepareUpload, InOne
    <3>. QED  BY <3>1, InsertEffect
  <2>2. CASE CancelUpload(u) \/ CleanupTempArtifacts(u)
    BY <2>2, CancelEffect, CleanupEffect
  <2>. QED  BY <1>3, <2>1, <2>2
<1>. QED  BY <1>1, <1>2, <1>3, ProcessEffect, ProcessFailsEffect, RemoveEffect DEF StepOf, Does

-----------------------------------------------------------------------------
(* What is recorded of a task. *)

LEMMA RecordedSend ==
  ASSUME Typed, NEW u \in Task, Recorded(u), world' = world, NEW r \in Req, SendDoes(r, u)
  PROVE  Recorded(u)'
<1>a. /\ InOne(u)' = InOne(u) /\ Kind(u)' = Kind(u) /\ Is("oversize")' = Is("oversize")
      /\ Is("early")' = Is("early")
  BY SameModes
<1>b. Before(u).at[Chunks] = "good" => staged[u] # None
  BY ChunkNat DEF Before, NoBytes
<1>1. CASE Wrote(r, u)
  <2>1. /\ staged'[u].at[Chunks] = "good" => staged'[u].size # "short"
        /\ staged'[u].size = "long" => Kind(u) = "http" /\ Is("oversize")
    BY <1>1, <1>b, ChunkNat DEF Wrote, Recorded, SizeWith, Before, NoBytes, SendGoesOn
  <2>. QED  BY <1>a, <1>1, <2>1 DEF Wrote, Recorded, SendGoesOn, SameActive, SameRecords
<1>2. CASE Broke(r, u)
  <2>1. /\ staged'[u].at[Chunks] = "good" => staged'[u].size # "short"
        /\ staged'[u].size = "long" => Kind(u) = "http" /\ Is("oversize")
    BY <1>2, <1>b, ChunkNat DEF Broke, Recorded, Before, NoBytes
  <2>. QED  BY <1>a, <1>2, <2>1 DEF Broke, Recorded, SendEnds, SameActive, SameRecords
<1>3. CASE Overran(r, u)
  BY <1>a, <1>3 DEF Overran, Recorded, SendEnds, SameActive, SameRecords
<1>4. CASE Dropped(r, u)
  BY <1>a, <1>4 DEF Dropped, Recorded, SendEnds, SameActive, SameRecords, SameData, Whole
<1>5. CASE Acknowledged(r, u)
  <2>1. task[u].rows \subseteq Chunk  BY DEF Typed, TypeOK, TaskRow
  <2>2. task[u].rows = Chunk => task'[u].rows = Chunk
    BY <1>5, <2>1 DEF Acknowledged, SendEnds
  <2>3. client'[u].acked \subseteq task'[u].rows  BY <1>5 DEF Acknowledged, Recorded
  <2>. QED
    BY <1>a, <1>5, <2>2, <2>3 DEF Acknowledged, Recorded, SendEnds, SameActive, SameData, Whole
<1>6. ASSUME NEW c \in Chunk, BeganChunk(r, u, c)
      PROVE  Recorded(u)'
  BY <1>a, <1>6 DEF BeganChunk, Recorded, SendBegins, SameActive, SameRecords, SameData, Whole
<1>. QED  BY <1>1, <1>2, <1>3, <1>4, <1>5, <1>6 DEF SendDoes

LEMMA RecordedCompletion ==
  ASSUME Typed, NEW u \in Task, Recorded(u), world' = world, NEW r \in Req, CompletionDoes(r, u)
  PROVE  Recorded(u)'
<1>a. /\ InOne(u)' = InOne(u) /\ Kind(u)' = Kind(u) /\ Is("oversize")' = Is("oversize")
      /\ Is("early")' = Is("early")
  BY SameModes
<1>1. CASE Refused(r, u)
  BY <1>a, <1>1 DEF Refused, Recorded, Ends, SameSending, Whole
<1>2. CASE Accepted(r, u)
  BY <1>a, <1>2 DEF Accepted, Recorded, GoesOn, SameSending, SameRecords, SameData, Whole
<1>3. CASE Inspected(r, u)
  BY <1>a, <1>3 DEF Inspected, Recorded, GoesOn, SameSending, SameRecords, SameData, Whole
<1>4. CASE Stored(r, u)
  BY <1>a, <1>4 DEF Stored, Recorded, GoesOn, SameSending, SameRecords, SameData, Whole
<1>5. CASE MadeFile(r, u)
  <2>1. files'[u] # <<>> /\ \A i \in 1 .. Len(files[u]) : i \in 1 .. Len(files'[u])
    BY <1>5 DEF MadeFile
  <2>. QED  BY <1>a, <1>5, <2>1 DEF MadeFile, Recorded, GoesOn, SameSending, SameRecords, Whole
<1>6. CASE Published(r, u)
  <2>1. files[u] # <<>> /\ files[u] \in Seq(FileRow)
    BY <1>6 DEF Published, Recorded, GoesOn, Typed, TypeOK
  <2>2. Len(files[u]) \in 1 .. Len(files[u])  BY <2>1
  <2>. QED
    BY <1>a, <1>6, <2>1, <2>2 DEF Published, Recorded, GoesOn, SameSending, SameRecords, Whole
<1>7. CASE Marked(r, u)
  BY <1>a, <1>7 DEF Marked, Recorded, Ends, SameSending, SameData, Whole
<1>8. CASE Abandoned(r, u)
  BY <1>a, <1>8 DEF Abandoned, Recorded, Ends, SameSending
<1>9. CASE MarkFailed(r, u)
  <2>1. ~(~InOne(u) /\ task[u].status = "none")  BY <1>9 DEF MarkFailed, Recorded, Ends
  <2>2. staged'[u] \in {None, staged[u]} /\ client'[u].acked \subseteq client[u].acked
    BY <1>9 DEF MarkFailed
  <2>. QED  BY <1>a, <1>9, <2>1, <2>2 DEF MarkFailed, Recorded, Ends, SameSending, Whole
<1>10. CASE Loaded(r, u)
  <2>1. req'[r].whole => task[u].rows = Chunk  BY <1>10 DEF Loaded, Recorded
  <2>2. Is("early") \/ req'[r].whole
    <3>1. task[u].rows \in SUBSET Chunk  BY DEF Typed, TypeOK, TaskRow
    <3>. QED  BY <1>10, <3>1 DEF Loaded, Completes, Recorded
  <2>. QED
    BY <1>a, <1>10, <2>1, <2>2 DEF Loaded, Recorded, Starts, SameSending, SameRecords, SameData, Whole
<1>11. CASE Received(r, u)
  BY <1>a, <1>11 DEF Received, Recorded, Starts, SameSending, SameRecords, Whole
<1>. QED
  BY <1>1, <1>2, <1>3, <1>4, <1>5, <1>6, <1>7, <1>8, <1>9, <1>10, <1>11 DEF CompletionDoes

LEMMA RecordedOther ==
  ASSUME Typed, NEW u \in Task, Recorded(u), world' = world,
         \/ Inserted(u) \/ Cancelled(u) \/ Cleaned(u) \/ Restarted(u)
         \/ \E e \in EventsOf(u) : Processed(u, e) \/ ProcessFailed(u, e) \/ Removed(u, e)
  PROVE  Recorded(u)'
<1>a. /\ InOne(u)' = InOne(u) /\ Kind(u)' = Kind(u) /\ Is("oversize")' = Is("oversize")
      /\ Is("early")' = Is("early")
  BY SameModes
<1>1. CASE Inserted(u)
  BY <1>a, <1>1 DEF Inserted, Recorded, SameServing, SameData, Whole
<1>2. CASE Cancelled(u)
  BY <1>a, <1>2 DEF Cancelled, Recorded, SameServing, SameData, Whole
<1>3. CASE Cleaned(u)
  BY <1>a, <1>3 DEF Cleaned, Recorded, SameServing, SameRecords
<1>4. ASSUME NEW e \in EventsOf(u), Processed(u, e) \/ ProcessFailed(u, e)
      PROVE  Recorded(u)'
  <2>1. PICK read : read.i = e.i /\ EventsOf(u)' \subseteq EventsOf(u) \cup {read}
    BY <1>4 DEF Processed, ProcessFailed
  <2>4. Len(files'[u]) = Len(files[u]) /\ e.i \in 1 .. Len(files[u])
    BY <1>4 DEF Processed, ProcessFailed
  <2>2. files[u] # <<>> /\ files'[u] # <<>>  BY <2>4
  <2>3. /\ SameServing(u) /\ staged'[u] = staged[u] /\ client'[u] = client[u]
        /\ task'[u].rows = task[u].rows /\ task'[u].list = task[u].list
        /\ task'[u].status = task[u].status \/ (~InOne(u) /\ task'[u].status # "none")
    BY <1>4 DEF Processed, ProcessFailed, Marks, SameRecords
  <2>. QED  BY <1>a, <2>1, <2>2, <2>3, <2>4 DEF Recorded, SameServing, Whole
<1>5. ASSUME NEW e \in EventsOf(u), Removed(u, e)
      PROVE  Recorded(u)'
  BY <1>a, <1>5 DEF Removed, Recorded, SameServing, SameRecords
<1>6. CASE Restarted(u)
  BY <1>a, <1>6 DEF Restarted, Recorded, SameRecords, Whole
<1>. QED  BY <1>1, <1>2, <1>3, <1>4, <1>5, <1>6

LEMMA RecordedStep ==
  ASSUME Typed, \A t \in Task : Recorded(t), Next, NEW t \in Task
  PROVE  Recorded(t)'
<1>1. world' = world  BY WorldStays
<1>2. CASE Restart  BY <1>1, <1>2, RestartEffect, RecordedOther
<1>3. ASSUME NEW u \in Task, StepOf(u)
      PROVE  Recorded(t)'
  <2>1. CASE t # u  BY <1>1, <1>3, <2>1, Frame, RecordedFrame
  <2>2. CASE t = u
    BY <1>1, <1>3, <2>2, StepDoes, RecordedSend, RecordedCompletion, RecordedOther DEF Does
  <2>. QED  BY <2>1, <2>2
<1>. QED  BY <1>2, <1>3, OwnSteps

LEMMA TypedStep ==
  ASSUME Typed, \A t \in Task : Recorded(t), Next
  PROVE  Typed'
<1>1. ASSUME NEW t \in Task, CreateUploadTask(t) \/ CreateMultipartUpload(t) \/ CancelUpload(t)
                             \/ CleanupTempArtifacts(t)
      PROVE  Typed'
  BY <1>1, OtherTyped DEF CreateUploadTask, CreateMultipartUpload
<1>2. ASSUME NEW r \in Req, Handle(r) \/ Fails(r)
      PROVE  Typed'
  <2>1. CASE WriteUploadChunk(r) \/ WriteFails(r) \/ WriteOversized(r) \/ RefusePart(r)
    BY <2>1, WriteTyped
  <2>2. CASE UpdateUploadedChunk(r) \/ RowFails(r)  BY <2>2, RowTyped
  <2>3. CASE Accept(r) \/ Inspect(r) \/ Put(r) \/ RecordFile(r) \/ PublishFileUploaded(r)
    <3>1. req[r].t \in Task
      BY <2>3, Serving DEF Accept, Inspect, Put, RecordFile, PublishFileUploaded
    <3>. QED  BY <2>3, <3>1, GoOnTyped
  <2>4. CASE Refuse(r) \/ RefuseMultipart(r) \/ MarkCompleted(r) \/ Abandon(r) \/ MarkFails(r)
    BY <2>4, EndTyped
  <2>. QED  BY <1>2, <2>1, <2>2, <2>3, <2>4 DEF Handle, Fails
<1>3. ASSUME NEW r \in Req, NEW t \in Task, Ask(r, t)
      PROVE  Typed'
  <2>1. \/ (\E c \in Chunk : BeginChunk(r, t, c)) /\ ~InOne(t)
        \/ LoadTask(r, t) /\ ~InOne(t)
        \/ Receive(r, t)
    BY <1>3 DEF Ask, Send, Complete, UploadChunk, UploadMultipartPart, CompleteUpload,
       CompleteMultipartUpload, UploadForm, UploadStream, InOne
  <2>. QED  BY <2>1, BeginChunkTyped, BeginTyped
<1>. QED  BY <1>1, <1>2, <1>3, OtherTyped DEF Next

-----------------------------------------------------------------------------
(* One file of a task. *)

OneFile(t) == Once(t) => Len(files[t]) <= 1

LEMMA InitClaimed == Init => \A t \in Task : Claimed(t) /\ OneFile(t)
BY DEF Init, Claimed, OneFile, Active, Completing, EventsOf, IdleReq

LEMMA ClaimedFrame ==
  ASSUME NEW t \in Task, Claimed(t), OneFile(t), Same(t), world' = world
  PROVE  Claimed(t)' /\ OneFile(t)'
<1>1. Once(t)' = Once(t) /\ Kind(t)' = Kind(t)  BY SameModes
<1>2. OneFile(t)'  BY <1>1 DEF OneFile, Same
<1>. QED  BY <1>1, <1>2 DEF Claimed, Same, SameRequests

LEMMA ClaimedSend ==
  ASSUME NEW u \in Task, Claimed(u), OneFile(u), world' = world, NEW r \in Req, SendDoes(r, u)
  PROVE  Claimed(u)' /\ OneFile(u)'
<1>1. Once(u)' = Once(u) /\ Kind(u)' = Kind(u)  BY SameModes
<1>2. /\ SameActive(u) /\ files'[u] = files[u] /\ EventsOf(u)' = EventsOf(u)
      /\ task'[u].status = task[u].status /\ client'[u].done = client[u].done
  BY DEF SendDoes, Wrote, Broke, Overran, Dropped, Acknowledged, BeganChunk, SendGoesOn, SendEnds,
     SendBegins, SameRecords, SameData
<1>3. OneFile(u)'  BY <1>1, <1>2 DEF OneFile
<1>. QED  BY <1>1, <1>2, <1>3 DEF Claimed, SameActive

LEMMA ClaimedCompletion ==
  ASSUME Typed, NEW u \in Task, Recorded(u), Claimed(u), OneFile(u), world' = world,
         NEW r \in Req, CompletionDoes(r, u)
  PROVE  Claimed(u)' /\ OneFile(u)'
<1>. SUFFICES ASSUME Once(u)
              PROVE  Claimed(u)' /\ OneFile(u)'
  <2>1. Once(u)' = Once(u)  BY SameModes
  <2>. QED  BY <2>1 DEF Claimed, OneFile
<1>a. Once(u)' = Once(u) /\ Kind(u)' = Kind(u)  BY SameModes
<1>b. ~Is("overlap") /\ ~Is("faults") /\ (Kind(u) = "http" => ~Is("again"))  BY DEF Once
<1>1. CASE Refused(r, u)
  BY <1>a, <1>b, <1>1 DEF Refused, Claimed, OneFile, Ends
<1>2. CASE Accepted(r, u)
  BY <1>a, <1>b, <1>2 DEF Accepted, Claimed, OneFile, GoesOn, SameRecords, SameData
<1>3. CASE Inspected(r, u)
  BY <1>a, <1>b, <1>3 DEF Inspected, Claimed, OneFile, GoesOn, SameRecords, SameData
<1>4. CASE Stored(r, u)
  BY <1>a, <1>b, <1>4 DEF Stored, Claimed, OneFile, GoesOn, SameRecords, SameData
<1>5. CASE MadeFile(r, u)
  <2>1. files[u] = <<>> /\ Len(files'[u]) = 1
    BY <1>b, <1>5 DEF MadeFile, Claimed, GoesOn
  <2>2. OneFile(u)'  BY <2>1 DEF OneFile
  <2>3. EventsOf(u)' = {}  BY <1>5 DEF MadeFile, Claimed, GoesOn
  <2>. QED  BY <1>a, <1>b, <1>5, <2>2, <2>3 DEF MadeFile, Claimed, GoesOn, SameRecords
<1>6. CASE Published(r, u)
  <2>1. EventsOf(u)' = {[t |-> u, i |-> Len(files[u]), read |-> FALSE]}
    BY <1>b, <1>6 DEF Published, Claimed, GoesOn
  <2>2. OneFile(u)'  BY <1>a, <1>6 DEF OneFile, Published
  <2>. QED  BY <1>a, <1>b, <1>6, <2>1, <2>2 DEF Published, Claimed, GoesOn, SameRecords
<1>7. CASE Marked(r, u)
  <2>1. Kind(u) = "grpc" => ~InOne(u)  BY DEF InOne
  <2>. QED  BY <1>a, <1>b, <1>7, <2>1 DEF Marked, Claimed, OneFile, Ends, SameData
<1>8. CASE Abandoned(r, u)
  BY <1>a, <1>b, <1>8 DEF Abandoned, Claimed, OneFile, Ends
<1>9. CASE MarkFailed(r, u)
  BY <1>b, <1>9 DEF MarkFailed
<1>10. CASE Loaded(r, u)
  <2>1. ~(Kind(u) = "grpc" /\ task[u].status \notin {"none", "pending"})  BY <1>10 DEF Loaded
  <2>2. Kind(u) = "http" => ~client[u].done  BY <1>b, <1>10 DEF Loaded, Completes
  <2>3. Kind(u) \in {"http", "grpc"}
    BY <1>10, KindsTyped DEF Typed, Loaded, InOne, Kinds
  <2>4. files[u] = <<>>
    BY <1>b, <1>10, <2>1, <2>2, <2>3 DEF Loaded, Claimed, Starts
  <2>5. EventsOf(u) = {}  BY <2>4 DEF Recorded
  <2>. QED  BY <1>a, <1>b, <1>10, <2>4, <2>5 DEF Loaded, Claimed, OneFile, Starts, SameRecords, SameData
<1>11. CASE Received(r, u)
  <2>1. Kind(u) # "grpc" /\ files[u] = <<>>  BY <1>11 DEF Received, InOne, Claimed
  <2>2. EventsOf(u) = {}  BY <2>1 DEF Recorded
  <2>. QED  BY <1>a, <1>b, <1>11, <2>1, <2>2 DEF Received, Claimed, OneFile, Starts, SameRecords
<1>. QED
  BY <1>1, <1>2, <1>3, <1>4, <1>5, <1>6, <1>7, <1>8, <1>9, <1>10, <1>11 DEF CompletionDoes

LEMMA ClaimedOther ==
  ASSUME Typed, NEW u \in Task, Recorded(u), Claimed(u), OneFile(u), world' = world,
         \/ Inserted(u) \/ Cancelled(u) \/ Cleaned(u) \/ Restarted(u)
         \/ \E e \in EventsOf(u) : Processed(u, e) \/ ProcessFailed(u, e) \/ Removed(u, e)
  PROVE  Claimed(u)' /\ OneFile(u)'
<1>a. Once(u)' = Once(u) /\ Kind(u)' = Kind(u)  BY SameModes
<1>1. CASE Inserted(u)
  BY <1>a, <1>1 DEF Inserted, Claimed, OneFile, SameServing, SameData
<1>2. CASE Cancelled(u)
  BY <1>a, <1>2 DEF Cancelled, Claimed, OneFile, SameServing, SameData
<1>3. CASE Cleaned(u)
  BY <1>a, <1>3 DEF Cleaned, Claimed, OneFile, SameServing, SameRecords
<1>4. ASSUME NEW e \in EventsOf(u), Processed(u, e)
      PROVE  Claimed(u)' /\ OneFile(u)'
  <2>1. OneFile(u)'  BY <1>a, <1>4 DEF OneFile, Processed
  <2>2. Once(u) => EventsOf(u) = {e}  BY DEF Claimed
  <2>3. Once(u) => \A f, g \in EventsOf(u)' : f = g  BY <1>4, <2>2 DEF Processed
  <2>4. files[u] # <<>>  BY <1>4 DEF Processed
  <2>5. SameServing(u) /\ client'[u] = client[u] /\ files'[u] # <<>>
    BY <1>4, <2>4 DEF Processed, Marks
  <2>6. Kind(u) = "grpc" => task'[u].status = "completed"  BY <1>4 DEF Processed, Marks, InOne
  <2>7. \A q \in Active(u) : Once(u) => req[q].pc = "mark"  BY <2>2 DEF Claimed
  <2>8. (Once(u) /\ Kind(u) # "grpc") => client[u].done \/ \E q \in Active(u) : req[q].pc = "mark"
    BY <2>4, <2>7 DEF Claimed
  <2>. QED  BY <1>a, <2>1, <2>3, <2>5, <2>6, <2>7, <2>8 DEF Claimed, SameServing
<1>7. ASSUME NEW e \in EventsOf(u), ProcessFailed(u, e)
      PROVE  Claimed(u)' /\ OneFile(u)'
  BY <1>a, <1>7 DEF ProcessFailed, Claimed, OneFile, Once
<1>5. ASSUME NEW e \in EventsOf(u), Removed(u, e)
      PROVE  Claimed(u)' /\ OneFile(u)'
  BY <1>a, <1>5 DEF Removed, Claimed, OneFile, SameServing, SameRecords
<1>6. CASE Restarted(u)
  BY <1>a, <1>6 DEF Restarted, Claimed, OneFile, Once
<1>. QED  BY <1>1, <1>2, <1>3, <1>4, <1>5, <1>6, <1>7

LEMMA ClaimedStep ==
  ASSUME Typed, \A t \in Task : Recorded(t) /\ Claimed(t) /\ OneFile(t), Next, NEW t \in Task
  PROVE  Claimed(t)' /\ OneFile(t)'
<1>1. world' = world  BY WorldStays
<1>2. CASE Restart  BY <1>1, <1>2, RestartEffect, ClaimedOther
<1>3. ASSUME NEW u \in Task, StepOf(u)
      PROVE  Claimed(t)' /\ OneFile(t)'
  <2>1. CASE t # u  BY <1>1, <1>3, <2>1, Frame, ClaimedFrame
  <2>2. CASE t = u
    BY <1>1, <1>3, <2>2, StepDoes, ClaimedSend, ClaimedCompletion, ClaimedOther DEF Does
  <2>. QED  BY <2>1, <2>2
<1>. QED  BY <1>2, <1>3, OwnSteps

-----------------------------------------------------------------------------
(* Sums.  The fold behind MapThenSumSet picks the elements in the order of *)
(* CHOOSE; the sum does not depend on it, and grows with the set and with  *)
(* the weights.                                                            *)

First(s) == CHOOSE x \in s : TRUE

\* What MapThenFoldSet builds up for the subsets of S.
IsSum(sum, w, S) ==
  sum = [s \in SUBSET S |-> IF s = {} THEN 0 ELSE w[First(s)] + sum[s \ {First(s)}]]

LEMMA FirstIn == \A s : s # {} => First(s) \in s
BY DEF First

\* Induction over the natural numbers, for a set of them.
LEMMA NatSetInduction ==
  ASSUME NEW S, 0 \in S, \A n \in Nat : n \in S => n + 1 \in S
  PROVE  Nat \subseteq S
<1>. DEFINE T == Nat \ S
            R == OpToRel(<, Nat)
<1>1. SUFFICES ASSUME T # {} PROVE FALSE
  OBVIOUS
<1>2. IsWellFoundedOn(R, Nat)  BY NatLessThanWellFounded
<1>3. PICK x \in T : \A y \in T : ~(<<y, x>> \in R)
  <2>. HIDE DEF R
  <2>. QED  BY <1>1, <1>2, WFMin
<1>4. x \in Nat /\ x # 0  OBVIOUS
<1>5. x - 1 \in T  BY <1>4
<1>6. <<x - 1, x>> \in R  BY <1>4 DEF OpToRel
<1>. QED  BY <1>3, <1>5, <1>6

LEMMA Smaller ==
  ASSUME NEW S, IsFiniteSet(S), NEW s \in SUBSET S
  PROVE  /\ IsFiniteSet(s) /\ Cardinality(s) \in Nat
         /\ Cardinality(s) = 0 <=> s = {}
         /\ \A x \in s : Cardinality(s \ {x}) = Cardinality(s) - 1
<1>1. IsFiniteSet(s)  BY FS_Subset
<1>2. Cardinality(s) \in Nat /\ (Cardinality(s) = 0 <=> s = {})
  BY <1>1, FS_CardinalityType, FS_EmptySet
<1>. QED  BY <1>1, <1>2, FS_RemoveElement

\* There is one.
LEMMA SumExists ==
  ASSUME NEW S, IsFiniteSet(S), NEW w \in [S -> Nat]
  PROVE  \E sum \in [SUBSET S -> Nat] : IsSum(sum, w, S)
<1>. DEFINE Good(f, s) == f[s] = IF s = {} THEN 0 ELSE w[First(s)] + f[s \ {First(s)}]
            N == {n \in Nat : \E f \in [SUBSET S -> Nat] :
                               \A s \in SUBSET S : Cardinality(s) <= n => Good(f, s)}
<1>1. 0 \in N
  <2>1. [s \in SUBSET S |-> 0] \in [SUBSET S -> Nat]  OBVIOUS
  <2>2. \A s \in SUBSET S : Cardinality(s) <= 0 => Good([r \in SUBSET S |-> 0], s)
    BY Smaller
  <2>. QED  BY <2>1, <2>2
<1>2. ASSUME NEW n \in Nat, n \in N
      PROVE  n + 1 \in N
  <2>1. PICK f \in [SUBSET S -> Nat] : \A s \in SUBSET S : Cardinality(s) <= n => Good(f, s)
    BY <1>2
  <2>. DEFINE g == [s \in SUBSET S |-> IF Cardinality(s) <= n THEN f[s]
                                       ELSE w[First(s)] + f[s \ {First(s)}]]
  <2>2. \A s \in SUBSET S : Cardinality(s) > n => s # {}  BY Smaller
  <2>3. g \in [SUBSET S -> Nat]
    <3>1. ASSUME NEW s \in SUBSET S, Cardinality(s) > n
          PROVE  w[First(s)] + f[s \ {First(s)}] \in Nat
      <4>1. First(s) \in S  BY <2>2, <3>1, FirstIn
      <4>2. w[First(s)] \in Nat /\ f[s \ {First(s)}] \in Nat  BY <4>1
      <4>. QED  BY <4>2
    <3>2. \A s \in SUBSET S : Cardinality(s) \in Nat  BY Smaller
    <3>. QED  BY <3>1, <3>2
  <2>4. ASSUME NEW s \in SUBSET S, Cardinality(s) <= n + 1
        PROVE  Good(g, s)
    <3>1. CASE s = {}
      <4>1. Cardinality(s) <= n  BY <3>1, Smaller
      <4>. QED  BY <2>1, <3>1, <4>1
    <3>2. CASE s # {}
      <4>. DEFINE x == First(s)
                  r == s \ {x}
      <4>1. x \in s  BY <3>2, FirstIn
      <4>2. r \in SUBSET S /\ Cardinality(r) <= n  BY <2>4, <4>1, Smaller
      <4>3. g[r] = f[r]  BY <4>2
      <4>4. g[s] = w[x] + f[r]
        <5>1. CASE Cardinality(s) <= n  BY <2>1, <3>2, <5>1
        <5>2. CASE ~(Cardinality(s) <= n)  BY <5>2
        <5>. QED  BY <5>1, <5>2
      <4>. QED  BY <3>2, <4>3, <4>4
    <3>. QED  BY <3>1, <3>2
  <2>. HIDE DEF g, Good
  <2>. QED  BY <2>3, <2>4
<1>3. Nat \subseteq N
  <2>. HIDE DEF N
  <2>. QED  BY <1>1, <1>2, NatSetInduction
<1>4. Cardinality(S) \in Nat  BY Smaller
<1>5. PICK f \in [SUBSET S -> Nat] : \A s \in SUBSET S : Cardinality(s) <= Cardinality(S) => Good(f, s)
  BY <1>3, <1>4
<1>6. \A s \in SUBSET S : Cardinality(s) <= Cardinality(S)  BY FS_Subset
<1>7. \A s \in SUBSET S : f[s] = IF s = {} THEN 0 ELSE w[First(s)] + f[s \ {First(s)}]
  BY <1>5, <1>6
<1>8. f = [s \in SUBSET S |-> IF s = {} THEN 0 ELSE w[First(s)] + f[s \ {First(s)}]]
  BY <1>7
<1>. QED  BY <1>8 DEF IsSum

LEMMA SumUnfolds ==
  ASSUME NEW sum, NEW w, NEW S, IsSum(sum, w, S), NEW s \in SUBSET S
  PROVE  sum[s] = IF s = {} THEN 0 ELSE w[First(s)] + sum[s \ {First(s)}]
BY DEF IsSum

\* It is the same for two sets of which s is a subset, if the weights agree.
LEMMA SumAgrees ==
  ASSUME NEW S, IsFiniteSet(S), NEW T, IsFiniteSet(T), NEW w, NEW v, NEW f, NEW g,
         IsSum(f, w, S), IsSum(g, v, T), NEW s \in SUBSET (S \cap T), \A x \in s : w[x] = v[x]
  PROVE  f[s] = g[s]
<1>. DEFINE N == {n \in Nat : \A r \in SUBSET s : Cardinality(r) = n => f[r] = g[r]}
<1>0. \A r \in SUBSET s : r \in SUBSET S /\ r \in SUBSET T  OBVIOUS
<1>1. 0 \in N
  <2>1. ASSUME NEW r \in SUBSET s, Cardinality(r) = 0 PROVE f[r] = g[r]
    <3>1. r = {}  BY <2>1, <1>0, Smaller
    <3>. QED  BY <1>0, <3>1, SumUnfolds
  <2>. QED  BY <2>1
<1>2. ASSUME NEW n \in Nat, n \in N
      PROVE  n + 1 \in N
  <2>1. ASSUME NEW r \in SUBSET s, Cardinality(r) = n + 1 PROVE f[r] = g[r]
    <3>. DEFINE x == First(r)
    <3>1. r # {}  BY <1>0, <2>1, Smaller
    <3>2. x \in r  BY <3>1, FirstIn
    <3>3. r \ {x} \in SUBSET s /\ Cardinality(r \ {x}) = n  BY <1>0, <2>1, <3>2, Smaller
    <3>4. f[r \ {x}] = g[r \ {x}] /\ w[x] = v[x]  BY <1>2, <3>2, <3>3
    <3>a. r \in SUBSET S /\ r \in SUBSET T  BY <1>0
    <3>5. f[r] = w[x] + f[r \ {x}]  BY <3>a, <3>1, SumUnfolds
    <3>6. g[r] = v[x] + g[r \ {x}]  BY <3>a, <3>1, SumUnfolds
    <3>. QED  BY <3>4, <3>5, <3>6
  <2>. QED  BY <2>1
<1>3. Nat \subseteq N
  <2>. HIDE DEF N
  <2>. QED  BY <1>1, <1>2, NatSetInduction
<1>4. Cardinality(s) \in Nat  BY <1>0, Smaller
<1>. QED  BY <1>3, <1>4

LEMMA SumIsNat ==
  ASSUME NEW S, IsFiniteSet(S), NEW w \in [S -> Nat], NEW f, IsSum(f, w, S), NEW s \in SUBSET S
  PROVE  f[s] \in Nat
<1>1. PICK g \in [SUBSET S -> Nat] : IsSum(g, w, S)  BY SumExists
<1>2. f[s] = g[s]  BY <1>1, SumAgrees
<1>. QED  BY <1>1, <1>2

\* Any element can be taken first.
LEMMA SumRemoves ==
  ASSUME NEW S, IsFiniteSet(S), NEW w \in [S -> Nat], NEW f, IsSum(f, w, S),
         NEW s \in SUBSET S, NEW x \in s
  PROVE  f[s] = w[x] + f[s \ {x}]
<1>. DEFINE N == {n \in Nat : \A r \in SUBSET S : Cardinality(r) = n =>
                               \A y \in r : f[r] = w[y] + f[r \ {y}]}
<1>1. 0 \in N
  <2>1. \A r \in SUBSET S : Cardinality(r) = 0 => r = {}  BY Smaller
  <2>. QED  BY <2>1
<1>2. ASSUME NEW n \in Nat, n \in N
      PROVE  n + 1 \in N
  <2>1. ASSUME NEW r \in SUBSET S, Cardinality(r) = n + 1, NEW y \in r
        PROVE  f[r] = w[y] + f[r \ {y}]
    <3>. DEFINE c == First(r)
    <3>1. c \in r  BY FirstIn
    <3>2. f[r] = w[c] + f[r \ {c}]  BY SumUnfolds
    <3>3. CASE y = c  BY <3>2, <3>3
    <3>4. CASE y # c
      <4>. DEFINE both == (r \ {c}) \ {y}
      <4>1. r \ {c} \in SUBSET S /\ Cardinality(r \ {c}) = n /\ y \in r \ {c}
        BY <2>1, <3>1, <3>4, Smaller
      <4>2. r \ {y} \in SUBSET S /\ Cardinality(r \ {y}) = n /\ c \in r \ {y}
        BY <2>1, <3>1, <3>4, Smaller
      <4>3. f[r \ {c}] = w[y] + f[both]  BY <1>2, <4>1
      <4>4. (r \ {y}) \ {c} = both  OBVIOUS
      <4>5. f[r \ {y}] = w[c] + f[both]  BY <1>2, <4>2, <4>4
      <4>6. both \in SUBSET S /\ c \in S /\ y \in S  BY <3>1
      <4>7. f[both] \in Nat  BY <4>6, SumIsNat
      <4>8. w[c] \in Nat /\ w[y] \in Nat  BY <4>6
      <4>. HIDE DEF both, c
      <4>. QED  BY <3>2, <4>3, <4>5, <4>7, <4>8
    <3>. QED  BY <3>3, <3>4
  <2>. QED  BY <2>1
<1>3. Nat \subseteq N
  <2>. HIDE DEF N
  <2>. QED  BY <1>1, <1>2, NatSetInduction
<1>4. Cardinality(s) \in Nat  BY Smaller
<1>. QED  BY <1>3, <1>4

\* It grows with the set and with the weights.
LEMMA SumMonotone ==
  ASSUME NEW S, IsFiniteSet(S), NEW w \in [S -> Nat], NEW v \in [S -> Nat], NEW f, NEW g,
         IsSum(f, w, S), IsSum(g, v, S), NEW s \in SUBSET S, NEW t \in SUBSET S,
         s \subseteq t, \A x \in s : w[x] <= v[x]
  PROVE  f[s] <= g[t]
<1>. DEFINE N == {n \in Nat : \A r \in SUBSET t : Cardinality(r) = n => f[r \cap s] <= g[r]}
<1>0. \A r \in SUBSET t : r \in SUBSET S /\ r \cap s \in SUBSET S  OBVIOUS
<1>1. 0 \in N
  <2>1. ASSUME NEW r \in SUBSET t, Cardinality(r) = 0 PROVE f[r \cap s] <= g[r]
    <3>1. r = {} /\ r \cap s = {}  BY <1>0, <2>1, Smaller
    <3>2. f[r \cap s] = 0 /\ g[r] = 0  BY <1>0, <3>1, SumUnfolds
    <3>. QED  BY <3>2
  <2>. QED  BY <2>1
<1>2. ASSUME NEW n \in Nat, n \in N
      PROVE  n + 1 \in N
  <2>1. ASSUME NEW r \in SUBSET t, Cardinality(r) = n + 1 PROVE f[r \cap s] <= g[r]
    <3>1. r # {}  BY <1>0, <2>1, Smaller
    <3>2. PICK x \in r : TRUE  BY <3>1
    <3>. DEFINE q == r \ {x}
    <3>3. q \in SUBSET t /\ Cardinality(q) = n  BY <1>0, <2>1, Smaller
    <3>4. f[q \cap s] <= g[q]  BY <1>2, <3>3
    <3>5. g[r] = v[x] + g[q]  BY <1>0, SumRemoves
    <3>6. f[q \cap s] \in Nat /\ g[q] \in Nat /\ x \in S  BY <1>0, <3>3, SumIsNat
    <3>7. v[x] \in Nat /\ w[x] \in Nat  BY <3>6
    <3>8. CASE x \in s
      <4>1. (r \cap s) \ {x} = q \cap s  OBVIOUS
      <4>a. r \cap s \in SUBSET S /\ x \in r \cap s  BY <3>8
      <4>b. f[r \cap s] = w[x] + f[(r \cap s) \ {x}]  BY <4>a, SumRemoves
      <4>2. f[r \cap s] = w[x] + f[q \cap s]  BY <4>b, <4>1
      <4>3. w[x] <= v[x]  BY <3>8
      <4>. HIDE DEF q
      <4>. QED  BY <3>4, <3>5, <3>6, <3>7, <4>2, <4>3
    <3>9. CASE x \notin s
      <4>1. r \cap s = q \cap s  BY <3>9
      <4>. HIDE DEF q
      <4>. QED  BY <3>4, <3>5, <3>6, <3>7, <4>1
    <3>. QED  BY <3>8, <3>9
  <2>. QED  BY <2>1
<1>3. Nat \subseteq N
  <2>. HIDE DEF N
  <2>. QED  BY <1>1, <1>2, NatSetInduction
<1>4. Cardinality(t) \in Nat /\ t \cap s = s  BY Smaller
<1>. QED  BY <1>3, <1>4

-----------------------------------------------------------------------------
(* What the rows of files are charged. *)

IsBytes(sum, S) ==
  sum = [s \in SUBSET S |-> IF s = {} THEN 0
                            ELSE LET x == CHOOSE y \in s : TRUE IN x.size + sum[s \ {x}]]

IsBill(sum, S) ==
  sum = [s \in SUBSET S |-> IF s = {} THEN 0
                            ELSE LET x == CHOOSE y \in s : TRUE IN (x.size * x.rate) + sum[s \ {x}]]

Charged(S) == IsFiniteSet(S) /\ \A f \in S : f.size \in Nat /\ f.rate \in Nat

Sizes(S) == [f \in S |-> f.size]

Bills(S) == [f \in S |-> f.size * f.rate]

LEMMA BytesSum ==
  ASSUME NEW S, Charged(S)
  PROVE  \E sum : IsSum(sum, Sizes(S), S) /\ Q!Bytes(S) = sum[S]
<1>1. Q!Bytes(S) = (CHOOSE sum : IsBytes(sum, S))[S]
  BY DEF Q!Bytes, Q!MapThenSumSet, Q!MapThenFoldSet, IsBytes
<1>2. ASSUME NEW sum
      PROVE  IsSum(sum, Sizes(S), S) <=> IsBytes(sum, S)
  <2>1. \A s \in SUBSET S :
          (IF s = {} THEN 0 ELSE Sizes(S)[First(s)] + sum[s \ {First(s)}])
           = IF s = {} THEN 0 ELSE LET x == CHOOSE y \in s : TRUE IN x.size + sum[s \ {x}]
    <3>1. ASSUME NEW s \in SUBSET S, s # {}
          PROVE  Sizes(S)[First(s)] = First(s).size
      <4>1. First(s) \in S  BY <3>1, FirstIn
      <4>. QED  BY <4>1 DEF Sizes
    <3>. QED  BY <3>1 DEF First
  <2>2. [s \in SUBSET S |-> IF s = {} THEN 0 ELSE Sizes(S)[First(s)] + sum[s \ {First(s)}]]
         = [s \in SUBSET S |-> IF s = {} THEN 0
                               ELSE LET x == CHOOSE y \in s : TRUE IN x.size + sum[s \ {x}]]
    BY <2>1
  <2>. QED  BY <2>2, Zenon DEF IsSum, IsBytes
<1>3. Sizes(S) \in [S -> Nat] /\ IsFiniteSet(S)  BY DEF Charged, Sizes
<1>4. \E sum : IsBytes(sum, S)  BY <1>2, <1>3, SumExists
<1>5. IsBytes(CHOOSE sum : IsBytes(sum, S), S)  BY <1>4
<1>. QED  BY <1>1, <1>2, <1>5

LEMMA BillSum ==
  ASSUME NEW S, Charged(S)
  PROVE  \E sum : IsSum(sum, Bills(S), S) /\ Q!Bill(S) = sum[S]
<1>1. Q!Bill(S) = (CHOOSE sum : IsBill(sum, S))[S]
  BY DEF Q!Bill, Q!MapThenSumSet, Q!MapThenFoldSet, IsBill
<1>2. ASSUME NEW sum
      PROVE  IsSum(sum, Bills(S), S) <=> IsBill(sum, S)
  <2>1. \A s \in SUBSET S :
          (IF s = {} THEN 0 ELSE Bills(S)[First(s)] + sum[s \ {First(s)}])
           = IF s = {} THEN 0 ELSE LET x == CHOOSE y \in s : TRUE IN (x.size * x.rate) + sum[s \ {x}]
    <3>1. ASSUME NEW s \in SUBSET S, s # {}
          PROVE  Bills(S)[First(s)] = First(s).size * First(s).rate
      <4>1. First(s) \in S  BY <3>1, FirstIn
      <4>. QED  BY <4>1 DEF Bills
    <3>. QED  BY <3>1 DEF First
  <2>2. [s \in SUBSET S |-> IF s = {} THEN 0 ELSE Bills(S)[First(s)] + sum[s \ {First(s)}]]
         = [s \in SUBSET S |-> IF s = {} THEN 0
                               ELSE LET x == CHOOSE y \in s : TRUE
                                    IN (x.size * x.rate) + sum[s \ {x}]]
    BY <2>1
  <2>. QED  BY <2>2, Zenon DEF IsSum, IsBill
<1>3. Bills(S) \in [S -> Nat] /\ IsFiniteSet(S)
  <2>1. \A f \in S : f.size * f.rate \in Nat  BY DEF Charged
  <2>. QED  BY <2>1 DEF Charged, Bills
<1>4. \E sum : IsBill(sum, S)  BY <1>2, <1>3, SumExists
<1>5. IsBill(CHOOSE sum : IsBill(sum, S), S)  BY <1>4
<1>. QED  BY <1>1, <1>2, <1>5

LEMMA BytesGrow ==
  ASSUME NEW S, Charged(S), NEW T \in SUBSET S
  PROVE  Q!Bytes(T) \in Nat /\ Q!Bytes(S) \in Nat /\ Q!Bytes(T) <= Q!Bytes(S)
<1>1. Charged(T)  BY FS_Subset DEF Charged
<1>2. PICK f : IsSum(f, Sizes(S), S) /\ Q!Bytes(S) = f[S]  BY BytesSum
<1>3. PICK g : IsSum(g, Sizes(T), T) /\ Q!Bytes(T) = g[T]  BY <1>1, BytesSum
<1>4. Sizes(S) \in [S -> Nat] /\ IsFiniteSet(S) /\ IsFiniteSet(T)  BY <1>1 DEF Sizes, Charged
<1>5. f[T] = g[T]
  <2>1. \A x \in T : Sizes(S)[x] = Sizes(T)[x]  BY DEF Sizes
  <2>2. T \in SUBSET (S \cap T)  OBVIOUS
  <2>. QED  BY <1>2, <1>3, <1>4, <2>1, <2>2, SumAgrees
<1>6. f[T] \in Nat /\ f[S] \in Nat  BY <1>2, <1>4, SumIsNat
<1>7. f[T] <= f[S]
  <2>1. \A x \in T : Sizes(S)[x] <= Sizes(S)[x]  BY <1>4
  <2>2. S \in SUBSET S  OBVIOUS
  <2>. QED  BY <1>2, <1>4, <2>1, <2>2, SumMonotone
<1>. QED  BY <1>2, <1>3, <1>5, <1>6, <1>7

LEMMA BytesAdd ==
  ASSUME NEW S, Charged(S), NEW x \in S
  PROVE  Q!Bytes(S) = Q!Bytes(S \ {x}) + x.size
<1>. DEFINE T == S \ {x}
<1>1. Charged(T)  BY FS_Subset DEF Charged
<1>2. PICK f : IsSum(f, Sizes(S), S) /\ Q!Bytes(S) = f[S]  BY BytesSum
<1>3. PICK g : IsSum(g, Sizes(T), T) /\ Q!Bytes(T) = g[T]  BY <1>1, BytesSum
<1>4. Sizes(S) \in [S -> Nat] /\ IsFiniteSet(S) /\ IsFiniteSet(T)  BY <1>1 DEF Sizes, Charged
<1>5. f[T] = g[T]
  <2>1. \A y \in T : Sizes(S)[y] = Sizes(T)[y]  BY DEF Sizes
  <2>2. T \in SUBSET (S \cap T)  OBVIOUS
  <2>. HIDE DEF T
  <2>. QED  BY <1>2, <1>3, <1>4, <2>1, <2>2, SumAgrees
<1>6. f[S] = Sizes(S)[x] + f[T]
  <2>1. S \in SUBSET S  OBVIOUS
  <2>. QED  BY <1>2, <1>4, <2>1, SumRemoves
<1>7. Sizes(S)[x] = x.size /\ x.size \in Nat  BY DEF Sizes, Charged
<1>8. f[T] \in Nat  BY <1>2, <1>4, SumIsNat
<1>. QED  BY <1>2, <1>3, <1>5, <1>6, <1>7, <1>8

LEMMA BytesBilled ==
  ASSUME NEW S, Charged(S), NEW T \in SUBSET S, \A x \in S : x.rate >= 1
  PROVE  Q!Bytes(T) <= Q!Bill(S) /\ Q!Bill(S) \in Nat
<1>1. Charged(T)  BY FS_Subset DEF Charged
<1>2. PICK f : IsSum(f, Sizes(S), S) /\ Q!Bytes(S) = f[S]  BY BytesSum
<1>3. PICK g : IsSum(g, Bills(S), S) /\ Q!Bill(S) = g[S]  BY BillSum
<1>4. Sizes(S) \in [S -> Nat] /\ IsFiniteSet(S)  BY DEF Sizes, Charged
<1>5. Bills(S) \in [S -> Nat]
  <2>1. \A y \in S : y.size * y.rate \in Nat  BY DEF Charged
  <2>. QED  BY <2>1 DEF Bills
<1>6. \A x \in S : Sizes(S)[x] <= Bills(S)[x]
  <2>1. ASSUME NEW m \in Nat, NEW n \in Nat, n >= 1 PROVE m <= m * n
    <3>1. m * n = m * (n - 1) + m  BY <2>1
    <3>2. n - 1 \in Nat  BY <2>1
    <3>3. m * (n - 1) \in Nat  BY <3>2
    <3>. QED  BY <3>1, <3>3
  <2>. QED  BY <2>1 DEF Sizes, Bills, Charged
<1>7. f[S] <= g[S]
  <2>1. S \in SUBSET S  OBVIOUS
  <2>. QED  BY <1>2, <1>3, <1>4, <1>5, <1>6, <2>1, SumMonotone
<1>8. f[S] \in Nat /\ g[S] \in Nat  BY <1>2, <1>3, <1>4, <1>5, SumIsNat
<1>9. Q!Bytes(T) <= Q!Bytes(S) /\ Q!Bytes(T) \in Nat  BY BytesGrow
<1>. QED  BY <1>2, <1>3, <1>7, <1>8, <1>9

LEMMA NoBytesCharged == Q!Bytes({}) = 0
<1>1. Charged({})  BY FS_EmptySet DEF Charged
<1>2. PICK f : IsSum(f, Sizes({}), {}) /\ Q!Bytes({}) = f[{}]  BY <1>1, BytesSum
<1>. QED  BY <1>2, SumUnfolds

\* The rows of a family of file lists.
RowsAt(fs) == {LiveRow(p[1], p[2]) : p \in {p \in Task \X (1 .. MaxFiles) : p[2] <= Len(fs[p[1]])}}

LEMMA TotalIsNat ==
  ASSUME TypeOK
  PROVE  world.plan \in Nat /\ \A a \in Account : Total(a) \in Nat /\ DriveTotal(a) \in Nat
<1>1. world \in World  BY WorldsTyped DEF TypeOK
<1>2. /\ \A a \in Account : world.level[a] \in Nat /\ world.perk[a] \in Nat /\ world.valve[a] \in Nat
      /\ world.plan \in Nat /\ Owner \in Account
  BY <1>1 DEF World, Account
<1>3. \A n : Q!PerkQuota(n) \in Nat
  <2>1. DOMAIN Milestones.perks = 1 .. 3 /\ \A i \in 1 .. 3 : Milestones.perks[i] \in Nat
    BY DEF Milestones
  <2>. QED  BY <2>1 DEF Q!PerkQuota
<1>4. \A n \in Nat : Q!LevelingQuota(n) \in Nat
  <2>1. /\ Milestones.level1 = 1 /\ Milestones.level10 = 2
        /\ Milestones.level60 = 5 /\ Milestones.level120 = 10
    BY DEF Milestones
  <2>2. \A m \in Nat : (m * 10) \div 100 \in Nat  OBVIOUS
  <2>. QED  BY <2>1, <2>2 DEF Q!LevelingQuota
<1>5. \A l, n, v \in Nat : Q!AccountQuota(l, n, v) \in Nat  BY <1>3, <1>4 DEF Q!AccountQuota
<1>. QED  BY <1>2, <1>5 DEF Total, DriveTotal

LEMMA RowsCharged ==
  ASSUME TypeOK, NEW fs
  PROVE  Charged(RowsAt(fs))
<1>. DEFINE P == {p \in Task \X (1 .. MaxFiles) : p[2] <= Len(fs[p[1]])}
            F == [p \in P |-> LiveRow(p[1], p[2])]
<1>1. IsFiniteSet(Task \X (1 .. MaxFiles))
  <2>1. IsFiniteSet(1 .. MaxFiles)  BY Bounds, FS_Interval
  <2>. QED  BY <2>1, TaskFinite, FS_Product
<1>2. IsFiniteSet(P)  BY <1>1, FS_Subset
<1>3. IsFiniteSet({F[p] : p \in P})
  <2>1. F \in Surjection(P, {F[p] : p \in P})
    <3>. HIDE DEF P
    <3>. QED  BY DEF Surjection
  <2>. HIDE DEF F, P
  <2>. QED  BY <1>2, <2>1, FS_Surjection
<1>4. RowsAt(fs) = {F[p] : p \in P}  BY DEF RowsAt
<1>5. \A t \in Task : world.size[t] \in Nat /\ world.rate[t] \in Nat
  BY WorldsTyped DEF TypeOK, World
<1>6. \A t \in Task : \A i : LiveRow(t, i).size \in Nat /\ LiveRow(t, i).rate \in Nat
  BY <1>5 DEF LiveRow
<1>7. \A f \in RowsAt(fs) : f.size \in Nat /\ f.rate \in Nat  BY <1>6 DEF RowsAt
<1>. QED  BY <1>3, <1>4, <1>7 DEF Charged

LEMMA RowsIn ==
  ASSUME NEW fs, NEW f
  PROVE  f \in RowsAt(fs) <=>
           \E t \in Task : \E i \in 1 .. MaxFiles : i <= Len(fs[t]) /\ f = LiveRow(t, i)
<1>1. ASSUME f \in RowsAt(fs)
      PROVE  \E t \in Task : \E i \in 1 .. MaxFiles : i <= Len(fs[t]) /\ f = LiveRow(t, i)
  <2>1. PICK p \in Task \X (1 .. MaxFiles) : p[2] <= Len(fs[p[1]]) /\ f = LiveRow(p[1], p[2])
    BY <1>1 DEF RowsAt
  <2>2. p[1] \in Task /\ p[2] \in 1 .. MaxFiles  BY <2>1
  <2>. QED  BY <2>1, <2>2
<1>2. ASSUME NEW t \in Task, NEW i \in 1 .. MaxFiles, i <= Len(fs[t]), f = LiveRow(t, i)
      PROVE  f \in RowsAt(fs)
  <2>1. /\ <<t, i>> \in Task \X (1 .. MaxFiles)
        /\ <<t, i>>[1] = t /\ <<t, i>>[2] = i
    OBVIOUS
  <2>. QED  BY <1>2, <2>1 DEF RowsAt
<1>. QED  BY <1>1, <1>2

LEMMA RowsNow == LiveRows = RowsAt(files)
BY DEF LiveRows, RowsAt

LEMMA RowsNext == world' = world => LiveRows' = RowsAt(files')
BY DEF LiveRows, RowsAt, LiveRow

\* A step adds the row of the file that it makes.
LEMMA RowsStep ==
  ASSUME Typed, Typed', \A t \in Task : Recorded(t), Next
  PROVE  \/ /\ LiveRows' = LiveRows
            /\ \A u \in Task : Len(files'[u]) = Len(files[u])
         \/ \E u \in Task : \E r \in Req :
              /\ MadeFile(r, u) /\ \A t \in Task \ {u} : Same(t)
              /\ LiveRow(u, Len(files[u]) + 1) \notin LiveRows
              /\ LiveRows' = LiveRows \cup {LiveRow(u, Len(files[u]) + 1)}
<1>1. world' = world  BY WorldStays
<1>2. LiveRows = RowsAt(files) /\ LiveRows' = RowsAt(files')  BY <1>1, RowsNow, RowsNext
<1>3. ASSUME \A u \in Task : Len(files'[u]) = Len(files[u])
      PROVE  LiveRows' = LiveRows
  BY <1>2, <1>3 DEF RowsAt
<1>4. CASE Restart
  BY <1>3, <1>4, RestartEffect DEF Restarted
<1>5. ASSUME NEW u \in Task, NEW r \in Req, MadeFile(r, u), \A t \in Task \ {u} : Same(t)
      PROVE  /\ LiveRow(u, Len(files[u]) + 1) \notin LiveRows
             /\ LiveRows' = LiveRows \cup {LiveRow(u, Len(files[u]) + 1)}
  <2>1. \A t \in Task \ {u} : Len(files'[t]) = Len(files[t])  BY <1>5 DEF Same
  <2>2. Len(files'[u]) = Len(files[u]) + 1  BY <1>5 DEF MadeFile
  <2>3. \A t \in Task : Len(files[t]) \in Nat /\ Len(files'[t]) \in Nat /\ Len(files'[t]) <= MaxFiles
    BY DEF Typed, TypeOK
  <2>4. Len(files[u]) + 1 \in 1 .. MaxFiles  BY <2>2, <2>3, Bounds
  <2>5. \A t \in Task : \A i \in 1 .. MaxFiles :
          i <= Len(files'[t]) <=> (i <= Len(files[t]) \/ (t = u /\ i = Len(files[u]) + 1))
    BY <2>1, <2>2, <2>3, Bounds
  <2>6. \A t, v \in Task : \A i, j : LiveRow(t, i) = LiveRow(v, j) => t = v /\ i = j
    <3>1. \A t \in Task : \A i : LiveRow(t, i).id = <<t, i>>  BY DEF LiveRow
    <3>. QED  BY <3>1
  <2>7. \A f : f \in LiveRows <=>
               \E t \in Task : \E i \in 1 .. MaxFiles : i <= Len(files[t]) /\ f = LiveRow(t, i)
    BY <1>2, RowsIn
  <2>8. \A f : f \in LiveRows' <=>
               \E t \in Task : \E i \in 1 .. MaxFiles : i <= Len(files'[t]) /\ f = LiveRow(t, i)
    BY <1>2, RowsIn
  <2>9. LiveRow(u, Len(files[u]) + 1) \notin LiveRows
    <3>1. ~(Len(files[u]) + 1 <= Len(files[u]))  BY <2>3
    <3>. QED  BY <2>6, <2>7, <3>1
  <2>10. LiveRows' = LiveRows \cup {LiveRow(u, Len(files[u]) + 1)}
    BY <2>4, <2>5, <2>7, <2>8
  <2>. QED  BY <2>9, <2>10
<1>6. ASSUME NEW u \in Task, StepOf(u), ~\E r \in Req : MadeFile(r, u)
      PROVE  \A t \in Task : Len(files'[t]) = Len(files[t])
  <2>1. \A t \in Task \ {u} : Len(files'[t]) = Len(files[t])  BY <1>6, Frame DEF Same
  <2>2. Does(u)  BY <1>6, StepDoes
  <2>3. Len(files'[u]) = Len(files[u])
    BY <1>6, <2>2 DEF Does, SendDoes, CompletionDoes, Wrote, Broke, Overran, Dropped, Acknowledged,
       BeganChunk, Loaded, Received, Refused, Accepted, Inspected, Stored, Published, Marked,
       Abandoned, MarkFailed, Inserted, Cancelled, Cleaned, Processed, ProcessFailed, Removed, SameData
  <2>. QED  BY <2>1, <2>3
<1>. QED  BY <1>3, <1>4, <1>5, <1>6, OwnSteps, Frame

\* What is charged never shrinks, so what is admitted after a step was before.
LEMMA ChargesGrow ==
  ASSUME Typed, Typed', \A t \in Task : Recorded(t), Next
  PROVE  /\ LiveRows \subseteq LiveRows' /\ Charged(LiveRows) /\ Charged(LiveRows')
         /\ \A t \in Task : AdmittedAtEnd(t)' => AdmittedAtEnd(t)
<1>1. world' = world  BY WorldStays
<1>2. LiveRows \subseteq LiveRows'  BY RowsStep
<1>3. Charged(LiveRows) /\ Charged(LiveRows')
  BY <1>1, RowsNow, RowsNext, RowsCharged DEF Typed
<1>4. ASSUME NEW t \in Task, AdmittedAtEnd(t)'
      PROVE  AdmittedAtEnd(t)
  <2>. DEFINE pool  == IF world.space[t] = "drive" THEN Q!DrivePool(LiveRows) ELSE Q!OrgPool(LiveRows)
              later == IF world.space[t] = "drive" THEN Q!DrivePool(LiveRows') ELSE Q!OrgPool(LiveRows')
              total == IF world.space[t] = "drive" THEN DriveTotal(world.by[t]) ELSE world.plan
  <2>1. CASE Personal(t)  BY <2>1 DEF AdmittedAtEnd
  <2>2. CASE ~Personal(t)
    <3>1. pool \in SUBSET later /\ later \in SUBSET LiveRows'
      BY <1>2 DEF Q!DrivePool, Q!OrgPool
    <3>2. Charged(later)  BY <1>3, <3>1, FS_Subset DEF Charged
    <3>3. Q!Bytes(pool) \in Nat /\ Q!Bytes(later) \in Nat /\ Q!Bytes(pool) <= Q!Bytes(later)
      <4>. HIDE DEF pool, later
      <4>. QED  BY <3>1, <3>2, BytesGrow
    <3>4. WorkspaceAdmits(t) <=> Q!Bytes(pool) + world.size[t] <= total
      BY DEF WorkspaceAdmits, WorkspaceTotal, Q!CheckWorkspaceUploadQuota, Q!ChargedWorkspaceBytes
    <3>5. WorkspaceAdmits(t)' <=> Q!Bytes(later) + world.size[t] <= total
      BY <1>1 DEF WorkspaceAdmits, WorkspaceTotal, DriveTotal, Q!CheckWorkspaceUploadQuota,
         Q!ChargedWorkspaceBytes
    <3>6. WorkspaceAdmits(t)'  BY <1>1, <1>4, <2>2 DEF AdmittedAtEnd, Personal
    <3>7. total \in Nat /\ world.size[t] \in Nat
      BY TotalIsNat, WorldsTyped DEF Typed, TypeOK, World
    <3>8. WorkspaceAdmits(t)
      <4>. HIDE DEF pool, later, total
      <4>. QED  BY <3>3, <3>4, <3>5, <3>6, <3>7
    <3>. QED  BY <3>8 DEF AdmittedAtEnd
  <2>. QED  BY <2>1, <2>2
<1>. QED  BY <1>2, <1>3, <1>4

-----------------------------------------------------------------------------
(* A completion that has been admitted still is when the file is recorded. *)

LEMMA SameAdmission ==
  ASSUME world' = world, LiveRows' = LiveRows, NEW t
  PROVE  AdmittedAtEnd(t)' = AdmittedAtEnd(t)
BY DEF AdmittedAtEnd, WorkspaceAdmits, Personal, WorkspaceTotal, DriveTotal, Q!CheckWorkspaceUploadQuota,
   Q!ChargedWorkspaceBytes

LEMMA InitStaysAdmitted == Init => \A t \in Task : StaysAdmitted(t)
BY DEF Init, StaysAdmitted, Active, Completing, IdleReq

LEMMA StaysAdmittedStep ==
  ASSUME Typed, Typed', \A t \in Task : Recorded(t) /\ StaysAdmitted(t), Next, NEW t \in Task
  PROVE  StaysAdmitted(t)'
<1>1. world' = world  BY WorldStays
<1>. SUFFICES ASSUME ~Is("overlap") PROVE StaysAdmitted(t)'
  BY <1>1, SameModes DEF StaysAdmitted
<1>2. CASE LiveRows' = LiveRows
  <2>1. AdmittedAtEnd(t)' = AdmittedAtEnd(t)  BY <1>1, <1>2, SameAdmission
  <2>2. CASE Restart  BY <2>2, RestartEffect DEF Restarted, StaysAdmitted
  <2>3. ASSUME NEW u \in Task, StepOf(u), t # u
        PROVE  StaysAdmitted(t)'
    BY <1>1, <2>1, <2>3, Frame DEF StaysAdmitted, Same, SameRequests
  <2>4. CASE StepOf(t)
    <3>1. Does(t)  BY <2>4, StepDoes
    <3>2. ASSUME NEW r \in Req, SendDoes(r, t)
          PROVE  StaysAdmitted(t)'
      BY <2>1, <3>2 DEF SendDoes, Wrote, Broke, Overran, Dropped, Acknowledged, BeganChunk, SendGoesOn,
         SendEnds, SendBegins, SameActive, StaysAdmitted
    <3>3. ASSUME NEW r \in Req, CompletionDoes(r, t)
          PROVE  StaysAdmitted(t)'
      <4>1. CASE Loaded(r, t)  BY <2>1, <4>1 DEF Loaded, Starts, StaysAdmitted
      <4>2. CASE Received(r, t)
        <5>1. AdmittedAtEnd(t)  BY <4>2 DEF Received, Admitted, AdmittedAtEnd
        <5>. QED  BY <2>1, <4>2, <5>1 DEF Received, Starts, StaysAdmitted
      <4>3. CASE Refused(r, t) \/ Marked(r, t) \/ Abandoned(r, t) \/ MarkFailed(r, t)
        BY <2>1, <4>3 DEF Refused, Marked, Abandoned, MarkFailed, Ends, StaysAdmitted
      <4>4. CASE Accepted(r, t) \/ Inspected(r, t) \/ Stored(r, t) \/ MadeFile(r, t) \/ Published(r, t)
        BY <2>1, <4>4 DEF Accepted, Inspected, Stored, MadeFile, Published, GoesOn, StaysAdmitted
      <4>. QED  BY <3>3, <4>1, <4>2, <4>3, <4>4 DEF CompletionDoes
    <3>4. ASSUME \/ Inserted(t) \/ Cancelled(t) \/ Cleaned(t)
                 \/ \E e \in EventsOf(t) : Processed(t, e) \/ ProcessFailed(t, e) \/ Removed(t, e)
          PROVE  StaysAdmitted(t)'
      BY <2>1, <3>4 DEF Inserted, Cancelled, Cleaned, Processed, ProcessFailed, Removed, SameServing,
         StaysAdmitted
    <3>. QED  BY <3>1, <3>2, <3>3, <3>4 DEF Does
  <2>. QED  BY <2>2, <2>3, <2>4, OwnSteps
<1>3. ASSUME NEW u \in Task, NEW r \in Req, MadeFile(r, u), \A v \in Task \ {u} : Same(v)
      PROVE  StaysAdmitted(t)'
  <2>1. CASE t = u
    BY <1>3, <2>1 DEF MadeFile, GoesOn, StaysAdmitted
  <2>2. CASE t # u
    <3>1. r \in Active(u)  BY <1>3 DEF MadeFile, GoesOn
    <3>2. Active(t) = {}  BY <2>2, <3>1 DEF Typed, OneCompletion, Active
    <3>3. Active(t)' = {}  BY <1>3, <2>2, <3>2 DEF Same, SameRequests
    <3>. QED  BY <3>3 DEF StaysAdmitted
  <2>. QED  BY <2>1, <2>2
<1>. QED  BY <1>2, <1>3, RowsStep

-----------------------------------------------------------------------------
(* Quota.  In turn, the file that is made has had room since its upload began. *)

LEMMA SameTurn ==
  ASSUME world' = world
  PROVE  /\ InTurn' = InTurn /\ Is("overlap")' = Is("overlap") /\ Is("serial")' = Is("serial")
         /\ Is("cancel")' = Is("cancel") /\ Is("again")' = Is("again")
         /\ \A a : DriveTotal(a)' = DriveTotal(a)
BY DEF InTurn, Is, DriveTotal

LEMMA TurnTyped ==
  ASSUME InTurn, ~Is("overlap")
  PROVE  /\ Is("serial") /\ ~Is("cancel") /\ ~Is("again") /\ ~Is("faults") /\ ~Is("crash")
         /\ \A t \in Task : Once(t) /\ world.rate[t] >= 1
BY DEF InTurn, Is, Once

\* No other upload is open when one begins.
LEMMA NoneUnderway ==
  ASSUME MayBegin, Is("serial"), NEW t \in Task
  PROVE  ~Underway(t)
BY DEF MayBegin, Open, Underway, Alone, Active

\* What is admitted when it begins has room.
LEMMA BeginsWithRoom ==
  ASSUME TypeOK, NEW t \in Task, world.by[t] = Owner, Personal(t), \A u \in Task : world.rate[u] >= 1,
         Admitted(t, 1) \/ Admitted(t, world.rate[t])
  PROVE  Q!ChargedWorkspaceBytes(LiveRows, "drive") + world.size[t] <= DriveTotal(Owner)
<1>. DEFINE S == Q!AccountPool(LiveRows, Owner)
            T == Q!DrivePool(LiveRows)
            bill == world.size[t] * world.rate[t]
<1>1. Charged(LiveRows)  BY RowsNow, RowsCharged
<1>2. \A f \in LiveRows : f.rate >= 1
  <2>1. \A u \in Task : \A i : LiveRow(u, i).rate = world.rate[u]  BY DEF LiveRow
  <2>. QED  BY <2>1 DEF LiveRows
<1>3. S \in SUBSET LiveRows /\ T \in SUBSET S  BY DEF Q!AccountPool, Q!DrivePool
<1>4. Charged(S)  BY <1>1, <1>3, FS_Subset DEF Charged
<1>5. Q!Bytes(T) <= Q!Bill(S) /\ Q!Bill(S) \in Nat
  <2>. HIDE DEF S, T
  <2>. QED  BY <1>2, <1>3, <1>4, BytesBilled
<1>6. Q!Bytes(T) \in Nat
  <2>. HIDE DEF S, T
  <2>. QED  BY <1>3, <1>4, BytesGrow
<1>7. world.size[t] \in Nat /\ world.rate[t] \in Nat /\ world.rate[t] >= 1
  BY WorldsTyped DEF TypeOK, World
<1>8. bill \in Nat /\ world.size[t] <= bill
  <2>1. ASSUME NEW m \in Nat, NEW n \in Nat, n >= 1 PROVE m <= m * n /\ m * n \in Nat
    <3>1. m * n = m * (n - 1) + m  BY <2>1
    <3>2. n - 1 \in Nat  BY <2>1
    <3>3. m * (n - 1) \in Nat  BY <3>2
    <3>. QED  BY <3>1, <3>3
  <2>. QED  BY <1>7, <2>1
<1>9. Q!Bill(S) + world.size[t] * 1 <= DriveTotal(Owner) \/ Q!Bill(S) + bill <= DriveTotal(Owner)
  <2>1. Total(Owner) = DriveTotal(Owner)  BY DEF Total, DriveTotal
  <2>. QED  BY <2>1 DEF Admitted, Q!CheckUploadQuota
<1>10. Q!ChargedWorkspaceBytes(LiveRows, "drive") = Q!Bytes(T)  BY DEF Q!ChargedWorkspaceBytes
<1>11. DriveTotal(Owner) \in Nat  BY TotalIsNat DEF Account
<1>. HIDE DEF S, T, bill
<1>. QED  BY <1>5, <1>6, <1>7, <1>8, <1>9, <1>10, <1>11

\* The client is told of the file, or about to be.
Told(t) == client[t].done \/ \E q \in Active(t) : req[q].pc = "mark"

\* An upload that gets under way begins, and then no other one is.
LEMMA UnderwayStep ==
  ASSUME Typed, Typed', \A t \in Task : Recorded(t) /\ Claimed(t), Next, ~Is("overlap"), InTurn, HasRoom,
         NEW t \in Task
  PROVE  /\ task'[t].status # "failed"
         /\ task'[t].status = "completed" => Told(t)'
         /\ Underway(t)' =>
              \/ Underway(t)
              \/ /\ \A v \in Task : ~Underway(v)
                 /\ \A v \in Task \ {t} : ~Underway(v)'
                 /\ Admitted(t, 1) \/ Admitted(t, world.rate[t])
<1>1. world' = world  BY WorldStays
<1>2. /\ Is("serial") /\ ~Is("cancel") /\ ~Is("again") /\ ~Is("faults") /\ ~Is("crash")
  BY TurnTyped
<1>3. task[t].status # "failed" /\ (task[t].status = "completed" => Told(t))
  BY DEF HasRoom, Told
<1>4. CASE Restart  BY <1>2, <1>4 DEF Restart
<1>5. ASSUME NEW u \in Task, StepOf(u), t # u
      PROVE  task'[t] = task[t] /\ (Told(t)' <=> Told(t)) /\ (Underway(t)' <=> Underway(t))
  BY <1>5, Frame DEF Same, SameRequests, Underway, Told
<1>6. ASSUME StepOf(t)
      PROVE  /\ task'[t].status # "failed"
             /\ task'[t].status = "completed" => Told(t)'
             /\ Underway(t)' =>
                  \/ Underway(t)
                  \/ MayBegin /\ (Admitted(t, 1) \/ Admitted(t, world.rate[t]))
  <2>1. Does(t)  BY <1>6, StepDoes
  <2>2. ASSUME NEW r \in Req, SendDoes(r, t)
        PROVE  /\ task'[t].status = task[t].status /\ (Told(t)' <=> Told(t))
               /\ Underway(t)' <=> Underway(t)
    BY <2>2 DEF SendDoes, Wrote, Broke, Overran, Dropped, Acknowledged, BeganChunk, SendGoesOn,
       SendEnds, SendBegins, SameActive, SameRecords, Underway, Told
  <2>3. ASSUME NEW r \in Req, CompletionDoes(r, t)
        PROVE  /\ task'[t].status # "failed"
               /\ task'[t].status = "completed" => Told(t)'
               /\ Underway(t)' =>
                    \/ Underway(t)
                    \/ MayBegin /\ (Admitted(t, 1) \/ Admitted(t, world.rate[t]))
    <3>0. \A q \in Active(t) : r \in Active(t) => q = r
      BY DEF Typed, OneCompletion, Active
    <3>1. CASE Loaded(r, t)
      <4>1. task[t].status \in {"none", "pending", "completed", "failed"}
        BY DEF Typed, TypeOK, TaskRow
      <4>2. task[t].status = "pending"
        BY <1>2, <1>3, <3>1, <4>1 DEF Loaded, Starts, Completes, Told
      <4>. QED  BY <1>3, <3>1, <4>2 DEF Loaded, SameRecords, Underway
    <3>2. CASE Received(r, t)
      <4>1. task[t].status = "none"  BY <3>2 DEF Received, Recorded
      <4>. QED  BY <3>2, <4>1 DEF Received, SameRecords
    <3>3. CASE Refused(r, t) \/ Marked(r, t) \/ Abandoned(r, t) \/ MarkFailed(r, t)
      <4>1. Active(t) # {}
        BY <3>3 DEF Refused, Marked, Abandoned, MarkFailed, Ends
      <4>2. /\ task'[t].status # "failed"
            /\ task'[t].status = "completed" => Told(t)'
        BY <1>2, <1>3, <3>0, <3>3, <4>1 DEF Refused, Marked, Abandoned, MarkFailed, Ends, Told
      <4>. QED  BY <4>1, <4>2 DEF Underway
    <3>4. CASE Accepted(r, t) \/ Inspected(r, t) \/ Stored(r, t) \/ MadeFile(r, t) \/ Published(r, t)
      BY <1>3, <3>0, <3>4 DEF Accepted, Inspected, Stored, MadeFile, Published, GoesOn, SameRecords, Underway, Told
    <3>. QED  BY <2>3, <3>1, <3>2, <3>3, <3>4 DEF CompletionDoes
  <2>4. CASE Inserted(t)  BY <1>3, <2>4 DEF Inserted
  <2>5. CASE \/ Cancelled(t) \/ Cleaned(t)
             \/ \E e \in EventsOf(t) : ProcessFailed(t, e) \/ Removed(t, e)
    BY <1>2, <1>3, <2>5 DEF Cancelled, Cleaned, ProcessFailed, Removed, SameServing, SameRecords,
       Underway, Told
  <2>6. ASSUME NEW e \in EventsOf(t), Processed(t, e)
        PROVE  /\ task'[t].status # "failed"
               /\ task'[t].status = "completed" => Told(t)'
               /\ Underway(t)' => Underway(t)
    <3>1. Once(t)  BY TurnTyped
    <3>2. files[t] # <<>>  BY DEF Recorded
    <3>3. \A q \in Active(t) : req[q].pc = "mark"  BY <3>1 DEF Claimed
    <3>4. CASE InOne(t)
      <4>1. task[t].status = "none"  BY <3>4 DEF Recorded
      <4>. QED  BY <2>6, <3>4, <4>1 DEF Processed, Marks, SameServing, Underway
    <3>5. CASE ~InOne(t)
      <4>1. task[t].status \in {"none", "pending", "completed", "failed"}
        BY DEF Typed, TypeOK, TaskRow
      <4>2. Told(t)  BY <1>3, <3>1, <3>2, <3>3, <4>1 DEF Claimed, Told
      <4>. QED  BY <2>6, <3>5, <4>2 DEF Processed, Marks, SameServing, Underway, Told
    <3>. QED  BY <3>4, <3>5
  <2>. QED  BY <1>3, <2>1, <2>2, <2>3, <2>4, <2>5, <2>6 DEF Does
<1>7. ASSUME StepOf(t), MayBegin
      PROVE  (\A v \in Task : ~Underway(v)) /\ (\A v \in Task \ {t} : ~Underway(v)')
  <2>1. \A v \in Task : ~Underway(v)  BY <1>2, <1>7, NoneUnderway
  <2>2. \A v \in Task \ {t} : Underway(v)' <=> Underway(v)
    BY <1>7, Frame DEF Same, SameRequests, Underway
  <2>. QED  BY <2>1, <2>2
<1>. QED  BY <1>3, <1>4, <1>5, <1>6, <1>7, OwnSteps

LEMMA InitHasRoom == Init => HasRoom
BY DEF Init, HasRoom, Underway, Active, Completing, IdleReq

LEMMA HasRoomStep ==
  ASSUME Typed, Typed', \A t \in Task : Recorded(t) /\ Claimed(t), Next, HasRoom
  PROVE  HasRoom'
<1>1. world' = world  BY WorldStays
<1>. SUFFICES ASSUME ~Is("overlap"), InTurn
              PROVE  HasRoom'
  BY <1>1, SameTurn DEF HasRoom
<1>2. ASSUME NEW t \in Task, NEW u \in Task, Underway(t)', Underway(u)'
      PROVE  t = u
  BY <1>2, UnderwayStep DEF HasRoom
<1>3. ASSUME NEW t \in Task
      PROVE  task'[t].status # "failed" /\ (task'[t].status = "completed" => Told(t)')
  BY UnderwayStep
<1>4. ASSUME NEW t \in Task, Underway(t)', files'[t] = <<>>, Personal(t)', world'.by[t] = Owner
      PROVE  (Q!ChargedWorkspaceBytes(LiveRows, "drive") + world.size[t] <= DriveTotal(Owner))'
  <2>1. Personal(t) /\ world.by[t] = Owner  BY <1>1, <1>4 DEF Personal
  <2>2. CASE /\ LiveRows' = LiveRows
             /\ \A u \in Task : Len(files'[u]) = Len(files[u])
    <3>1. files[t] = <<>>  BY <1>4, <2>2 DEF Typed, TypeOK
    <3>2. Q!ChargedWorkspaceBytes(LiveRows, "drive") + world.size[t] <= DriveTotal(Owner)
      <4>1. CASE Underway(t)  BY <2>1, <3>1, <4>1 DEF HasRoom
      <4>2. CASE Admitted(t, 1) \/ Admitted(t, world.rate[t])
        BY <2>1, <4>2, BeginsWithRoom, TurnTyped DEF Typed
      <4>. QED  BY <1>4, <4>1, <4>2, UnderwayStep
    <3>. QED  BY <1>1, <2>2, <3>2 DEF DriveTotal, Q!ChargedWorkspaceBytes
  <2>3. ASSUME NEW u \in Task, NEW r \in Req, MadeFile(r, u), \A v \in Task \ {u} : Same(v)
        PROVE  FALSE
    <3>1. Underway(u)  BY <2>3 DEF MadeFile, GoesOn, Underway
    <3>2. files'[u] # <<>>  BY <2>3 DEF MadeFile
    <3>3. t # u  BY <1>4, <3>2
    <3>4. Underway(t)  BY <1>4, <2>3, <3>3 DEF Same, SameRequests, Underway
    <3>. QED  BY <3>1, <3>3, <3>4 DEF HasRoom
  <2>. QED  BY <2>2, <2>3, RowsStep
<1>. QED  BY <1>2, <1>3, <1>4 DEF HasRoom, Told

LEMMA InitQuotaKept == Init => QuotaKept
<1>. SUFFICES ASSUME Init PROVE QuotaKept
  OBVIOUS
<1>1. LiveRows = {}
  <2>1. \A t \in Task : Len(files[t]) = 0  BY DEF Init
  <2>2. \A i \in 1 .. MaxFiles : ~(i <= 0)  BY Bounds
  <2>. QED  BY <2>1, <2>2, RowsIn, RowsNow
<1>2. Q!DrivePool(LiveRows) = {} /\ Q!OrgPool(LiveRows) = {}
  BY <1>1 DEF Q!DrivePool, Q!OrgPool
<1>3. DriveTotal(Owner) \in Nat /\ world.plan \in Nat /\ Owner \in Account
  BY InitTyped, TotalIsNat DEF Typed, Account
<1>. QED  BY <1>2, <1>3, NoBytesCharged DEF QuotaKept, Q!ChargedWorkspaceBytes

\* A pool with one more row of size in it has room if it had room for size.
LEMMA PoolGrows ==
  ASSUME NEW S, Charged(S), NEW f, f \notin S, f.size \in Nat, f.rate \in Nat,
         NEW total, Q!Bytes(S) + f.size <= total
  PROVE  Q!Bytes(S \cup {f}) <= total
<1>. DEFINE T == S \cup {f}
<1>1. Charged(T)
  <2>1. IsFiniteSet(T)  BY FS_AddElement DEF Charged
  <2>. QED  BY <2>1 DEF Charged
<1>2. f \in T /\ T \ {f} = S  OBVIOUS
<1>. HIDE DEF T
<1>3. Q!Bytes(T) = Q!Bytes(S) + f.size  BY <1>1, <1>2, BytesAdd
<1>. QED  BY <1>3 DEF T

LEMMA QuotaKeptStep ==
  ASSUME Typed, Typed', \A t \in Task : Recorded(t) /\ Claimed(t) /\ StaysAdmitted(t), Next,
         HasRoom, QuotaKept
  PROVE  QuotaKept'
<1>1. world' = world  BY WorldStays
<1>. SUFFICES ASSUME ~Is("overlap")
              PROVE  QuotaKept'
  BY <1>1, SameTurn DEF QuotaKept
<1>2. CASE LiveRows' = LiveRows
  BY <1>1, <1>2, SameTurn DEF QuotaKept, Q!ChargedWorkspaceBytes
<1>3. ASSUME NEW u \in Task, NEW r \in Req, MadeFile(r, u), NEW f,
             f = LiveRow(u, Len(files[u]) + 1), f \notin LiveRows, LiveRows' = LiveRows \cup {f}
      PROVE  QuotaKept'
  <2>1. /\ f.by = world.by[u] /\ f.space = world.space[u]
        /\ f.size = world.size[u] /\ f.rate = world.rate[u]
    BY <1>3 DEF LiveRow
  <2>2. /\ world.size[u] \in Nat /\ world.rate[u] \in Nat /\ world.space[u] \in Q!Space
        /\ world.by[u] \in Account
    BY WorldsTyped DEF Typed, TypeOK, World
  <2>3. AdmittedAtEnd(u)  BY <1>3 DEF MadeFile, GoesOn, StaysAdmitted
  <2>. DEFINE org == Q!OrgPool(LiveRows)
              drive == Q!DrivePool(LiveRows)
  <2>4. Charged(org) /\ Charged(drive)
    <3>1. Charged(LiveRows)  BY RowsNow, RowsCharged DEF Typed
    <3>2. org \in SUBSET LiveRows /\ drive \in SUBSET LiveRows  BY DEF Q!OrgPool, Q!DrivePool
    <3>. QED  BY <3>1, <3>2, FS_Subset DEF Charged
  <2>5. Q!Bytes(org) <= world.plan /\ (InTurn => \E a \in Account : Q!Bytes(drive) <= DriveTotal(a))
    BY DEF QuotaKept, Q!ChargedWorkspaceBytes
  <2>6. Q!Bytes(Q!OrgPool(LiveRows')) <= world.plan
    <3>1. CASE world.space[u] = "org"
      <4>1. Q!OrgPool(LiveRows') = org \cup {f}  BY <1>3, <2>1, <3>1 DEF Q!OrgPool
      <4>2. Q!Bytes(org) + f.size <= world.plan
        BY <2>1, <2>3, <3>1 DEF AdmittedAtEnd, Personal, WorkspaceAdmits, WorkspaceTotal,
           Q!CheckWorkspaceUploadQuota, Q!ChargedWorkspaceBytes
      <4>3. f \notin org  BY <1>3 DEF Q!OrgPool
      <4>. HIDE DEF org
      <4>. QED  BY <2>1, <2>2, <2>4, <4>1, <4>2, <4>3, PoolGrows
    <3>2. CASE world.space[u] # "org"
      <4>1. Q!OrgPool(LiveRows') = org  BY <1>3, <2>1, <3>2 DEF Q!OrgPool
      <4>. QED  BY <2>5, <4>1
    <3>. QED  BY <3>1, <3>2
  <2>7. ASSUME InTurn
        PROVE  \E a \in Account : Q!Bytes(Q!DrivePool(LiveRows')) <= DriveTotal(a)
    <3>1. CASE world.space[u] = "drive" \/ (world.space[u] = "personal" /\ world.by[u] = Owner)
      <4>1. Q!DrivePool(LiveRows') = drive \cup {f}  BY <1>3, <2>1, <3>1 DEF Q!DrivePool
      <4>2. PICK a \in Account : Q!Bytes(drive) + f.size <= DriveTotal(a)
        <5>1. CASE world.space[u] = "drive"
          BY <2>1, <2>2, <2>3, <5>1 DEF AdmittedAtEnd, Personal, WorkspaceAdmits, WorkspaceTotal,
             Q!CheckWorkspaceUploadQuota, Q!ChargedWorkspaceBytes
        <5>2. CASE world.space[u] = "personal" /\ world.by[u] = Owner
          <6>1. files[u] = <<>>
            BY <1>3, <2>7, TurnTyped DEF MadeFile, GoesOn, Claimed
          <6>2. Underway(u)  BY <1>3 DEF MadeFile, GoesOn, Underway
          <6>. QED
            BY <2>1, <2>7, <5>2, <6>1, <6>2 DEF HasRoom, Personal, Q!ChargedWorkspaceBytes, Account
        <5>. QED  BY <3>1, <5>1, <5>2
      <4>3. f \notin drive  BY <1>3 DEF Q!DrivePool
      <4>. HIDE DEF drive
      <4>. QED  BY <2>1, <2>2, <2>4, <4>1, <4>2, <4>3, PoolGrows
    <3>2. CASE ~(world.space[u] = "drive" \/ (world.space[u] = "personal" /\ world.by[u] = Owner))
      <4>1. Q!DrivePool(LiveRows') = drive  BY <1>3, <2>1, <3>2 DEF Q!DrivePool
      <4>. QED  BY <2>5, <2>7, <4>1
    <3>. QED  BY <3>1, <3>2
  <2>. QED  BY <1>1, <2>6, <2>7, SameTurn DEF QuotaKept, Q!ChargedWorkspaceBytes
<1>. QED  BY <1>2, <1>3, RowsStep

-----------------------------------------------------------------------------
(* The bytes of a task: its files, its rows and its staged file. *)

GoodFiles(t) ==
  Careful(t) =>
    \A i \in 1 .. Len(files[t]) : files[t][i].bytes = "good" /\ files[t][i].hash = "good"

GoodDerived(t) ==
  Careful(t) => \A i \in 1 .. Len(files[t]) : files[t][i].derived \in {None, files[t][i].bytes}

KeptRows(t) ==
  (Careful(t) /\ ~Is("faults") /\ files[t] = <<>> /\ AdmittedAtEnd(t)) =>
    \A c \in task[t].rows : staged[t] # None /\ staged[t].at[c] = "good"

\* What is proved of the bytes of a task.
Kept(t) == GoodFiles(t) /\ GoodDerived(t) /\ KeptRows(t) /\ RowsWillBeStaged(t) /\ StaysStaged(t)
           /\ InStep(t) /\ ReadsGood(t)

LEMMA InitKept == Init => \A t \in Task : Kept(t)
BY DEF Init, Kept, GoodFiles, GoodDerived, KeptRows, RowsWillBeStaged, StaysStaged, InStep,
   CompletesInStep, SendsInStep, EventsInStep, ReadsGood, Active, Sending, Completing, EventsOf, IdleReq

\* A file with all its bytes reads good.
LEMMA WholeContent == \A t : Whole(t) => Content(t) = "good"
BY DEF Whole, Content

\* A task all of whose rows are staged is not refused for the size of its file.
LEMMA FullSize ==
  ASSUME Typed, NEW t \in Task, Recorded(t), Chunked(t), Whole(t)
  PROVE  StagedSize(t) = "full"
<1>1. staged[t] \in StagedFile  BY DEF Typed, TypeOK, Whole
<1>2. staged[t].size \in {"short", "full", "long"}  BY <1>1 DEF StagedFile
<1>3. staged[t].size # "short" /\ staged[t].size # "long"
  BY ChunkNat DEF Recorded, Whole, Chunked
<1>. QED  BY <1>2, <1>3 DEF StagedSize, Whole

\* The regimes, and what each excludes.
LEMMA CarefulTask ==
  ASSUME NEW t, Careful(t)
  PROVE  \/ InOne(t)
         \/ /\ ~InOne(t) /\ Chunked(t) /\ ~Is("idle") /\ ~Is("overlap")
            /\ Kind(t) = "http" => ~Is("early") /\ ~Is("oversize")
            /\ \/ Once(t) /\ ~Is("faults") /\ ~Is("crash")
               \/ /\ Strict(t) /\ ~Is("early") /\ ~Is("resend")
                  /\ Is("faults") => Kind(t) = "http" /\ ~Is("crash")
                  /\ Is("crash") => Personal(t)
BY DEF Careful, Chunked, Once, Strict

LEMMA KeptFrame ==
  ASSUME NEW t \in Task, Kept(t), Same(t), world' = world, Crashed' = Crashed,
         AdmittedAtEnd(t)' => AdmittedAtEnd(t)
  PROVE  Kept(t)'
<1>1. /\ Careful(t)' = Careful(t) /\ Chunked(t)' = Chunked(t) /\ Once(t)' = Once(t)
      /\ Strict(t)' = Strict(t) /\ Is("faults")' = Is("faults")
  BY SameModes
<1>2. /\ staged'[t] = staged[t] /\ task'[t] = task[t] /\ client'[t] = client[t] /\ files'[t] = files[t]
      /\ EventsOf(t)' = EventsOf(t) /\ Active(t)' = Active(t) /\ Sending(t)' = Sending(t)
      /\ \A q \in Active(t) \cup Sending(t) : req'[q] = req[q]
  BY DEF Same, SameRequests
<1>3. GoodFiles(t)' /\ GoodDerived(t)' /\ KeptRows(t)' /\ RowsWillBeStaged(t)' /\ ReadsGood(t)'
  BY <1>1, <1>2 DEF Kept, GoodFiles, GoodDerived, KeptRows, RowsWillBeStaged, ReadsGood
<1>4. StaysStaged(t)'  BY <1>1, <1>2 DEF Kept, StaysStaged, Whole
<1>5. CompletesInStep(t) => CompletesInStep(t)'  BY <1>2 DEF CompletesInStep
<1>6. SendsInStep(t) => SendsInStep(t)'  BY <1>2 DEF SendsInStep
<1>7. EventsInStep(t) => EventsInStep(t)'  BY <1>2 DEF EventsInStep
<1>8. InStep(t)'  BY <1>1, <1>5, <1>6, <1>7 DEF Kept, InStep
<1>. QED  BY <1>3, <1>4, <1>8 DEF Kept

\* Only a restart spends the crash.
LEMMA CrashedStays ==
  ASSUME NEW u, StepOf(u), world' = world
  PROVE  Crashed' = Crashed
<1>. SUFFICES "crash" \in spent' <=> "crash" \in spent
  BY DEF Crashed, Is
<1>1. ASSUME NEW r \in Req, Handle(r) \/ Fails(r)
      PROVE  "crash" \in spent' <=> "crash" \in spent
  BY <1>1 DEF Handle, Fails, WriteUploadChunk, UpdateUploadedChunk, Refuse, RefuseMultipart, Accept,
     Inspect, Put, RecordFile, PublishFileUploaded, MarkCompleted, Abandon, WriteFails, WriteOversized,
     RefusePart, RowFails, MarkFails, Fault, Oversize
<1>2. ASSUME NEW r \in Req, Ask(r, u)
      PROVE  spent' = spent
  BY <1>2 DEF Ask, Send, Complete, UploadChunk, UploadMultipartPart, BeginChunk, CompleteUpload,
     CompleteMultipartUpload, LoadTask, UploadForm, UploadStream, Receive
<1>3. CASE \/ CreateUploadTask(u) \/ CreateMultipartUpload(u) \/ CancelUpload(u)
           \/ CleanupTempArtifacts(u)
           \/ \E e \in EventsOf(u) : ProcessUploadedFile(e) \/ ProcessFails(e) \/ RemoveProcessed(e)
  BY <1>3 DEF CreateUploadTask, CreateMultipartUpload, InsertTask, CancelUpload, CleanupTempArtifacts,
     ProcessUploadedFile, ProcessFails, Fault, RemoveProcessed
<1>. QED  BY <1>1, <1>2, <1>3 DEF StepOf

-----------------------------------------------------------------------------
(* When nothing fails, the staged file stays until the worker has read it. *)

LEMMA StaysStagedSend ==
  ASSUME Typed, NEW u \in Task, StaysStaged(u), world' = world, NEW r \in Req, SendDoes(r, u)
  PROVE  StaysStaged(u)'
<1>. SUFFICES ASSUME Chunked(u), Once(u)
              PROVE  StaysStaged(u)'
  BY SameModes DEF StaysStaged
<1>1. ~Is("faults") /\ ~(Kind(u) = "http" /\ Is("oversize"))  BY DEF Chunked, Once
<1>2. SameActive(u) /\ files'[u] = files[u] /\ EventsOf(u)' = EventsOf(u)
  BY DEF SendDoes, Wrote, Broke, Overran, Dropped, Acknowledged, BeganChunk, SendGoesOn, SendEnds,
     SendBegins, SameData
<1>3. Whole(u) => Whole(u)'
  <2>1. CASE Wrote(r, u)
    BY <2>1 DEF Wrote, SendGoesOn, Whole, Before
  <2>2. CASE Dropped(r, u) \/ Acknowledged(r, u) \/ \E c \in Chunk : BeganChunk(r, u, c)
    BY <2>2 DEF Dropped, Acknowledged, BeganChunk, SameData, Whole
  <2>. QED  BY <1>1, <2>1, <2>2 DEF SendDoes, Broke, Overran
<1>. QED  BY <1>2, <1>3 DEF StaysStaged, SameActive

LEMMA StaysStagedCompletion ==
  ASSUME Typed, NEW u \in Task, Recorded(u), Claimed(u), KeptRows(u), StaysStaged(u), world' = world,
         NEW r \in Req, CompletionDoes(r, u)
  PROVE  StaysStaged(u)'
<1>. SUFFICES ASSUME Chunked(u), Once(u)
              PROVE  StaysStaged(u)'
  BY SameModes DEF StaysStaged
<1>1. ~Is("faults") /\ ~Is("overlap") /\ ~InOne(u) /\ Careful(u)  BY DEF Chunked, Once, Careful
<1>2. CASE Refused(r, u)
  BY <1>1, <1>2 DEF Refused, Ends, Claimed, StaysStaged
<1>3. CASE Accepted(r, u)
  <2>1. files[u] = <<>> /\ AdmittedAtEnd(u) /\ task[u].rows = Chunk
    BY <1>3 DEF Accepted, GoesOn, Claimed, Recorded
  <2>2. Whole(u)  BY <1>1, <2>1, ChunkNat DEF KeptRows, Whole
  <2>. QED  BY <1>1, <1>3, <2>2 DEF Accepted, GoesOn, SameData, Whole, StaysStaged
<1>4. CASE Inspected(r, u) \/ Stored(r, u) \/ MadeFile(r, u)
  <2>1. Whole(u)  BY <1>4 DEF Inspected, Stored, MadeFile, GoesOn, StaysStaged
  <2>. QED  BY <1>1, <1>4, <2>1 DEF Inspected, Stored, MadeFile, GoesOn, SameData, Whole, StaysStaged
<1>5. CASE Published(r, u)
  <2>1. Whole(u)  BY <1>5 DEF Published, GoesOn, StaysStaged
  <2>. QED  BY <1>1, <1>5, <2>1 DEF Published, GoesOn, Whole, StaysStaged
<1>6. CASE Marked(r, u)
  BY <1>1, <1>6 DEF Marked, Ends, SameData, Whole, StaysStaged
<1>7. CASE Loaded(r, u)
  BY <1>1, <1>7 DEF Loaded, Starts, SameData, Whole, StaysStaged
<1>8. CASE Abandoned(r, u)
  BY <1>1, <1>8 DEF Abandoned, Ends, Whole, StaysStaged
<1>. QED
  BY <1>1, <1>2, <1>3, <1>4, <1>5, <1>6, <1>7, <1>8 DEF CompletionDoes, Received, MarkFailed

LEMMA StaysStagedOther ==
  ASSUME Typed, NEW u \in Task, Recorded(u), Claimed(u), StaysStaged(u), world' = world,
         \/ Inserted(u) \/ Cancelled(u) \/ Cleaned(u) \/ Restarted(u)
         \/ \E e \in EventsOf(u) : Processed(u, e) \/ ProcessFailed(u, e) \/ Removed(u, e)
  PROVE  StaysStaged(u)'
<1>. SUFFICES ASSUME Chunked(u), Once(u)
              PROVE  StaysStaged(u)'
  BY SameModes DEF StaysStaged
<1>1. ~Is("idle") /\ ~Is("crash") /\ ~Is("faults")  BY DEF Chunked, Once
<1>2. CASE Inserted(u) \/ Cancelled(u)
  BY <1>2 DEF Inserted, Cancelled, SameServing, SameData, Whole, StaysStaged
<1>3. ASSUME NEW e \in EventsOf(u), Processed(u, e)
      PROVE  StaysStaged(u)'
  <2>1. Whole(u)  BY DEF StaysStaged
  <2>2. Whole(u)'  BY <1>3, <2>1 DEF Processed, Whole
  <2>. QED  BY <2>2 DEF StaysStaged
<1>4. ASSUME NEW e \in EventsOf(u), Removed(u, e)
      PROVE  StaysStaged(u)'
  <2>1. EventsOf(u)' = {}  BY <1>4 DEF Removed, Claimed
  <2>2. \A q \in Active(u) : req[q].pc = "mark"  BY DEF Claimed
  <2>. QED  BY <1>4, <2>1, <2>2 DEF Removed, SameServing, StaysStaged
<1>. QED  BY <1>1, <1>2, <1>3, <1>4 DEF Cleaned, Restarted, ProcessFailed

-----------------------------------------------------------------------------
(* A client that sends just what is missing keeps in step with the staged file. *)

LEMMA InStepSend ==
  ASSUME Typed, NEW u \in Task, Recorded(u), InStep(u), world' = world, Crashed' = Crashed,
         NEW r \in Req, SendDoes(r, u)
  PROVE  InStep(u)'
<1>. SUFFICES ASSUME Chunked(u), Strict(u)
              PROVE  CompletesInStep(u)' /\ SendsInStep(u)' /\ EventsInStep(u)'
  BY SameModes DEF InStep
<1>1. CompletesInStep(u) /\ SendsInStep(u) /\ EventsInStep(u)  BY DEF InStep
<1>2. /\ ~Is("resend") /\ ~Is("overlap") /\ ~(Kind(u) = "http" /\ Is("oversize"))
  BY DEF Chunked, Strict
<1>3. client[u].acked \in SUBSET Chunk /\ Active(u) \in SUBSET Req /\ Sending(u) \in SUBSET Req
  BY DEF Typed, TypeOK, ClientRow, Active, Sending
<1>4. SameActive(u) /\ EventsOf(u)' = EventsOf(u) /\ client'[u].done = client[u].done
  BY DEF SendDoes, Wrote, Broke, Overran, Dropped, Acknowledged, BeganChunk, SendGoesOn, SendEnds,
     SendBegins, SameData, SameRecords
<1>5. ASSUME r \in Sending(u), req[r].c \in Chunk
      PROVE  /\ Active(u) = {} /\ req[r].c \notin client[u].acked /\ ~client[u].done
             /\ EventsOf(u) = {} \/ \A c \in Chunk : c \in client[u].acked
             /\ staged[u] = None => client[u].acked = {}
  BY <1>1, <1>5 DEF CompletesInStep, SendsInStep, EventsInStep
<1>6. CASE Wrote(r, u)
  <2>1. /\ r \in Sending(u) /\ req[r].c \in Chunk /\ Sending(u)' = Sending(u)
        /\ req'[r].pc = "row" /\ req'[r].c = req[r].c /\ \A q \in Sending(u) \ {r} : req'[q] = req[q]
        /\ client'[u] = client[u]
    BY <1>6 DEF Wrote, SendGoesOn, SameRecords
  <2>2. staged'[u] # None /\ staged'[u].at[req[r].c] = "good"  BY <1>6 DEF Wrote
  <2>3. \A d \in Chunk : (staged[u] # None /\ staged[u].at[d] = "good") => staged'[u].at[d] = "good"
    BY <1>6 DEF Wrote, Before
  <2>4. CompletesInStep(u)'  BY <1>4, <1>5, <2>1 DEF CompletesInStep, SameActive
  <2>5. EventsInStep(u)'  BY <1>4, <1>5, <2>1 DEF EventsInStep
  <2>6. SendsInStep(u)'
    <3>1. \A q \in Sending(u) : req[q].c \in Chunk
      BY DEF Sending, Typed, LocalsSet
    <3>. QED  BY <1>1, <1>4, <1>5, <2>1, <2>2, <2>3, <3>1 DEF SendsInStep
  <2>. QED  BY <2>4, <2>5, <2>6
<1>7. CASE Broke(r, u)
  <2>1. /\ r \in Sending(u) /\ req[r].c \in Chunk /\ Sending(u)' = Sending(u) \ {r}
        /\ \A q \in Sending(u) \ {r} : req'[q] = req[q]
        /\ client'[u] = client[u] /\ staged'[u] # None
    BY <1>7 DEF Broke, SendEnds, SameRecords
  <2>2. \A d \in Chunk : (staged[u] # None /\ staged[u].at[d] = "good") => staged'[u].at[d] = "good"
    BY <1>7 DEF Broke, Before
  <2>4. CompletesInStep(u)'  BY <1>4, <1>5, <2>1 DEF CompletesInStep, SameActive
  <2>5. EventsInStep(u)'  BY <1>4, <1>5, <2>1 DEF EventsInStep
  <2>6. SendsInStep(u)'
    <3>1. \A q \in Sending(u) : req[q].c \in Chunk
      BY DEF Sending, Typed, LocalsSet
    <3>. QED  BY <1>1, <1>4, <1>5, <2>1, <2>2, <3>1 DEF SendsInStep
  <2>. QED  BY <2>4, <2>5, <2>6
<1>8. CASE Dropped(r, u)
  <2>1. /\ r \in Sending(u) /\ req[r].c \in Chunk /\ Sending(u)' = Sending(u) \ {r}
        /\ \A q \in Sending(u) \ {r} : req'[q] = req[q]
        /\ client'[u] = client[u] /\ staged'[u] = staged[u]
    BY <1>8 DEF Dropped, SendEnds, SameRecords, SameData
  <2>2. CompletesInStep(u)'  BY <1>4, <1>5, <2>1 DEF CompletesInStep, SameActive
  <2>3. EventsInStep(u)'  BY <1>4, <1>5, <2>1 DEF EventsInStep
  <2>4. SendsInStep(u)'  BY <1>1, <1>4, <2>1 DEF SendsInStep
  <2>. QED  BY <2>2, <2>3, <2>4
<1>9. CASE Acknowledged(r, u)
  <2>1. /\ r \in Sending(u) /\ req[r].c \in Chunk /\ Sending(u)' = Sending(u) \ {r}
        /\ \A q \in Sending(u) \ {r} : req'[q] = req[q]
        /\ client'[u].acked = client[u].acked \cup {req[r].c} /\ staged'[u] = staged[u]
        /\ req[r].pc = "row"
    BY <1>9 DEF Acknowledged, SendEnds, SameData
  <2>2. CompletesInStep(u)'  BY <1>4, <1>5, <2>1 DEF CompletesInStep, SameActive
  <2>3. EventsInStep(u)'  BY <1>4, <1>5, <2>1 DEF EventsInStep
  <2>4. SendsInStep(u)'  BY <1>1, <1>4, <1>5, <2>1 DEF SendsInStep
  <2>. QED  BY <2>2, <2>3, <2>4
<1>10. ASSUME NEW c \in Chunk, BeganChunk(r, u, c)
       PROVE  CompletesInStep(u)' /\ SendsInStep(u)' /\ EventsInStep(u)'
  <2>1. /\ r \notin Sending(u) /\ Sending(u)' = Sending(u) \cup {r}
        /\ req'[r].pc = "write" /\ req'[r].c = c /\ \A q \in Sending(u) : req'[q] = req[q]
        /\ client'[u] = client[u] /\ staged'[u] = staged[u]
    BY <1>10 DEF BeganChunk, SendBegins, SameRecords, SameData
  <2>2. c \notin client[u].acked /\ ~client[u].done  BY <1>2, <1>10 DEF BeganChunk, Sends
  <2>3. Active(u) = {}  BY <1>2, <1>10 DEF BeganChunk, Sends, Active
  <2>4. \A q \in Sending(u) : req[q].c # c  BY <1>10 DEF BeganChunk, Sends, Sending
  <2>5. CompletesInStep(u)'  BY <1>4, <2>3 DEF CompletesInStep, SameActive
  <2>6. EventsInStep(u)'  BY <1>1, <1>4, <2>1, <2>2 DEF EventsInStep, SameActive
  <2>7. SendsInStep(u)'  BY <1>1, <1>4, <2>1, <2>2, <2>4 DEF SendsInStep
  <2>. QED  BY <2>5, <2>6, <2>7
<1>. QED  BY <1>2, <1>6, <1>7, <1>8, <1>9, <1>10 DEF SendDoes, Overran

LEMMA InStepCompletion ==
  ASSUME Typed, NEW u \in Task, Recorded(u), InStep(u), world' = world, Crashed' = Crashed,
         NEW r \in Req, CompletionDoes(r, u)
  PROVE  InStep(u)'
<1>. SUFFICES ASSUME Chunked(u), Strict(u)
              PROVE  CompletesInStep(u)' /\ SendsInStep(u)' /\ EventsInStep(u)'
  BY SameModes DEF InStep
<1>1. CompletesInStep(u) /\ SendsInStep(u) /\ EventsInStep(u)  BY DEF InStep
<1>2. /\ ~InOne(u) /\ ~Is("resend") /\ ~Is("early") /\ ~Is("overlap")
      /\ Is("faults") => Kind(u) = "http" /\ ~Is("crash")
      /\ Is("crash") => AdmittedAtEnd(u)
  BY DEF Chunked, Strict, AdmittedAtEnd
<1>3. client[u].acked \in SUBSET Chunk /\ Active(u) \in SUBSET Req /\ Sending(u) \in SUBSET Req
      /\ client[u].done \in BOOLEAN
  BY DEF Typed, TypeOK, ClientRow, Active, Sending
<1>4. Sending(u)' = Sending(u) /\ \A q \in Sending(u) : req'[q] = req[q]
  BY DEF CompletionDoes, Loaded, Received, Refused, Accepted, Inspected, Stored, MadeFile, Published,
     Marked, Abandoned, MarkFailed, Starts, GoesOn, Ends, SameSending
<1>5. ASSUME r \in Active(u)
      PROVE  client[u].acked = Chunk /\ Sending(u) = {}
  BY <1>1, <1>5 DEF CompletesInStep
<1>6. CASE Loaded(r, u)
  <2>1. /\ Active(u)' = {r} /\ Active(u) = {} /\ req'[r].pc = "check"
        /\ task'[u] = task[u] /\ client'[u] = client[u] /\ staged'[u] = staged[u]
        /\ EventsOf(u)' = EventsOf(u)
    BY <1>2, <1>6 DEF Loaded, Starts, SameRecords, SameData
  <2>2. client[u].acked = Chunk /\ Sending(u) = {}
    BY <1>2, <1>6 DEF Loaded, Completes, Alone, Sending
  <2>3. CompletesInStep(u)'  BY <1>4, <2>1, <2>2 DEF CompletesInStep
  <2>4. SendsInStep(u)'  BY <1>1, <1>4, <2>1 DEF SendsInStep
  <2>5. EventsInStep(u)'  BY <1>1, <2>1 DEF EventsInStep
  <2>. QED  BY <2>3, <2>4, <2>5
<1>7. CASE Accepted(r, u) \/ Inspected(r, u) \/ Stored(r, u) \/ MadeFile(r, u) \/ Published(r, u)
  <2>1. /\ Active(u)' = {r} /\ Active(u) = {r} /\ req[r].pc # "mark"
        /\ task'[u] = task[u] /\ client'[u] = client[u] /\ staged'[u] = staged[u]
    BY <1>2, <1>7 DEF Accepted, Inspected, Stored, MadeFile, Published, GoesOn, SameRecords, SameData
  <2>2. client[u].acked = Chunk /\ Sending(u) = {}  BY <1>5, <2>1
  <2>3. SendsInStep(u)'  BY <1>1, <1>4, <2>1 DEF SendsInStep
  <2>4. CASE Published(r, u)
    <3>1. req'[r].pc = "mark"  BY <2>4 DEF Published, GoesOn
    <3>2. EventsInStep(u)'  BY <2>1, <2>2, <3>1 DEF EventsInStep
    <3>3. ASSUME ~client[u].done, ~Crashed
          PROVE  staged[u] # None /\ EventsOf(u) = {}
      BY <1>1, <2>1, <2>4, <3>3 DEF CompletesInStep, EventsInStep, Published
    <3>4. EventsOf(u) = {} => \A e, f \in EventsOf(u)' : e = f
      BY <2>4 DEF Published
    <3>5. CompletesInStep(u)'  BY <1>4, <2>1, <2>2, <3>1, <3>3, <3>4 DEF CompletesInStep
    <3>. QED  BY <2>3, <3>2, <3>5
  <2>5. CASE Accepted(r, u) \/ Inspected(r, u) \/ Stored(r, u) \/ MadeFile(r, u)
    <3>1. EventsOf(u)' = EventsOf(u) /\ req'[r].pc # "mark"
      BY <2>5 DEF Accepted, Inspected, Stored, MadeFile, GoesOn, SameData
    <3>2. EventsInStep(u)'  BY <1>1, <2>1, <3>1 DEF EventsInStep
    <3>3. (req'[r].pc \in {"record", "publish"} /\ ~client[u].done /\ ~Crashed) => staged[u] # None
      BY <1>1, <2>1, <2>5 DEF Accepted, Inspected, Stored, MadeFile, GoesOn, CompletesInStep
    <3>4. CompletesInStep(u)'  BY <1>4, <2>1, <2>2, <3>1, <3>3 DEF CompletesInStep
    <3>. QED  BY <2>3, <3>2, <3>4
  <2>. QED  BY <1>7, <2>4, <2>5
<1>8. CASE Refused(r, u) \/ Marked(r, u) \/ Abandoned(r, u) \/ MarkFailed(r, u)
  <2>1. Active(u)' = {} /\ Active(u) = {r} /\ EventsOf(u)' = EventsOf(u)
    BY <1>2, <1>8 DEF Refused, Marked, Abandoned, MarkFailed, Ends, SameData
  <2>2. client[u].acked = Chunk /\ Sending(u) = {}  BY <1>5, <2>1
  <2>3. CompletesInStep(u)'  BY <2>1 DEF CompletesInStep
  <2>4. CASE Marked(r, u) \/ (MarkFailed(r, u) /\ Kind(u) = "http")
    <3>1. client'[u].done /\ client'[u].acked = client[u].acked /\ staged'[u] = staged[u]
      BY <2>4 DEF Marked, MarkFailed, SameData
    <3>. QED  BY <1>1, <1>4, <2>1, <2>2, <2>3, <3>1 DEF SendsInStep, EventsInStep
  <2>5. CASE Refused(r, u)
    <3>1. client'[u].done = client[u].done /\ staged'[u] \in {None, staged[u]}
          /\ req[r].pc = "check" /\ client'[u].acked = {}
      BY <1>2, <2>1, <2>5 DEF Refused, Recorded
    <3>2. SendsInStep(u)'  BY <1>1, <1>4, <2>2, <3>1 DEF SendsInStep
    <3>3. ASSUME EventsOf(u) # {}, ~client[u].done
          PROVE  FALSE
      <4>1. Crashed /\ staged[u] # None  BY <1>1, <2>1, <3>1, <3>3 DEF EventsInStep
      <4>2. Whole(u)  BY <1>1, <2>2, <4>1 DEF SendsInStep, Whole
      <4>. QED  BY <1>2, <2>1, <2>5, <4>1, <4>2, FullSize DEF Refused, Crashed, Recorded
    <3>4. EventsInStep(u)'  BY <2>1, <3>1, <3>3 DEF EventsInStep
    <3>. QED  BY <2>3, <3>2, <3>4
  <2>6. CASE Abandoned(r, u)
    <3>1. client'[u].done = client[u].done /\ staged'[u] = None /\ client'[u].acked = {}
          /\ req[r].pc # "mark"
      BY <2>6 DEF Abandoned
    <3>2. SendsInStep(u)'  BY <1>1, <1>4, <2>2, <3>1 DEF SendsInStep
    <3>3. EventsOf(u) = {} \/ client[u].done
      BY <1>1, <1>2, <2>1, <2>6, <3>1 DEF EventsInStep, Abandoned, Crashed
    <3>4. EventsInStep(u)'  BY <2>1, <3>1, <3>3 DEF EventsInStep
    <3>. QED  BY <2>3, <3>2, <3>4
  <2>. QED  BY <1>2, <1>8, <2>4, <2>5, <2>6 DEF MarkFailed
<1>. QED  BY <1>2, <1>6, <1>7, <1>8 DEF CompletionDoes, Received

LEMMA InStepOther ==
  ASSUME Typed, NEW u \in Task, Recorded(u), InStep(u), world' = world,
         \/ /\ Crashed' = Crashed
            /\ \/ Inserted(u) \/ Cancelled(u) \/ Cleaned(u)
               \/ \E e \in EventsOf(u) : Processed(u, e) \/ ProcessFailed(u, e) \/ Removed(u, e)
         \/ Restarted(u)
  PROVE  InStep(u)'
<1>. SUFFICES ASSUME Chunked(u), Strict(u)
              PROVE  CompletesInStep(u)' /\ SendsInStep(u)' /\ EventsInStep(u)'
  BY SameModes DEF InStep
<1>1. CompletesInStep(u) /\ SendsInStep(u) /\ EventsInStep(u)  BY DEF InStep
<1>2. ~Is("idle") /\ ~Is("overlap")  BY DEF Chunked
<1>3. CASE Crashed' = Crashed /\ (Inserted(u) \/ Cancelled(u))
  <2>1. /\ SameServing(u) /\ client'[u] = client[u] /\ staged'[u] = staged[u]
        /\ EventsOf(u)' = EventsOf(u)
    BY <1>3 DEF Inserted, Cancelled, SameData
  <2>2. CompletesInStep(u)'  BY <1>1, <1>3, <2>1 DEF CompletesInStep, SameServing
  <2>3. SendsInStep(u)'  BY <1>1, <2>1 DEF SendsInStep, SameServing
  <2>4. EventsInStep(u)'  BY <1>1, <1>3, <2>1 DEF EventsInStep, SameServing
  <2>. QED  BY <2>2, <2>3, <2>4
<1>4. ASSUME NEW e \in EventsOf(u), Processed(u, e) \/ Removed(u, e), Crashed' = Crashed
      PROVE  CompletesInStep(u)' /\ SendsInStep(u)' /\ EventsInStep(u)'
  <2>1. SameServing(u) /\ client'[u] = client[u]  
    BY <1>4 DEF Processed, Marks, Removed, SameRecords
  <2>2. \/ staged'[u] = staged[u] /\ staged[u] # None
        \/ staged'[u] = staged[u] /\ EventsOf(u)' = EventsOf(u) \ {e}
        \/ staged'[u] = None /\ EventsOf(u)' = EventsOf(u) \ {e}
    BY <1>4 DEF Processed, Removed
  <2>3. (\A f, g \in EventsOf(u) : f = g) =>
          /\ \A f, g \in EventsOf(u)' : f = g
          /\ EventsOf(u)' = {} \/ (staged'[u] = staged[u] /\ staged[u] # None)
    BY <1>4, <2>2 DEF Processed, Removed
  <2>4. ~client[u].done => client[u].acked = Chunk
    BY <1>1 DEF EventsInStep
  <2>5. ASSUME ~client[u].done, ~Crashed
        PROVE  \E q \in Active(u) : req[q].pc = "mark"
    BY <1>1, <2>5 DEF EventsInStep
  <2>6. ~Is("overlap") => \A p, q \in Active(u) : p = q
    BY DEF Typed, OneCompletion, Active
  <2>7. CompletesInStep(u)'
    BY <1>1, <1>2, <1>4, <2>1, <2>2, <2>3, <2>5, <2>6 DEF CompletesInStep, SameServing
  <2>8. SendsInStep(u)'
    <3>1. \A q \in Sending(u) : req[q].c \in Chunk  BY DEF Sending, Typed, LocalsSet
    <3>. QED  BY <1>1, <2>1, <2>2, <2>4, <3>1 DEF SendsInStep, SameServing
  <2>9. EventsInStep(u)'
    BY <1>1, <1>4, <2>1, <2>2, <2>3, <2>4 DEF EventsInStep, SameServing
  <2>. QED  BY <2>7, <2>8, <2>9
<1>5. CASE Restarted(u)
  <2>1. /\ client'[u] = client[u] /\ staged'[u] = staged[u] /\ EventsOf(u)' \subseteq EventsOf(u)
        /\ Active(u)' = {} /\ Sending(u)' = {} /\ ~Crashed /\ Crashed'
    BY <1>5 DEF Restarted, SameRecords, Crashed, Is
  <2>2. CompletesInStep(u)' /\ SendsInStep(u)'  BY <1>1, <2>1 DEF CompletesInStep, SendsInStep
  <2>3. EventsInStep(u)'  BY <1>1, <2>1 DEF EventsInStep, CompletesInStep
  <2>. QED  BY <2>2, <2>3
<1>6. ASSUME NEW e \in EventsOf(u), ProcessFailed(u, e), Crashed' = Crashed
      PROVE  CompletesInStep(u)' /\ SendsInStep(u)' /\ EventsInStep(u)'
  <2>1. /\ SameServing(u) /\ client'[u] = client[u] /\ staged'[u] = staged[u]
        /\ EventsOf(u)' \subseteq EventsOf(u)
    BY <1>6 DEF ProcessFailed, Marks, SameRecords
  <2>2. CompletesInStep(u)'  BY <1>1, <1>6, <2>1 DEF CompletesInStep, SameServing
  <2>3. SendsInStep(u)'  BY <1>1, <2>1 DEF SendsInStep, SameServing
  <2>4. EventsInStep(u)'  BY <1>1, <1>6, <2>1 DEF EventsInStep, SameServing
  <2>. QED  BY <2>2, <2>3, <2>4
<1>. QED  BY <1>2, <1>3, <1>4, <1>5, <1>6 DEF Cleaned

-----------------------------------------------------------------------------
(* Rows are of chunks that are staged, until the file exists. *)

\* In one request there are no rows, and none on the way.
LEMMA NoRowsInOne ==
  ASSUME Typed, NEW u \in Task, Recorded(u), InOne(u)
  PROVE  task[u].rows = {} /\ Sending(u) = {}
BY DEF Recorded, Sending, Typed, LocalsSet

LEMMA RowsKeptSend ==
  ASSUME Typed, NEW u \in Task, Recorded(u), KeptRows(u), RowsWillBeStaged(u), world' = world,
         AdmittedAtEnd(u)' => AdmittedAtEnd(u), NEW r \in Req, SendDoes(r, u)
  PROVE  KeptRows(u)' /\ RowsWillBeStaged(u)'
<1>. SUFFICES ASSUME Careful(u), ~Is("faults"), files'[u] = <<>>, AdmittedAtEnd(u)
              PROVE  KeptRows(u)' /\ RowsWillBeStaged(u)'
  BY SameModes DEF KeptRows, RowsWillBeStaged
<1>1. files[u] = <<>> /\ ~InOne(u)
  BY DEF SendDoes, Wrote, Broke, Overran, Dropped, Acknowledged, BeganChunk, SendGoesOn, SendEnds, SameData
<1>2. ~(Kind(u) = "http" /\ Is("oversize"))  BY <1>1, CarefulTask
<1>3. /\ \A c \in task[u].rows : staged[u] # None /\ staged[u].at[c] = "good"
      /\ \A q \in Sending(u) :
           req[q].pc = "row" => staged[u] # None /\ staged[u].at[req[q].c] = "good"
  BY <1>1 DEF KeptRows, RowsWillBeStaged
<1>4. \A q \in Sending(u) : req[q].c \in Chunk  BY DEF Sending, Typed, LocalsSet
<1>5. task[u].rows \in SUBSET Chunk  BY DEF Typed, TypeOK, TaskRow
<1>6. CASE Wrote(r, u)
  <2>1. \A d \in Chunk : (staged[u] # None /\ staged[u].at[d] = "good") => staged'[u].at[d] = "good"
    BY <1>6 DEF Wrote, Before
  <2>2. KeptRows(u)'  BY <1>3, <1>5, <1>6, <2>1 DEF Wrote, SameRecords, KeptRows
  <2>3. RowsWillBeStaged(u)'
    BY <1>3, <1>4, <1>6, <2>1 DEF Wrote, SendGoesOn, RowsWillBeStaged
  <2>. QED  BY <2>2, <2>3
<1>7. CASE Dropped(r, u)
  BY <1>3, <1>7 DEF Dropped, SendEnds, SameRecords, SameData, KeptRows, RowsWillBeStaged
<1>8. CASE Acknowledged(r, u)
  BY <1>3, <1>8 DEF Acknowledged, SendEnds, SameData, KeptRows, RowsWillBeStaged
<1>9. ASSUME NEW c \in Chunk, BeganChunk(r, u, c)
      PROVE  KeptRows(u)' /\ RowsWillBeStaged(u)'
  BY <1>3, <1>9 DEF BeganChunk, SendBegins, SameRecords, SameData, KeptRows, RowsWillBeStaged
<1>. QED  BY <1>2, <1>6, <1>7, <1>8, <1>9 DEF SendDoes, Broke, Overran

LEMMA RowsKeptCompletion ==
  ASSUME Typed, NEW u \in Task, Recorded(u), KeptRows(u), RowsWillBeStaged(u), StaysStaged(u),
         InStep(u), world' = world, AdmittedAtEnd(u)' => AdmittedAtEnd(u),
         NEW r \in Req, CompletionDoes(r, u)
  PROVE  KeptRows(u)' /\ RowsWillBeStaged(u)'
<1>. SUFFICES ASSUME Careful(u), ~Is("faults"), files'[u] = <<>>, AdmittedAtEnd(u)
              PROVE  KeptRows(u)' /\ RowsWillBeStaged(u)'
  BY SameModes DEF KeptRows, RowsWillBeStaged
<1>1. /\ Sending(u)' = Sending(u) /\ \A q \in Sending(u) : req'[q] = req[q]
      /\ task'[u].rows = task[u].rows
  BY DEF CompletionDoes, Loaded, Received, Refused, Accepted, Inspected, Stored, MadeFile, Published,
     Marked, Abandoned, MarkFailed, Starts, GoesOn, Ends, SameSending, SameRecords
<1>2. CASE InOne(u)
  <2>1. task[u].rows = {} /\ Sending(u) = {}  BY <1>2, NoRowsInOne
  <2>. QED  BY <1>1, <2>1 DEF KeptRows, RowsWillBeStaged
<1>3. CASE ~InOne(u)
  <2>1. ~MadeFile(r, u) /\ ~MarkFailed(r, u) /\ ~Received(r, u)
    BY <1>3 DEF MadeFile, MarkFailed, Received
  <2>2. files[u] = <<>>
    BY <2>1 DEF CompletionDoes, Loaded, Refused, Accepted, Inspected, Stored, Published, Marked,
       Abandoned, SameData
  <2>3. /\ \A c \in task[u].rows : staged[u] # None /\ staged[u].at[c] = "good"
        /\ \A q \in Sending(u) :
             req[q].pc = "row" => staged[u] # None /\ staged[u].at[req[q].c] = "good"
    BY <2>2 DEF KeptRows, RowsWillBeStaged
  <2>4. task[u].rows = Chunk => Whole(u)  BY <2>3, ChunkNat DEF Whole
  <2>5. staged'[u] = staged[u]
    <3>1. CASE Refused(r, u)
      <4>1. ASSUME Kind(u) = "http"
            PROVE  FALSE
        <5>1. Chunked(u) /\ ~Is("early")  BY <1>3, <4>1, CarefulTask
        <5>2. req[r].whole /\ task[u].rows = Chunk  BY <3>1, <5>1 DEF Refused, Ends, Recorded
        <5>3. StagedSize(u) = "full"  BY <2>4, <5>1, <5>2, FullSize
        <5>. QED  BY <3>1, <5>2, <5>3 DEF Refused
      <4>. QED  BY <3>1, <4>1 DEF Refused
    <3>2. CASE Abandoned(r, u)
      <4>1. r \in Active(u) /\ req[r].pc \in {"inspect", "put"} /\ staged[u] = None
        BY <3>2 DEF Abandoned, Ends
      <4>2. CASE Chunked(u) /\ Once(u)
        BY <4>1, <4>2 DEF StaysStaged, Whole
      <4>3. CASE Chunked(u) /\ Strict(u)
        <5>1. client[u].acked = Chunk  BY <4>1, <4>3 DEF InStep, CompletesInStep
        <5>2. task[u].rows = Chunk  BY <5>1 DEF Recorded, Typed, TypeOK, TaskRow
        <5>. QED  BY <2>4, <4>1, <5>2 DEF Whole
      <4>. QED  BY <1>3, <4>2, <4>3, CarefulTask
    <3>3. CASE \/ Loaded(r, u) \/ Accepted(r, u) \/ Inspected(r, u) \/ Stored(r, u)
               \/ Published(r, u) \/ Marked(r, u)
      BY <3>3 DEF Loaded, Accepted, Inspected, Stored, Published, Marked, SameData
    <3>. QED  BY <2>1, <3>1, <3>2, <3>3 DEF CompletionDoes
  <2>. QED  BY <1>1, <2>3, <2>5 DEF KeptRows, RowsWillBeStaged
<1>. QED  BY <1>2, <1>3

LEMMA RowsKeptOther ==
  ASSUME Typed, NEW u \in Task, Recorded(u), KeptRows(u), RowsWillBeStaged(u), world' = world,
         AdmittedAtEnd(u)' => AdmittedAtEnd(u),
         \/ Inserted(u) \/ Cancelled(u) \/ Cleaned(u) \/ Restarted(u)
         \/ \E e \in EventsOf(u) : Processed(u, e) \/ ProcessFailed(u, e) \/ Removed(u, e)
  PROVE  KeptRows(u)' /\ RowsWillBeStaged(u)'
<1>. SUFFICES ASSUME Careful(u), ~Is("faults"), files'[u] = <<>>, AdmittedAtEnd(u)
              PROVE  KeptRows(u)' /\ RowsWillBeStaged(u)'
  BY SameModes DEF KeptRows, RowsWillBeStaged
<1>1. /\ Sending(u)' \subseteq Sending(u) /\ \A q \in Sending(u)' : req'[q] = req[q]
      /\ task'[u].rows = task[u].rows
  BY DEF Inserted, Cancelled, Cleaned, Restarted, Processed, ProcessFailed, Marks, Removed, SameServing,
     SameRecords
<1>2. CASE InOne(u)
  <2>1. task[u].rows = {} /\ Sending(u) = {}  BY <1>2, NoRowsInOne
  <2>. QED  BY <1>1, <2>1 DEF KeptRows, RowsWillBeStaged
<1>3. CASE ~InOne(u)
  <2>1. ~Is("idle")  BY <1>3, CarefulTask
  <2>2. ASSUME NEW e \in EventsOf(u), Processed(u, e) \/ ProcessFailed(u, e) \/ Removed(u, e)
        PROVE  FALSE
    <3>1. Len(files'[u]) = Len(files[u]) /\ e.i \in 1 .. Len(files[u])
      BY <2>2 DEF Processed, ProcessFailed, Removed, Recorded
    <3>. QED  BY <3>1
  <2>3. files'[u] = files[u] /\ staged'[u] = staged[u]
    BY <2>1, <2>2 DEF Inserted, Cancelled, Cleaned, Restarted, SameData
  <2>4. /\ \A c \in task[u].rows : staged[u] # None /\ staged[u].at[c] = "good"
        /\ \A q \in Sending(u) :
             req[q].pc = "row" => staged[u] # None /\ staged[u].at[req[q].c] = "good"
    BY <2>3 DEF KeptRows, RowsWillBeStaged
  <2>. QED  BY <1>1, <2>3, <2>4 DEF KeptRows, RowsWillBeStaged
<1>. QED  BY <1>2, <1>3

-----------------------------------------------------------------------------
(* What is read, stored and derived is what the client sent. *)

\* The staged file is whole when it is there for a completion or an event.
LEMMA ThereIsWhole ==
  ASSUME Typed, NEW u \in Task, Recorded(u), StaysStaged(u), InStep(u), Careful(u), staged[u] # None
  PROVE  /\ \A q \in Active(u) : req[q].pc \in {"inspect", "put"} => Whole(u)
         /\ EventsOf(u) # {} => Whole(u)
<1>1. CASE InOne(u)  BY <1>1 DEF Recorded
<1>2. CASE Chunked(u) /\ Once(u)  BY <1>2 DEF StaysStaged
<1>3. CASE Chunked(u) /\ Strict(u)
  <2>1. CompletesInStep(u) /\ SendsInStep(u) /\ EventsInStep(u)  BY <1>3 DEF InStep
  <2>2. (client[u].acked = Chunk \/ client[u].done) => Whole(u)  BY <2>1 DEF SendsInStep, Whole
  <2>. QED  BY <2>1, <2>2 DEF CompletesInStep, EventsInStep
<1>. QED  BY <1>1, <1>2, <1>3, CarefulTask

LEMMA ReadsGoodStep ==
  ASSUME Typed, NEW u \in Task, Recorded(u), StaysStaged(u), InStep(u), ReadsGood(u), world' = world,
         Does(u) \/ Restarted(u)
  PROVE  ReadsGood(u)'
<1>. SUFFICES ASSUME Careful(u)
              PROVE  ReadsGood(u)'
  BY SameModes DEF ReadsGood
<1>0. Careful(u)' = Careful(u)  BY SameModes
<1>1. ASSUME NEW r \in Req, SendDoes(r, u)
      PROVE  ReadsGood(u)'
  <2>1. SameActive(u)
    BY <1>1 DEF SendDoes, Wrote, Broke, Overran, Dropped, Acknowledged, BeganChunk, SendGoesOn, SendEnds,
       SendBegins
  <2>. QED  BY <2>1 DEF ReadsGood, SameActive
<1>2. ASSUME NEW r \in Req, CompletionDoes(r, u)
      PROVE  ReadsGood(u)'
  <2>1. CASE Inspected(r, u)
    <3>1. Content(u) = "good"
      BY <2>1, ThereIsWhole, WholeContent DEF Inspected, GoesOn
    <3>. QED  BY <2>1, <3>1 DEF Inspected, GoesOn, ReadsGood
  <2>2. CASE Stored(r, u)
    <3>1. Content(u) = "good"  BY <2>2, ThereIsWhole, WholeContent DEF Stored, GoesOn
    <3>. QED  BY <2>2, <3>1 DEF Stored, GoesOn, ReadsGood
  <2>3. CASE Accepted(r, u) \/ MadeFile(r, u) \/ Published(r, u)
    BY <2>3 DEF Accepted, MadeFile, Published, GoesOn, ReadsGood
  <2>4. CASE Loaded(r, u) \/ Received(r, u)
    BY <2>4 DEF Loaded, Received, Starts, ReadsGood
  <2>5. CASE Refused(r, u) \/ Marked(r, u) \/ Abandoned(r, u) \/ MarkFailed(r, u)
    BY <2>5 DEF Refused, Marked, Abandoned, MarkFailed, Ends, ReadsGood
  <2>. QED  BY <1>2, <2>1, <2>2, <2>3, <2>4, <2>5 DEF CompletionDoes
<1>3. CASE \/ Inserted(u) \/ Cancelled(u) \/ Cleaned(u)
           \/ \E e \in EventsOf(u) : Processed(u, e) \/ ProcessFailed(u, e) \/ Removed(u, e)
  BY <1>3 DEF Inserted, Cancelled, Cleaned, Processed, ProcessFailed, Removed, SameServing, ReadsGood
<1>4. CASE Restarted(u)  BY <1>4 DEF Restarted, ReadsGood
<1>. QED  BY <1>1, <1>2, <1>3, <1>4 DEF Does

LEMMA GoodFilesStep ==
  ASSUME Typed, NEW u \in Task, Recorded(u), StaysStaged(u), InStep(u), ReadsGood(u), GoodFiles(u),
         GoodDerived(u), world' = world, Does(u) \/ Restarted(u)
  PROVE  GoodFiles(u)' /\ GoodDerived(u)'
<1>. SUFFICES ASSUME Careful(u)
              PROVE  GoodFiles(u)' /\ GoodDerived(u)'
  BY SameModes DEF GoodFiles, GoodDerived
<1>1. \A i \in 1 .. Len(files[u]) : /\ files[u][i].bytes = "good" /\ files[u][i].hash = "good"
                                    /\ files[u][i].derived \in {None, files[u][i].bytes}
  BY DEF GoodFiles, GoodDerived
<1>2. CASE files'[u] = files[u]  BY <1>1, <1>2 DEF GoodFiles, GoodDerived
<1>3. ASSUME NEW r \in Req, MadeFile(r, u)
      PROVE  GoodFiles(u)' /\ GoodDerived(u)'
  <2>1. req[r].bytes = "good" /\ req[r].hash = "good"
    <3>1. r \in Active(u) /\ req[r].pc = "record"  BY <1>3 DEF MadeFile, GoesOn
    <3>. QED  BY <3>1 DEF ReadsGood
  <2>. DEFINE n == Len(files[u]) + 1
  <2>2. /\ files'[u][n].bytes = "good" /\ files'[u][n].hash = "good"
        /\ files'[u][n].derived = None
    BY <1>3, <2>1 DEF MadeFile
  <2>3. \A i \in 1 .. Len(files'[u]) : i \in 1 .. Len(files[u]) \/ i = n
    BY <1>3 DEF MadeFile
  <2>4. \A i \in 1 .. Len(files[u]) : files'[u][i] = files[u][i]
    BY <1>3 DEF MadeFile
  <2>. HIDE DEF n
  <2>. QED  BY <1>1, <2>2, <2>3, <2>4 DEF GoodFiles, GoodDerived
<1>4. ASSUME NEW e \in EventsOf(u), Processed(u, e) \/ ProcessFailed(u, e)
      PROVE  GoodFiles(u)' /\ GoodDerived(u)'
  <2>1. staged[u] # None => Content(u) = "good"  BY ThereIsWhole, WholeContent
  <2>2. /\ e.i \in 1 .. Len(files[u]) /\ Len(files'[u]) = Len(files[u])
        /\ \A i \in 1 .. Len(files[u]) \ {e.i} : files'[u][i] = files[u][i]
        /\ files'[u][e.i].bytes = files[u][e.i].bytes /\ files'[u][e.i].hash = files[u][e.i].hash
    BY <1>4 DEF Processed, ProcessFailed
  <2>3. files'[u][e.i].derived \in {None, "good"}
    BY <1>1, <1>4, <2>1, <2>2 DEF Processed, ProcessFailed
  <2>. QED  BY <1>1, <2>2, <2>3 DEF GoodFiles, GoodDerived
<1>. QED
  BY <1>2, <1>3, <1>4 DEF Does, SendDoes, CompletionDoes, Wrote, Broke, Overran, Dropped, Acknowledged,
     BeganChunk, Loaded, Received, Refused, Accepted, Inspected, Stored, Published, Marked, Abandoned,
     MarkFailed, Inserted, Cancelled, Cleaned, Removed, SameData, Restarted

LEMMA KeptStep ==
  ASSUME Typed, Typed', \A t \in Task : Recorded(t) /\ Claimed(t) /\ Kept(t), Next, NEW t \in Task
  PROVE  Kept(t)'
<1>1. world' = world  BY WorldStays
<1>2. AdmittedAtEnd(t)' => AdmittedAtEnd(t)  BY ChargesGrow
<1>3. /\ Recorded(t) /\ Claimed(t) /\ GoodFiles(t) /\ GoodDerived(t) /\ KeptRows(t)
      /\ RowsWillBeStaged(t) /\ StaysStaged(t) /\ InStep(t) /\ ReadsGood(t)
  BY DEF Kept
<1>4. CASE Restart
  <2>1. Restarted(t)  BY <1>4, RestartEffect
  <2>2. KeptRows(t)' /\ RowsWillBeStaged(t)'  BY <1>1, <1>2, <1>3, <2>1, RowsKeptOther
  <2>3. StaysStaged(t)'  BY <1>1, <1>3, <2>1, StaysStagedOther
  <2>4. InStep(t)'  BY <1>1, <1>3, <2>1, InStepOther
  <2>5. ReadsGood(t)'  BY <1>1, <1>3, <2>1, ReadsGoodStep
  <2>6. GoodFiles(t)' /\ GoodDerived(t)'  BY <1>1, <1>3, <2>1, GoodFilesStep
  <2>. QED  BY <2>2, <2>3, <2>4, <2>5, <2>6 DEF Kept
<1>5. ASSUME NEW u \in Task, StepOf(u)
      PROVE  Kept(t)'
  <2>1. Crashed' = Crashed  BY <1>1, <1>5, CrashedStays
  <2>2. CASE t # u  BY <1>1, <1>2, <1>5, <2>1, <2>2, Frame, KeptFrame
  <2>3. CASE t = u
    <3>1. Does(t)  BY <1>3, <1>5, <2>3, StepDoes
    <3>2. KeptRows(t)' /\ RowsWillBeStaged(t)'
      BY <1>1, <1>2, <1>3, <3>1, RowsKeptSend, RowsKeptCompletion, RowsKeptOther DEF Does
    <3>3. StaysStaged(t)'
      BY <1>1, <1>3, <3>1, StaysStagedSend, StaysStagedCompletion, StaysStagedOther DEF Does
    <3>4. InStep(t)'
      BY <1>1, <1>3, <2>1, <3>1, InStepSend, InStepCompletion, InStepOther DEF Does
    <3>5. ReadsGood(t)'  BY <1>1, <1>3, <3>1, ReadsGoodStep
    <3>6. GoodFiles(t)' /\ GoodDerived(t)'  BY <1>1, <1>3, <3>1, GoodFilesStep
    <3>. QED  BY <3>2, <3>3, <3>4, <3>5, <3>6 DEF Kept
  <2>. QED  BY <2>2, <2>3
<1>. QED  BY <1>4, <1>5, OwnSteps

-----------------------------------------------------------------------------
(* The inductive invariant. *)

LEMMA ByTask ==
  /\ FilesWhole <=> \A t \in Task : GoodFiles(t)
  /\ SingleFile <=> \A t \in Task : OneFile(t)
  /\ RowsStaged <=> \A t \in Task : KeptRows(t)
  /\ DerivedFromFile <=> \A t \in Task : GoodDerived(t)
BY DEF FilesWhole, GoodFiles, SingleFile, OneFile, RowsStaged, KeptRows, DerivedFromFile, GoodDerived

\* IInv by what is proved apart.
LEMMA Parts ==
  IInv <=> /\ Typed /\ QuotaKept /\ HasRoom
           /\ \A t \in Task : Recorded(t) /\ Claimed(t) /\ OneFile(t) /\ Kept(t) /\ StaysAdmitted(t)
BY ByTask DEF IInv, Typed, Kept

\* The inductive invariant holds in every state.
THEOREM Invariance == Spec => []IInv
<1>1. Init => IInv
  BY InitTyped, InitRecorded, InitClaimed, InitKept, InitStaysAdmitted, InitHasRoom, InitQuotaKept, Parts
<1>2. IInv /\ [Next]_vars => IInv'
  <2>. SUFFICES ASSUME IInv, [Next]_vars
                PROVE  IInv'
    OBVIOUS
  <2>1. CASE UNCHANGED vars
    <3>. USE <2>1 DEF vars
    <3>1. world' = world /\ LiveRows' = LiveRows  BY DEF LiveRows, LiveRow
    <3>2. Typed'
      BY DEF IInv, Typed, TypeOK, LocalsSet, OneCompletion, Completing, InOne, Kind, Is
    <3>3. \A t \in Task : Same(t)
      BY DEF Same, SameRequests, Active, Sending, EventsOf, Completing
    <3>4. \A t \in Task : Recorded(t)' /\ Claimed(t)' /\ OneFile(t)'
      BY <3>1, <3>3, Parts, RecordedFrame, ClaimedFrame
    <3>5. \A t \in Task : AdmittedAtEnd(t)' = AdmittedAtEnd(t)  BY <3>1, SameAdmission
    <3>6. Crashed' = Crashed  BY DEF Crashed, Is
    <3>7. \A t \in Task : Kept(t)'  BY <3>1, <3>3, <3>5, <3>6, Parts, KeptFrame
    <3>8. \A t \in Task : StaysAdmitted(t)'
      BY <3>1, <3>5, SameModes, Parts DEF StaysAdmitted, Active, Completing
    <3>9. HasRoom' /\ QuotaKept'
      BY <3>1, SameTurn, Parts DEF HasRoom, QuotaKept, Underway, Active, Completing, Personal,
         Q!ChargedWorkspaceBytes
    <3>10. (/\ Typed /\ QuotaKept /\ HasRoom
            /\ \A t \in Task : Recorded(t) /\ Claimed(t) /\ OneFile(t) /\ Kept(t) /\ StaysAdmitted(t))'
      BY <3>2, <3>4, <3>7, <3>8, <3>9
    <3>. QED  BY <3>10, Parts, PTL
  <2>2. CASE Next
    <3>1. /\ Typed /\ QuotaKept /\ HasRoom
          /\ \A t \in Task : Recorded(t) /\ Claimed(t) /\ OneFile(t) /\ Kept(t) /\ StaysAdmitted(t)
      BY Parts
    <3>2. Typed'  BY <2>2, <3>1, TypedStep
    <3>3. \A t \in Task : Recorded(t)' /\ Claimed(t)' /\ OneFile(t)'
      BY <2>2, <3>1, RecordedStep, ClaimedStep
    <3>4. \A t \in Task : Kept(t)' /\ StaysAdmitted(t)'
      BY <2>2, <3>1, <3>2, KeptStep, StaysAdmittedStep
    <3>5. QuotaKept' /\ HasRoom'  BY <2>2, <3>1, <3>2, QuotaKeptStep, HasRoomStep
    <3>6. (/\ Typed /\ QuotaKept /\ HasRoom
           /\ \A t \in Task : Recorded(t) /\ Claimed(t) /\ OneFile(t) /\ Kept(t) /\ StaysAdmitted(t))'
      BY <3>2, <3>3, <3>4, <3>5
    <3>. QED  BY <3>6, Parts, PTL
  <2>. QED  BY <2>1, <2>2
<1>. QED  BY <1>1, <1>2, PTL DEF Spec

\* Types, for every number of tasks, chunks and requests.
THEOREM Typing == Spec => []TypeOK
BY Invariance, PTL DEF IInv

\* However uploads, retries, failures and restarts interleave, a file that a
\* task of a careful client makes holds the client's bytes and their hash.
THEOREM FilesHoldTheBytes == Spec => []FilesWhole
BY Invariance, PTL DEF IInv

\* A task makes one file when completions do not overlap and nothing fails.
THEOREM OneFilePerTask == Spec => []SingleFile
BY Invariance, PTL DEF IInv

\* Chunk rows tell of bytes that are staged, until the file exists.
THEOREM RowsAreStaged == Spec => []RowsStaged
BY Invariance, PTL DEF IInv

\* What the worker derives comes from the bytes that the file has.
THEOREM DerivedFromTheBytes == Spec => []DerivedFromFile
BY Invariance, PTL DEF IInv

\* An organization's plan is kept though nothing is reserved, when completions
\* do not overlap, and the drive's quota when one upload is open at a time: its
\* owner's, or without Valve that of some account.
THEOREM QuotaIsKept == Spec => []QuotaKept
BY Invariance, PTL DEF IInv
=============================================================================
