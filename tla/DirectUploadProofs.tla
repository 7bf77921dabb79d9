------------------------ MODULE DirectUploadProofs ------------------------
(***************************************************************************)
(* IInv of DirectUpload is inductive; its type invariant and the safety    *)
(* properties follow.  ClaimInv comes first: nine actions touch what it    *)
(* speaks of and are proved conjunct by conjunct; all others are           *)
(* Undisturbing.  Then Linkage and LastSteps, by the same division into    *)
(* steps that are Passing and Resting and those that are not.              *)
(***************************************************************************)
EXTENDS DirectUpload, TLAPS

\* A step that makes no file, object or claim, loses no blob but a cancelled
\* one, and changes the status of unclaimed tasks from None to Uploading only.
Undisturbing ==
  /\ \A f \in File : Used(f)' = Used(f) /\ (Used(f) => file'[f].key = file[f].key)
  /\ object \subseteq object'
  /\ blob \cup cancelled \subseteq blob' \cup cancelled'
  /\ dropped \subseteq dropped'
  /\ \A t \in Task :
       /\ Claimed(t)' => Claimed(t)
       /\ Lost(t)' => Lost(t)
       /\ \/ task'[t].up = task[t].up
          \/ {task[t].up, task'[t].up} \subseteq {"None", "Uploading"}
          \/ Claimed(t) /\ task'[t].up \in {"Completed", "Failed"}
  /\ \A r \in Req :
       /\ req'[r].pc \in PastClaim => req[r].pc \in PastClaim /\ req'[r].t = req[r].t
       /\ \A S \in {BeforeFile, WithObject, Swapping, {"c_claim"}} :
            req'[r].pc \in S => req[r].pc \in S /\ req'[r].t = req[r].t
       /\ req'[r].pc \in Swapping => req'[r].old = req[r].old

\* The step formula of ExpiredStaysFailed.
ExpiredStay == \A t \in Task : task[t].status = "expired" => task'[t].up = "Failed"

\* Such steps preserve the invariant, given the parts that speak of types and
\* local variables.
LEMMA UndisturbingKeeps ==
  ASSUME ClaimInv, TypeOK', LocalsSet', Undisturbing
  PROVE  ClaimInv' /\ ExpiredStay
<1>1. \A t \in Task : Committed(t)' => Committed(t)
  BY DEF Undisturbing, Committed
<1>2. ClaimEndsUploading'
  BY DEF ClaimInv, ClaimEndsUploading, Undisturbing
<1>3. OneClaimer'
  BY DEF ClaimInv, OneClaimer, Undisturbing
<1>4. NotYetMade'
  BY <1>1 DEF ClaimInv, LocalsSet, NotYetMade, Undisturbing, BeforeFile, WithObject, Swapping
<1>5. OneFilePerTask'
  BY DEF ClaimInv, OneFilePerTask, Undisturbing
<1>6. ExpiredAlone' /\ ExpiredStay
  BY DEF ClaimInv, ExpiredAlone, Undisturbing, ExpiredStay, Lost
<1>7. BytesAwaitFile'
  BY DEF ClaimInv, BytesAwaitFile, LocalsSet, ClaimEndsUploading, Undisturbing, BeforeFile, WithObject, Swapping
<1>8. CommittedBytesKept'
  BY DEF ClaimInv, CommittedBytesKept, Undisturbing
<1>. QED
  BY <1>2, <1>3, <1>4, <1>5, <1>6, <1>7, <1>8 DEF ClaimInv

-----------------------------------------------------------------------------
\* The helpers of the handlers keep the types of the rows they write.
LEMMA GotoType ==
  ASSUME ReqOK, NEW r \in Req, NEW pc \in ReqPC, Goto(r, pc)
  PROVE  ReqOK'
BY DEF ReqOK, ReqRow, Goto

LEMMA ReturnType ==
  ASSUME ReqOK, NEW r \in Req, Return(r)
  PROVE  ReqOK'
<1>1. IdleReq \in ReqRow
  BY DEF IdleReq, ReqRow, ReqPC
<1>. QED
  BY <1>1 DEF ReqOK, Return

LEMMA MarkType ==
  ASSUME TaskOK, NEW t \in Task, MarkFailed(t) \/ MarkCompleted(t) \/ MarkProcessing(t)
  PROVE  TaskOK'
<1>1. CASE MarkFailed(t)  BY <1>1 DEF TaskOK, TaskRow, MarkFailed
<1>2. CASE MarkCompleted(t)  BY <1>2 DEF TaskOK, TaskRow, MarkCompleted
<1>3. CASE MarkProcessing(t)  BY <1>3 DEF TaskOK, TaskRow, MarkProcessing
<1>. QED
  BY <1>1, <1>2, <1>3

-----------------------------------------------------------------------------
\* A handler accepts a request.
LEMMA StartKeeps ==
  ASSUME ClaimInv, NEW r \in Req, Start(r)
  PROVE  ClaimInv' /\ ExpiredStay
<1>1. CASE PrepareNew(r)
  <2>1. TypeOK'
    <3>1. TaskOK'
      <4>1. PICK t \in Task, assist \in Assist :
               t \in Task /\ task' = [task EXCEPT ![t] = [task[t] EXCEPT !.up = "Uploading", !.assist = assist]]
        BY <1>1 DEF PrepareNew
      <4>2. [task[t] EXCEPT !.up = "Uploading", !.assist = assist] \in TaskRow
        BY <4>1, ModesAreSet DEF ClaimInv, TypeOK, TaskOK, TaskRow
      <4>. QED
        BY <4>1, <4>2 DEF ClaimInv, TypeOK, TaskOK
    <3>2. ReqOK'
      <4>1. PICK t \in Task, multi \in Multi, assist \in Assist :
               req' = [req EXCEPT ![r] = [IdleReq EXCEPT !.pc = "p_key", !.t = t, !.multi = multi, !.assist = assist]]
        BY <1>1 DEF PrepareNew
      <4>2. [IdleReq EXCEPT !.pc = "p_key", !.t = t, !.multi = multi, !.assist = assist] \in ReqRow
        BY ModesAreSet DEF IdleReq, ReqRow, ReqPC, PastClaim, BeforeFile, WithObject, Swapping
      <4>. QED
        BY <4>1, <4>2 DEF ClaimInv, TypeOK, ReqOK
    <3>. QED
      BY <1>1, <3>1, <3>2 DEF ClaimInv, TypeOK, FileOK, StoreOK, UrlOK, QueueOK, CancelOK,
           SweepOK, WorkOK, PrepareNew, store, procs, ghosts
  <2>2. LocalsSet'
    BY Distinct, <1>1 DEF ClaimInv, TypeOK, TaskOK, ReqOK, LocalsSet, Used, WithFile,
         PastClaim, BeforeFile, WithObject, Swapping, PrepareNew, IdleReq, store, procs,
         ghosts
  <2>3. Undisturbing
    BY Distinct, <1>1 DEF ClaimInv, TypeOK, TaskOK, ReqOK, Undisturbing, Lost, Claimed,
         Committing, Committed, Used, PastClaim, BeforeFile, WithObject, Swapping,
         PrepareNew, IdleReq, store, procs, ghosts
  <2>. QED  BY <2>1, <2>2, <2>3, UndisturbingKeeps
<1>2. CASE PrepareResume(r)
  <2>1. TypeOK'
    <3>1. ReqOK'
      <4>1. PICK t \in Task, multi \in Multi, assist \in Assist :
               req' = [req EXCEPT ![r] = [IdleReq EXCEPT !.pc = "r_touch", !.t = t, !.multi = multi,
                        !.mpid = task[t].mpid, !.assist = IF assist THEN TRUE ELSE task[t].assist]]
        BY <1>2 DEF PrepareResume
      <4>2. [IdleReq EXCEPT !.pc = "r_touch", !.t = t, !.multi = multi,
                        !.mpid = task[t].mpid, !.assist = IF assist THEN TRUE ELSE task[t].assist] \in ReqRow
        BY ModesAreSet DEF ClaimInv, TypeOK, TaskOK, TaskRow, IdleReq, ReqRow, ReqPC, PastClaim,
       BeforeFile, WithObject, Swapping
      <4>. QED
        BY <4>1, <4>2 DEF ClaimInv, TypeOK, ReqOK
    <3>. QED
      BY <1>2, <3>1 DEF ClaimInv, TypeOK, TaskOK, FileOK, StoreOK, UrlOK, QueueOK, CancelOK,
           SweepOK, WorkOK, PrepareResume, store, procs, ghosts
  <2>2. LocalsSet'
    BY Distinct, <1>2 DEF ClaimInv, TypeOK, ReqOK, LocalsSet, Used, WithFile, PastClaim,
         BeforeFile, WithObject, Swapping, PrepareResume, IdleReq, store, procs, ghosts
  <2>3. Undisturbing
    BY Distinct, <1>2 DEF ClaimInv, TypeOK, ReqOK, Undisturbing, Lost, Claimed, Committing,
         Committed, Used, PastClaim, BeforeFile, WithObject, Swapping, PrepareResume,
         IdleReq, store, procs, ghosts
  <2>. QED  BY <2>1, <2>2, <2>3, UndisturbingKeeps
<1>3. CASE PresignRead(r)
  <2>1. TypeOK'
    <3>1. ReqOK'
      <4>1. PICK t \in Task, p \in Part :
               req' = [req EXCEPT ![r] = [IdleReq EXCEPT !.pc = "s_return", !.t = t, !.part = p]]
        BY <1>3 DEF PresignRead
      <4>2. [IdleReq EXCEPT !.pc = "s_return", !.t = t, !.part = p] \in ReqRow
        BY DEF IdleReq, ReqRow, ReqPC, PastClaim, BeforeFile, WithObject, Swapping
      <4>. QED
        BY <4>1, <4>2 DEF ClaimInv, TypeOK, ReqOK
    <3>. QED
      BY <1>3, <3>1 DEF ClaimInv, TypeOK, TaskOK, FileOK, StoreOK, UrlOK, QueueOK, CancelOK,
           SweepOK, WorkOK, PresignRead, store, procs, ghosts
  <2>2. LocalsSet'
    BY Distinct, <1>3 DEF ClaimInv, TypeOK, ReqOK, LocalsSet, Used, WithFile, PastClaim,
         BeforeFile, WithObject, Swapping, PresignRead, IdleReq, store, procs, ghosts
  <2>3. Undisturbing
    BY Distinct, <1>3 DEF ClaimInv, TypeOK, ReqOK, Undisturbing, Lost, Claimed, Committing,
         Committed, Used, PastClaim, BeforeFile, WithObject, Swapping, PresignRead,
         IdleReq, store, procs, ghosts
  <2>. QED  BY <2>1, <2>2, <2>3, UndisturbingKeeps
<1>4. CASE CompleteRead(r)
  <2>1. TypeOK'
    <3>1. ReqOK'
      <4>1. PICK t \in Task :
               req' = [req EXCEPT ![r] = [IdleReq EXCEPT !.pc = IF task[t].mpid THEN "c_list" ELSE "c_stat",
                        !.t = t, !.assist = task[t].assist]]
        BY <1>4 DEF CompleteRead
      <4>2. [IdleReq EXCEPT !.pc = IF task[t].mpid THEN "c_list" ELSE "c_stat",
                        !.t = t, !.assist = task[t].assist] \in ReqRow
        BY DEF ClaimInv, TypeOK, TaskOK, TaskRow, IdleReq, ReqRow, ReqPC, PastClaim, BeforeFile,
       WithObject, Swapping
      <4>. QED
        BY <4>1, <4>2 DEF ClaimInv, TypeOK, ReqOK
    <3>. QED
      BY <1>4, <3>1 DEF ClaimInv, TypeOK, TaskOK, FileOK, StoreOK, UrlOK, QueueOK, CancelOK,
           SweepOK, WorkOK, CompleteRead, store, procs, ghosts
  <2>2. LocalsSet'
    BY Distinct, <1>4 DEF ClaimInv, TypeOK, ReqOK, LocalsSet, Used, WithFile, PastClaim,
         BeforeFile, WithObject, Swapping, CompleteRead, IdleReq, store, procs, ghosts
  <2>3. Undisturbing
    BY Distinct, <1>4 DEF ClaimInv, TypeOK, ReqOK, Undisturbing, Lost, Claimed, Committing,
         Committed, Used, PastClaim, BeforeFile, WithObject, Swapping, CompleteRead,
         IdleReq, store, procs, ghosts
  <2>. QED  BY <2>1, <2>2, <2>3, UndisturbingKeeps
<1>. QED
  BY <1>1, <1>2, <1>3, <1>4 DEF Start

\* prepareDirectUpload and presignUploadPart never reach a task row
\* that a completion or the sweep relies on.
LEMMA PrepareKeeps ==
  ASSUME ClaimInv, NEW r \in Req, Prepare(r)
  PROVE  ClaimInv' /\ ExpiredStay
<1>1. CASE PrepareSourceKey(r)
  <2>1. req[r].t \in Task  BY <1>1 DEF ClaimInv, LocalsSet, PrepareSourceKey
  <2>2. TypeOK'
    <3>1. TaskOK'  BY <1>1, <2>1 DEF ClaimInv, TypeOK, TaskOK, TaskRow, PrepareSourceKey, Goto
    <3>2. ReqOK'
      BY <1>1, <2>1, GotoType DEF ClaimInv, TypeOK, PrepareSourceKey, ReqPC, PastClaim,
           BeforeFile, WithObject, Swapping
    <3>. QED
      BY <1>1, <3>1, <3>2 DEF ClaimInv, TypeOK, FileOK, StoreOK, UrlOK, QueueOK, CancelOK,
           SweepOK, WorkOK, PrepareSourceKey, store, procs, ghosts, Goto
  <2>3. LocalsSet'
    BY Distinct, <1>1, <2>1 DEF ClaimInv, TypeOK, TaskOK, ReqOK, LocalsSet, Used, WithFile,
         PastClaim, BeforeFile, WithObject, Swapping, PrepareSourceKey, Goto, store, procs,
         ghosts
  <2>4. Undisturbing
    BY Distinct, <1>1, <2>1 DEF ClaimInv, TypeOK, TaskOK, ReqOK, Undisturbing, Lost, Claimed,
         Committing, Committed, Used, PastClaim, BeforeFile, WithObject, Swapping,
         PrepareSourceKey, Goto, store, procs, ghosts
  <2>. QED  BY <2>2, <2>3, <2>4, UndisturbingKeeps
<1>2. CASE PrepareSession(r)
  <2>1. req[r].t \in Task  BY <1>2 DEF ClaimInv, LocalsSet, PrepareSession
  <2>2. TypeOK'
    <3>1. StoreOK'
      BY <1>2, <2>1 DEF ClaimInv, TypeOK, StoreOK, Key, ghosts, PrepareSession, Goto
    <3>2. ReqOK'
      BY <1>2, <2>1, GotoType DEF ClaimInv, TypeOK, PrepareSession, ReqPC, PastClaim,
           BeforeFile, WithObject, Swapping
    <3>. QED
      BY <1>2, <3>1, <3>2 DEF ClaimInv, TypeOK, TaskOK, FileOK, UrlOK, QueueOK, CancelOK,
           SweepOK, WorkOK, PrepareSession, procs, ghosts, Goto
  <2>3. LocalsSet'
    BY Distinct, <1>2, <2>1 DEF ClaimInv, TypeOK, ReqOK, LocalsSet, Used, WithFile, PastClaim,
         BeforeFile, WithObject, Swapping, PrepareSession, Goto, procs, ghosts
  <2>4. Undisturbing
    BY Distinct, <1>2, <2>1 DEF ClaimInv, TypeOK, ReqOK, Undisturbing, Lost, Claimed,
         Committing, Committed, Used, PastClaim, BeforeFile, WithObject, Swapping,
         PrepareSession, Goto, procs, ghosts
  <2>. QED  BY <2>2, <2>3, <2>4, UndisturbingKeeps
<1>3. CASE PrepareUploadId(r)
  <2>1. req[r].t \in Task  BY <1>3 DEF ClaimInv, LocalsSet, PrepareUploadId
  <2>2. TypeOK'
    <3>1. TaskOK'  BY <1>3, <2>1 DEF ClaimInv, TypeOK, TaskOK, TaskRow, PrepareUploadId, Goto
    <3>2. ReqOK'
      BY <1>3, <2>1, GotoType DEF ClaimInv, TypeOK, PrepareUploadId, ReqPC, PastClaim,
           BeforeFile, WithObject, Swapping
    <3>. QED
      BY <1>3, <3>1, <3>2 DEF ClaimInv, TypeOK, FileOK, StoreOK, UrlOK, QueueOK, CancelOK,
           SweepOK, WorkOK, PrepareUploadId, store, procs, ghosts, Goto
  <2>3. LocalsSet'
    BY Distinct, <1>3, <2>1 DEF ClaimInv, TypeOK, TaskOK, ReqOK, LocalsSet, Used, WithFile,
         PastClaim, BeforeFile, WithObject, Swapping, PrepareUploadId, Goto, store, procs,
         ghosts
  <2>4. Undisturbing
    BY Distinct, <1>3, <2>1 DEF ClaimInv, TypeOK, TaskOK, ReqOK, Undisturbing, Lost, Claimed,
         Committing, Committed, Used, PastClaim, BeforeFile, WithObject, Swapping,
         PrepareUploadId, Goto, store, procs, ghosts
  <2>. QED  BY <2>2, <2>3, <2>4, UndisturbingKeeps
<1>4. CASE PrepareReturn(r)
  <2>1. req[r].t \in Task  BY <1>4 DEF ClaimInv, LocalsSet, PrepareReturn
  <2>2. TypeOK'
    <3>1. UrlOK'  BY <1>4, <2>1 DEF ClaimInv, TypeOK, UrlOK, PrepareReturn, IdleReq, Return
    <3>2. ReqOK'  BY <1>4, <2>1, ReturnType DEF ClaimInv, TypeOK, PrepareReturn
    <3>. QED
      BY <1>4, <3>1, <3>2 DEF ClaimInv, TypeOK, TaskOK, FileOK, StoreOK, QueueOK, CancelOK,
           SweepOK, WorkOK, PrepareReturn, store, procs, ghosts, Return
  <2>3. LocalsSet'
    BY Distinct, <1>4, <2>1 DEF ClaimInv, TypeOK, ReqOK, LocalsSet, Used, WithFile, PastClaim,
         BeforeFile, WithObject, Swapping, PrepareReturn, IdleReq, Return, store, procs,
         ghosts
  <2>4. Undisturbing
    BY Distinct, <1>4, <2>1 DEF ClaimInv, TypeOK, ReqOK, Undisturbing, Lost, Claimed,
         Committing, Committed, Used, PastClaim, BeforeFile, WithObject, Swapping,
         PrepareReturn, IdleReq, Return, store, procs, ghosts
  <2>. QED  BY <2>2, <2>3, <2>4, UndisturbingKeeps
<1>5. CASE ResumeTouch(r)
  <2>1. req[r].t \in Task  BY <1>5 DEF ClaimInv, LocalsSet, ResumeTouch
  <2>2. TypeOK'
    <3>1. TaskOK'
      <4>1. req[r].assist \in BOOLEAN
        BY <1>5, <2>1 DEF ClaimInv, TypeOK, ReqOK, ReqRow
      <4>. QED
        BY <1>5, <2>1, <4>1 DEF ClaimInv, TypeOK, TaskOK, TaskRow, ResumeTouch
    <3>2. ReqOK'
      BY <1>5, <2>1, GotoType DEF ClaimInv, TypeOK, ResumeTouch, ReqPC, PastClaim, BeforeFile,
           WithObject, Swapping
    <3>. QED
      BY <1>5, <3>1, <3>2 DEF ClaimInv, TypeOK, FileOK, StoreOK, UrlOK, QueueOK, CancelOK,
           SweepOK, WorkOK, ResumeTouch, store, procs, ghosts, Goto
  <2>3. LocalsSet'
    BY Distinct, <1>5, <2>1 DEF ClaimInv, TypeOK, TaskOK, ReqOK, LocalsSet, Used, WithFile,
         PastClaim, BeforeFile, WithObject, Swapping, ResumeTouch, Goto, store, procs,
         ghosts
  <2>4. Undisturbing
    BY Distinct, <1>5, <2>1 DEF ClaimInv, TypeOK, TaskOK, ReqOK, Undisturbing, Lost, Claimed,
         Committing, Committed, Used, PastClaim, BeforeFile, WithObject, Swapping,
         ResumeTouch, Goto, store, procs, ghosts
  <2>. QED  BY <2>2, <2>3, <2>4, UndisturbingKeeps
<1>6. CASE ResumeReturn(r)
  <2>1. req[r].t \in Task  BY <1>6 DEF ClaimInv, LocalsSet, ResumeReturn
  <2>2. TypeOK'
    <3>1. UrlOK'  BY <1>6, <2>1 DEF ClaimInv, TypeOK, UrlOK, ResumeReturn, IdleReq, Return
    <3>2. ReqOK'  BY <1>6, <2>1, ReturnType DEF ClaimInv, TypeOK, ResumeReturn
    <3>. QED
      BY <1>6, <3>1, <3>2 DEF ClaimInv, TypeOK, TaskOK, FileOK, StoreOK, QueueOK, CancelOK,
           SweepOK, WorkOK, ResumeReturn, store, procs, ghosts, Return
  <2>3. LocalsSet'
    BY Distinct, <1>6, <2>1 DEF ClaimInv, TypeOK, ReqOK, LocalsSet, Used, WithFile, PastClaim,
         BeforeFile, WithObject, Swapping, ResumeReturn, IdleReq, Return, store, procs,
         ghosts
  <2>4. Undisturbing
    BY Distinct, <1>6, <2>1 DEF ClaimInv, TypeOK, ReqOK, Undisturbing, Lost, Claimed,
         Committing, Committed, Used, PastClaim, BeforeFile, WithObject, Swapping,
         ResumeReturn, IdleReq, Return, store, procs, ghosts
  <2>. QED  BY <2>2, <2>3, <2>4, UndisturbingKeeps
<1>7. CASE PresignReturn(r)
  <2>1. req[r].t \in Task /\ req[r].part \in Part
    BY <1>7 DEF ClaimInv, LocalsSet, PresignReturn
  <2>2. TypeOK'
    <3>1. TaskOK'
      BY <1>7, <2>1 DEF ClaimInv, TypeOK, TaskOK, TaskRow, PresignReturn, IdleReq, Return
    <3>2. UrlOK'  BY <1>7, <2>1 DEF ClaimInv, TypeOK, UrlOK, PresignReturn, IdleReq, Return
    <3>3. ReqOK'  BY <1>7, <2>1, ReturnType DEF ClaimInv, TypeOK, PresignReturn
    <3>. QED
      BY <1>7, <3>1, <3>2, <3>3 DEF ClaimInv, TypeOK, FileOK, StoreOK, QueueOK, CancelOK,
           SweepOK, WorkOK, PresignReturn, store, procs, ghosts, Return
  <2>3. LocalsSet'
    BY Distinct, <1>7, <2>1 DEF ClaimInv, TypeOK, TaskOK, ReqOK, LocalsSet, Used, WithFile,
         PastClaim, BeforeFile, WithObject, Swapping, PresignReturn, IdleReq, Return,
         store, procs, ghosts
  <2>4. Undisturbing
    BY Distinct, <1>7, <2>1 DEF ClaimInv, TypeOK, TaskOK, ReqOK, Undisturbing, Lost, Claimed,
         Committing, Committed, Used, PastClaim, BeforeFile, WithObject, Swapping,
         PresignReturn, IdleReq, Return, store, procs, ghosts
  <2>. QED  BY <2>2, <2>3, <2>4, UndisturbingKeeps
<1>. QED
  BY <1>1, <1>2, <1>3, <1>4, <1>5, <1>6, <1>7 DEF Prepare

\* completeDirectUpload.
LEMMA CompleteKeeps ==
  ASSUME ClaimInv, NEW r \in Req, Complete(r)
  PROVE  ClaimInv' /\ ExpiredStay
<1>1. CASE CompleteListParts(r)
  <2>1. req[r].t \in Task  BY <1>1 DEF ClaimInv, LocalsSet, CompleteListParts
  <2>2. TypeOK'
    <3>1. ReqOK'
      BY <1>1, <2>1, GotoType, ReturnType DEF ClaimInv, TypeOK, CompleteListParts, ReqPC,
           PastClaim, BeforeFile, WithObject, Swapping
    <3>. QED
      BY <1>1, <3>1 DEF ClaimInv, TypeOK, TaskOK, FileOK, StoreOK, UrlOK, QueueOK, CancelOK,
           SweepOK, WorkOK, CompleteListParts, store, procs, ghosts, Goto, Return
  <2>3. LocalsSet'
    BY Distinct, <1>1, <2>1 DEF ClaimInv, TypeOK, ReqOK, LocalsSet, Used, WithFile, PastClaim,
         BeforeFile, WithObject, Swapping, CompleteListParts, Goto, IdleReq, Return, store,
         procs, ghosts, ReqRow
  <2>4. Undisturbing
    BY Distinct, <1>1, <2>1 DEF ClaimInv, TypeOK, ReqOK, Undisturbing, Lost, Claimed,
         Committing, Committed, Used, PastClaim, BeforeFile, WithObject, Swapping,
         CompleteListParts, Goto, IdleReq, Return, store, procs, ghosts, ReqRow
  <2>. QED  BY <2>2, <2>3, <2>4, UndisturbingKeeps
<1>2. CASE CompleteAssemble(r)
  <2>1. req[r].t \in Task  BY <1>2 DEF ClaimInv, LocalsSet, CompleteAssemble
  <2>2. TypeOK'
    <3>1. StoreOK'
      BY <1>2, <2>1 DEF ClaimInv, TypeOK, StoreOK, Key, ghosts, CompleteAssemble, Goto,
           IdleReq, Return
    <3>2. ReqOK'
      BY <1>2, <2>1, GotoType, ReturnType DEF ClaimInv, TypeOK, CompleteAssemble, ReqPC,
           PastClaim, BeforeFile, WithObject, Swapping
    <3>. QED
      BY <1>2, <3>1, <3>2 DEF ClaimInv, TypeOK, TaskOK, FileOK, UrlOK, QueueOK, CancelOK,
           SweepOK, WorkOK, CompleteAssemble, procs, ghosts, Goto, Return
  <2>3. LocalsSet'
    BY Distinct, <1>2, <2>1 DEF ClaimInv, TypeOK, ReqOK, LocalsSet, Used, WithFile, PastClaim,
         BeforeFile, WithObject, Swapping, CompleteAssemble, Goto, IdleReq, Return, procs,
         ghosts, ReqRow
  <2>4. Undisturbing
    BY Distinct, <1>2, <2>1 DEF ClaimInv, TypeOK, ReqOK, Undisturbing, Lost, Claimed,
         Committing, Committed, Used, PastClaim, BeforeFile, WithObject, Swapping,
         CompleteAssemble, Goto, IdleReq, Return, procs, ghosts, ReqRow
  <2>. QED  BY <2>2, <2>3, <2>4, UndisturbingKeeps
<1>3. CASE CompleteStat(r)
  <2>1. req[r].t \in Task  BY <1>3 DEF ClaimInv, LocalsSet, CompleteStat
  <2>2. TypeOK'
    <3>1. ReqOK'
      BY <1>3, <2>1, GotoType, ReturnType DEF ClaimInv, TypeOK, CompleteStat, ReqPC, PastClaim,
           BeforeFile, WithObject, Swapping
    <3>. QED
      BY <1>3, <3>1 DEF ClaimInv, TypeOK, TaskOK, FileOK, StoreOK, UrlOK, QueueOK, CancelOK,
           SweepOK, WorkOK, CompleteStat, store, procs, ghosts, Goto, Return
  <2>3. LocalsSet'
    BY Distinct, <1>3, <2>1 DEF ClaimInv, TypeOK, ReqOK, LocalsSet, Used, WithFile, PastClaim,
         BeforeFile, WithObject, Swapping, CompleteStat, Goto, IdleReq, Return, store,
         procs, ghosts, ReqRow
  <2>4. ClaimEndsUploading'
    BY Distinct, <1>3, <2>1 DEF ClaimInv, TypeOK, ReqOK, LocalsSet, ClaimEndsUploading,
         Claimed, Committing, Committed, Used, PastClaim, BeforeFile, WithObject, Swapping,
         WithFile, CompleteStat, Goto, IdleReq, Return, store, procs, ghosts, ReqRow
  <2>5. OneClaimer'
    BY Distinct, <1>3, <2>1 DEF ClaimInv, TypeOK, ReqOK, LocalsSet, OneClaimer, PastClaim,
         BeforeFile, WithObject, Swapping, Used, WithFile, CompleteStat, Goto, IdleReq,
         Return, store, procs, ghosts, ReqRow
  <2>6. NotYetMade'
    BY Distinct, <1>3, <2>1 DEF ClaimInv, TypeOK, ReqOK, LocalsSet, NotYetMade, BeforeFile,
         WithObject, Swapping, Committed, Used, WithFile, PastClaim, CompleteStat, Goto,
         IdleReq, Return, store, procs, ghosts, ReqRow
  <2>7. ExpiredAlone'
    BY Distinct, <1>3, <2>1 DEF ClaimInv, TypeOK, ReqOK, LocalsSet, ExpiredAlone, Lost,
         Claimed, Committing, Committed, Used, PastClaim, BeforeFile, WithObject, Swapping,
         WithFile, CompleteStat, Goto, IdleReq, Return, store, procs, ghosts, ReqRow
  <2>8. BytesAwaitFile'
    BY Distinct, <1>3, <2>1 DEF ClaimInv, TypeOK, ReqOK, LocalsSet, BytesAwaitFile, BeforeFile,
         WithObject, Swapping, Used, WithFile, PastClaim, CompleteStat, Goto, IdleReq,
         Return, store, procs, ghosts, ReqRow
  <2>9. ExpiredStay
    BY Distinct, <1>3, <2>1 DEF ClaimInv, ExpiredStay, ExpiredAlone, Lost, CompleteStat, Goto,
         IdleReq, Return, store, procs, ghosts
  <2>. QED
    BY <1>3, <2>2, <2>3, <2>4, <2>5, <2>6, <2>7, <2>8, <2>9 DEF ClaimInv, OneFilePerTask, Used,
         CommittedBytesKept, CompleteStat, store, procs, ghosts, Goto, Return
<1>4. CASE CompleteClaim(r)
  <2>1. req[r].t \in Task  BY <1>4 DEF ClaimInv, LocalsSet, CompleteClaim
  <2>2. TypeOK'
    <3>1. TaskOK'  BY <1>4, <2>1, MarkType DEF ClaimInv, TypeOK, CompleteClaim
    <3>2. ReqOK'
      BY <1>4, <2>1, GotoType DEF ClaimInv, TypeOK, CompleteClaim, ReqPC, PastClaim,
           BeforeFile, WithObject, Swapping
    <3>. QED
      BY <1>4, <3>1, <3>2 DEF ClaimInv, TypeOK, FileOK, StoreOK, UrlOK, QueueOK, CancelOK,
           SweepOK, WorkOK, CompleteClaim, store, procs, ghosts, Goto, MarkProcessing
  <2>3. LocalsSet'
    BY Distinct, <1>4, <2>1 DEF ClaimInv, TypeOK, ReqOK, LocalsSet, Used, WithFile, PastClaim,
         BeforeFile, WithObject, Swapping, CompleteClaim, Goto, MarkProcessing, store,
         procs, ghosts
  <2>4. ClaimEndsUploading'
    BY Distinct, <1>4, <2>1 DEF ClaimInv, TypeOK, TaskOK, ReqOK, LocalsSet, ClaimEndsUploading,
         Claimed, Committing, Committed, Used, PastClaim, BeforeFile, WithObject, Swapping,
         WithFile, CompleteClaim, Goto, MarkProcessing, store, procs, ghosts
  <2>5. OneClaimer'
    BY Distinct, <1>4, <2>1 DEF ClaimInv, TypeOK, ReqOK, LocalsSet, OneClaimer, PastClaim,
         BeforeFile, WithObject, Swapping, Used, WithFile, CompleteClaim, Goto,
         MarkProcessing, store, procs, ghosts, ClaimEndsUploading, Claimed, Committing,
         Committed
  <2>6. NotYetMade'
    BY Distinct, <1>4, <2>1 DEF ClaimInv, TypeOK, ReqOK, LocalsSet, NotYetMade, BeforeFile,
         WithObject, Swapping, Committed, Used, WithFile, PastClaim, CompleteClaim, Goto,
         MarkProcessing, store, procs, ghosts, ClaimEndsUploading, Claimed, Committing
  <2>7. ExpiredAlone'
    BY Distinct, <1>4, <2>1 DEF ClaimInv, TypeOK, TaskOK, ReqOK, LocalsSet, ExpiredAlone, Lost,
         Claimed, Committing, Committed, Used, PastClaim, BeforeFile, WithObject, Swapping,
         WithFile, CompleteClaim, Goto, MarkProcessing, store, procs, ghosts
  <2>8. BytesAwaitFile'
    BY Distinct, <1>4, <2>1 DEF ClaimInv, TypeOK, TaskOK, ReqOK, LocalsSet, BytesAwaitFile,
         BeforeFile, WithObject, Swapping, Used, WithFile, PastClaim, CompleteClaim, Goto,
         MarkProcessing, store, procs, ghosts
  <2>9. ExpiredStay
    BY Distinct, <1>4, <2>1 DEF ClaimInv, TypeOK, TaskOK, ExpiredStay, ExpiredAlone, Lost,
         CompleteClaim, Goto, MarkProcessing, store, procs, ghosts
  <2>. QED
    BY <1>4, <2>2, <2>3, <2>4, <2>5, <2>6, <2>7, <2>8, <2>9 DEF ClaimInv, OneFilePerTask, Used,
         CommittedBytesKept, CompleteClaim, store, procs, ghosts, Goto, MarkProcessing
<1>5. CASE CompleteLost(r)
  <2>1. req[r].t \in Task  BY <1>5 DEF ClaimInv, LocalsSet, CompleteLost
  <2>2. TypeOK'
    <3>1. ReqOK'  BY <1>5, <2>1, ReturnType DEF ClaimInv, TypeOK, CompleteLost
    <3>. QED
      BY <1>5, <3>1 DEF ClaimInv, TypeOK, TaskOK, FileOK, StoreOK, UrlOK, QueueOK, CancelOK,
           SweepOK, WorkOK, CompleteLost, store, procs, ghosts, Return
  <2>3. LocalsSet'
    BY Distinct, <1>5, <2>1 DEF ClaimInv, TypeOK, ReqOK, LocalsSet, Used, WithFile, PastClaim,
         BeforeFile, WithObject, Swapping, CompleteLost, IdleReq, Return, store, procs,
         ghosts
  <2>4. Undisturbing
    BY Distinct, <1>5, <2>1 DEF ClaimInv, TypeOK, ReqOK, Undisturbing, Lost, Claimed,
         Committing, Committed, Used, PastClaim, BeforeFile, WithObject, Swapping,
         CompleteLost, IdleReq, Return, store, procs, ghosts
  <2>. QED  BY <2>2, <2>3, <2>4, UndisturbingKeeps
<1>6. CASE CreateStoredObject(r)
  <2>1. req[r].t \in Task  BY <1>6 DEF ClaimInv, LocalsSet, CreateStoredObject
  <2>2. TypeOK'
    <3>1. StoreOK'
      BY <1>6, <2>1 DEF ClaimInv, TypeOK, StoreOK, Key, ghosts, CreateStoredObject, Goto
    <3>2. ReqOK'
      BY <1>6, <2>1, GotoType DEF ClaimInv, TypeOK, CreateStoredObject, ReqPC, PastClaim,
           BeforeFile, WithObject, Swapping
    <3>. QED
      BY <1>6, <3>1, <3>2 DEF ClaimInv, TypeOK, TaskOK, FileOK, UrlOK, QueueOK, CancelOK,
           SweepOK, WorkOK, CreateStoredObject, procs, ghosts, Goto
  <2>3. LocalsSet'
    BY Distinct, <1>6, <2>1 DEF ClaimInv, TypeOK, ReqOK, LocalsSet, Used, WithFile, PastClaim,
         BeforeFile, WithObject, Swapping, CreateStoredObject, Goto, procs, ghosts
  <2>4. ClaimEndsUploading'
    BY Distinct, <1>6, <2>1 DEF ClaimInv, TypeOK, ReqOK, LocalsSet, ClaimEndsUploading,
         Claimed, Committing, Committed, Used, PastClaim, BeforeFile, WithObject, Swapping,
         WithFile, CreateStoredObject, Goto, procs, ghosts
  <2>5. OneClaimer'
    BY Distinct, <1>6, <2>1 DEF ClaimInv, TypeOK, ReqOK, LocalsSet, OneClaimer, PastClaim,
         BeforeFile, WithObject, Swapping, Used, WithFile, CreateStoredObject, Goto, procs,
         ghosts
  <2>6. NotYetMade'
    BY Distinct, <1>6, <2>1 DEF ClaimInv, TypeOK, ReqOK, LocalsSet, NotYetMade, BeforeFile,
         WithObject, Swapping, Committed, Used, WithFile, PastClaim, CreateStoredObject,
         Goto, procs, ghosts
  <2>7. ExpiredAlone'
    BY Distinct, <1>6, <2>1 DEF ClaimInv, TypeOK, ReqOK, LocalsSet, ExpiredAlone, Lost,
         Claimed, Committing, Committed, Used, PastClaim, BeforeFile, WithObject, Swapping,
         WithFile, CreateStoredObject, Goto, procs, ghosts
  <2>8. BytesAwaitFile'
    BY Distinct, <1>6, <2>1 DEF ClaimInv, TypeOK, ReqOK, LocalsSet, BytesAwaitFile, BeforeFile,
         WithObject, Swapping, Used, WithFile, PastClaim, CreateStoredObject, Goto, procs,
         ghosts
  <2>9. CommittedBytesKept'
    BY Distinct, <1>6, <2>1 DEF ClaimInv, TypeOK, LocalsSet, CommittedBytesKept, Used,
         WithFile, PastClaim, BeforeFile, WithObject, Swapping, CreateStoredObject, Goto,
         procs, ghosts
  <2>10. ExpiredStay
    BY Distinct, <1>6, <2>1 DEF ClaimInv, ExpiredStay, ExpiredAlone, Lost, CreateStoredObject,
         Goto, procs, ghosts
  <2>. QED
    BY <1>6, <2>2, <2>3, <2>4, <2>5, <2>6, <2>7, <2>8, <2>9, <2>10 DEF ClaimInv,
         OneFilePerTask, Used, CreateStoredObject, procs, ghosts, Goto
<1>7. CASE CreateUploadedFile(r)
  <2>1. req[r].t \in Task  BY <1>7 DEF ClaimInv, LocalsSet, CreateUploadedFile
  <2>2. TypeOK'
    <3>1. FileOK'  BY <1>7, <2>1 DEF ClaimInv, TypeOK, FileOK, FileRow, Key, CreateUploadedFile
    <3>2. ReqOK'
      <4>1. PICK f \in File :
               req' = [req EXCEPT ![r] = [req[r] EXCEPT !.pc = "c_pending", !.f = f]]
        BY <1>7 DEF CreateUploadedFile
      <4>2. [req[r] EXCEPT !.pc = "c_pending", !.f = f] \in ReqRow
        BY DEF ClaimInv, TypeOK, ReqOK, ReqRow, ReqPC, PastClaim, BeforeFile, WithObject, Swapping
      <4>. QED
        BY <4>1, <4>2 DEF ClaimInv, TypeOK, ReqOK
    <3>. QED
      BY <1>7, <3>1, <3>2 DEF ClaimInv, TypeOK, TaskOK, StoreOK, UrlOK, QueueOK, CancelOK,
           SweepOK, WorkOK, CreateUploadedFile, store, procs, ghosts
  <2>3. LocalsSet'
    BY Distinct, <1>7, <2>1 DEF ClaimInv, TypeOK, FileOK, ReqOK, LocalsSet, Used, WithFile,
         PastClaim, BeforeFile, WithObject, Swapping, CreateUploadedFile, store, procs,
         ghosts
  <2>4. ClaimEndsUploading'
    BY Distinct, <1>7, <2>1 DEF ClaimInv, TypeOK, FileOK, ReqOK, LocalsSet, ClaimEndsUploading,
         Claimed, Committing, Committed, Used, PastClaim, BeforeFile, WithObject, Swapping,
         WithFile, CreateUploadedFile, store, procs, ghosts
  <2>5. OneClaimer'
    BY Distinct, <1>7, <2>1 DEF ClaimInv, TypeOK, ReqOK, LocalsSet, OneClaimer, PastClaim,
         BeforeFile, WithObject, Swapping, Used, WithFile, CreateUploadedFile, store,
         procs, ghosts
  <2>6. NotYetMade'
    BY Distinct, <1>7, <2>1 DEF ClaimInv, TypeOK, FileOK, ReqOK, LocalsSet, NotYetMade,
         BeforeFile, WithObject, Swapping, Committed, Used, WithFile, PastClaim,
         CreateUploadedFile, store, procs, ghosts, OneClaimer, BytesAwaitFile
  <2>7. OneFilePerTask'
    BY Distinct, <1>7, <2>1 DEF ClaimInv, TypeOK, FileOK, LocalsSet, OneFilePerTask, Used,
         WithFile, PastClaim, BeforeFile, WithObject, Swapping, CreateUploadedFile, store,
         procs, ghosts, NotYetMade, OneClaimer, BytesAwaitFile, Committed
  <2>8. ExpiredAlone'
    BY Distinct, <1>7, <2>1 DEF ClaimInv, TypeOK, FileOK, ReqOK, LocalsSet, ExpiredAlone, Lost,
         Claimed, Committing, Committed, Used, PastClaim, BeforeFile, WithObject, Swapping,
         WithFile, CreateUploadedFile, store, procs, ghosts
  <2>9. BytesAwaitFile'
    BY Distinct, <1>7, <2>1 DEF ClaimInv, TypeOK, ReqOK, LocalsSet, BytesAwaitFile, BeforeFile,
         WithObject, Swapping, Used, WithFile, PastClaim, CreateUploadedFile, store, procs,
         ghosts
  <2>10. CommittedBytesKept'
    BY Distinct, <1>7, <2>1 DEF ClaimInv, TypeOK, FileOK, LocalsSet, CommittedBytesKept, Used,
         WithFile, PastClaim, BeforeFile, WithObject, Swapping, CreateUploadedFile, store,
         procs, ghosts, NotYetMade, OneClaimer, BytesAwaitFile, Committed
  <2>11. ExpiredStay
    BY Distinct, <1>7, <2>1 DEF ClaimInv, ExpiredStay, ExpiredAlone, Lost, CreateUploadedFile,
         store, procs, ghosts
  <2>. QED  BY <1>7, <2>2, <2>3, <2>4, <2>5, <2>6, <2>7, <2>8, <2>9, <2>10, <2>11 DEF ClaimInv
<1>8. CASE CreatePendingUploadedFile(r)
  <2>1. req[r].t \in Task /\ req[r].f \in File
    BY <1>8 DEF ClaimInv, LocalsSet, CreatePendingUploadedFile, WithFile, PastClaim,
         BeforeFile, WithObject, Swapping
  <2>2. TypeOK'
    <3>1. FileOK'
      BY <1>8, <2>1 DEF ClaimInv, TypeOK, FileOK, FileRow, Key, CreatePendingUploadedFile,
           Goto, SetFileStatus
    <3>2. ReqOK'
      BY <1>8, <2>1, GotoType DEF ClaimInv, TypeOK, CreatePendingUploadedFile, ReqPC,
           PastClaim, BeforeFile, WithObject, Swapping
    <3>. QED
      BY <1>8, <3>1, <3>2 DEF ClaimInv, TypeOK, TaskOK, StoreOK, UrlOK, QueueOK, CancelOK,
           SweepOK, WorkOK, CreatePendingUploadedFile, store, procs, ghosts, Goto,
           SetFileStatus
  <2>3. LocalsSet'
    BY Distinct, <1>8, <2>1 DEF ClaimInv, TypeOK, FileOK, ReqOK, LocalsSet, Used, WithFile,
         PastClaim, BeforeFile, WithObject, Swapping, CreatePendingUploadedFile, Goto,
         SetFileStatus, store, procs, ghosts
  <2>4. Undisturbing
    BY Distinct, <1>8, <2>1 DEF ClaimInv, TypeOK, FileOK, ReqOK, Undisturbing, Lost, Claimed,
         Committing, Committed, Used, PastClaim, BeforeFile, WithObject, Swapping,
         CreatePendingUploadedFile, Goto, SetFileStatus, store, procs, ghosts, LocalsSet,
         Key, FileRow
  <2>. QED  BY <2>2, <2>3, <2>4, UndisturbingKeeps
<1>9. CASE OverwriteRead(r)
  <2>1. req[r].t \in Task /\ Target[req[r].t] \in File
    BY <1>9, TargetFile DEF ClaimInv, LocalsSet, OverwriteRead
  <2>2. TypeOK'
    <3>1. ReqOK'
      <4>1. req' = [req EXCEPT ![r] = [req[r] EXCEPT !.pc = "c_swap", !.f = Target[req[r].t],
                          !.old = file[Target[req[r].t]].key]]
        BY <1>9 DEF OverwriteRead
      <4>2. file[Target[req[r].t]].key \in Key
        BY <2>1 DEF ClaimInv, TypeOK, FileOK, FileRow
      <4>3. req[r] \in ReqRow /\ "c_swap" \in ReqPC
        BY DEF ClaimInv, TypeOK, ReqOK, ReqPC, PastClaim, BeforeFile, WithObject, Swapping
      <4>4. [req[r] EXCEPT !.pc = "c_swap", !.f = Target[req[r].t],
                          !.old = file[Target[req[r].t]].key] \in ReqRow
        BY <2>1, <4>2, <4>3 DEF ReqRow
      <4>. QED
        BY <4>1, <4>4 DEF ClaimInv, TypeOK, ReqOK
    <3>. QED
      BY <1>9, <3>1 DEF ClaimInv, TypeOK, TaskOK, FileOK, StoreOK, UrlOK, QueueOK, CancelOK,
           SweepOK, WorkOK, OverwriteRead, store, procs, ghosts
  <2>3. LocalsSet'
    BY Distinct, <1>9, <2>1 DEF ClaimInv, TypeOK, ReqOK, LocalsSet, Used, WithFile, PastClaim,
         BeforeFile, WithObject, Swapping, OverwriteRead, store, procs, ghosts, NotYetMade,
         ReqRow, Claimed, Committed, FileOK, FileRow, Key
  <2>4. ClaimEndsUploading'
    BY Distinct, <1>9, <2>1 DEF ClaimInv, TypeOK, ReqOK, LocalsSet, ClaimEndsUploading,
         Claimed, Committing, Committed, Used, PastClaim, BeforeFile, WithObject, Swapping,
         WithFile, OverwriteRead, store, procs, ghosts, NotYetMade, ReqRow
  <2>5. OneClaimer'
    BY Distinct, <1>9, <2>1 DEF ClaimInv, TypeOK, ReqOK, LocalsSet, OneClaimer, PastClaim,
         BeforeFile, WithObject, Swapping, Used, WithFile, OverwriteRead, store, procs,
         ghosts, NotYetMade, ReqRow, Claimed, Committed
  <2>6. NotYetMade'
    BY Distinct, <1>9, <2>1 DEF ClaimInv, TypeOK, ReqOK, LocalsSet, NotYetMade, BeforeFile,
         WithObject, Swapping, Committed, Used, WithFile, PastClaim, OverwriteRead, store,
         procs, ghosts, ReqRow, Claimed
  <2>7. ExpiredAlone'
    BY Distinct, <1>9, <2>1 DEF ClaimInv, TypeOK, ReqOK, LocalsSet, ExpiredAlone, Lost,
         Claimed, Committing, Committed, Used, PastClaim, BeforeFile, WithObject, Swapping,
         WithFile, OverwriteRead, store, procs, ghosts, NotYetMade, ReqRow
  <2>8. BytesAwaitFile'
    BY Distinct, <1>9, <2>1 DEF ClaimInv, TypeOK, ReqOK, LocalsSet, BytesAwaitFile, BeforeFile,
         WithObject, Swapping, Used, WithFile, PastClaim, OverwriteRead, store, procs,
         ghosts, NotYetMade, ReqRow, Claimed, Committed
  <2>9. ExpiredStay
    BY Distinct, <1>9, <2>1 DEF ClaimInv, ExpiredStay, ExpiredAlone, Lost, OverwriteRead,
         store, procs, ghosts
  <2>. QED
    BY <1>9, <2>2, <2>3, <2>4, <2>5, <2>6, <2>7, <2>8, <2>9 DEF ClaimInv, OneFilePerTask, Used,
         CommittedBytesKept, OverwriteRead, store, procs, ghosts
<1>10. CASE OverwriteSwap(r)
  <2>1. req[r].t \in Task /\ req[r].f \in File
    BY <1>10 DEF ClaimInv, LocalsSet, OverwriteSwap, WithFile, PastClaim, BeforeFile,
         WithObject, Swapping
  <2>2. TypeOK'
    <3>1. StoreOK'
      BY <1>10, <2>1 DEF ClaimInv, TypeOK, StoreOK, Key, ghosts, OverwriteSwap, Dereferenced,
           Goto, Unlocked
    <3>2. ReqOK'
      BY <1>10, <2>1, GotoType DEF ClaimInv, TypeOK, OverwriteSwap, ReqPC, PastClaim,
           BeforeFile, WithObject, Swapping
    <3>. QED
      BY <1>10, <3>1, <3>2 DEF ClaimInv, TypeOK, TaskOK, FileOK, UrlOK, QueueOK, CancelOK,
           SweepOK, WorkOK, OverwriteSwap, procs, Goto
  <2>3. LocalsSet'
    BY Distinct, <1>10, <2>1 DEF ClaimInv, TypeOK, ReqOK, LocalsSet, Used, WithFile, PastClaim,
         BeforeFile, WithObject, Swapping, OverwriteSwap, Dereferenced, Goto, Unlocked,
         procs, NotYetMade, ReqRow
  <2>4. ClaimEndsUploading'
    BY Distinct, <1>10, <2>1 DEF ClaimInv, TypeOK, ReqOK, LocalsSet, ClaimEndsUploading,
         Claimed, Committing, Committed, Used, PastClaim, BeforeFile, WithObject, Swapping,
         WithFile, OverwriteSwap, Dereferenced, Goto, Unlocked, procs, NotYetMade, ReqRow
  <2>5. OneClaimer'
    BY Distinct, <1>10, <2>1 DEF ClaimInv, TypeOK, ReqOK, LocalsSet, OneClaimer, PastClaim,
         BeforeFile, WithObject, Swapping, Used, WithFile, OverwriteSwap, Dereferenced,
         Goto, Unlocked, procs, NotYetMade, ReqRow
  <2>6. NotYetMade'
    BY Distinct, <1>10, <2>1 DEF ClaimInv, TypeOK, ReqOK, LocalsSet, NotYetMade, BeforeFile,
         WithObject, Swapping, Committed, Used, WithFile, PastClaim, OverwriteSwap,
         Dereferenced, Goto, Unlocked, procs, ReqRow
  <2>7. ExpiredAlone'
    BY Distinct, <1>10, <2>1 DEF ClaimInv, TypeOK, ReqOK, LocalsSet, ExpiredAlone, Lost,
         Claimed, Committing, Committed, Used, PastClaim, BeforeFile, WithObject, Swapping,
         WithFile, OverwriteSwap, Dereferenced, Goto, Unlocked, procs, NotYetMade, ReqRow
  <2>8. BytesAwaitFile'
    BY Distinct, <1>10, <2>1 DEF ClaimInv, TypeOK, ReqOK, LocalsSet, BytesAwaitFile,
         BeforeFile, WithObject, Swapping, Used, WithFile, PastClaim, OverwriteSwap,
         Dereferenced, Goto, Unlocked, procs, NotYetMade, ClaimEndsUploading, Claimed,
         Committed, ReqRow
  <2>9. CommittedBytesKept'
    BY Distinct, <1>10, <2>1 DEF ClaimInv, TypeOK, LocalsSet, CommittedBytesKept, Used,
         WithFile, PastClaim, BeforeFile, WithObject, Swapping, OverwriteSwap,
         Dereferenced, Goto, Unlocked, procs, NotYetMade, ReqRow
  <2>10. ExpiredStay
    BY Distinct, <1>10, <2>1 DEF ClaimInv, ExpiredStay, ExpiredAlone, Lost, OverwriteSwap,
         Dereferenced, Goto, Unlocked, procs
  <2>. QED
    BY <1>10, <2>2, <2>3, <2>4, <2>5, <2>6, <2>7, <2>8, <2>9, <2>10 DEF ClaimInv,
         OneFilePerTask, Used, OverwriteSwap, procs, Goto
<1>11. CASE OverwriteCommit(r)
  <2>1. req[r].t \in Task /\ req[r].f \in File
    BY <1>11 DEF ClaimInv, LocalsSet, OverwriteCommit, WithFile, PastClaim, BeforeFile,
         WithObject, Swapping
  <2>2. TypeOK'
    <3>1. FileOK'
      BY <1>11, <2>1 DEF ClaimInv, TypeOK, FileOK, FileRow, Key, OverwriteCommit, Dereferenced,
           Goto
    <3>2. StoreOK'
      BY <1>11, <2>1 DEF ClaimInv, TypeOK, StoreOK, Key, ghosts, OverwriteCommit, Dereferenced,
           Goto
    <3>3. ReqOK'
      BY <1>11, <2>1, GotoType DEF ClaimInv, TypeOK, OverwriteCommit, ReqPC, PastClaim,
           BeforeFile, WithObject, Swapping
    <3>. QED
      BY <1>11, <3>1, <3>2, <3>3 DEF ClaimInv, TypeOK, TaskOK, UrlOK, QueueOK, CancelOK,
           SweepOK, WorkOK, OverwriteCommit, procs, Goto
  <2>3. LocalsSet'
    BY Distinct, <1>11, <2>1 DEF ClaimInv, TypeOK, FileOK, ReqOK, LocalsSet, Used, WithFile,
         PastClaim, BeforeFile, WithObject, Swapping, OverwriteCommit, Dereferenced, Goto,
         procs, NotYetMade, OneClaimer, ReqRow, Claimed, Committed, Committing
  <2>4. ClaimEndsUploading'
    BY Distinct, <1>11, <2>1 DEF ClaimInv, TypeOK, FileOK, ReqOK, LocalsSet,
         ClaimEndsUploading, Claimed, Committing, Committed, Used, PastClaim, BeforeFile,
         WithObject, Swapping, WithFile, OverwriteCommit, Dereferenced, Goto, procs,
         NotYetMade, OneClaimer, ReqRow
  <2>5. OneClaimer'
    BY Distinct, <1>11, <2>1 DEF ClaimInv, TypeOK, ReqOK, LocalsSet, OneClaimer, PastClaim,
         BeforeFile, WithObject, Swapping, Used, WithFile, OverwriteCommit, Dereferenced,
         Goto, procs, NotYetMade, ReqRow, Claimed, Committed, Committing
  <2>6. NotYetMade'
    BY Distinct, <1>11, <2>1 DEF ClaimInv, TypeOK, FileOK, ReqOK, LocalsSet, NotYetMade,
         BeforeFile, WithObject, Swapping, Committed, Used, WithFile, PastClaim,
         OverwriteCommit, Dereferenced, Goto, procs, OneClaimer, ReqRow, Claimed,
         Committing
  <2>7. OneFilePerTask'
    BY Distinct, <1>11, <2>1 DEF ClaimInv, TypeOK, FileOK, LocalsSet, OneFilePerTask, Used,
         WithFile, PastClaim, BeforeFile, WithObject, Swapping, OverwriteCommit,
         Dereferenced, Goto, procs, NotYetMade, OneClaimer, ReqRow, Claimed, Committed,
         Committing
  <2>8. ExpiredAlone'
    BY Distinct, <1>11, <2>1 DEF ClaimInv, TypeOK, FileOK, ReqOK, LocalsSet, ExpiredAlone,
         Lost, Claimed, Committing, Committed, Used, PastClaim, BeforeFile, WithObject,
         Swapping, WithFile, OverwriteCommit, Dereferenced, Goto, procs, NotYetMade,
         OneClaimer, ReqRow
  <2>9. BytesAwaitFile'
    BY Distinct, <1>11, <2>1 DEF ClaimInv, TypeOK, ReqOK, LocalsSet, BytesAwaitFile,
         BeforeFile, WithObject, Swapping, Used, WithFile, PastClaim, OverwriteCommit,
         Dereferenced, Goto, procs, NotYetMade, OneClaimer, ReqRow, Claimed, Committed,
         Committing
  <2>10. CommittedBytesKept'
    BY Distinct, <1>11, <2>1 DEF ClaimInv, TypeOK, FileOK, LocalsSet, CommittedBytesKept, Used,
         WithFile, PastClaim, BeforeFile, WithObject, Swapping, OverwriteCommit,
         Dereferenced, Goto, procs, NotYetMade, BytesAwaitFile, Committed, Unlocked, ReqRow
  <2>11. ExpiredStay
    BY Distinct, <1>11, <2>1 DEF ClaimInv, ExpiredStay, ExpiredAlone, Lost, OverwriteCommit,
         Dereferenced, Goto, procs
  <2>. QED  BY <1>11, <2>2, <2>3, <2>4, <2>5, <2>6, <2>7, <2>8, <2>9, <2>10, <2>11 DEF ClaimInv
<1>12. CASE OverwriteReload(r)
  <2>1. req[r].t \in Task /\ req[r].f \in File
    BY <1>12 DEF ClaimInv, LocalsSet, OverwriteReload, WithFile, PastClaim, BeforeFile,
         WithObject, Swapping
  <2>2. TypeOK'
    <3>1. ReqOK'
      BY <1>12, <2>1, GotoType DEF ClaimInv, TypeOK, OverwriteReload, ReqPC, PastClaim,
           BeforeFile, WithObject, Swapping
    <3>. QED
      BY <1>12, <3>1 DEF ClaimInv, TypeOK, TaskOK, FileOK, StoreOK, UrlOK, QueueOK, CancelOK,
           SweepOK, WorkOK, OverwriteReload, store, procs, ghosts, Goto
  <2>3. LocalsSet'
    BY Distinct, <1>12, <2>1 DEF ClaimInv, TypeOK, ReqOK, LocalsSet, Used, WithFile, PastClaim,
         BeforeFile, WithObject, Swapping, OverwriteReload, Goto, store, procs, ghosts
  <2>4. Undisturbing
    BY Distinct, <1>12, <2>1 DEF ClaimInv, TypeOK, ReqOK, Undisturbing, Lost, Claimed,
         Committing, Committed, Used, PastClaim, BeforeFile, WithObject, Swapping,
         OverwriteReload, Goto, store, procs, ghosts
  <2>. QED  BY <2>2, <2>3, <2>4, UndisturbingKeeps
<1>13. CASE CompleteLink(r)
  <2>1. req[r].t \in Task /\ req[r].f \in File
    BY <1>13 DEF ClaimInv, LocalsSet, CompleteLink, WithFile, PastClaim, BeforeFile,
         WithObject, Swapping
  <2>2. TypeOK'
    <3>1. TaskOK'  BY <1>13, <2>1 DEF ClaimInv, TypeOK, TaskOK, TaskRow, CompleteLink, Goto
    <3>2. ReqOK'
      BY <1>13, <2>1, GotoType DEF ClaimInv, TypeOK, CompleteLink, ReqPC, PastClaim,
           BeforeFile, WithObject, Swapping
    <3>. QED
      BY <1>13, <3>1, <3>2 DEF ClaimInv, TypeOK, FileOK, StoreOK, UrlOK, QueueOK, CancelOK,
           SweepOK, WorkOK, CompleteLink, store, procs, ghosts, Goto
  <2>3. LocalsSet'
    BY Distinct, <1>13, <2>1 DEF ClaimInv, TypeOK, TaskOK, ReqOK, LocalsSet, Used, WithFile,
         PastClaim, BeforeFile, WithObject, Swapping, CompleteLink, Goto, store, procs,
         ghosts
  <2>4. Undisturbing
    BY Distinct, <1>13, <2>1 DEF ClaimInv, TypeOK, TaskOK, ReqOK, Undisturbing, Lost, Claimed,
         Committing, Committed, Used, PastClaim, BeforeFile, WithObject, Swapping,
         CompleteLink, Goto, store, procs, ghosts
  <2>. QED  BY <2>2, <2>3, <2>4, UndisturbingKeeps
<1>14. CASE CreateStoredDerivedFile(r)
  <2>1. req[r].t \in Task /\ req[r].f \in File
    BY <1>14 DEF ClaimInv, LocalsSet, CreateStoredDerivedFile, WithFile, PastClaim, BeforeFile,
         WithObject, Swapping
  <2>2. TypeOK'
    <3>1. FileOK'
      BY <1>14, <2>1 DEF ClaimInv, TypeOK, FileOK, FileRow, Key, CreateStoredDerivedFile, Goto
    <3>2. ReqOK'
      BY <1>14, <2>1, GotoType DEF ClaimInv, TypeOK, CreateStoredDerivedFile, ReqPC, PastClaim,
           BeforeFile, WithObject, Swapping
    <3>. QED
      BY <1>14, <3>1, <3>2 DEF ClaimInv, TypeOK, TaskOK, StoreOK, UrlOK, QueueOK, CancelOK,
           SweepOK, WorkOK, CreateStoredDerivedFile, store, procs, ghosts, Goto
  <2>3. LocalsSet'
    BY Distinct, <1>14, <2>1 DEF ClaimInv, TypeOK, FileOK, ReqOK, LocalsSet, Used, WithFile,
         PastClaim, BeforeFile, WithObject, Swapping, CreateStoredDerivedFile, Goto, store,
         procs, ghosts
  <2>4. Undisturbing
    BY Distinct, <1>14, <2>1 DEF ClaimInv, TypeOK, FileOK, ReqOK, Undisturbing, Lost, Claimed,
         Committing, Committed, Used, PastClaim, BeforeFile, WithObject, Swapping,
         CreateStoredDerivedFile, Goto, store, procs, ghosts
  <2>. QED  BY <2>2, <2>3, <2>4, UndisturbingKeeps
<1>15. CASE CompleteTask(r)
  <2>1. req[r].t \in Task /\ req[r].f \in File
    BY <1>15 DEF ClaimInv, LocalsSet, CompleteTask, WithFile, PastClaim, BeforeFile,
         WithObject, Swapping
  <2>2. TypeOK'
    <3>1. TaskOK'  BY <1>15, <2>1, MarkType DEF ClaimInv, TypeOK, CompleteTask
    <3>2. ReqOK'
      BY <1>15, <2>1, GotoType DEF ClaimInv, TypeOK, CompleteTask, ReqPC, PastClaim,
           BeforeFile, WithObject, Swapping
    <3>. QED
      BY <1>15, <3>1, <3>2 DEF ClaimInv, TypeOK, FileOK, StoreOK, UrlOK, QueueOK, CancelOK,
           SweepOK, WorkOK, CompleteTask, store, procs, ghosts, Goto, MarkCompleted
  <2>3. LocalsSet'
    BY Distinct, <1>15, <2>1 DEF ClaimInv, TypeOK, TaskOK, ReqOK, LocalsSet, Used, WithFile,
         PastClaim, BeforeFile, WithObject, Swapping, CompleteTask, Goto, MarkCompleted,
         store, procs, ghosts
  <2>4. Undisturbing
    BY Distinct, <1>15, <2>1 DEF ClaimInv, TypeOK, TaskOK, ReqOK, Undisturbing, Lost, Claimed,
         Committing, Committed, Used, PastClaim, BeforeFile, WithObject, Swapping,
         CompleteTask, Goto, MarkCompleted, store, procs, ghosts
  <2>. QED  BY <2>2, <2>3, <2>4, UndisturbingKeeps
<1>16. CASE CompleteFile(r)
  <2>1. req[r].t \in Task /\ req[r].f \in File
    BY <1>16 DEF ClaimInv, LocalsSet, CompleteFile, WithFile, PastClaim, BeforeFile,
         WithObject, Swapping
  <2>2. TypeOK'
    <3>1. FileOK'
      BY <1>16, <2>1 DEF ClaimInv, TypeOK, FileOK, FileRow, Key, CompleteFile, IdleReq, Return,
           SetFileStatus
    <3>2. ReqOK'  BY <1>16, <2>1, ReturnType DEF ClaimInv, TypeOK, CompleteFile
    <3>. QED
      BY <1>16, <3>1, <3>2 DEF ClaimInv, TypeOK, TaskOK, StoreOK, UrlOK, QueueOK, CancelOK,
           SweepOK, WorkOK, CompleteFile, store, procs, ghosts, Return, SetFileStatus
  <2>3. LocalsSet'
    BY Distinct, <1>16, <2>1 DEF ClaimInv, TypeOK, FileOK, ReqOK, LocalsSet, Used, WithFile,
         PastClaim, BeforeFile, WithObject, Swapping, CompleteFile, IdleReq, Return,
         SetFileStatus, store, procs, ghosts
  <2>4. Undisturbing
    BY Distinct, <1>16, <2>1 DEF ClaimInv, TypeOK, FileOK, ReqOK, Undisturbing, Lost, Claimed,
         Committing, Committed, Used, PastClaim, BeforeFile, WithObject, Swapping,
         CompleteFile, IdleReq, Return, SetFileStatus, store, procs, ghosts, LocalsSet,
         Key, FileRow
  <2>. QED  BY <2>2, <2>3, <2>4, UndisturbingKeeps
<1>17. CASE CompletePublish(r)
  <2>1. req[r].t \in Task /\ req[r].f \in File
    BY <1>17 DEF ClaimInv, LocalsSet, CompletePublish, WithFile, PastClaim, BeforeFile,
         WithObject, Swapping
  <2>2. TypeOK'
    <3>1. QueueOK'
      BY <1>17, <2>1 DEF ClaimInv, TypeOK, QueueOK, Event, CompletePublish, IdleReq, Return
    <3>2. ReqOK'  BY <1>17, <2>1, ReturnType DEF ClaimInv, TypeOK, CompletePublish
    <3>. QED
      BY <1>17, <3>1, <3>2 DEF ClaimInv, TypeOK, TaskOK, FileOK, StoreOK, UrlOK, CancelOK,
           SweepOK, WorkOK, CompletePublish, store, procs, ghosts, Return
  <2>3. LocalsSet'
    BY Distinct, <1>17, <2>1 DEF ClaimInv, TypeOK, ReqOK, LocalsSet, Used, WithFile, PastClaim,
         BeforeFile, WithObject, Swapping, CompletePublish, IdleReq, Return, store, procs,
         ghosts
  <2>4. Undisturbing
    BY Distinct, <1>17, <2>1 DEF ClaimInv, TypeOK, ReqOK, Undisturbing, Lost, Claimed,
         Committing, Committed, Used, PastClaim, BeforeFile, WithObject, Swapping,
         CompletePublish, IdleReq, Return, store, procs, ghosts
  <2>. QED  BY <2>2, <2>3, <2>4, UndisturbingKeeps
<1>18. CASE CompleteFail(r)
  <2>1. req[r].t \in Task
    BY <1>18 DEF ClaimInv, LocalsSet, CompleteFail, MayFail, BeforeFile, WithObject, Swapping
  <2>2. TypeOK'
    <3>1. TaskOK'  BY <1>18, <2>1, MarkType DEF ClaimInv, TypeOK, CompleteFail
    <3>2. QueueOK'
      BY <1>18, <2>1 DEF ClaimInv, TypeOK, QueueOK, Event, CompleteFail, IdleReq, MarkFailed,
           MayFail, Return, LocalsSet, WithFile, PastClaim, BeforeFile, WithObject,
           Swapping
    <3>3. ReqOK'  BY <1>18, <2>1, ReturnType DEF ClaimInv, TypeOK, CompleteFail
    <3>. QED
      BY <1>18, <3>1, <3>2, <3>3 DEF ClaimInv, TypeOK, FileOK, StoreOK, UrlOK, CancelOK,
           SweepOK, WorkOK, CompleteFail, store, procs, ghosts, MarkFailed, Return
  <2>3. LocalsSet'
    BY Distinct, <1>18, <2>1 DEF ClaimInv, TypeOK, TaskOK, ReqOK, LocalsSet, Used, WithFile,
         PastClaim, BeforeFile, WithObject, Swapping, CompleteFail, IdleReq, MarkFailed,
         MayFail, Return, store, procs, ghosts
  <2>4. Undisturbing
    BY Distinct, <1>18, <2>1 DEF ClaimInv, TypeOK, TaskOK, ReqOK, Undisturbing, Lost, Claimed,
         Committing, Committed, Used, PastClaim, BeforeFile, WithObject, Swapping,
         CompleteFail, IdleReq, MarkFailed, MayFail, Return, store, procs, ghosts
  <2>. QED  BY <2>2, <2>3, <2>4, UndisturbingKeeps
<1>. QED
  BY <1>1, <1>2, <1>3, <1>4, <1>5, <1>6, <1>7, <1>8, <1>9, <1>10, <1>11, <1>12, <1>13,
       <1>14, <1>15, <1>16, <1>17, <1>18 DEF Complete

\* A handler dies.
LEMMA AbandonKeeps ==
  ASSUME ClaimInv, NEW r \in Req, Abandon(r)
  PROVE  ClaimInv' /\ ExpiredStay
<1>1. TypeOK'
  <2>1. ReqOK'  BY ReturnType DEF ClaimInv, TypeOK, Abandon
  <2>. QED
    BY <2>1 DEF ClaimInv, TypeOK, TaskOK, FileOK, StoreOK, UrlOK, QueueOK, CancelOK, SweepOK,
         WorkOK, Abandon, store, procs, ghosts, Return
<1>2. LocalsSet'
  BY Distinct DEF ClaimInv, TypeOK, ReqOK, LocalsSet, Used, WithFile, PastClaim, BeforeFile,
       WithObject, Swapping, Abandon, IdleReq, Return, store, procs, ghosts
<1>3. Undisturbing
  BY Distinct DEF ClaimInv, TypeOK, ReqOK, Undisturbing, Lost, Claimed, Committing, Committed,
       Used, PastClaim, BeforeFile, WithObject, Swapping, Abandon, IdleReq, Return, store,
       procs, ghosts
<1>. QED  BY <1>1, <1>2, <1>3, UndisturbingKeeps

\* The client writes to the pool.
LEMMA ClientKeeps ==
  ASSUME ClaimInv, NEW t \in Task, Client(t)
  PROVE  ClaimInv' /\ ExpiredStay
<1>1. CASE ClientPut(t)
  <2>1. TypeOK'
    <3>1. StoreOK'  BY <1>1 DEF ClaimInv, TypeOK, StoreOK, Key, ghosts, ClientPut
    <3>. QED
      BY <1>1, <3>1 DEF ClaimInv, TypeOK, TaskOK, FileOK, UrlOK, QueueOK, ReqOK, CancelOK,
           SweepOK, WorkOK, ClientPut, procs, ghosts
  <2>2. LocalsSet'
    BY Distinct, <1>1 DEF ClaimInv, TypeOK, LocalsSet, Used, WithFile, PastClaim, BeforeFile,
         WithObject, Swapping, ClientPut, procs, ghosts
  <2>3. Undisturbing
    BY Distinct, <1>1 DEF ClaimInv, TypeOK, Undisturbing, Lost, Claimed, Committing, Committed,
         Used, PastClaim, BeforeFile, WithObject, Swapping, ClientPut, procs, ghosts
  <2>. QED  BY <2>1, <2>2, <2>3, UndisturbingKeeps
<1>2. CASE ClientPutDerivative(t)
  <2>1. TypeOK'
    <3>1. StoreOK'  BY <1>2 DEF ClaimInv, TypeOK, StoreOK, Key, ghosts, ClientPutDerivative
    <3>. QED
      BY <1>2, <3>1 DEF ClaimInv, TypeOK, TaskOK, FileOK, UrlOK, QueueOK, ReqOK, CancelOK,
           SweepOK, WorkOK, ClientPutDerivative, procs, ghosts
  <2>2. LocalsSet'
    BY Distinct, <1>2 DEF ClaimInv, TypeOK, LocalsSet, Used, WithFile, PastClaim, BeforeFile,
         WithObject, Swapping, ClientPutDerivative, procs, ghosts
  <2>3. Undisturbing
    BY Distinct, <1>2 DEF ClaimInv, TypeOK, Undisturbing, Lost, Claimed, Committing, Committed,
         Used, PastClaim, BeforeFile, WithObject, Swapping, ClientPutDerivative, procs,
         ghosts
  <2>. QED  BY <2>1, <2>2, <2>3, UndisturbingKeeps
<1>3. ASSUME NEW p \in Part, ClientPutPart(t, p) PROVE ClaimInv' /\ ExpiredStay
  <2>1. TypeOK'
    <3>1. StoreOK'  BY <1>3 DEF ClaimInv, TypeOK, StoreOK, Key, ghosts, ClientPutPart
    <3>. QED
      BY <1>3, <3>1 DEF ClaimInv, TypeOK, TaskOK, FileOK, UrlOK, QueueOK, ReqOK, CancelOK,
           SweepOK, WorkOK, ClientPutPart, procs, ghosts
  <2>2. LocalsSet'
    BY Distinct, <1>3 DEF ClaimInv, TypeOK, LocalsSet, Used, WithFile, PastClaim, BeforeFile,
         WithObject, Swapping, ClientPutPart, procs, ghosts
  <2>3. Undisturbing
    BY Distinct, <1>3 DEF ClaimInv, TypeOK, Undisturbing, Lost, Claimed, Committing, Committed,
         Used, PastClaim, BeforeFile, WithObject, Swapping, ClientPutPart, procs, ghosts
  <2>. QED  BY <2>1, <2>2, <2>3, UndisturbingKeeps
<1>. QED
  BY <1>1, <1>2, <1>3 DEF Client

\* Time passes.
LEMMA TimeKeeps ==
  ASSUME ClaimInv, NEW t \in Task, UrlsExpire(t) \/ GoIdle(t)
  PROVE  ClaimInv' /\ ExpiredStay
<1>1. CASE UrlsExpire(t)
  <2>1. TypeOK'
    <3>1. UrlOK'  BY <1>1 DEF ClaimInv, TypeOK, UrlOK, UrlsExpire
    <3>. QED
      BY <1>1, <3>1 DEF ClaimInv, TypeOK, TaskOK, FileOK, StoreOK, QueueOK, ReqOK, CancelOK,
           SweepOK, WorkOK, UrlsExpire, store, procs, ghosts
  <2>2. LocalsSet'
    BY Distinct, <1>1 DEF ClaimInv, TypeOK, LocalsSet, Used, WithFile, PastClaim, BeforeFile,
         WithObject, Swapping, UrlsExpire, store, procs, ghosts
  <2>3. Undisturbing
    BY Distinct, <1>1 DEF ClaimInv, TypeOK, Undisturbing, Lost, Claimed, Committing, Committed,
         Used, PastClaim, BeforeFile, WithObject, Swapping, UrlsExpire, store, procs,
         ghosts
  <2>. QED  BY <2>1, <2>2, <2>3, UndisturbingKeeps
<1>2. CASE GoIdle(t)
  <2>1. TypeOK'
    <3>1. TaskOK'  BY <1>2 DEF ClaimInv, TypeOK, TaskOK, TaskRow, GoIdle, Preparing
    <3>. QED
      BY <1>2, <3>1 DEF ClaimInv, TypeOK, FileOK, StoreOK, UrlOK, QueueOK, ReqOK, CancelOK,
           SweepOK, WorkOK, GoIdle, store, procs, ghosts
  <2>2. LocalsSet'
    BY Distinct, <1>2 DEF ClaimInv, TypeOK, TaskOK, LocalsSet, Used, WithFile, PastClaim,
         BeforeFile, WithObject, Swapping, GoIdle, Preparing, store, procs, ghosts
  <2>3. Undisturbing
    BY Distinct, <1>2 DEF ClaimInv, TypeOK, TaskOK, Undisturbing, Lost, Claimed, Committing,
         Committed, Used, PastClaim, BeforeFile, WithObject, Swapping, GoIdle, Preparing,
         store, procs, ghosts
  <2>. QED  BY <2>1, <2>2, <2>3, UndisturbingKeeps
<1>. QED
  BY <1>1, <1>2

\* cancelUpload.
LEMMA CancelKeeps ==
  ASSUME ClaimInv, NEW c \in Canceller, Cancel(c) \/ CancelCrash(c)
  PROVE  ClaimInv' /\ ExpiredStay
<1>1. CASE CancelRead(c)
  <2>1. TypeOK'
    <3>1. CancelOK'  BY <1>1 DEF ClaimInv, TypeOK, CancelOK, ghosts, CancelRead
    <3>. QED
      BY <1>1, <3>1 DEF ClaimInv, TypeOK, TaskOK, FileOK, StoreOK, UrlOK, QueueOK, ReqOK,
           SweepOK, WorkOK, CancelRead, store
  <2>2. LocalsSet'
    BY Distinct, <1>1 DEF ClaimInv, TypeOK, CancelOK, LocalsSet, Used, WithFile, PastClaim,
         BeforeFile, WithObject, Swapping, CancelRead, store
  <2>3. Undisturbing
    BY Distinct, <1>1 DEF ClaimInv, TypeOK, CancelOK, Undisturbing, Lost, Claimed, Committing,
         Committed, Used, PastClaim, BeforeFile, WithObject, Swapping, CancelRead, store
  <2>. QED  BY <2>1, <2>2, <2>3, UndisturbingKeeps
<1>2. CASE CancelAbort(c)
  <2>1. cancel[c].t \in cancelled /\ cancel[c].t \in Task
    BY <1>2 DEF ClaimInv, LocalsSet, CancelAbort, TypeOK, CancelOK
  <2>2. TypeOK'
    <3>1. StoreOK'  BY <1>2, <2>1 DEF ClaimInv, TypeOK, StoreOK, Key, ghosts, CancelAbort
    <3>2. CancelOK'  BY <1>2, <2>1 DEF ClaimInv, TypeOK, CancelOK, ghosts, CancelAbort
    <3>. QED
      BY <1>2, <3>1, <3>2 DEF ClaimInv, TypeOK, TaskOK, FileOK, UrlOK, QueueOK, ReqOK, SweepOK,
           WorkOK, CancelAbort, ghosts
  <2>3. LocalsSet'
    BY Distinct, <1>2, <2>1 DEF ClaimInv, TypeOK, CancelOK, LocalsSet, Used, WithFile,
         PastClaim, BeforeFile, WithObject, Swapping, CancelAbort, ghosts
  <2>4. Undisturbing
    BY Distinct, <1>2, <2>1 DEF ClaimInv, TypeOK, CancelOK, Undisturbing, Lost, Claimed,
         Committing, Committed, Used, PastClaim, BeforeFile, WithObject, Swapping,
         CancelAbort, ghosts
  <2>. QED  BY <2>2, <2>3, <2>4, UndisturbingKeeps
<1>3. CASE CancelDelete(c)
  <2>1. cancel[c].t \in cancelled /\ cancel[c].t \in Task
    BY <1>3 DEF ClaimInv, LocalsSet, CancelDelete, TypeOK, CancelOK
  <2>2. TypeOK'
    <3>1. StoreOK'  BY <1>3, <2>1 DEF ClaimInv, TypeOK, StoreOK, Key, ghosts, CancelDelete
    <3>2. CancelOK'  BY <1>3, <2>1 DEF ClaimInv, TypeOK, CancelOK, ghosts, CancelDelete
    <3>. QED
      BY <1>3, <3>1, <3>2 DEF ClaimInv, TypeOK, TaskOK, FileOK, UrlOK, QueueOK, ReqOK, SweepOK,
           WorkOK, CancelDelete, ghosts
  <2>3. LocalsSet'
    BY Distinct, <1>3, <2>1 DEF ClaimInv, TypeOK, CancelOK, LocalsSet, Used, WithFile,
         PastClaim, BeforeFile, WithObject, Swapping, CancelDelete, ghosts
  <2>4. Undisturbing
    BY Distinct, <1>3, <2>1 DEF ClaimInv, TypeOK, CancelOK, Undisturbing, Lost, Claimed,
         Committing, Committed, Used, PastClaim, BeforeFile, WithObject, Swapping,
         CancelDelete, ghosts
  <2>. QED  BY <2>2, <2>3, <2>4, UndisturbingKeeps
<1>4. CASE CancelDeleteDerived(c)
  <2>1. cancel[c].t \in cancelled /\ cancel[c].t \in Task
    BY <1>4 DEF ClaimInv, LocalsSet, CancelDeleteDerived, TypeOK, CancelOK
  <2>2. TypeOK'
    <3>1. StoreOK'
      BY <1>4, <2>1 DEF ClaimInv, TypeOK, StoreOK, Key, ghosts, CancelDeleteDerived
    <3>2. CancelOK'  BY <1>4, <2>1 DEF ClaimInv, TypeOK, CancelOK, ghosts, CancelDeleteDerived
    <3>. QED
      BY <1>4, <3>1, <3>2 DEF ClaimInv, TypeOK, TaskOK, FileOK, UrlOK, QueueOK, ReqOK, SweepOK,
           WorkOK, CancelDeleteDerived, ghosts
  <2>3. LocalsSet'
    BY Distinct, <1>4, <2>1 DEF ClaimInv, TypeOK, CancelOK, LocalsSet, Used, WithFile,
         PastClaim, BeforeFile, WithObject, Swapping, CancelDeleteDerived, ghosts
  <2>4. Undisturbing
    BY Distinct, <1>4, <2>1 DEF ClaimInv, TypeOK, CancelOK, Undisturbing, Lost, Claimed,
         Committing, Committed, Used, PastClaim, BeforeFile, WithObject, Swapping,
         CancelDeleteDerived, ghosts
  <2>. QED  BY <2>2, <2>3, <2>4, UndisturbingKeeps
<1>5. CASE CancelFail(c)
  <2>1. cancel[c].t \in cancelled /\ cancel[c].t \in Task
    BY <1>5 DEF ClaimInv, LocalsSet, CancelFail, TypeOK, CancelOK
  <2>2. TypeOK'
    <3>1. TaskOK'  BY <1>5, <2>1 DEF ClaimInv, TypeOK, TaskOK, TaskRow, CancelFail
    <3>2. CancelOK'  BY <1>5, <2>1 DEF ClaimInv, TypeOK, CancelOK, ghosts, CancelFail
    <3>. QED
      BY <1>5, <3>1, <3>2 DEF ClaimInv, TypeOK, FileOK, StoreOK, UrlOK, QueueOK, ReqOK,
           SweepOK, WorkOK, CancelFail, store, ghosts
  <2>3. LocalsSet'
    BY Distinct, <1>5, <2>1 DEF ClaimInv, TypeOK, TaskOK, CancelOK, LocalsSet, Used, WithFile,
         PastClaim, BeforeFile, WithObject, Swapping, CancelFail, store, ghosts
  <2>4. Undisturbing
    BY Distinct, <1>5, <2>1 DEF ClaimInv, TypeOK, TaskOK, CancelOK, Undisturbing, Lost,
         Claimed, Committing, Committed, Used, PastClaim, BeforeFile, WithObject, Swapping,
         CancelFail, store, ghosts
  <2>. QED  BY <2>2, <2>3, <2>4, UndisturbingKeeps
<1>6. CASE CancelCrash(c)
  <2>1. TypeOK'
    <3>1. CancelOK'  BY <1>6 DEF ClaimInv, TypeOK, CancelOK, ghosts, CancelCrash
    <3>. QED
      BY <1>6, <3>1 DEF ClaimInv, TypeOK, TaskOK, FileOK, StoreOK, UrlOK, QueueOK, ReqOK,
           SweepOK, WorkOK, CancelCrash, store, ghosts
  <2>2. LocalsSet'
    BY Distinct, <1>6 DEF ClaimInv, TypeOK, CancelOK, LocalsSet, Used, WithFile, PastClaim,
         BeforeFile, WithObject, Swapping, CancelCrash, store, ghosts
  <2>3. Undisturbing
    BY Distinct, <1>6 DEF ClaimInv, TypeOK, CancelOK, Undisturbing, Lost, Claimed, Committing,
         Committed, Used, PastClaim, BeforeFile, WithObject, Swapping, CancelCrash, store,
         ghosts
  <2>. QED  BY <2>1, <2>2, <2>3, UndisturbingKeeps
<1>. QED
  BY <1>1, <1>2, <1>3, <1>4, <1>5, <1>6 DEF Cancel

\* ExpireStaleUploadTasks.
LEMMA SweepKeeps ==
  ASSUME ClaimInv, NEW s \in Sweeper, Sweep(s) \/ SweepCrash(s)
  PROVE  ClaimInv' /\ ExpiredStay
<1>1. CASE SweepQuery(s)
  <2>1. TypeOK'
    <3>1. SweepOK'  BY <1>1 DEF ClaimInv, TypeOK, SweepOK, SweepQuery, Stale
    <3>. QED
      BY <1>1, <3>1 DEF ClaimInv, TypeOK, TaskOK, FileOK, StoreOK, UrlOK, QueueOK, ReqOK,
           CancelOK, WorkOK, SweepQuery, store, ghosts
  <2>2. LocalsSet'
    BY Distinct, <1>1 DEF ClaimInv, TypeOK, SweepOK, LocalsSet, Used, WithFile, PastClaim,
         BeforeFile, WithObject, Swapping, SweepQuery, Stale, store, ghosts
  <2>3. Undisturbing
    BY Distinct, <1>1 DEF ClaimInv, TypeOK, SweepOK, Undisturbing, Lost, Claimed, Committing,
         Committed, Used, PastClaim, BeforeFile, WithObject, Swapping, SweepQuery, Stale,
         store, ghosts
  <2>. QED  BY <2>1, <2>2, <2>3, UndisturbingKeeps
<1>2. CASE SweepClaim(s)
  <2>1. TypeOK'
    <3>1. TaskOK'
      <4>1. PICK t \in sweep[s].todo :
               t \in Task /\ task' = [task EXCEPT ![t] = [task[t] EXCEPT !.up = "Failed", !.status = "expired",
                                              !.idle = FALSE]]
        BY <1>2 DEF SweepClaim, ClaimInv, TypeOK, SweepOK
      <4>2. [task[t] EXCEPT !.up = "Failed", !.status = "expired",
                                              !.idle = FALSE] \in TaskRow
        BY <4>1 DEF ClaimInv, TypeOK, TaskOK, TaskRow
      <4>. QED
        BY <4>1, <4>2 DEF ClaimInv, TypeOK, TaskOK
    <3>2. SweepOK'  BY <1>2 DEF ClaimInv, TypeOK, SweepOK, SweepClaim, Stale
    <3>. QED
      BY <1>2, <3>1, <3>2 DEF ClaimInv, TypeOK, FileOK, StoreOK, UrlOK, QueueOK, ReqOK,
           CancelOK, WorkOK, SweepClaim, store, ghosts
  <2>2. LocalsSet'
    BY Distinct, <1>2 DEF ClaimInv, TypeOK, SweepOK, LocalsSet, Used, WithFile, PastClaim,
         BeforeFile, WithObject, Swapping, SweepClaim, Stale, store, ghosts
  <2>3. ClaimEndsUploading'
    BY Distinct, <1>2 DEF ClaimInv, TypeOK, TaskOK, LocalsSet, ClaimEndsUploading, Claimed,
         Committing, Committed, Used, PastClaim, BeforeFile, WithObject, Swapping,
         WithFile, SweepClaim, Stale, store, ghosts, Key
  <2>4. ExpiredAlone'
    BY Distinct, <1>2 DEF ClaimInv, TypeOK, TaskOK, SweepOK, LocalsSet, ExpiredAlone, Lost,
         Claimed, Committing, Committed, Used, PastClaim, BeforeFile, WithObject, Swapping,
         WithFile, SweepClaim, Stale, store, ghosts, ClaimEndsUploading, Key
  <2>5. BytesAwaitFile'
    BY Distinct, <1>2 DEF ClaimInv, TypeOK, TaskOK, LocalsSet, BytesAwaitFile, BeforeFile,
         WithObject, Swapping, Used, WithFile, PastClaim, SweepClaim, Stale, store, ghosts
  <2>6. ExpiredStay
    BY Distinct, <1>2 DEF ClaimInv, TypeOK, TaskOK, ExpiredStay, ExpiredAlone, Lost,
         SweepClaim, Stale, store, ghosts
  <2>. QED
    BY <1>2, <2>1, <2>2, <2>3, <2>4, <2>5, <2>6 DEF ClaimInv, OneClaimer, PastClaim,
         BeforeFile, WithObject, Swapping, NotYetMade, Committed, Used, OneFilePerTask,
         CommittedBytesKept, SweepClaim, store, ghosts
<1>3. CASE SweepSkip(s)
  <2>1. TypeOK'
    <3>1. SweepOK'  BY <1>3 DEF ClaimInv, TypeOK, SweepOK, SweepSkip, Stale
    <3>. QED
      BY <1>3, <3>1 DEF ClaimInv, TypeOK, TaskOK, FileOK, StoreOK, UrlOK, QueueOK, ReqOK,
           CancelOK, WorkOK, SweepSkip, store, ghosts
  <2>2. LocalsSet'
    BY Distinct, <1>3 DEF ClaimInv, TypeOK, SweepOK, LocalsSet, Used, WithFile, PastClaim,
         BeforeFile, WithObject, Swapping, SweepSkip, Stale, store, ghosts
  <2>3. Undisturbing
    BY Distinct, <1>3 DEF ClaimInv, TypeOK, SweepOK, Undisturbing, Lost, Claimed, Committing,
         Committed, Used, PastClaim, BeforeFile, WithObject, Swapping, SweepSkip, Stale,
         store, ghosts
  <2>. QED  BY <2>1, <2>2, <2>3, UndisturbingKeeps
<1>4. CASE SweepAbort(s)
  <2>1. sweep[s].t \in Task  BY <1>4 DEF ClaimInv, LocalsSet, SweepAbort
  <2>2. TypeOK'
    <3>1. StoreOK'  BY <1>4, <2>1 DEF ClaimInv, TypeOK, StoreOK, Key, ghosts, SweepAbort
    <3>2. SweepOK'  BY <1>4, <2>1 DEF ClaimInv, TypeOK, SweepOK, SweepAbort
    <3>. QED
      BY <1>4, <3>1, <3>2 DEF ClaimInv, TypeOK, TaskOK, FileOK, UrlOK, QueueOK, ReqOK,
           CancelOK, WorkOK, SweepAbort, ghosts
  <2>3. LocalsSet'
    BY Distinct, <1>4, <2>1 DEF ClaimInv, TypeOK, SweepOK, LocalsSet, Used, WithFile,
         PastClaim, BeforeFile, WithObject, Swapping, SweepAbort, ghosts
  <2>4. Undisturbing
    BY Distinct, <1>4, <2>1 DEF ClaimInv, TypeOK, SweepOK, Undisturbing, Lost, Claimed,
         Committing, Committed, Used, PastClaim, BeforeFile, WithObject, Swapping,
         SweepAbort, ghosts
  <2>. QED  BY <2>2, <2>3, <2>4, UndisturbingKeeps
<1>5. CASE SweepDelete(s)
  <2>1. sweep[s].t \in Task  BY <1>5 DEF ClaimInv, LocalsSet, SweepDelete
  <2>2. TypeOK'
    <3>1. StoreOK'  BY <1>5, <2>1 DEF ClaimInv, TypeOK, StoreOK, Key, ghosts, SweepDelete
    <3>2. SweepOK'  BY <1>5, <2>1 DEF ClaimInv, TypeOK, SweepOK, SweepDelete
    <3>. QED
      BY <1>5, <3>1, <3>2 DEF ClaimInv, TypeOK, TaskOK, FileOK, UrlOK, QueueOK, ReqOK,
           CancelOK, WorkOK, SweepDelete, ghosts
  <2>3. LocalsSet'
    BY Distinct, <1>5, <2>1 DEF ClaimInv, TypeOK, SweepOK, LocalsSet, Used, WithFile,
         PastClaim, BeforeFile, WithObject, Swapping, SweepDelete, ghosts
  <2>4. ExpiredAlone'
    BY Distinct, <1>5, <2>1 DEF ClaimInv, TypeOK, SweepOK, LocalsSet, ExpiredAlone, Lost,
         Claimed, Committing, Committed, Used, PastClaim, BeforeFile, WithObject, Swapping,
         WithFile, SweepDelete, ghosts
  <2>5. BytesAwaitFile'
    BY Distinct, <1>5, <2>1 DEF ClaimInv, TypeOK, LocalsSet, BytesAwaitFile, BeforeFile,
         WithObject, Swapping, Used, WithFile, PastClaim, SweepDelete, ghosts,
         ExpiredAlone, Lost, Claimed, Committing, Committed
  <2>6. CommittedBytesKept'
    BY Distinct, <1>5, <2>1 DEF ClaimInv, TypeOK, LocalsSet, CommittedBytesKept, Used,
         WithFile, PastClaim, BeforeFile, WithObject, Swapping, SweepDelete, ghosts,
         ExpiredAlone, Lost, Claimed, Committing, Committed
  <2>7. ExpiredStay
    BY Distinct, <1>5, <2>1 DEF ClaimInv, ExpiredStay, ExpiredAlone, Lost, SweepDelete, ghosts
  <2>. QED
    BY <1>5, <2>2, <2>3, <2>4, <2>5, <2>6, <2>7 DEF ClaimInv, ClaimEndsUploading, Claimed,
         Committing, Committed, Used, PastClaim, BeforeFile, WithObject, Swapping,
         OneClaimer, NotYetMade, OneFilePerTask, SweepDelete, ghosts
<1>6. CASE SweepDeleteDerived(s)
  <2>1. sweep[s].t \in Task  BY <1>6 DEF ClaimInv, LocalsSet, SweepDeleteDerived
  <2>2. TypeOK'
    <3>1. StoreOK'  BY <1>6, <2>1 DEF ClaimInv, TypeOK, StoreOK, Key, ghosts, SweepDeleteDerived
    <3>2. SweepOK'  BY <1>6, <2>1 DEF ClaimInv, TypeOK, SweepOK, SweepDeleteDerived
    <3>. QED
      BY <1>6, <3>1, <3>2 DEF ClaimInv, TypeOK, TaskOK, FileOK, UrlOK, QueueOK, ReqOK,
           CancelOK, WorkOK, SweepDeleteDerived, ghosts
  <2>3. LocalsSet'
    BY Distinct, <1>6, <2>1 DEF ClaimInv, TypeOK, SweepOK, LocalsSet, Used, WithFile,
         PastClaim, BeforeFile, WithObject, Swapping, SweepDeleteDerived, ghosts
  <2>4. Undisturbing
    BY Distinct, <1>6, <2>1 DEF ClaimInv, TypeOK, SweepOK, Undisturbing, Lost, Claimed,
         Committing, Committed, Used, PastClaim, BeforeFile, WithObject, Swapping,
         SweepDeleteDerived, ghosts, Key
  <2>. QED  BY <2>2, <2>3, <2>4, UndisturbingKeeps
<1>7. CASE SweepCrash(s)
  <2>1. TypeOK'
    <3>1. SweepOK'  BY <1>7 DEF ClaimInv, TypeOK, SweepOK, SweepCrash
    <3>. QED
      BY <1>7, <3>1 DEF ClaimInv, TypeOK, TaskOK, FileOK, StoreOK, UrlOK, QueueOK, ReqOK,
           CancelOK, WorkOK, SweepCrash, store, ghosts
  <2>2. LocalsSet'
    BY Distinct, <1>7 DEF ClaimInv, TypeOK, SweepOK, LocalsSet, Used, WithFile, PastClaim,
         BeforeFile, WithObject, Swapping, SweepCrash, store, ghosts
  <2>3. Undisturbing
    BY Distinct, <1>7 DEF ClaimInv, TypeOK, SweepOK, Undisturbing, Lost, Claimed, Committing,
         Committed, Used, PastClaim, BeforeFile, WithObject, Swapping, SweepCrash, store,
         ghosts, Key
  <2>. QED  BY <2>1, <2>2, <2>3, UndisturbingKeeps
<1>. QED
  BY <1>1, <1>2, <1>3, <1>4, <1>5, <1>6, <1>7 DEF Sweep

\* The worker.
LEMMA WorkKeeps ==
  ASSUME ClaimInv, NEW w \in Worker, Work(w) \/ WorkCrash(w)
  PROVE  ClaimInv' /\ ExpiredStay
<1>1. CASE ProcessDerived(w)
  <2>1. work[w].t \in Task /\ work[w].f \in File /\ work[w].key \in Key
    BY <1>1 DEF ClaimInv, LocalsSet, ProcessDerived
  <2>2. TypeOK'
    <3>1. FileOK'
      BY <1>1, <2>1 DEF ClaimInv, TypeOK, FileOK, FileRow, Key, ProcessDerived, Unlocked
    <3>2. WorkOK'  BY <1>1, <2>1 DEF ClaimInv, TypeOK, WorkOK, WorkPC, ProcessDerived, Unlocked
    <3>. QED
      BY <1>1, <3>1, <3>2 DEF ClaimInv, TypeOK, TaskOK, StoreOK, UrlOK, QueueOK, ReqOK,
           CancelOK, SweepOK, ProcessDerived, store, ghosts
  <2>3. LocalsSet'
    <3>1. CASE /\ file' = [file EXCEPT ![work[w].f].derived =
                              IF file[work[w].f].live THEN work[w].key ELSE @]
                /\ work' = [work EXCEPT ![w].pc = "fileDone"]
      BY <1>1, <2>1, <3>1 DEF ClaimInv, TypeOK, FileOK, WorkOK, LocalsSet, Used, FileRow,
       ProcessDerived, procs, store, ghosts, Unlocked, PastClaim, BeforeFile, WithObject,
       Swapping, WithFile
    <3>2. CASE file' = file /\ work' = [work EXCEPT ![w].pc = "failTask"]
      BY <1>1, <2>1, <3>2 DEF ClaimInv, TypeOK, FileOK, WorkOK, LocalsSet, Used, FileRow,
       ProcessDerived, procs, store, ghosts, Unlocked, PastClaim, BeforeFile, WithObject,
       Swapping, WithFile
    <3>. QED
      BY <1>1, <3>1, <3>2 DEF ProcessDerived
  <2>4. Undisturbing
    <3>1. CASE /\ file' = [file EXCEPT ![work[w].f].derived =
                              IF file[work[w].f].live THEN work[w].key ELSE @]
                /\ work' = [work EXCEPT ![w].pc = "fileDone"]
      BY <1>1, <2>1, <3>1 DEF ClaimInv, TypeOK, FileOK, WorkOK, LocalsSet, Used, FileRow,
       ProcessDerived, procs, store, ghosts, Unlocked, PastClaim, BeforeFile, WithObject,
       Swapping, Undisturbing, Claimed, Committing, Committed, Lost
    <3>2. CASE file' = file /\ work' = [work EXCEPT ![w].pc = "failTask"]
      BY <1>1, <2>1, <3>2 DEF ClaimInv, TypeOK, FileOK, WorkOK, LocalsSet, Used, FileRow,
       ProcessDerived, procs, store, ghosts, Unlocked, PastClaim, BeforeFile, WithObject,
       Swapping, Undisturbing, Claimed, Committing, Committed, Lost
    <3>. QED
      BY <1>1, <3>1, <3>2 DEF ProcessDerived
  <2>. QED  BY <2>2, <2>3, <2>4, UndisturbingKeeps
<1>2. CASE WorkFileDone(w)
  <2>1. work[w].t \in Task /\ work[w].f \in File /\ work[w].key \in Key
    BY <1>2 DEF ClaimInv, LocalsSet, WorkFileDone
  <2>2. TypeOK'
    <3>1. FileOK'
      BY <1>2, <2>1 DEF ClaimInv, TypeOK, FileOK, FileRow, Key, WorkFileDone, SetFileStatus
    <3>2. WorkOK'
      BY <1>2, <2>1 DEF ClaimInv, TypeOK, WorkOK, WorkPC, WorkFileDone, SetFileStatus
    <3>. QED
      BY <1>2, <3>1, <3>2 DEF ClaimInv, TypeOK, TaskOK, StoreOK, UrlOK, QueueOK, ReqOK,
           CancelOK, SweepOK, WorkFileDone, store, ghosts, SetFileStatus
  <2>3. LocalsSet'
    BY Distinct, <1>2, <2>1 DEF ClaimInv, TypeOK, FileOK, WorkOK, LocalsSet, Used, WithFile,
         PastClaim, BeforeFile, WithObject, Swapping, WorkFileDone, SetFileStatus, store,
         ghosts
  <2>4. Undisturbing
    BY Distinct, <1>2, <2>1 DEF ClaimInv, TypeOK, FileOK, WorkOK, Undisturbing, Lost, Claimed,
         Committing, Committed, Used, PastClaim, BeforeFile, WithObject, Swapping,
         WorkFileDone, SetFileStatus, store, ghosts, LocalsSet, Key, FileRow
  <2>. QED  BY <2>2, <2>3, <2>4, UndisturbingKeeps
<1>3. CASE WorkTaskDone(w)
  <2>1. work[w].t \in Task /\ work[w].f \in File /\ work[w].key \in Key
    BY <1>3 DEF ClaimInv, LocalsSet, WorkTaskDone
  <2>2. TypeOK'
    <3>1. TaskOK'  BY <1>3, <2>1, MarkType DEF ClaimInv, TypeOK, WorkTaskDone
    <3>2. WorkOK'
      BY <1>3, <2>1 DEF ClaimInv, TypeOK, WorkOK, WorkPC, WorkTaskDone, MarkCompleted
    <3>. QED
      BY <1>3, <3>1, <3>2 DEF ClaimInv, TypeOK, FileOK, StoreOK, UrlOK, QueueOK, ReqOK,
           CancelOK, SweepOK, WorkTaskDone, store, ghosts, MarkCompleted
  <2>3. LocalsSet'
    BY Distinct, <1>3, <2>1 DEF ClaimInv, TypeOK, TaskOK, WorkOK, LocalsSet, Used, WithFile,
         PastClaim, BeforeFile, WithObject, Swapping, WorkTaskDone, MarkCompleted, store,
         ghosts
  <2>4. Undisturbing
    BY Distinct, <1>3, <2>1 DEF ClaimInv, TypeOK, TaskOK, WorkOK, Undisturbing, Lost, Claimed,
         Committing, Committed, Used, PastClaim, BeforeFile, WithObject, Swapping,
         WorkTaskDone, MarkCompleted, store, ghosts
  <2>. QED  BY <2>2, <2>3, <2>4, UndisturbingKeeps
<1>4. CASE WorkAck(w)
  <2>1. work[w].t \in Task /\ work[w].f \in File /\ work[w].key \in Key
    BY <1>4 DEF ClaimInv, LocalsSet, WorkAck
  <2>2. TypeOK'
    <3>1. QueueOK'  BY <1>4, <2>1 DEF ClaimInv, TypeOK, QueueOK, Event, WorkAck, IdleWork
    <3>2. WorkOK'  BY <1>4, <2>1 DEF ClaimInv, TypeOK, WorkOK, WorkPC, WorkAck, IdleWork
    <3>. QED
      BY <1>4, <3>1, <3>2 DEF ClaimInv, TypeOK, TaskOK, FileOK, StoreOK, UrlOK, ReqOK,
           CancelOK, SweepOK, WorkAck, store, ghosts
  <2>3. LocalsSet'
    BY Distinct, <1>4, <2>1 DEF ClaimInv, TypeOK, WorkOK, LocalsSet, Used, WithFile, PastClaim,
         BeforeFile, WithObject, Swapping, WorkAck, IdleWork, store, ghosts
  <2>4. Undisturbing
    BY Distinct, <1>4, <2>1 DEF ClaimInv, TypeOK, WorkOK, Undisturbing, Lost, Claimed,
         Committing, Committed, Used, PastClaim, BeforeFile, WithObject, Swapping, WorkAck,
         IdleWork, store, ghosts, Key
  <2>. QED  BY <2>2, <2>3, <2>4, UndisturbingKeeps
<1>5. CASE WorkError(w)
  <2>1. work[w].t \in Task /\ work[w].f \in File /\ work[w].key \in Key
    BY <1>5 DEF ClaimInv, LocalsSet, WorkError
  <2>2. TypeOK'
    <3>1. WorkOK'  BY <1>5, <2>1 DEF ClaimInv, TypeOK, WorkOK, WorkPC, WorkError, IdleWork
    <3>. QED
      BY <1>5, <3>1 DEF ClaimInv, TypeOK, TaskOK, FileOK, StoreOK, UrlOK, QueueOK, ReqOK,
           CancelOK, SweepOK, WorkError, store, ghosts
  <2>3. LocalsSet'
    BY Distinct, <1>5, <2>1 DEF ClaimInv, TypeOK, WorkOK, LocalsSet, Used, WithFile, PastClaim,
         BeforeFile, WithObject, Swapping, WorkError, IdleWork, store, ghosts
  <2>4. Undisturbing
    BY Distinct, <1>5, <2>1 DEF ClaimInv, TypeOK, WorkOK, Undisturbing, Lost, Claimed,
         Committing, Committed, Used, PastClaim, BeforeFile, WithObject, Swapping,
         WorkError, IdleWork, store, ghosts, Key
  <2>. QED  BY <2>2, <2>3, <2>4, UndisturbingKeeps
<1>6. CASE WorkFailTask(w)
  <2>1. work[w].t \in Task /\ work[w].f \in File /\ work[w].key \in Key
    BY <1>6 DEF ClaimInv, LocalsSet, WorkFailTask
  <2>2. TypeOK'
    <3>1. TaskOK'
      <4>1. CASE MarkFailed(work[w].t)
        BY <2>1, <4>1, MarkType DEF ClaimInv, TypeOK
      <4>2. CASE task' = task
        BY <4>2 DEF ClaimInv, TypeOK, TaskOK
      <4>. QED
        BY <1>6, <4>1, <4>2 DEF WorkFailTask
    <3>2. WorkOK'  BY <1>6, <2>1 DEF ClaimInv, TypeOK, WorkOK, WorkPC, WorkFailTask, MarkFailed
    <3>. QED
      BY <1>6, <3>1, <3>2 DEF ClaimInv, TypeOK, FileOK, StoreOK, UrlOK, QueueOK, ReqOK,
           CancelOK, SweepOK, WorkFailTask, store, ghosts, MarkFailed
  <2>3. LocalsSet'
    BY Distinct, <1>6, <2>1 DEF ClaimInv, TypeOK, TaskOK, WorkOK, LocalsSet, Used, WithFile,
         PastClaim, BeforeFile, WithObject, Swapping, WorkFailTask, MarkFailed, store,
         ghosts
  <2>4. Undisturbing
    <3>1. CASE MarkFailed(work[w].t)
      BY Distinct, <1>6, <2>1, <3>1 DEF ClaimInv, TypeOK, TaskOK, WorkOK, WorkFailTask, MarkFailed,
       procs, store, ghosts, Undisturbing, Lost, Claimed, Committing, Committed, Used,
       PastClaim, BeforeFile, WithObject, Swapping
    <3>2. CASE task' = task
      BY Distinct, <1>6, <2>1, <3>2 DEF ClaimInv, TypeOK, TaskOK, WorkOK, WorkFailTask, MarkFailed,
       procs, store, ghosts, Undisturbing, Lost, Claimed, Committing, Committed, Used,
       PastClaim, BeforeFile, WithObject, Swapping
    <3>. QED
      BY <1>6, <3>1, <3>2 DEF WorkFailTask
  <2>. QED  BY <2>2, <2>3, <2>4, UndisturbingKeeps
<1>7. CASE WorkFailFile(w)
  <2>1. work[w].t \in Task /\ work[w].f \in File /\ work[w].key \in Key
    BY <1>7 DEF ClaimInv, LocalsSet, WorkFailFile
  <2>2. TypeOK'
    <3>1. FileOK'
      BY <1>7, <2>1 DEF ClaimInv, TypeOK, FileOK, FileRow, Key, WorkFailFile, IdleWork,
           SetFileStatus
    <3>2. WorkOK'
      BY <1>7, <2>1 DEF ClaimInv, TypeOK, WorkOK, WorkPC, WorkFailFile, IdleWork, SetFileStatus
    <3>. QED
      BY <1>7, <3>1, <3>2 DEF ClaimInv, TypeOK, TaskOK, StoreOK, UrlOK, QueueOK, ReqOK,
           CancelOK, SweepOK, WorkFailFile, store, ghosts, SetFileStatus
  <2>3. LocalsSet'
    <3>1. CASE SetFileStatus(work[w].f, "Failed")
      BY Distinct, <1>7, <2>1, <3>1 DEF ClaimInv, TypeOK, FileOK, FileRow, WorkOK, WorkFailFile,
       SetFileStatus, IdleWork, LocalsSet, WithFile, Used, PastClaim, BeforeFile,
       WithObject, Swapping, procs, store, ghosts
    <3>2. CASE file' = file
      BY Distinct, <1>7, <2>1, <3>2 DEF ClaimInv, TypeOK, FileOK, FileRow, WorkOK, WorkFailFile,
       SetFileStatus, IdleWork, LocalsSet, WithFile, Used, PastClaim, BeforeFile,
       WithObject, Swapping, procs, store, ghosts
    <3>. QED
      BY <1>7, <3>1, <3>2 DEF WorkFailFile
  <2>4. Undisturbing
    <3>1. CASE SetFileStatus(work[w].f, "Failed")
      BY Distinct, <1>7, <2>1, <3>1 DEF ClaimInv, TypeOK, FileOK, FileRow, WorkOK, WorkFailFile,
       SetFileStatus, IdleWork, LocalsSet, Key, procs, store, ghosts, Undisturbing, Lost,
       Claimed, Committing, Committed, Used, PastClaim, BeforeFile, WithObject, Swapping
    <3>2. CASE file' = file
      BY Distinct, <1>7, <2>1, <3>2 DEF ClaimInv, TypeOK, FileOK, FileRow, WorkOK, WorkFailFile,
       SetFileStatus, IdleWork, LocalsSet, Key, procs, store, ghosts, Undisturbing, Lost,
       Claimed, Committing, Committed, Used, PastClaim, BeforeFile, WithObject, Swapping
    <3>. QED
      BY <1>7, <3>1, <3>2 DEF WorkFailFile
  <2>. QED  BY <2>2, <2>3, <2>4, UndisturbingKeeps
<1>8. CASE WorkCrash(w)
  <2>1. TypeOK'
    <3>1. QueueOK'  BY <1>8 DEF ClaimInv, TypeOK, QueueOK, Event, WorkCrash, IdleWork
    <3>2. WorkOK'  BY <1>8 DEF ClaimInv, TypeOK, WorkOK, WorkPC, WorkCrash, IdleWork
    <3>. QED
      BY <1>8, <3>1, <3>2 DEF ClaimInv, TypeOK, TaskOK, FileOK, StoreOK, UrlOK, ReqOK,
           CancelOK, SweepOK, WorkCrash, store, ghosts
  <2>2. LocalsSet'
    BY Distinct, <1>8 DEF ClaimInv, TypeOK, WorkOK, LocalsSet, Used, WithFile, PastClaim,
         BeforeFile, WithObject, Swapping, WorkCrash, IdleWork, store, ghosts
  <2>3. Undisturbing
    BY Distinct, <1>8 DEF ClaimInv, TypeOK, WorkOK, Undisturbing, Lost, Claimed, Committing,
         Committed, Used, PastClaim, BeforeFile, WithObject, Swapping, WorkCrash, IdleWork,
         store, ghosts, Key
  <2>. QED  BY <2>1, <2>2, <2>3, UndisturbingKeeps
<1>. QED
  BY <1>1, <1>2, <1>3, <1>4, <1>5, <1>6, <1>7, <1>8 DEF Work

\* The queue delivers an event.
LEMMA WorkTakeKeeps ==
  ASSUME ClaimInv, NEW w \in Worker, NEW e \in queue, WorkTake(w, e)
  PROVE  ClaimInv' /\ ExpiredStay
<1>1. TypeOK'
  <2>1. QueueOK'  BY DEF ClaimInv, TypeOK, QueueOK, Event, WorkTake, Readable
  <2>2. WorkOK'
    BY DEF ClaimInv, TypeOK, WorkOK, WorkPC, WorkTake, Readable, QueueOK, Event, FileOK,
         FileRow
  <2>. QED
    BY <2>1, <2>2 DEF ClaimInv, TypeOK, TaskOK, FileOK, StoreOK, UrlOK, ReqOK, CancelOK,
         SweepOK, WorkTake, store, ghosts
<1>2. LocalsSet'
  BY Distinct DEF ClaimInv, TypeOK, WorkOK, LocalsSet, Used, WithFile, PastClaim, BeforeFile,
       WithObject, Swapping, WorkTake, Readable, store, ghosts, QueueOK, Event, FileOK,
       FileRow
<1>3. Undisturbing
  BY Distinct DEF ClaimInv, TypeOK, WorkOK, Undisturbing, Lost, Claimed, Committing, Committed,
       Used, PastClaim, BeforeFile, WithObject, Swapping, WorkTake, Readable, store, ghosts
<1>. QED  BY <1>1, <1>2, <1>3, UndisturbingKeeps

\* A user deletes a file.
LEMMA DeleteFileKeeps ==
  ASSUME ClaimInv, NEW f \in File, DeleteFile(f)
  PROVE  ClaimInv' /\ ExpiredStay
<1>1. TypeOK'
  <2>1. FileOK'  BY DEF ClaimInv, TypeOK, FileOK, FileRow, Key, DeleteFile, Unlocked
  <2>. QED
    BY <2>1 DEF ClaimInv, TypeOK, TaskOK, StoreOK, UrlOK, QueueOK, ReqOK, CancelOK, SweepOK,
         WorkOK, DeleteFile, store, procs, ghosts
<1>2. LocalsSet'
  BY Distinct DEF ClaimInv, TypeOK, FileOK, LocalsSet, Used, WithFile, PastClaim, BeforeFile,
       WithObject, Swapping, DeleteFile, Unlocked, store, procs, ghosts
<1>3. Undisturbing
  BY Distinct DEF ClaimInv, TypeOK, FileOK, Undisturbing, Lost, Claimed, Committing, Committed,
       Used, PastClaim, BeforeFile, WithObject, Swapping, DeleteFile, Unlocked, store,
       procs, ghosts
<1>. QED  BY <1>1, <1>2, <1>3, UndisturbingKeeps

-----------------------------------------------------------------------------
\* The initial states satisfy the invariant.
LEMMA InitClaimInv == Init => ClaimInv
<1>. SUFFICES ASSUME Init PROVE ClaimInv
  OBVIOUS
<1>1. TypeOK
  <2>1. TaskOK  BY DEF Init, TaskOK, TaskRow
  <2>2. FileOK  BY DEF Init, FileOK, FileRow, Key
  <2>3. StoreOK /\ UrlOK /\ QueueOK
    BY TargetFile DEF Init, StoreOK, UrlOK, QueueOK, Existing, Key
  <2>4. ReqOK  BY DEF Init, ReqOK, ReqRow, ReqPC, IdleReq
  <2>5. CancelOK /\ SweepOK  BY DEF Init, CancelOK, SweepOK
  <2>6. WorkOK  BY DEF Init, WorkOK, WorkPC, IdleWork
  <2>. QED  BY <2>1, <2>2, <2>3, <2>4, <2>5, <2>6 DEF TypeOK
<1>2. LocalsSet
  BY DEF Init, LocalsSet, IdleReq, IdleWork, WithFile, PastClaim, BeforeFile, WithObject, Swapping, Used
<1>3. \A t \in Task : ~Claimed(t) /\ ~Lost(t) /\ ~Committed(t)
  BY Distinct DEF Init, Claimed, Committing, Committed, Lost, IdleReq, IdleWork, Key, PastClaim, BeforeFile,
       WithObject, Swapping
<1>4. ClaimEndsUploading /\ ExpiredAlone
  BY <1>3 DEF ClaimEndsUploading, ExpiredAlone
<1>5. OneClaimer /\ NotYetMade /\ BytesAwaitFile
  BY DEF Init, OneClaimer, NotYetMade, BytesAwaitFile, IdleReq, PastClaim, BeforeFile, WithObject, Swapping
<1>6. OneFilePerTask /\ CommittedBytesKept
  BY DEF Init, OneFilePerTask, CommittedBytesKept, Used
<1>. QED
  BY <1>1, <1>2, <1>4, <1>5, <1>6 DEF ClaimInv

\* Every step preserves it, and leaves expired tasks failed.
LEMMA NextClaimInv == ClaimInv /\ [Next]_vars => ClaimInv' /\ [ExpiredStay]_vars
<1>1. ASSUME ClaimInv, UNCHANGED vars PROVE ClaimInv'
  <2>1. TypeOK' /\ LocalsSet'
    BY <1>1 DEF ClaimInv, vars, TypeOK, TaskOK, FileOK, StoreOK, UrlOK, QueueOK, ReqOK, CancelOK, SweepOK, WorkOK, LocalsSet, Used
  <2>2. Undisturbing
    BY <1>1 DEF vars, Undisturbing, BeforeFile, WithObject, Swapping, PastClaim, Claimed, Committing, Committed, Lost, Used
  <2>. QED
    BY <1>1, <2>1, <2>2, UndisturbingKeeps
<1>2. ASSUME ClaimInv, Next PROVE ClaimInv' /\ ExpiredStay
  <2>1. ASSUME NEW r \in Req, Start(r) \/ Prepare(r) \/ Complete(r) \/ Abandon(r)
        PROVE  ClaimInv' /\ ExpiredStay
    BY <1>2, <2>1, StartKeeps, PrepareKeeps, CompleteKeeps, AbandonKeeps
  <2>2. ASSUME NEW t \in Task, Client(t) \/ UrlsExpire(t) \/ GoIdle(t)
        PROVE  ClaimInv' /\ ExpiredStay
    BY <1>2, <2>2, ClientKeeps, TimeKeeps
  <2>3. ASSUME NEW c \in Canceller, Cancel(c) \/ CancelCrash(c) PROVE ClaimInv' /\ ExpiredStay
    BY <1>2, <2>3, CancelKeeps
  <2>4. ASSUME NEW s \in Sweeper, Sweep(s) \/ SweepCrash(s) PROVE ClaimInv' /\ ExpiredStay
    BY <1>2, <2>4, SweepKeeps
  <2>5. ASSUME NEW w \in Worker, Work(w) \/ WorkCrash(w) PROVE ClaimInv' /\ ExpiredStay
    BY <1>2, <2>5, WorkKeeps
  <2>6. ASSUME NEW w \in Worker, NEW e \in queue, WorkTake(w, e) PROVE ClaimInv' /\ ExpiredStay
    BY <1>2, <2>6, WorkTakeKeeps
  <2>7. ASSUME NEW f \in File, DeleteFile(f) PROVE ClaimInv' /\ ExpiredStay
    BY <1>2, <2>7, DeleteFileKeeps
  <2>. QED
    BY <1>2, <2>1, <2>2, <2>3, <2>4, <2>5, <2>6, <2>7 DEF Next
<1>. QED
  BY <1>1, <1>2

-----------------------------------------------------------------------------
(* From the claim to the end: the row of the task, its event, its handler   *)
(* and its worker speak of one file.                                        *)

\* The parts of the invariant that say so.
Linkage == ClaimerFirst /\ FilesLinked /\ FilesMade /\ CompletedHasFile

\* A step that links no file, starts no work and publishes nothing, claims no
\* task that is worked on, and completes linked tasks only.
AtWork(t) == (\E e \in queue : e.task = t) \/ \E w \in Worker : work[w].t = t

Passing ==
  /\ \A t \in Task : /\ task'[t].created = task[t].created
                     /\ task'[t].up = "Completed" => task[t].up = "Completed" \/ task[t].created # None
  /\ \A f \in File : Used(f) => Used(f)' /\ (f \in Existing \/ file'[f].key = file[f].key)
  /\ queue' \subseteq queue
  /\ \A w \in Worker : \/ work'[w] = IdleWork
                       \/ /\ work'[w].t = work[w].t /\ work'[w].f = work[w].f
                          /\ work'[w].pc # "idle" => work[w].pc # "idle"
  /\ \A r \in Req :
       /\ req'[r].pc \in PastClaim =>
            (req[r].pc \in PastClaim /\ req'[r].t = req[r].t) \/ ~AtWork(req'[r].t)
       /\ req'[r].pc \in AfterLink =>
            req[r].pc \in AfterLink /\ req'[r].t = req[r].t /\ req'[r].f = req[r].f
       /\ req'[r].pc \in WithFile =>
            \/ req[r].pc \in WithFile /\ req'[r].t = req[r].t /\ req'[r].f = req[r].f
            \/ \E t \in Task, f \in File : req'[r].t = t /\ req'[r].f = f /\ Makes(t, f)'

\* ... and lets nobody else's last steps go undone.
Resting ==
  /\ \A t \in Task : task'[t].up = "Completed" => task[t].up = "Completed"
  /\ \A f \in File : file'[f].live =>
       file[f].live /\ (file[f].up = "Completed" => file'[f].up = "Completed")
  /\ UNCHANGED <<queue, work>>
  /\ \A r \in Req :
       /\ req[r].pc = "c_fileDone" => req'[r].pc = "c_fileDone" /\ req'[r].t = req[r].t
       /\ req'[r].pc \in PastClaim \ {"c_fileDone"} =>
            \/ req[r].pc \in PastClaim \ {"c_fileDone"} /\ req'[r].t = req[r].t
            \/ task'[req'[r].t].up # "Completed"

LEMMA Values ==
  /\ None \notin Task /\ None \notin File /\ Task \cap File = {}
  /\ Existing \subseteq File
BY Distinct, TargetFile DEF Key, Existing

LEMMA PassingKeeps ==
  ASSUME ClaimInv, ClaimInv', Linkage, Passing
  PROVE  Linkage'
<1>1. \A t \in Task, f \in File : Used(f) /\ Makes(t, f) => Makes(t, f)'
  BY DEF Passing, Makes
<1>2. ClaimerFirst'
  <2>1. \A r \in Req : req'[r].pc \in PastClaim => req'[r].t \in Task
    BY DEF ClaimInv, LocalsSet, PastClaim, BeforeFile, WithObject, Swapping
  <2>2. \A r \in Req : req'[r].pc \in PastClaim => ~AtWork(req'[r].t)
    BY DEF Passing, Linkage, ClaimerFirst, AtWork
  <2>3. \A t \in Task : ~AtWork(t) => /\ \A e \in queue' : e.task # t
                                      /\ \A w \in Worker : work'[w].t # t
    BY Values DEF AtWork, Passing, IdleWork
  <2>. QED  BY <2>1, <2>2, <2>3 DEF ClaimerFirst, PastClaim, BeforeFile, WithObject, Swapping
<1>3. FilesLinked'
  <2>1. \A r \in Req : req[r].pc \in AfterLink => req[r].t \in Task
    BY DEF ClaimInv, LocalsSet, AfterLink
  <2>2. \A w \in Worker : work[w].pc # "idle" => work[w].t \in Task
    BY DEF ClaimInv, LocalsSet
  <2>3. \A e \in queue : e.task \in Task
    BY DEF ClaimInv, TypeOK, QueueOK, Event
  <2>4. \A t \in Task : task[t].created # None => task[t].created \in File
    BY DEF ClaimInv, TypeOK, TaskOK, TaskRow
  <2>5. \A r \in Req : req'[r].pc \in AfterLink => task'[req'[r].t].created = req'[r].f
    BY <2>1 DEF Passing, Linkage, FilesLinked
  <2>6. \A e \in queue' : task'[e.task].created = e.file
    BY <2>3 DEF Passing, Linkage, FilesLinked
  <2>7. \A w \in Worker : work'[w].pc # "idle" => task'[work'[w].t].created = work'[w].f
    BY <2>2 DEF Passing, Linkage, FilesLinked, IdleWork
  <2>8. \A t \in Task : task'[t].created # None => Used(task[t].created)'
    BY <2>4 DEF Passing, Linkage, FilesLinked, Used
  <2>. QED
    BY <2>5, <2>6, <2>7, <2>8 DEF FilesLinked, AfterLink, Used
<1>4. FilesMade'
  <2>1. ASSUME NEW r \in Req, req'[r].pc \in WithFile PROVE Makes(req[r].t, req[r].f)'
    <3>1. CASE req[r].pc \in WithFile /\ req'[r].t = req[r].t /\ req'[r].f = req[r].f
      <4>1. req[r].t \in Task /\ req[r].f \in File /\ Used(req[r].f)
        BY <3>1 DEF ClaimInv, LocalsSet, WithFile, PastClaim, BeforeFile, WithObject, Swapping
      <4>. QED  BY <1>1, <3>1, <4>1 DEF Linkage, FilesMade, Makes
    <3>2. CASE \E t \in Task, f \in File : req'[r].t = t /\ req'[r].f = f /\ Makes(t, f)'
      BY <3>2 DEF Makes
    <3>. QED  BY <2>1, <3>1, <3>2 DEF Passing
  <2>2. ASSUME NEW t \in Task, task'[t].created # None PROVE Makes(t, task[t].created)'
    <3>1. task'[t].created = task[t].created /\ Used(task[t].created) /\ task[t].created \in File
      BY <2>2 DEF Passing, Linkage, FilesLinked, ClaimInv, TypeOK, TaskOK, TaskRow
    <3>. QED  BY <1>1, <2>2, <3>1 DEF Linkage, FilesMade, Makes
  <2>. QED  BY <2>1, <2>2 DEF FilesMade, Makes
<1>5. CompletedHasFile'
  <2>1. \A t \in Task : task'[t].up = "Completed" => task[t].created # None /\ Used(task[t].created)'
    BY Values, <1>3 DEF Passing, Linkage, CompletedHasFile, FilesLinked, Used
  <2>. QED  BY <2>1 DEF Passing, CompletedHasFile, Used, ClaimInv, TypeOK, TaskOK, TaskRow
<1>. QED  BY <1>2, <1>3, <1>4, <1>5 DEF Linkage

LEMMA RestingKeeps ==
  ASSUME ClaimInv, ClaimInv', Linkage, Passing, Resting, LastSteps
  PROVE  LastSteps'
<1>0. OneWorkerEach /\ HandlerNotDone /\ OnlyAckLeft /\ FileThenTask /\ TaskThenFile
  BY DEF LastSteps
<1>1. \A r \in Req : req[r].pc \in PastClaim => req[r].t \in Task
  BY DEF ClaimInv, LocalsSet, PastClaim, BeforeFile, WithObject, Swapping
<1>2. OneWorkerEach'  BY <1>0 DEF OneWorkerEach, Resting
<1>3. HandlerNotDone'  BY <1>0, <1>1 DEF HandlerNotDone, Passing, Resting
<1>4. OnlyAckLeft'
  BY <1>0 DEF OnlyAckLeft, Passing, Resting, ClaimInv, LocalsSet, TypeOK, QueueOK, Event
<1>5. FileThenTask'  BY <1>0 DEF FileThenTask, Resting, ClaimInv, LocalsSet
<1>6. TaskThenFile'
  <2>1. \A t \in Task : task[t].up = "Completed" => task[t].created \in File
    BY DEF Linkage, CompletedHasFile
  <2>. QED  BY <1>0, <2>1 DEF TaskThenFile, Passing, Resting, PastClaim
<1>. QED  BY <1>2, <1>3, <1>4, <1>5, <1>6 DEF LastSteps

-----------------------------------------------------------------------------
\* Requests before the claim, the client, the clock, cancels and the sweep
\* change neither files nor events, and no task to Completed.
Aside ==
  /\ UNCHANGED <<file, queue, work>>
  /\ \A t \in Task : /\ task'[t].created = task[t].created
                     /\ task'[t].up = "Completed" => task[t].up = "Completed"
  /\ \A r \in Req : req'[r] = req[r] \/ {req[r].pc, req'[r].pc} \cap PastClaim = {}

LEMMA AsideRests ==
  ASSUME Aside
  PROVE  Passing /\ Resting
<1>1. /\ WithFile \subseteq PastClaim /\ AfterLink \subseteq PastClaim /\ "c_fileDone" \in PastClaim
  BY DEF WithFile, AfterLink, PastClaim, BeforeFile, WithObject, Swapping
<1>2. Passing
  <2>1. \A r \in Req : \A S \in {PastClaim, AfterLink, WithFile} :
          req'[r].pc \in S => req'[r] = req[r]
    BY <1>1 DEF Aside
  <2>. QED  BY <2>1 DEF Aside, Passing, Used
<1>3. Resting
  BY <1>1 DEF Aside, Resting
<1>. QED  BY <1>2, <1>3

LEMMA StartAside ==
  ASSUME ClaimInv, NEW r \in Req, Start(r) \/ Prepare(r)
  PROVE  Aside
<1>1. \A pc \in PastClaim : pc \notin {"idle", "p_key", "p_session", "p_uploadId", "p_url", "r_touch",
               "r_url", "s_return", "c_list", "c_assemble", "c_stat", "c_claim"}
  BY DEF PastClaim, BeforeFile, WithObject, Swapping
<1>2. req \in [Req -> ReqRow] /\ task \in [Task -> TaskRow]
  BY DEF ClaimInv, TypeOK, ReqOK, TaskOK
<1>3. CASE Start(r)
  <2>1. CASE PrepareNew(r)
    BY <1>1, <1>2, <2>1 DEF PrepareNew, Aside, IdleReq, store, procs, ghosts, TaskRow
  <2>2. CASE PrepareResume(r)
    BY <1>1, <1>2, <2>2 DEF PrepareResume, Aside, IdleReq, store, procs, ghosts, TaskRow
  <2>3. CASE PresignRead(r)
    BY <1>1, <1>2, <2>3 DEF PresignRead, Aside, IdleReq, store, procs, ghosts, TaskRow
  <2>4. CASE CompleteRead(r)
    BY <1>1, <1>2, <2>4 DEF CompleteRead, Aside, IdleReq, store, procs, ghosts, TaskRow
  <2>. QED  BY <1>3, <2>1, <2>2, <2>3, <2>4 DEF Start
<1>4. CASE Prepare(r)
  <2>1. CASE PrepareSourceKey(r)
    BY <1>1, <1>2, <2>1 DEF PrepareSourceKey, Aside, Goto, Return, IdleReq, store, procs, ghosts, TaskRow
  <2>2. CASE PrepareSession(r)
    BY <1>1, <1>2, <2>2 DEF PrepareSession, Aside, Goto, Return, IdleReq, store, procs, ghosts, TaskRow
  <2>3. CASE PrepareUploadId(r)
    BY <1>1, <1>2, <2>3 DEF PrepareUploadId, Aside, Goto, Return, IdleReq, store, procs, ghosts, TaskRow
  <2>4. CASE PrepareReturn(r)
    BY <1>1, <1>2, <2>4 DEF PrepareReturn, Aside, Goto, Return, IdleReq, store, procs, ghosts, TaskRow
  <2>5. CASE ResumeTouch(r)
    BY <1>1, <1>2, <2>5 DEF ResumeTouch, Aside, Goto, Return, IdleReq, store, procs, ghosts, TaskRow
  <2>6. CASE ResumeReturn(r)
    BY <1>1, <1>2, <2>6 DEF ResumeReturn, Aside, Goto, Return, IdleReq, store, procs, ghosts, TaskRow
  <2>7. CASE PresignReturn(r)
    BY <1>1, <1>2, <2>7 DEF PresignReturn, Aside, Goto, Return, IdleReq, store, procs, ghosts, TaskRow
  <2>. QED  BY <1>4, <2>1, <2>2, <2>3, <2>4, <2>5, <2>6, <2>7 DEF Prepare
<1>. QED  BY <1>3, <1>4

LEMMA OthersAside ==
  ASSUME ClaimInv,
         \/ \E t \in Task : Client(t) \/ UrlsExpire(t) \/ GoIdle(t)
         \/ \E c \in Canceller : Cancel(c) \/ CancelCrash(c)
         \/ \E s \in Sweeper : Sweep(s) \/ SweepCrash(s)
  PROVE  Aside
<1>1. req' = req => \A r \in Req : req'[r] = req[r]
  OBVIOUS
<1>2. task \in [Task -> TaskRow]
  BY DEF ClaimInv, TypeOK, TaskOK
<1>3. CASE \E t \in Task : Client(t) \/ UrlsExpire(t) \/ GoIdle(t)
  BY <1>1, <1>2, <1>3 DEF Client, ClientPut, ClientPutDerivative, ClientPutPart, UrlsExpire, GoIdle,
     Aside, store, procs, ghosts, TaskRow
<1>4. ASSUME NEW c \in Canceller, Cancel(c) \/ CancelCrash(c)  PROVE Aside
  <2>1. CASE CancelRead(c)
    BY <1>1, <1>2, <2>1 DEF CancelRead, Aside, store, TaskRow
  <2>2. CASE CancelAbort(c)
    BY <1>1, <1>2, <2>2 DEF CancelAbort, Aside, store, TaskRow
  <2>3. CASE CancelDelete(c)
    BY <1>1, <1>2, <2>3 DEF CancelDelete, Aside, store, TaskRow
  <2>4. CASE CancelDeleteDerived(c)
    BY <1>1, <1>2, <2>4 DEF CancelDeleteDerived, Aside, store, TaskRow
  <2>5. CASE CancelFail(c)
    BY <1>1, <1>2, <2>5 DEF CancelFail, Aside, store, TaskRow
  <2>6. CASE CancelCrash(c)
    BY <1>1, <1>2, <2>6 DEF CancelCrash, Aside, store, TaskRow
  <2>. QED  BY <1>4, <2>1, <2>2, <2>3, <2>4, <2>5, <2>6 DEF Cancel
<1>5. ASSUME NEW s \in Sweeper, Sweep(s) \/ SweepCrash(s)  PROVE Aside
  <2>1. CASE SweepQuery(s)
    BY <1>1, <1>2, <2>1 DEF SweepQuery, Aside, store, ghosts, TaskRow
  <2>2. CASE SweepClaim(s)
    BY <1>1, <1>2, <2>2 DEF SweepClaim, Aside, store, ghosts, TaskRow
  <2>3. CASE SweepSkip(s)
    BY <1>1, <1>2, <2>3 DEF SweepSkip, Aside, store, ghosts, TaskRow
  <2>4. CASE SweepAbort(s)
    BY <1>1, <1>2, <2>4 DEF SweepAbort, Aside, store, ghosts, TaskRow
  <2>5. CASE SweepDelete(s)
    BY <1>1, <1>2, <2>5 DEF SweepDelete, Aside, store, ghosts, TaskRow
  <2>6. CASE SweepDeleteDerived(s)
    BY <1>1, <1>2, <2>6 DEF SweepDeleteDerived, Aside, store, ghosts, TaskRow
  <2>7. CASE SweepCrash(s)
    BY <1>1, <1>2, <2>7 DEF SweepCrash, Aside, store, ghosts, TaskRow
  <2>. QED  BY <1>5, <2>1, <2>2, <2>3, <2>4, <2>5, <2>6, <2>7 DEF Sweep
<1>. QED  BY <1>3, <1>4, <1>5

\* A deleted file keeps its status, and a handler that dies leaves the rest.
LEMMA DeletePasses ==
  ASSUME ClaimInv, NEW f \in File, DeleteFile(f)
  PROVE  Passing /\ Resting
BY DEF ClaimInv, TypeOK, FileOK, DeleteFile, Passing, Resting, Used, store, procs, ghosts

LEMMA AbandonPasses ==
  ASSUME ClaimInv, NEW r \in Req, Abandon(r)
  PROVE  Passing /\ (Faults \/ Crashes)
BY DEF ClaimInv, TypeOK, ReqOK, Abandon, Return, IdleReq, Passing, Used, store, procs, ghosts,
   PastClaim, BeforeFile, WithObject, Swapping, AfterLink, WithFile

-----------------------------------------------------------------------------
(* The steps of a completion *)

\* Before the claim.
LEMMA BeforeClaimAside ==
  ASSUME ClaimInv, NEW r \in Req,
         CompleteListParts(r) \/ CompleteAssemble(r) \/ CompleteStat(r) \/ CompleteLost(r)
  PROVE  Aside
<1>1. \A pc \in PastClaim : pc \notin {"idle", "c_list", "c_assemble", "c_stat", "c_claim"}
  BY DEF PastClaim, BeforeFile, WithObject, Swapping
<1>2. req \in [Req -> ReqRow]
  BY DEF ClaimInv, TypeOK, ReqOK
<1>3. CASE CompleteListParts(r)
  BY <1>1, <1>2, <1>3 DEF CompleteListParts, Goto, Return, IdleReq, Aside, store, procs, ghosts, ReqRow
<1>4. CASE CompleteAssemble(r)
  BY <1>1, <1>2, <1>4 DEF CompleteAssemble, Goto, Return, IdleReq, Aside, procs, ghosts, ReqRow
<1>5. CASE CompleteStat(r)
  BY <1>1, <1>2, <1>5 DEF CompleteStat, Goto, Return, IdleReq, Aside, store, procs, ghosts, ReqRow
<1>6. CASE CompleteLost(r)
  BY <1>1, <1>2, <1>6 DEF CompleteLost, Goto, Return, IdleReq, Aside, store, procs, ghosts, ReqRow
<1>. QED  BY <1>3, <1>4, <1>5, <1>6

\* The claim, which finds nobody at work on the task, and what comes between it
\* and the link: the object, the transaction of an overwrite, the derivative.
LEMMA MiddlePasses ==
  ASSUME ClaimInv, Linkage, NEW r \in Req,
         \/ CompleteClaim(r) \/ OverwriteRead(r)
         \/ CreateStoredObject(r) \/ OverwriteSwap(r) \/ OverwriteCommit(r)
         \/ OverwriteReload(r) \/ CreateStoredDerivedFile(r)
  PROVE  Passing /\ Resting
<1>1. req \in [Req -> ReqRow] /\ file \in [File -> FileRow]
  BY DEF ClaimInv, TypeOK, ReqOK, FileOK
<1>. USE DEF Goto, Passing, Resting, Used, PastClaim, BeforeFile, WithObject, Swapping, AfterLink,
             WithFile, store, procs, ghosts, ReqRow, FileRow
<1>2. CASE CreateStoredObject(r)  BY <1>1, <1>2 DEF CreateStoredObject
<1>3. CASE OverwriteSwap(r)  BY <1>1, <1>3 DEF OverwriteSwap
<1>4. CASE OverwriteCommit(r)
  <2>1. Makes(req[r].t, req[r].f)  BY <1>4 DEF OverwriteCommit, Linkage, FilesMade
  <2>. QED  BY <1>1, <1>4, <2>1 DEF OverwriteCommit, Makes
<1>5. CASE OverwriteReload(r)  BY <1>1, <1>5 DEF OverwriteReload
<1>6. CASE CreateStoredDerivedFile(r)  BY <1>1, <1>6 DEF CreateStoredDerivedFile
<1>7. CASE CompleteClaim(r)
  <2>1. req[r].t \in Task /\ ~AtWork(req[r].t)
    BY <1>7 DEF CompleteClaim, MarkProcessing, ClaimInv, LocalsSet, ClaimEndsUploading, Claimed, AtWork
  <2>2. task \in [Task -> TaskRow]  BY DEF ClaimInv, TypeOK, TaskOK
  <2>. QED  BY <1>1, <1>7, <2>1, <2>2 DEF CompleteClaim, MarkProcessing, TaskRow
<1>8. CASE OverwriteRead(r)
  <2>1. req[r].t \in Task /\ Target[req[r].t] \in Existing
    BY <1>8, TargetFile, Distinct DEF OverwriteRead, ClaimInv, LocalsSet, Existing, Key
  <2>. QED  BY <1>1, <1>8, <2>1, Values DEF OverwriteRead, Makes
<1>. QED  BY <1>2, <1>3, <1>4, <1>5, <1>6, <1>7, <1>8

\* Two tasks make one file only where both overwrite it.
LEMMA SameTask ==
  ASSUME TargetsApart, NEW t \in Task, NEW u \in Task, NEW f \in File, Makes(t, f), Makes(u, f)
  PROVE  t = u
BY Values DEF TargetsApart, Makes

\* What a handler past its claim knows.
LEMMA HandlerFacts ==
  ASSUME ClaimInv, Linkage, NEW r \in Req, req[r].pc \in PastClaim
  PROVE  /\ req[r].t \in Task
         /\ \A o \in Req : req[o].pc \in PastClaim /\ req[o].t = req[r].t => o = r
         /\ \A e \in queue : e.task # req[r].t
         /\ \A w \in Worker : work[w].t # req[r].t
         /\ req[r].pc \in WithFile =>
              req[r].f \in File /\ Used(req[r].f) /\ Makes(req[r].t, req[r].f)
BY DEF ClaimInv, LocalsSet, OneClaimer, Linkage, ClaimerFirst, FilesMade, PastClaim, BeforeFile,
   WithObject, Swapping

\* The file of a task, and of whoever works on it.
LEMMA FileFacts ==
  ASSUME ClaimInv, Linkage
  PROVE  /\ \A t \in Task : task[t].created # None =>
              /\ task[t].created \in File /\ Used(task[t].created)
              /\ Makes(t, task[t].created)
         /\ \A t \in Task : task[t].up = "Completed" => task[t].created # None
         /\ \A w \in Worker : work[w].pc # "idle" =>
              /\ work[w].t \in Task /\ work[w].f \in File /\ work[w].f # None
              /\ task[work[w].t].created = work[w].f
         /\ \A e \in queue : /\ e.task \in Task /\ e.file \in File /\ e.file # None
                             /\ task[e.task].created = e.file
BY Values DEF ClaimInv, TypeOK, TaskOK, TaskRow, QueueOK, Event, LocalsSet, Linkage, FilesLinked,
   FilesMade, CompletedHasFile


LEMMA CreateLinks ==
  ASSUME ClaimInv, Linkage, NEW r \in Req, CreateUploadedFile(r)
  PROVE  Passing /\ (LastSteps => LastSteps')
<1>1. PICK f \in File \ Existing :
        /\ ~Used(f)
        /\ file' = [file EXCEPT ![f] = [up |-> "Completed", key |-> req[r].t, live |-> TRUE,
                                        derived |-> None]]
        /\ req' = [req EXCEPT ![r] = [@ EXCEPT !.pc = "c_pending", !.f = f]]
  BY Zenon DEF CreateUploadedFile
<1>2. /\ req[r].t \in Task /\ req[r].pc = "c_file" /\ UNCHANGED <<task, queue, work>>
      /\ req \in [Req -> ReqRow] /\ file \in [File -> FileRow]
  BY DEF CreateUploadedFile, ClaimInv, LocalsSet, TypeOK, ReqOK, FileOK, store, procs
<1>3. Makes(req[r].t, f)'  BY <1>1, <1>2 DEF Makes
<1>4. Passing
  BY <1>1, <1>2, <1>3 DEF Passing, Used, ReqRow, FileRow, PastClaim, BeforeFile, WithObject, Swapping,
     AfterLink, WithFile
<1>5. \A g \in File : Used(g) => file'[g] = file[g]
  BY <1>1, <1>2
<1>6. \A o \in Req : req'[o].t = req[o].t /\ (req'[o].pc = req[o].pc \/ (o = r /\ req'[o].pc = "c_pending"))
  BY <1>1, <1>2 DEF ReqRow
<1>7. ASSUME LastSteps  PROVE LastSteps'
  <2>1. OneWorkerEach' /\ OnlyAckLeft'
    BY <1>2, <1>7 DEF LastSteps, OneWorkerEach, OnlyAckLeft
  <2>2. HandlerNotDone'
    BY <1>2, <1>6, <1>7 DEF LastSteps, HandlerNotDone, PastClaim, BeforeFile, WithObject
  <2>3. FileThenTask'
    BY <1>2, <1>5, <1>7, FileFacts DEF LastSteps, FileThenTask
  <2>4. TaskThenFile'
    BY <1>2, <1>5, <1>6, <1>7, FileFacts DEF LastSteps, TaskThenFile
  <2>. QED  BY <2>1, <2>2, <2>3, <2>4 DEF LastSteps
<1>. QED  BY <1>4, <1>7

LEMMA PendingLinks ==
  ASSUME ClaimInv, Linkage, NEW r \in Req, CreatePendingUploadedFile(r)
  PROVE  Passing /\ (TargetsApart /\ LastSteps => LastSteps')
<1>. DEFINE f == req[r].f
<1>1. /\ req[r].pc = "c_pending" /\ req' = [req EXCEPT ![r].pc = "c_link"]
      /\ file' = [file EXCEPT ![f].up = IF file[f].live THEN "Processing" ELSE @]
      /\ UNCHANGED <<task, queue, work>>
      /\ req \in [Req -> ReqRow] /\ file \in [File -> FileRow]
  BY DEF CreatePendingUploadedFile, SetFileStatus, Goto, ClaimInv, TypeOK, ReqOK, FileOK, store, procs
<1>2. /\ req[r].t \in Task /\ f \in File /\ Makes(req[r].t, f)
      /\ \A w \in Worker : work[w].t # req[r].t
  BY <1>1, HandlerFacts DEF PastClaim, WithFile, BeforeFile, WithObject, Swapping
<1>3. Passing
  BY <1>1, <1>2 DEF Passing, Used, ReqRow, FileRow, PastClaim, BeforeFile, WithObject, Swapping,
     AfterLink, WithFile
<1>4. \A g \in File : g # f => file'[g] = file[g]
  BY <1>1
<1>5. \A o \in Req : req'[o].t = req[o].t /\ (req'[o].pc = req[o].pc \/ (o = r /\ req'[o].pc = "c_link"))
  BY <1>1 DEF ReqRow
<1>6. ASSUME LastSteps, TargetsApart  PROVE LastSteps'
  <2>0. \A t \in Task : task[t].created = f => t = req[r].t
    BY Values, <1>2, <1>6, FileFacts, SameTask
  <2>1. OneWorkerEach' /\ OnlyAckLeft'
    BY <1>1, <1>6 DEF LastSteps, OneWorkerEach, OnlyAckLeft
  <2>2. HandlerNotDone'
    BY <1>1, <1>5, <1>6 DEF LastSteps, HandlerNotDone, PastClaim
  <2>3. FileThenTask'
    <3>1. \A w \in Worker : work[w].pc # "idle" => work[w].f # f
      BY <1>2, <2>0, FileFacts
    <3>. QED  BY <1>1, <1>4, <1>6, <3>1, FileFacts DEF LastSteps, FileThenTask
  <2>4. TaskThenFile'
    <3>1. task[req[r].t].up # "Completed"
      BY <1>1, <1>6 DEF LastSteps, HandlerNotDone, PastClaim
    <3>. QED  BY <1>1, <1>4, <1>5, <1>6, <2>0, <3>1, FileFacts DEF LastSteps, TaskThenFile
  <2>. QED  BY <2>1, <2>2, <2>3, <2>4 DEF LastSteps
<1>. QED  BY <1>3, <1>6

\* The link: whatever the task was linked to, nobody works on it.
LEMMA LinkLinks ==
  ASSUME ClaimInv, Linkage, NEW r \in Req, CompleteLink(r)
  PROVE  Linkage' /\ (LastSteps => LastSteps')
<1>. DEFINE t == req[r].t
            f == req[r].f
<1>1. /\ req[r].pc = "c_link" /\ UNCHANGED <<file, queue, work>>
      /\ task' = [task EXCEPT ![t] = [task[t] EXCEPT !.created = f, !.idle = FALSE]]
      /\ \E pc \in {"c_derive", "c_publish"} : req' = [req EXCEPT ![r].pc = pc]
      /\ req \in [Req -> ReqRow] /\ task \in [Task -> TaskRow]
  BY DEF CompleteLink, Goto, ClaimInv, TypeOK, ReqOK, TaskOK, store, procs
<1>2. /\ t \in Task /\ f \in File /\ Used(f) /\ Makes(t, f)
      /\ \A o \in Req : req[o].pc \in PastClaim /\ req[o].t = t => o = r
      /\ \A e \in queue : e.task # t
      /\ \A w \in Worker : work[w].t # t
  BY <1>1, HandlerFacts DEF PastClaim, WithFile, BeforeFile, WithObject, Swapping
<1>3. /\ \A u \in Task : task'[u].up = task[u].up /\ (u # t => task'[u].created = task[u].created)
      /\ task'[t].created = f
  BY <1>1, <1>2 DEF TaskRow
<1>4. \A o \in Req : /\ req'[o].t = req[o].t /\ req'[o].f = req[o].f
                     /\ req'[o].pc = req[o].pc \/ (o = r /\ req'[o].pc \in {"c_derive", "c_publish"})
  BY <1>1 DEF ReqRow
<1>5. ClaimerFirst'
  BY <1>1, <1>4 DEF Linkage, ClaimerFirst, PastClaim
<1>6. FilesLinked'
  <2>1. \A o \in Req : req'[o].pc \in AfterLink => task'[req'[o].t].created = req'[o].f
    <3>1. ASSUME NEW o \in Req, o # r, req[o].pc \in AfterLink  PROVE req[o].t \in Task /\ req[o].t # t
      BY <1>2, <3>1, HandlerFacts DEF AfterLink, PastClaim
    <3>. QED  BY <1>1, <1>2, <1>3, <1>4, <3>1 DEF Linkage, FilesLinked
  <2>2. \A e \in queue : task'[e.task].created = e.file
    BY <1>2, <1>3, FileFacts
  <2>3. \A w \in Worker : work[w].pc # "idle" => task'[work[w].t].created = work[w].f
    BY <1>2, <1>3, FileFacts
  <2>4. \A u \in Task : task'[u].created # None => Used(task'[u].created)
    BY <1>2, <1>3, FileFacts
  <2>. QED  BY <1>1, <2>1, <2>2, <2>3, <2>4 DEF FilesLinked, AfterLink, Used
<1>7. FilesMade'
  <2>1. \A o \in Req : req'[o].pc \in WithFile => Makes(req'[o].t, req'[o].f)
    BY <1>1, <1>2, <1>4 DEF Linkage, FilesMade
  <2>2. \A u \in Task : task'[u].created # None => Makes(u, task'[u].created)
    BY <1>2, <1>3, FileFacts
  <2>. QED  BY <1>1, <2>1, <2>2 DEF FilesMade, Makes, WithFile, PastClaim, BeforeFile, WithObject, Swapping
<1>8. CompletedHasFile'
  BY <1>1, <1>2, <1>3 DEF Linkage, CompletedHasFile, Used
<1>9. ASSUME LastSteps  PROVE LastSteps'
  <2>1. OneWorkerEach' /\ OnlyAckLeft'
    BY <1>1, <1>3, <1>9, FileFacts DEF LastSteps, OneWorkerEach, OnlyAckLeft
  <2>2. HandlerNotDone'
    BY <1>1, <1>3, <1>4, <1>9, HandlerFacts DEF LastSteps, HandlerNotDone, PastClaim
  <2>3. FileThenTask'
    BY <1>1, <1>9 DEF LastSteps, FileThenTask
  <2>4. TaskThenFile'
    <3>1. task[t].up # "Completed"
      BY <1>1, <1>9 DEF LastSteps, HandlerNotDone, PastClaim
    <3>. QED  BY <1>1, <1>3, <1>4, <1>9, <3>1 DEF LastSteps, TaskThenFile
  <2>. QED  BY <2>1, <2>2, <2>3, <2>4 DEF LastSteps
<1>. QED  BY <1>5, <1>6, <1>7, <1>8, <1>9 DEF Linkage

LEMMA TaskDoneLinks ==
  ASSUME ClaimInv, Linkage, NEW r \in Req, CompleteTask(r)
  PROVE  Passing /\ (LastSteps => LastSteps')
<1>. DEFINE t == req[r].t
<1>1. /\ req[r].pc = "c_taskDone" /\ UNCHANGED <<file, queue, work>>
      /\ task' = [task EXCEPT ![t] = [task[t] EXCEPT !.up = "Completed", !.status = "completed",
                                                     !.idle = FALSE]]
      /\ req' = [req EXCEPT ![r].pc = "c_fileDone"]
      /\ req \in [Req -> ReqRow] /\ task \in [Task -> TaskRow]
  BY DEF CompleteTask, MarkCompleted, Goto, ClaimInv, TypeOK, ReqOK, TaskOK, store, procs
<1>2. /\ t \in Task /\ task[t].created # None
      /\ \A o \in Req : req[o].pc \in PastClaim /\ req[o].t = t => o = r
      /\ \A e \in queue : e.task # t
      /\ \A w \in Worker : work[w].t # t
  <2>1. task[t].created = req[r].f  BY <1>1 DEF Linkage, FilesLinked, AfterLink
  <2>. QED
    BY <1>1, <2>1, HandlerFacts, Values DEF PastClaim, WithFile, BeforeFile, WithObject, Swapping
<1>3. \A u \in Task : /\ task'[u].created = task[u].created
                      /\ u # t => task'[u].up = task[u].up
  BY <1>1, <1>2 DEF TaskRow
<1>4. \A o \in Req : /\ req'[o].t = req[o].t /\ req'[o].f = req[o].f
                     /\ req'[o].pc = req[o].pc \/ (o = r /\ req'[o].pc = "c_fileDone")
  BY <1>1 DEF ReqRow
<1>5. Passing
  BY <1>1, <1>2, <1>3, <1>4 DEF Passing, Used, PastClaim, AfterLink, WithFile, BeforeFile, WithObject, Swapping
<1>6. ASSUME LastSteps  PROVE LastSteps'
  <2>1. OneWorkerEach' /\ OnlyAckLeft'
    BY <1>1, <1>2, <1>3, <1>6, FileFacts DEF LastSteps, OneWorkerEach, OnlyAckLeft
  <2>2. HandlerNotDone'
    BY <1>1, <1>2, <1>3, <1>4, <1>6, HandlerFacts DEF LastSteps, HandlerNotDone, PastClaim
  <2>3. FileThenTask'
    BY <1>1, <1>6 DEF LastSteps, FileThenTask
  <2>4. TaskThenFile'
    <3>1. req'[r].pc = "c_fileDone" /\ req'[r].t = t  BY <1>1 DEF ReqRow
    <3>. QED  BY <1>1, <1>3, <1>4, <1>6, <3>1 DEF LastSteps, TaskThenFile
  <2>. QED  BY <2>1, <2>2, <2>3, <2>4 DEF LastSteps
<1>. QED  BY <1>5, <1>6

LEMMA FileDoneLinks ==
  ASSUME ClaimInv, Linkage, NEW r \in Req, CompleteFile(r)
  PROVE  Passing /\ (LastSteps => LastSteps')
<1>. DEFINE f == req[r].f
<1>1. /\ req[r].pc = "c_fileDone" /\ req' = [req EXCEPT ![r] = IdleReq]
      /\ file' = [file EXCEPT ![f].up = IF file[f].live THEN "Completed" ELSE @]
      /\ UNCHANGED <<task, queue, work>>
      /\ req \in [Req -> ReqRow] /\ file \in [File -> FileRow]
  BY DEF CompleteFile, SetFileStatus, Return, ClaimInv, TypeOK, ReqOK, FileOK, store, procs
<1>2. req[r].t \in Task /\ f \in File /\ task[req[r].t].created = f
  BY <1>1, HandlerFacts DEF PastClaim, WithFile, AfterLink, BeforeFile, WithObject, Swapping, Linkage,
     FilesLinked
<1>3. \A o \in Req : req'[o] = req[o] \/ (o = r /\ req'[o].pc = "idle")
  BY <1>1 DEF IdleReq
<1>4. \A g \in File : /\ file'[g].live = file[g].live /\ file'[g].key = file[g].key
                      /\ g # f => file'[g] = file[g]
                      /\ file'[g].up = file[g].up \/ file'[g].up = "Completed"
                      /\ file'[f].live => file'[f].up = "Completed"
  BY <1>1, <1>2 DEF FileRow
<1>5. Passing
  BY <1>1, <1>3, <1>4 DEF Passing, Used, PastClaim, AfterLink, WithFile, BeforeFile, WithObject, Swapping
<1>6. ASSUME LastSteps  PROVE LastSteps'
  <2>1. OneWorkerEach' /\ OnlyAckLeft'
    BY <1>1, <1>6 DEF LastSteps, OneWorkerEach, OnlyAckLeft
  <2>2. HandlerNotDone'
    BY <1>1, <1>3, <1>6 DEF LastSteps, HandlerNotDone, PastClaim, BeforeFile, WithObject, Swapping
  <2>3. FileThenTask'
    BY <1>1, <1>4, <1>6, FileFacts DEF LastSteps, FileThenTask
  <2>4. TaskThenFile'
    BY <1>1, <1>2, <1>3, <1>4, <1>6, FileFacts DEF LastSteps, TaskThenFile
  <2>. QED  BY <2>1, <2>2, <2>3, <2>4 DEF LastSteps
<1>. QED  BY <1>5, <1>6

\* The handler's event is the first of its task, and names its file.
LEMMA PublishLinks ==
  ASSUME ClaimInv, Linkage, NEW r \in Req, req[r].pc = "c_publish",
         UNCHANGED <<file, work>>, req' = [req EXCEPT ![r] = IdleReq],
         queue' = queue \cup {[task |-> req[r].t, file |-> req[r].f]},
         task' = task \/ MarkFailed(req[r].t)
  PROVE  Linkage' /\ (LastSteps => LastSteps')
<1>. DEFINE t == req[r].t
<1>1. /\ req \in [Req -> ReqRow] /\ task \in [Task -> TaskRow]
  BY DEF ClaimInv, TypeOK, ReqOK, TaskOK
<1>2. /\ t \in Task /\ task[t].created = req[r].f
      /\ \A o \in Req : req[o].pc \in PastClaim /\ req[o].t = t => o = r
      /\ \A w \in Worker : work[w].t # t
  BY HandlerFacts DEF PastClaim, AfterLink, Linkage, FilesLinked
<1>3. \A u \in Task : /\ task'[u].created = task[u].created
                      /\ task'[u].up = task[u].up \/ task'[u].up = "Failed"
  BY <1>1, <1>2 DEF MarkFailed, TaskRow
<1>4. \A o \in Req : (req'[o] = req[o] /\ o # r) \/ (o = r /\ req'[o].pc = "idle")
  BY <1>1 DEF IdleReq
<1>5. "idle" \notin PastClaim /\ AfterLink \subseteq PastClaim /\ WithFile \subseteq PastClaim
  BY DEF PastClaim, AfterLink, WithFile, BeforeFile, WithObject, Swapping
<1>6. ClaimerFirst'
  <2>1. \A o \in Req : req'[o].pc \in PastClaim => req'[o] = req[o] /\ req[o].t # t
    BY <1>2, <1>4, <1>5
  <2>. QED  BY <2>1 DEF Linkage, ClaimerFirst, PastClaim, BeforeFile, WithObject, Swapping
<1>7. FilesLinked'
  <2>1. \A o \in Req : req'[o].pc \in AfterLink =>
          req'[o] = req[o] /\ req[o].t \in Task /\ task[req[o].t].created = req[o].f
    BY <1>4, <1>5, HandlerFacts DEF Linkage, FilesLinked
  <2>2. \A e \in queue' : e.task \in Task /\ task[e.task].created = e.file
    BY <1>2, FileFacts
  <2>. QED  BY <1>3, <2>1, <2>2, FileFacts DEF FilesLinked, AfterLink, Used
<1>8. FilesMade'
  <2>1. \A o \in Req : req'[o].pc \in WithFile => Makes(req'[o].t, req'[o].f)
    BY <1>4, <1>5 DEF Linkage, FilesMade
  <2>2. \A u \in Task : task'[u].created # None => Makes(u, task'[u].created)
    BY <1>3, FileFacts
  <2>. QED  BY <2>1, <2>2 DEF FilesMade, Makes, WithFile, PastClaim, BeforeFile, WithObject, Swapping
<1>9. CompletedHasFile'
  BY <1>3 DEF Linkage, CompletedHasFile, Used
<1>10. ASSUME LastSteps  PROVE LastSteps'
  <2>1. task[t].up # "Completed"
    BY <1>10 DEF LastSteps, HandlerNotDone, PastClaim
  <2>2. OneWorkerEach'
    BY <1>10 DEF LastSteps, OneWorkerEach
  <2>3. OnlyAckLeft'
    BY <1>2, <1>3, <1>10, <2>1, FileFacts DEF LastSteps, OnlyAckLeft
  <2>4. HandlerNotDone'
    BY <1>3, <1>4, <1>5, <1>10, HandlerFacts DEF LastSteps, HandlerNotDone, PastClaim, BeforeFile, WithObject, Swapping
  <2>5. FileThenTask'
    BY <1>10 DEF LastSteps, FileThenTask
  <2>6. TaskThenFile'
    BY <1>3, <1>4, <1>10 DEF LastSteps, TaskThenFile
  <2>. QED  BY <2>2, <2>3, <2>4, <2>5, <2>6 DEF LastSteps
<1>. QED  BY <1>6, <1>7, <1>8, <1>9, <1>10 DEF Linkage

\* A failing handler leaves, and its task is Failed.
LEMMA FailLinks ==
  ASSUME ClaimInv, ClaimInv', Linkage, NEW r \in Req, CompleteFail(r)
  PROVE  Linkage' /\ (~Faults /\ LastSteps => LastSteps')
<1>1. /\ req' = [req EXCEPT ![r] = IdleReq] /\ UNCHANGED <<file, work>> /\ MarkFailed(req[r].t)
      /\ req \in [Req -> ReqRow] /\ task \in [Task -> TaskRow]
  BY DEF CompleteFail, Return, ClaimInv, TypeOK, ReqOK, TaskOK, store, procs
<1>2. req[r].pc \in PastClaim /\ req[r].t \in Task
  BY HandlerFacts DEF CompleteFail, MayFail, PastClaim, BeforeFile, WithObject, Swapping
<1>3. CASE queue' = queue
  <2>1. \A u \in Task : /\ task'[u].created = task[u].created
                        /\ task'[u].up = "Completed" => task[u].up = "Completed"
    BY <1>1, <1>2 DEF MarkFailed, TaskRow
  <2>2. \A o \in Req : req'[o] = req[o] \/ (o = r /\ req'[o].pc = "idle")
    BY <1>1 DEF IdleReq
  <2>3. Passing
    BY <1>1, <1>3, <2>1, <2>2 DEF Passing, Used, PastClaim, AfterLink, WithFile, BeforeFile, WithObject, Swapping
  <2>4. ~Faults => Resting
    <3>1. ~Faults => req[r].pc # "c_fileDone"  BY DEF CompleteFail, MayFail
    <3>. QED
      BY <1>1, <1>3, <2>1, <2>2, <3>1 DEF Resting, PastClaim, BeforeFile, WithObject, Swapping
  <2>. QED  BY <2>3, <2>4, PassingKeeps, RestingKeeps
<1>4. CASE queue' # queue
  <2>1. req[r].pc = "c_publish" /\ queue' = queue \cup {[task |-> req[r].t, file |-> req[r].f]}
    BY <1>4 DEF CompleteFail
  <2>. QED  BY <1>1, <2>1, PublishLinks
<1>. QED  BY <1>3, <1>4

\* Every step of a completion.
LEMMA CompleteLinks ==
  ASSUME ClaimInv, ClaimInv', Linkage, NEW r \in Req, Complete(r)
  PROVE  Linkage' /\ (Untroubled /\ LastSteps => LastSteps')
<1>1. CASE CompleteListParts(r) \/ CompleteAssemble(r) \/ CompleteStat(r) \/ CompleteLost(r)
  BY <1>1, BeforeClaimAside, AsideRests, PassingKeeps, RestingKeeps
<1>2. CASE \/ CompleteClaim(r) \/ OverwriteRead(r)
           \/ CreateStoredObject(r) \/ OverwriteSwap(r) \/ OverwriteCommit(r)
           \/ OverwriteReload(r) \/ CreateStoredDerivedFile(r)
  BY <1>2, MiddlePasses, PassingKeeps, RestingKeeps
<1>3. CASE CreateUploadedFile(r)  BY <1>3, CreateLinks, PassingKeeps
<1>4. CASE CreatePendingUploadedFile(r)  BY <1>4, PendingLinks, PassingKeeps DEF Untroubled
<1>5. CASE CompleteLink(r)  BY <1>5, LinkLinks
<1>6. CASE CompleteTask(r)  BY <1>6, TaskDoneLinks, PassingKeeps
<1>7. CASE CompleteFile(r)  BY <1>7, FileDoneLinks, PassingKeeps
<1>8. CASE CompletePublish(r)  BY <1>8, PublishLinks DEF CompletePublish, Return, store, procs
<1>9. CASE CompleteFail(r)  BY <1>9, FailLinks DEF Untroubled
<1>. QED  BY <1>1, <1>2, <1>3, <1>4, <1>5, <1>6, <1>7, <1>8, <1>9 DEF Complete

-----------------------------------------------------------------------------
(* The worker *)

\* Steps of a worker keep its task and file, or end its work; all but the last
\* of them leave the tasks' links and what is Completed alone.
LEMMA WorkPasses ==
  ASSUME ClaimInv, Linkage, NEW w \in Worker, Work(w) \/ WorkCrash(w)
  PROVE  Passing
<1>1. /\ work \in [Worker -> [pc : WorkPC, t : Task \cup {None}, f : File \cup {None}, key : Key \cup {None}]]
      /\ file \in [File -> FileRow] /\ task \in [Task -> TaskRow]
  BY DEF ClaimInv, TypeOK, WorkOK, FileOK, TaskOK
<1>2. work[w].pc # "idle" => work[w].t \in Task /\ task[work[w].t].created # None
  BY FileFacts
<1>. USE DEF Passing, Used, store, procs, ghosts, IdleWork
<1>3. CASE ProcessDerived(w)
  <2>1. \A f \in File : file'[f].up = file[f].up /\ file'[f].key = file[f].key
    BY <1>1, <1>3 DEF ProcessDerived, FileRow
  <2>2. work'[w].t = work[w].t /\ work'[w].f = work[w].f /\ \A v \in Worker \ {w} : work'[v] = work[v]
    BY <1>1, <1>3 DEF ProcessDerived
  <2>. QED  BY <1>3, <2>1, <2>2 DEF ProcessDerived
<1>4. CASE WorkFileDone(w)  BY <1>1, <1>4 DEF WorkFileDone, SetFileStatus, FileRow
<1>5. CASE WorkTaskDone(w)  BY <1>1, <1>2, <1>5 DEF WorkTaskDone, MarkCompleted, TaskRow
<1>6. CASE WorkAck(w)  BY <1>1, <1>6 DEF WorkAck
<1>7. CASE WorkError(w)  BY <1>1, <1>7 DEF WorkError
<1>8. CASE WorkFailTask(w)
  <2>1. \A t \in Task : task'[t].created = task[t].created /\ (task'[t].up = task[t].up \/ task'[t].up = "Failed")
    <3>1. CASE task' = task  BY <3>1
    <3>2. CASE MarkFailed(work[w].t)  BY <1>1, <1>2, <1>8, <3>2 DEF WorkFailTask, MarkFailed, TaskRow
    <3>. QED  BY <1>8, <3>1, <3>2 DEF WorkFailTask
  <2>2. work'[w].t = work[w].t /\ work'[w].f = work[w].f /\ \A v \in Worker \ {w} : work'[v] = work[v]
    BY <1>1, <1>8 DEF WorkFailTask
  <2>. QED  BY <1>8, <2>1, <2>2 DEF WorkFailTask
<1>9. CASE WorkFailFile(w)  BY <1>1, <1>9 DEF WorkFailFile, SetFileStatus, FileRow
<1>10. CASE WorkCrash(w)  BY <1>1, <1>10 DEF WorkCrash
<1>. QED  BY <1>3, <1>4, <1>5, <1>6, <1>7, <1>8, <1>9, <1>10 DEF Work

\* The worker marks the file before the task, and takes the event back last.
LEMMA WorkEnds ==
  ASSUME ClaimInv, Linkage, Untroubled, LastSteps, NEW w \in Worker, Work(w) \/ WorkCrash(w)
  PROVE  LastSteps'
<1>. DEFINE t == work[w].t
            f == work[w].f
<1>1. /\ work \in [Worker -> [pc : WorkPC, t : Task \cup {None}, f : File \cup {None}, key : Key \cup {None}]]
      /\ file \in [File -> FileRow] /\ task \in [Task -> TaskRow]
  BY DEF ClaimInv, TypeOK, WorkOK, FileOK, TaskOK
<1>2. /\ work[w].pc # "idle" /\ req' = req
      /\ \A v \in Worker : v # w => work'[v] = work[v]
      /\ work'[w] = IdleWork \/ (work'[w].t = t /\ work'[w].f = f)
  BY <1>1 DEF Work, WorkCrash, Untroubled, ProcessDerived, WorkFileDone, WorkTaskDone, WorkAck, WorkError,
     WorkFailTask, WorkFailFile, IdleWork, store
<1>3. /\ t \in Task /\ f \in File /\ task[t].created = f
      /\ \A r \in Req : req[r].pc \in PastClaim => req[r].t # t
      /\ \A v \in Worker : work[v].pc # "idle" /\ v # w => work[v].t # t
      /\ \A u \in Task : u # t /\ task[u].created # None => task[u].created # f
  BY <1>2, FileFacts, HandlerFacts, SameTask DEF LastSteps, OneWorkerEach, Untroubled
<1>4. OneWorkerEach'
  BY <1>2, <1>3, FileFacts, Values DEF LastSteps, OneWorkerEach, IdleWork
<1>5. /\ work[w].pc \notin {"taskDone", "ack"} => task[t].up # "Completed"
      /\ work[w].pc # "ack" => \A e \in queue : e.task = t => task[t].up # "Completed"
  BY <1>2, <1>3 DEF LastSteps, OnlyAckLeft
<1>. USE <1>1, <1>2, <1>3, <1>4, <1>5 DEF LastSteps, IdleWork
<1>6. CASE ProcessDerived(w)
  <2>1. /\ UNCHANGED <<task, queue>> /\ work[w].pc = "derive"
        /\ work'[w].pc \in {"fileDone", "failTask"}
        /\ \A g \in File : file'[g].up = file[g].up /\ file'[g].live = file[g].live
    BY <1>6 DEF ProcessDerived, FileRow, store
  <2>2. OnlyAckLeft'  BY <2>1, FileFacts DEF OnlyAckLeft
  <2>3. HandlerNotDone'  BY <2>1 DEF HandlerNotDone
  <2>4. FileThenTask'  BY <2>1, FileFacts DEF FileThenTask
  <2>5. TaskThenFile'  BY <2>1, FileFacts DEF TaskThenFile
  <2>. QED  BY <2>2, <2>3, <2>4, <2>5
<1>7. CASE WorkFileDone(w)
  <2>1. /\ UNCHANGED <<task, queue>> /\ work[w].pc = "fileDone" /\ work'[w].pc = "taskDone"
        /\ \A g \in File : /\ file'[g].live = file[g].live
                           /\ file'[g].up = file[g].up \/ file'[g].up = "Completed"
        /\ file'[f].live => file'[f].up = "Completed"
    BY <1>7 DEF WorkFileDone, SetFileStatus, FileRow, store
  <2>2. OnlyAckLeft'  BY <2>1, FileFacts DEF OnlyAckLeft
  <2>3. HandlerNotDone'  BY <2>1 DEF HandlerNotDone
  <2>4. FileThenTask'  BY <2>1, FileFacts DEF FileThenTask
  <2>5. TaskThenFile'  BY <2>1, FileFacts DEF TaskThenFile
  <2>. QED  BY <2>2, <2>3, <2>4, <2>5
<1>8. CASE WorkTaskDone(w)
  <2>1. /\ UNCHANGED <<file, queue>> /\ work[w].pc = "taskDone" /\ work'[w].pc = "ack" /\ work'[w].t = t
        /\ \A u \in Task : /\ task'[u].created = task[u].created
                           /\ u # t => task'[u].up = task[u].up
    BY <1>8 DEF WorkTaskDone, MarkCompleted, TaskRow, store
  <2>2. OnlyAckLeft'
    <3>1. ASSUME NEW e \in queue, task'[e.task].up = "Completed"
          PROVE  \E v \in Worker : work'[v].pc = "ack" /\ work'[v].t = e.task
      <4>1. CASE e.task = t  BY <2>1, <4>1
      <4>2. CASE e.task # t
        <5>1. e.task \in Task /\ task[e.task].up = "Completed"  BY <2>1, <3>1, <4>2, FileFacts
        <5>2. PICK v \in Worker : work[v].pc = "ack" /\ work[v].t = e.task
          BY <5>1 DEF OnlyAckLeft
        <5>. QED  BY <2>1, <5>2
      <4>. QED  BY <4>1, <4>2
    <3>2. ASSUME NEW v \in Worker, work'[v].pc # "idle", task'[work'[v].t].up = "Completed"
          PROVE  work'[v].pc = "ack"
      BY <2>1, <3>2, FileFacts DEF OnlyAckLeft
    <3>. QED  BY <2>1, <3>1, <3>2 DEF OnlyAckLeft
  <2>3. HandlerNotDone'  BY <2>1, HandlerFacts DEF HandlerNotDone
  <2>4. FileThenTask'  BY <2>1, FileFacts DEF FileThenTask
  <2>5. TaskThenFile'  BY <2>1, FileFacts DEF TaskThenFile, FileThenTask
  <2>. QED  BY <2>2, <2>3, <2>4, <2>5
<1>9. CASE WorkAck(w)
  <2>1. /\ UNCHANGED <<file, task>> /\ work[w].pc = "ack" /\ work'[w].pc = "idle"
        /\ queue' = queue \ {[task |-> t, file |-> f]}
    BY <1>9 DEF WorkAck, store
  <2>2. \A e \in queue' : e \in queue /\ e.task # t
    BY <2>1, FileFacts DEF ClaimInv, TypeOK, QueueOK, Event
  <2>3. OnlyAckLeft'  BY <2>1, <2>2, FileFacts DEF OnlyAckLeft
  <2>4. HandlerNotDone'  BY <2>1 DEF HandlerNotDone
  <2>5. FileThenTask'  BY <2>1, FileFacts DEF FileThenTask
  <2>6. TaskThenFile'  BY <2>1, FileFacts DEF TaskThenFile
  <2>. QED  BY <2>3, <2>4, <2>5, <2>6
<1>10. CASE WorkFailTask(w)
  <2>1. /\ UNCHANGED <<file, queue>> /\ work[w].pc = "failTask" /\ work'[w].pc = "failFile"
        /\ MarkFailed(t)
    BY <1>10 DEF WorkFailTask, Untroubled, store
  <2>0. \A u \in Task : /\ task'[u].created = task[u].created
                        /\ task'[u].up = task[u].up \/ task'[u].up = "Failed"
    BY <2>1 DEF MarkFailed, TaskRow
  <2>2. OnlyAckLeft'  BY <2>0, <2>1, FileFacts DEF OnlyAckLeft
  <2>3. HandlerNotDone'  BY <2>0, <2>1, HandlerFacts DEF HandlerNotDone
  <2>4. FileThenTask'  BY <2>0, <2>1, FileFacts DEF FileThenTask
  <2>5. TaskThenFile'  BY <2>0, <2>1, FileFacts DEF TaskThenFile
  <2>. QED  BY <2>2, <2>3, <2>4, <2>5
<1>11. CASE WorkFailFile(w)
  <2>1. /\ UNCHANGED <<task, queue>> /\ work[w].pc = "failFile" /\ work'[w].pc = "idle"
        /\ \A g \in File : g # f => file'[g] = file[g]
    BY <1>11 DEF WorkFailFile, SetFileStatus, store
  <2>2. OnlyAckLeft'  BY <2>1, FileFacts DEF OnlyAckLeft
  <2>3. HandlerNotDone'  BY <2>1 DEF HandlerNotDone
  <2>4. FileThenTask'  BY <2>1, FileFacts DEF FileThenTask
  <2>5. TaskThenFile'  BY <2>1, FileFacts DEF TaskThenFile
  <2>. QED  BY <2>2, <2>3, <2>4, <2>5
<1>. QED  BY <1>6, <1>7, <1>8, <1>9, <1>10, <1>11 DEF Work, WorkError, WorkCrash, Untroubled

\* The queue delivers an event to a worker, and to one only.
LEMMA WorkTakeLinks ==
  ASSUME ClaimInv, Linkage, NEW w \in Worker, NEW e \in queue, WorkTake(w, e)
  PROVE  Linkage' /\ (Untroubled /\ LastSteps => LastSteps')
<1>1. /\ work[w].pc = "idle" /\ UNCHANGED <<task, file, req>> /\ queue' \subseteq queue
      /\ work'[w].pc \in {"derive", "failTask"} /\ work'[w].t = e.task /\ work'[w].f = e.file
      /\ \A v \in Worker : v # w => work'[v] = work[v]
  BY DEF WorkTake, ClaimInv, TypeOK, WorkOK, store
<1>2. e.task \in Task /\ e.file \in File /\ e.file # None /\ task[e.task].created = e.file
  BY FileFacts
<1>3. ClaimerFirst'
  BY <1>1 DEF Linkage, ClaimerFirst, PastClaim, BeforeFile, WithObject, Swapping
<1>4. FilesLinked'
  BY <1>1, <1>2, FileFacts DEF Linkage, FilesLinked, AfterLink, Used
<1>5. FilesMade' /\ CompletedHasFile'
  BY <1>1 DEF Linkage, FilesMade, CompletedHasFile, Makes, Used, WithFile, PastClaim, BeforeFile, WithObject,
     Swapping
<1>6. ASSUME Untroubled, LastSteps  PROVE LastSteps'
  <2>1. \A v \in Worker : work[v].pc # "idle" => work[v].t # e.task
    BY <1>2, <1>6, FileFacts DEF WorkTake, Untroubled
  <2>2. OneWorkerEach'
    BY <1>1, <1>2, <1>6, <2>1, FileFacts, Values DEF LastSteps, OneWorkerEach, ClaimInv, LocalsSet
  <2>3. OnlyAckLeft'
    BY <1>1, <1>2, <1>6, <2>1, FileFacts DEF LastSteps, OnlyAckLeft
  <2>4. HandlerNotDone'
    BY <1>1, <1>6 DEF LastSteps, HandlerNotDone, PastClaim, BeforeFile, WithObject, Swapping
  <2>5. FileThenTask'
    BY <1>1, <1>6 DEF LastSteps, FileThenTask
  <2>6. TaskThenFile'
    BY <1>1, <1>6 DEF LastSteps, TaskThenFile
  <2>. QED  BY <2>2, <2>3, <2>4, <2>5, <2>6 DEF LastSteps
<1>. QED  BY <1>3, <1>4, <1>5, <1>6 DEF Linkage

-----------------------------------------------------------------------------
LEMMA InitIInv == Init => IInv
<1>. SUFFICES ASSUME Init PROVE IInv
  OBVIOUS
<1>1. ClaimInv  BY InitClaimInv
<1>2. ClaimerFirst /\ FilesLinked /\ CompletedHasFile
  BY DEF Init, ClaimerFirst, FilesLinked, CompletedHasFile, IdleReq, IdleWork, PastClaim, BeforeFile,
     WithObject, Swapping, AfterLink
<1>3. FilesMade
  BY DEF Init, FilesMade, IdleReq, WithFile, PastClaim, BeforeFile, WithObject, Swapping
<1>4. LastSteps
  BY DEF Init, LastSteps, OneWorkerEach, HandlerNotDone, OnlyAckLeft, FileThenTask, TaskThenFile, IdleReq,
     IdleWork, PastClaim, BeforeFile, WithObject, Swapping
<1>. QED  BY <1>1, <1>2, <1>3, <1>4 DEF IInv

LEMMA NextIInv == IInv /\ [Next]_<<vars, trouble>> => IInv'
<1>. SUFFICES ASSUME IInv, [Next]_vars, UNCHANGED trouble PROVE IInv'
  BY DEF Next
<1>1. ClaimInv /\ ClaimInv' /\ Linkage /\ (Untroubled => LastSteps)
  BY NextClaimInv DEF IInv, Linkage
<1>2. Untroubled' = Untroubled  BY DEF Untroubled, Faults, Crashes, TargetsApart
<1>. SUFFICES Linkage' /\ (Untroubled /\ LastSteps => LastSteps')
  BY <1>1, <1>2 DEF IInv, Linkage
<1>. USE <1>1
<1>3. ASSUME Aside  PROVE Linkage' /\ (LastSteps => LastSteps')
  BY <1>3, AsideRests, PassingKeeps, RestingKeeps
<1>4. CASE UNCHANGED vars
  BY <1>4, <1>3 DEF vars, Aside
<1>5. ASSUME NEW r \in Req, Start(r) \/ Prepare(r) \/ Complete(r) \/ Abandon(r)
      PROVE  Linkage' /\ (Untroubled /\ LastSteps => LastSteps')
  <2>1. CASE Start(r) \/ Prepare(r)  BY <1>3, <2>1, StartAside
  <2>2. CASE Complete(r)  BY <2>2, CompleteLinks
  <2>3. CASE Abandon(r)  BY <2>3, AbandonPasses, PassingKeeps DEF Untroubled
  <2>. QED  BY <1>5, <2>1, <2>2, <2>3
<1>6. CASE \/ \E t \in Task : Client(t) \/ UrlsExpire(t) \/ GoIdle(t)
           \/ \E c \in Canceller : Cancel(c) \/ CancelCrash(c)
           \/ \E s \in Sweeper : Sweep(s) \/ SweepCrash(s)
  BY <1>3, <1>6, OthersAside
<1>7. ASSUME NEW w \in Worker, Work(w) \/ WorkCrash(w)
      PROVE  Linkage' /\ (Untroubled /\ LastSteps => LastSteps')
  BY <1>7, WorkPasses, WorkEnds, PassingKeeps
<1>8. CASE \E w \in Worker, e \in queue : WorkTake(w, e)
  BY <1>8, WorkTakeLinks
<1>9. CASE \E f \in File : DeleteFile(f)
  BY <1>9, DeletePasses, PassingKeeps, RestingKeeps
<1>. QED  BY <1>4, <1>5, <1>6, <1>7, <1>8, <1>9 DEF Next

\* The invariant holds in every behaviour.
THEOREM Invariance == Spec => []IInv
BY InitIInv, NextIInv, PTL DEF Spec

\* No handler ever writes a value outside its column's or its local
\* variable's domain.
THEOREM TypeCorrect == Spec => []TypeOK
<1>1. IInv => TypeOK  BY DEF IInv, ClaimInv
<1>. QED  BY <1>1, Invariance, PTL

\* However many complete requests race, a task makes at most one visible file.
THEOREM AtMostOneFile == Spec => []OneFilePerTask
<1>1. IInv => OneFilePerTask  BY DEF IInv, ClaimInv
<1>. QED  BY <1>1, Invariance, PTL

\* A file row keeps its object row and, unless its upload was cancelled, its
\* blob.
THEOREM BytesKept == Spec => []CommittedBytesKept
<1>1. IInv => CommittedBytesKept  BY DEF IInv, ClaimInv
<1>. QED  BY <1>1, Invariance, PTL

\* The sweep cleans up no task whose completion got past its claim.
THEOREM SweepSafe == Spec => []SweepSparesCommitted
<1>1. IInv => SweepSparesCommitted
  BY Distinct DEF IInv, ClaimInv, TypeOK, SweepOK, ExpiredAlone, Lost, Claimed, SweepSparesCommitted
<1>. QED  BY <1>1, Invariance, PTL

\* A task that the sweep expired stays failed through every late update.
THEOREM ExpiredForever == Spec => ExpiredStaysFailed
<1>1. IInv /\ [Next]_<<vars, trouble>> => [ExpiredStay]_vars  BY NextClaimInv DEF IInv
<1>2. Spec => [][ExpiredStay]_vars  BY <1>1, Invariance, PTL DEF Spec
<1>. QED  BY <1>2 DEF ExpiredStaysFailed, ExpiredStay

\* A Completed task names its file, which a repeated complete request answers
\* with.
THEOREM FileIsNamed == Spec => []CompletedHasFile
<1>1. IInv => CompletedHasFile  BY DEF IInv
<1>. QED  BY <1>1, Invariance, PTL

\* Where no call fails, no process dies and no other upload overwrites the
\* file, the file is Completed with its task once nobody works on them.
THEOREM BothComplete == Spec => []CompletedTogether
<1>1. IInv => CompletedTogether
  BY DEF IInv, CompletedTogether, Quiet, LastSteps, TaskThenFile
<1>. QED  BY <1>1, Invariance, PTL
=============================================================================
