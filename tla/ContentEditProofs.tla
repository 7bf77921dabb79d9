------------------------- MODULE ContentEditProofs -------------------------
(***************************************************************************)
(* Proofs about ContentEdit: its rows of file_locks implement a table of   *)
(* exclusive locks, the locks of WebDAV requests keep a name to one file,  *)
(* those of edits keep a patch and a size to the bytes there are, and the  *)
(* rehash flags cover the rest, for any number of paths, files, objects,   *)
(* tokens, clients and workers.                                            *)
(***************************************************************************)
EXTENDS ContentEdit, FiniteSetTheorems, SequenceTheorems, TLAPS

-----------------------------------------------------------------------------
(* Operators *)

\* What is fresh is of its kind.
LEMMA FreshTypes ==
  /\ FreshFile \subseteq File /\ FreshObject \subseteq Object /\ FreshToken \subseteq Token
  /\ \A n : Resolve(n) \subseteq File \cup {None}
<1>1. \A S : OneOf(S) \subseteq S  BY DEF OneOf
<1>2. FreshFile \subseteq {f \in File : row[f].kind = "free"}  BY <1>1 DEF FreshFile
<1>3. FreshObject \subseteq {o \in Object \ blob : \A f \in File : row[f].obj # o}
  BY <1>1 DEF FreshObject
<1>4. FreshToken \subseteq {t \in Token \ Held : \A k \in Key : t \notin lock[k]}
  BY <1>1 DEF FreshToken
<1>. QED  BY <1>2, <1>3, <1>4 DEF Resolve, Named

LEMMA IdleType == IdleOp \in OpRow
BY DEF IdleOp, OpRow, OpPC

-----------------------------------------------------------------------------
(* Who writes what *)

Writers ==
  /\ world' = world
  /\ \/ UNCHANGED <<lock, first>>
     \/ \E c \in Client : \/ AcquireInsert(c) \/ Release(c) \/ ReturnLock(c)
                          \/ \E f \in File : WopiLock(c, f)
     \/ CleanExpiredLocks
  /\ \/ aged' = aged \/ CleanExpiredLocks
     \/ \E t \in Token : Age(t)
     \/ \E c \in Client : AcquireRead(c) \/ RefreshLock(c)
  /\ \/ row' = row
     \/ \E c \in Client : \/ LockOpen(c) \/ CloseNewFile(c) \/ RemoveAll(c) \/ Mkdir(c)
                          \/ MoveOver(c) \/ Rename(c)
  /\ \/ held' = held
     \/ \E c \in Client : \/ AcquireDone(c) \/ LockOpen(c) \/ ReturnLock(c)
                          \/ \E f \in File : WopiLock(c, f)
  /\ \/ UNCHANGED content
     \/ \E c \in Client : \/ StreamToStorage(c) \/ OverwritePut(c) \/ OverwriteUpdate(c)
                          \/ FastOverwriteCommit(c)
                          \/ \E f \in File : FastOverwritePut(c, f)
     \/ \E w \in Worker : RehashWrite(w)
  /\ \/ UNCHANGED rehash \/ Crash
     \/ \E c \in Client : OverwritePut(c) \/ \E f \in File : FastOverwritePut(c, f)
     \/ \E w \in Worker : RehashScan(w) \/ RehashRead(w) \/ RehashWrite(w)
  /\ sent' = sent \/ \E c \in Client : sent' = sent \cup {c}

LEMMA NextWriters == [Next]_vars => Writers
<1>. SUFFICES ASSUME [Next]_vars PROVE Writers
  OBVIOUS
<1>1. ASSUME NEW c \in Client, Lock(c)  PROVE Writers
  BY <1>1 DEF Lock, AcquireRead, AcquireInsert, AcquireDone, LockCreate, LockOpen, Release,
              Writers, locks, content
<1>2. ASSUME NEW c \in Client, Write(c)  PROVE Writers
  BY <1>2 DEF Write, OpenForWrite, StreamToStorage, CloseNewFile, RemoveAll, Mkdir, MoveOver, FindSource,
              Rename, PatchRead, OverwritePut, OverwriteFails, OverwriteUpdate,
              FastOverwriteCommit, EnsureOpen, Served, Writers, locks, content
<1>3. ASSUME NEW c \in Client, Request(c)  PROVE Writers
  BY <1>3 DEF Request, DavRequest, Confirm, OpenForRead, WopiLock, FastOverwritePut, EditCheck,
              ReturnLock, RefreshLock, Begins, Writers, locks, content
<1>4. ASSUME NEW w \in Worker, Rehash(w)  PROVE Writers
  BY <1>4 DEF Rehash, RehashScan, RehashRead, RehashWrite, Writers, locks, content
<1>5. CASE CleanExpiredLocks \/ (\E t \in Token : Age(t)) \/ Crash
  BY <1>5 DEF CleanExpiredLocks, Age, Crash, Writers, locks, content
<1>6. CASE UNCHANGED vars
  BY <1>6 DEF vars, Writers, content
<1>. QED  BY <1>1, <1>2, <1>3, <1>4, <1>5, <1>6 DEF Next, Step

-----------------------------------------------------------------------------
(* Types *)

OpTypes == op \in [Client -> OpRow] /\ \A c \in Client : Fits(op[c])

LEMMA OpStep ==
  ASSUME OpTypes, NEW c \in Client, NEW r \in OpRow, Fits(r), op' = [op EXCEPT ![c] = r]
  PROVE  OpTypes'
BY DEF OpTypes

LEMMA AnsweredStep ==
  ASSUME OpTypes, NEW c \in Client, Answered(c)
  PROVE  OpTypes'
<1>1. IdleOp \in OpRow /\ Fits(IdleOp)  BY DEF IdleOp, OpRow, OpPC, Fits
<1>. QED  BY <1>1, OpStep DEF Answered

\* Going on to the next statement changes no local.
LEMMA GotoStep ==
  ASSUME OpTypes, NEW c \in Client, NEW pc \in OpPC, Goto(c, pc),
         \/ pc \in {"release", "source"}
         \/ op[c].pc \in {"acquire", "insert", "confirmed"} /\ pc \in {"insert", "confirmed"}
  PROVE  OpTypes'
<1>. DEFINE r == [op[c] EXCEPT !.pc = pc]
<1>1. op[c] \in OpRow /\ Fits(op[c])  BY DEF OpTypes
<1>2. r \in OpRow  BY <1>1 DEF OpRow
<1>3. Fits(r)  BY <1>1 DEF Fits, OpRow
<1>4. op' = [op EXCEPT ![c] = r]  BY DEF Goto, OpTypes
<1>. HIDE DEF r
<1>. QED  BY <1>2, <1>3, <1>4, OpStep

LEMMA LockOpTypes ==
  ASSUME TypeOK, LocalsSet, NEW c \in Client, Lock(c)
  PROVE  OpTypes'
<1>. USE DEF OpPC
<1>1. OpTypes /\ op[c] \in OpRow /\ Fits(op[c])  BY DEF TypeOK, LocalsSet, OpTypes
<1>2. CASE AcquireRead(c)
  <2>1. \E pc \in {"release", "insert", "confirmed"} : Goto(c, pc) /\ op[c].pc = "acquire"
    BY <1>2 DEF AcquireRead
  <2>. QED  BY <1>1, <2>1, GotoStep
<1>3. CASE AcquireInsert(c)
  BY <1>1, <1>3, GotoStep DEF AcquireInsert
<1>4. CASE AcquireDone(c)
  <2>1. CASE Answered(c)  BY <1>1, <2>1, AnsweredStep
  <2>2. CASE op[c].kind \in DavKind
    <3>. DEFINE pc  == IF Len(op[c].todo) = 1 THEN "apply" ELSE "create"
                tl  == Tail(op[c].todo)
                tmp == op[c].tmp \cup {op[c].tok}
                r   == [op[c] EXCEPT !.pc = pc, !.todo = tl, !.tmp = tmp]
    <3>1. op[c].pc = "confirmed" /\ op[c].todo # <<>> /\ op[c].tok # None
      BY <1>1, <1>4, <2>2 DEF AcquireDone, Fits
    <3>2. op[c].todo \in Seq(Name) /\ op[c].tok \in Token /\ op[c].tmp \subseteq Token
      BY <1>1, <3>1 DEF OpRow
    <3>3. tl \in Seq(Name) /\ (pc = "create" => tl # <<>>)
      <4>1. Len(op[c].todo) \in Nat /\ Len(op[c].todo) # 0  BY <3>1, <3>2
      <4>2. tl \in Seq(Name) /\ Len(tl) = Len(op[c].todo) - 1
        BY <3>1, <3>2, HeadTailProperties
      <4>3. pc = "create" => Len(tl) # 0  BY <4>1, <4>2
      <4>. QED  BY <4>2, <4>3, EmptySeq
    <3>4. tmp \in SUBSET Token /\ pc \in {"apply", "create"}  BY <3>2
    <3>5. op' = [op EXCEPT ![c] = r]
      BY <1>1, <1>4, <2>2 DEF AcquireDone, OpTypes, DavKind, WopiKind
    <3>. HIDE DEF pc, tl, tmp
    <3>6. r \in OpRow  BY <1>1, <3>3, <3>4 DEF OpRow
    <3>7. Fits(r)  BY <1>1, <2>2, <3>3, <3>4 DEF Fits, OpRow
    <3>. HIDE DEF r
    <3>. QED  BY <1>1, <3>5, <3>6, <3>7, OpStep
  <2>. QED  BY <1>4, <2>1, <2>2 DEF AcquireDone
<1>5. CASE LockCreate(c)
  <2>1. CASE Goto(c, "release")  BY <1>1, <2>1, GotoStep
  <2>2. CASE ~Goto(c, "release")
    <3>. DEFINE n == Head(op[c].todo)
    <3>1. PICK t \in FreshToken, f \in Resolve(n) :
            op' = [op EXCEPT ![c].pc = "acquire", ![c].tok = t, ![c].key = IF f = None THEN n ELSE f]
      BY <1>5, <2>2 DEF LockCreate
    <3>. DEFINE key == IF f = None THEN n ELSE f
                r   == [op[c] EXCEPT !.pc = "acquire", !.tok = t, !.key = key]
    <3>2. op[c].todo # <<>> /\ op[c].todo \in Seq(Name)
      BY <1>1, <1>5 DEF LockCreate, Fits, OpRow
    <3>3. n \in Name  BY <3>2
    <3>4. key \in Key /\ t \in Token  BY <3>3, FreshTypes DEF Key
    <3>5. op' = [op EXCEPT ![c] = r]  BY <1>1, <3>1 DEF OpTypes
    <3>. HIDE DEF key, n
    <3>6. r \in OpRow  BY <1>1, <3>4 DEF OpRow
    <3>7. Fits(r)  BY <1>1, <1>5, <3>2, <3>4, KeysDisjoint DEF Fits, OpRow, LockCreate
    <3>. HIDE DEF r
    <3>. QED  BY <1>1, <3>5, <3>6, <3>7, OpStep
  <2>. QED  BY <2>1, <2>2
<1>6. CASE LockOpen(c)
  BY <1>1, <1>6, AnsweredStep DEF LockOpen
<1>7. CASE Release(c)
  <2>1. CASE Answered(c)  BY <1>1, <2>1, AnsweredStep
  <2>2. CASE ~Answered(c)
    <3>1. PICK t \in op[c].tmp : op' = [op EXCEPT ![c].tmp = @ \ {t}]
      BY <1>7, <2>2 DEF Release
    <3>. DEFINE tmp == op[c].tmp \ {t}
                r == [op[c] EXCEPT !.tmp = tmp]
    <3>2. tmp \in SUBSET Token  BY <1>1 DEF OpRow
    <3>3. op' = [op EXCEPT ![c] = r]  BY <1>1, <3>1 DEF OpTypes
    <3>. HIDE DEF tmp
    <3>4. r \in OpRow /\ Fits(r)
      <4>1. r \in OpRow  BY <1>1, <3>2 DEF OpRow
      <4>2. Fits(r)  BY <1>1, <3>2 DEF OpRow, Fits
      <4>. QED  BY <4>1, <4>2
    <3>. HIDE DEF r
    <3>. QED  BY <1>1, <3>3, <3>4, OpStep
  <2>. QED  BY <2>1, <2>2
<1>. QED  BY <1>2, <1>3, <1>4, <1>5, <1>6, <1>7 DEF Lock

\* New bytes change what the others know of theirs.
LEMMA PutOpTypes ==
  ASSUME OpTypes, NEW c \in Client, NEW o \in Object, NEW mine \in OpRow, Put(c, o, mine),
         mine.pc \in {"update", "commit"}
  PROVE  OpTypes'
<1>1. [mine EXCEPT !.obj = o, !.now = TRUE] \in OpRow
  BY DEF OpRow
<1>2. Fits([mine EXCEPT !.obj = o, !.now = TRUE])
  BY KeysDisjoint DEF Fits, OpRow
<1>3. ASSUME NEW b \in Client
      PROVE  LET r == [op[b] EXCEPT !.now = @ /\ op[b].obj # o] IN r \in OpRow /\ Fits(r)
  <2>. DEFINE now == op[b].now /\ op[b].obj # o
              r   == [op[b] EXCEPT !.now = now]
  <2>1. now \in BOOLEAN  OBVIOUS
  <2>2. op[b] \in OpRow /\ Fits(op[b])  BY DEF OpTypes
  <2>. HIDE DEF now
  <2>3. r \in OpRow  BY <2>1, <2>2 DEF OpRow
  <2>4. Fits(r)  BY <2>2 DEF Fits, OpRow
  <2>. QED  BY <2>3, <2>4 DEF now
<1>. QED  BY <1>1, <1>2, <1>3 DEF Put, OpTypes

LEMMA WriteOpTypes ==
  ASSUME TypeOK, LocalsSet, NEW c \in Client, Write(c)
  PROVE  OpTypes'
<1>. USE DEF OpPC
<1>1. OpTypes /\ op[c] \in OpRow /\ Fits(op[c])  BY DEF TypeOK, LocalsSet, OpTypes
<1>2. CASE OpenForWrite(c)
  <2>1. PICK f \in Resolve(op[c].n) :
          op' = IF f # None /\ row[f].kind = "folder"
                THEN [op EXCEPT ![c].pc = "release"]
                ELSE [op EXCEPT ![c].pc = IF f = None THEN "store" ELSE "write", ![c].f = f]
    BY <1>2 DEF OpenForWrite
  <2>2. CASE Goto(c, "release")  BY <1>1, <2>2, GotoStep
  <2>3. CASE ~Goto(c, "release")
    <3>. DEFINE pc == IF f = None THEN "store" ELSE "write"
                r  == [op[c] EXCEPT !.pc = pc, !.f = f]
    <3>1. op' = [op EXCEPT ![c] = r]  BY <1>1, <2>1, <2>3 DEF OpTypes, Goto
    <3>2. f \in File \cup {None} /\ pc \in {"store", "write"} /\ (pc = "write" => f # None)
      BY FreshTypes
    <3>. HIDE DEF pc
    <3>3. r \in OpRow /\ Fits(r)
      <4>1. r \in OpRow  BY <1>1, <3>2 DEF OpRow
      <4>2. Fits(r)  BY <1>1, <3>2 DEF OpRow, Fits
      <4>. QED  BY <4>1, <4>2
    <3>. HIDE DEF r
    <3>. QED  BY <1>1, <3>1, <3>3, OpStep
  <2>. QED  BY <2>2, <2>3
<1>3. CASE StreamToStorage(c)
  <2>1. PICK o \in FreshObject : op' = [op EXCEPT ![c].pc = "record", ![c].obj = o]
    BY <1>3 DEF StreamToStorage
  <2>. DEFINE r == [op[c] EXCEPT !.pc = "record", !.obj = o]
  <2>2. op' = [op EXCEPT ![c] = r]  BY <1>1, <2>1 DEF OpTypes
  <2>3. r \in OpRow /\ Fits(r)
    <3>1. r \in OpRow  BY <1>1, FreshTypes, KeysDisjoint DEF OpRow
    <3>2. Fits(r)  BY <1>1, FreshTypes, KeysDisjoint DEF OpRow, Fits
    <3>. QED  BY <3>1, <3>2
  <2>. HIDE DEF r
  <2>. QED  BY <1>1, <2>2, <2>3, OpStep
<1>4. CASE CloseNewFile(c)
  <2>. DEFINE r == [op[c] EXCEPT !.pc = "release", !.obj = None]
  <2>1. op' = [op EXCEPT ![c] = r]  BY <1>1, <1>4 DEF CloseNewFile, OpTypes
  <2>2. r \in OpRow /\ Fits(r)
    <3>1. r \in OpRow  BY <1>1 DEF OpRow
    <3>2. Fits(r)  BY <1>1 DEF OpRow, Fits
    <3>. QED  BY <3>1, <3>2
  <2>. HIDE DEF r
  <2>. QED  BY <1>1, <2>1, <2>2, OpStep
<1>5. CASE RemoveAll(c) \/ Mkdir(c) \/ MoveOver(c) \/ Rename(c) \/ OverwriteFails(c)
  <2>1. Goto(c, "release") \/ Goto(c, "source")
    BY <1>5 DEF RemoveAll, Mkdir, MoveOver, Rename, OverwriteFails
  <2>. QED  BY <1>1, <2>1, GotoStep
<1>6. CASE FindSource(c)
  <2>1. PICK f \in Resolve(op[c].n) :
          op' = [op EXCEPT ![c].pc = IF f = None THEN "release" ELSE "rename", ![c].f = f]
    BY <1>6 DEF FindSource
  <2>. DEFINE pc == IF f = None THEN "release" ELSE "rename"
              r  == [op[c] EXCEPT !.pc = pc, !.f = f]
  <2>2. op' = [op EXCEPT ![c] = r]  BY <1>1, <2>1 DEF OpTypes
  <2>3. f \in File \cup {None} /\ pc \in {"release", "rename"} /\ (pc = "rename" => f # None)
    BY FreshTypes
  <2>. HIDE DEF pc
  <2>4. r \in OpRow /\ Fits(r)
    <3>1. r \in OpRow  BY <1>1, <2>3 DEF OpRow
    <3>2. Fits(r)  BY <1>1, <2>3 DEF OpRow, Fits
    <3>. QED  BY <3>1, <3>2
  <2>. HIDE DEF r
  <2>. QED  BY <1>1, <2>2, <2>4, OpStep
<1>7. CASE PatchRead(c)
  <2>. DEFINE r == [op[c] EXCEPT !.pc = "write", !.obj = row[op[c].f].obj, !.now = TRUE]
  <2>1. op' = [op EXCEPT ![c] = r]  BY <1>1, <1>7 DEF PatchRead, OpTypes
  <2>2. op[c].f \in File  BY <1>1, <1>7 DEF PatchRead, OpRow, Fits
  <2>3. row[op[c].f].obj \in Object \cup {None}  BY <2>2 DEF TypeOK, Row
  <2>4. r \in OpRow  BY <1>1, <2>3 DEF OpRow
  <2>5. Fits(r)  BY <1>1, <1>7 DEF OpRow, Fits, PatchRead
  <2>. HIDE DEF r
  <2>. QED  BY <1>1, <2>1, <2>4, <2>5, OpStep
<1>8. CASE OverwritePut(c)
  <2>1. op[c].f \in File  BY <1>1, <1>8 DEF OverwritePut, OpRow, Fits
  <2>2. row[op[c].f].obj \in Object  BY <1>8, <2>1 DEF TypeOK, LocalsSet, Row, OverwritePut
  <2>3. [op[c] EXCEPT !.pc = "update"] \in OpRow /\ [op[c] EXCEPT !.pc = "update"].pc = "update"
    BY <1>1 DEF OpRow
  <2>. QED  BY <1>1, <1>8, <2>2, <2>3, PutOpTypes DEF OverwritePut
<1>9. CASE OverwriteUpdate(c)
  <2>. DEFINE r == [op[c] EXCEPT !.pc = "release", !.obj = None, !.now = FALSE]
  <2>1. op' = [op EXCEPT ![c] = r]  BY <1>1, <1>9 DEF OverwriteUpdate, OpTypes
  <2>2. r \in OpRow /\ Fits(r)
    <3>1. r \in OpRow  BY <1>1 DEF OpRow
    <3>2. Fits(r)  BY <1>1 DEF OpRow, Fits
    <3>. QED  BY <3>1, <3>2
  <2>. HIDE DEF r
  <2>. QED  BY <1>1, <2>1, <2>2, OpStep
<1>10. CASE FastOverwriteCommit(c) \/ Served(c)
  BY <1>1, <1>10, AnsweredStep DEF FastOverwriteCommit, Served
<1>11. CASE EnsureOpen(c)
  <2>. DEFINE r == [op[c] EXCEPT !.pc = "served"]
  <2>1. op' = [op EXCEPT ![c] = r]  BY <1>1, <1>11 DEF EnsureOpen, OpTypes
  <2>2. r \in OpRow /\ Fits(r)
    <3>1. r \in OpRow  BY <1>1 DEF OpRow
    <3>2. Fits(r)  BY <1>1 DEF OpRow, Fits
    <3>. QED  BY <3>1, <3>2
  <2>. HIDE DEF r
  <2>. QED  BY <1>1, <2>1, <2>2, OpStep
<1>. QED
  BY <1>2, <1>3, <1>4, <1>5, <1>6, <1>7, <1>8, <1>9, <1>10, <1>11 DEF Write

LEMMA RequestOpTypes ==
  ASSUME TypeOK, LocalsSet, NEW c \in Client, Request(c)
  PROVE  OpTypes'
<1>. USE DEF OpPC
<1>1. OpTypes /\ op[c] \in OpRow /\ Fits(op[c])  BY DEF TypeOK, LocalsSet, OpTypes
<1>2. CASE op' = op  BY <1>1, <1>2 DEF OpTypes
<1>3. ASSUME NEW kind \in Kind, NEW n \in Name, NEW d \in Name, DavRequest(c, kind, n, d)
      PROVE  OpTypes'
  <2>. DEFINE todo == IF kind = "move" THEN <<n, d>> ELSE <<n>>
              r == [IdleOp EXCEPT !.pc = "create", !.kind = kind, !.n = n, !.d = d, !.todo = todo]
  <2>1. op' = [op EXCEPT ![c] = r]  BY <1>3 DEF DavRequest
  <2>2. todo \in Seq(Name) /\ todo # <<>>  OBVIOUS
  <2>3. kind \in DavKind  BY <1>3 DEF DavRequest
  <2>. HIDE DEF todo
  <2>4. r \in OpRow  BY <2>2, IdleType DEF OpRow
  <2>5. Fits(r)  BY <2>2, <2>3 DEF Fits, IdleOp
  <2>. HIDE DEF r
  <2>. QED  BY <1>1, <2>1, <2>4, <2>5, OpStep
<1>4. ASSUME NEW n \in Name, Confirm(c, n)  PROVE OpTypes'
  <2>. DEFINE r == [IdleOp EXCEPT !.pc = "apply", !.kind = "putIf", !.n = n, !.key = n,
                                  !.tmp = {held[c]}]
  <2>1. op' = op \/ op' = [op EXCEPT ![c] = r]  BY <1>4 DEF Confirm
  <2>2. held[c] \in Token  BY <1>4 DEF Confirm, TypeOK
  <2>3. r \in OpRow  BY <2>2, IdleType DEF OpRow, Kind, Key
  <2>4. Fits(r)  BY DEF Fits, IdleOp
  <2>. HIDE DEF r
  <2>. QED  BY <1>1, <1>2, <2>1, <2>3, <2>4, OpStep
<1>5. ASSUME NEW n \in Name, OpenForRead(c, n)  PROVE OpTypes'
  <2>1. PICK f \in Named(n) :
          op' = [op EXCEPT ![c] = [IdleOp EXCEPT !.pc = "stream", !.kind = "get", !.f = f,
                                                 !.obj = row[f].obj,
                                                 !.now = row[f].obj \in sized]]
    BY <1>5 DEF OpenForRead
  <2>. DEFINE now == row[f].obj \in sized
              o   == row[f].obj
              r   == [IdleOp EXCEPT !.pc = "stream", !.kind = "get", !.f = f, !.obj = o, !.now = now]
  <2>2. now \in BOOLEAN /\ f \in File /\ o \in Object \cup {None}
    BY DEF Named, TypeOK, Row
  <2>3. op' = [op EXCEPT ![c] = r]  BY <2>1
  <2>. HIDE DEF now, o
  <2>4. r \in OpRow  BY <2>2, IdleType DEF OpRow, Kind
  <2>5. Fits(r)  BY DEF Fits, IdleOp
  <2>. HIDE DEF r
  <2>. QED  BY <1>1, <2>3, <2>4, <2>5, OpStep
<1>6. ASSUME NEW f \in File, WopiLock(c, f)  PROVE OpTypes'
  <2>1. PICK t \in IF held'[c] = None THEN FreshToken ELSE {held[c]} :
          op' = [op EXCEPT ![c] = [IdleOp EXCEPT !.pc = "acquire", !.kind = "wopiLock", !.f = f,
                                                 !.key = f, !.tok = t]]
    BY <1>6 DEF WopiLock
  <2>. DEFINE r == [IdleOp EXCEPT !.pc = "acquire", !.kind = "wopiLock", !.f = f, !.key = f, !.tok = t]
  <2>2. held'[c] # None => held[c] # None  BY <1>6 DEF WopiLock, TypeOK
  <2>3. t \in Token  BY <2>1, <2>2, FreshTypes DEF TypeOK
  <2>4. r \in OpRow  BY <2>3, IdleType DEF OpRow, Kind, WopiKind, Key
  <2>5. Fits(r)  BY <2>3, KeysDisjoint DEF Fits, IdleOp, DavKind, Key
  <2>6. op' = [op EXCEPT ![c] = r]  BY <2>1
  <2>. HIDE DEF r
  <2>. QED  BY <1>1, <2>6, <2>4, <2>5, OpStep
<1>7. ASSUME NEW f \in File, FastOverwritePut(c, f)  PROVE OpTypes'
  <2>. DEFINE r == [IdleOp EXCEPT !.pc = "commit", !.kind = "fast", !.f = f]
  <2>1. row[f].obj \in Object  BY <1>7 DEF FastOverwritePut, TypeOK, Row
  <2>2. r \in OpRow /\ r.pc = "commit"  BY IdleType DEF OpRow, Kind
  <2>3. Put(c, row[f].obj, r)  BY <1>7 DEF FastOverwritePut
  <2>. HIDE DEF r
  <2>. QED  BY <1>1, <2>1, <2>2, <2>3, PutOpTypes
<1>8. ASSUME NEW kind \in Kind, NEW f \in File, NEW t \in Token \cup {None}, EditCheck(c, kind, f, t)
      PROVE  OpTypes'
  <2>. DEFINE pc == IF kind = "patch" THEN "read" ELSE "write"
              r  == [IdleOp EXCEPT !.pc = pc, !.kind = kind, !.f = f]
  <2>1. op' = [op EXCEPT ![c] = r]  BY <1>8 DEF EditCheck
  <2>2. pc \in {"read", "write"}  OBVIOUS
  <2>. HIDE DEF pc
  <2>3. r \in OpRow  BY <2>2, IdleType DEF OpRow
  <2>4. Fits(r)  BY <2>2, KeysDisjoint DEF Fits, IdleOp, Key
  <2>. HIDE DEF r
  <2>. QED  BY <1>1, <2>1, <2>3, <2>4, OpStep
<1>9. CASE ReturnLock(c) \/ RefreshLock(c)
  BY <1>2, <1>9 DEF ReturnLock, RefreshLock
<1>. QED  BY <1>3, <1>4, <1>5, <1>6, <1>7, <1>8, <1>9 DEF Request

LEMMA NextOpTypes ==
  ASSUME TypeOK, LocalsSet, [Next]_vars
  PROVE  OpTypes'
<1>1. OpTypes  BY DEF TypeOK, LocalsSet, OpTypes
<1>2. CASE op' = op  BY <1>1, <1>2 DEF OpTypes
<1>3. CASE Crash
  <2>1. IdleOp \in OpRow /\ Fits(IdleOp)  BY DEF IdleOp, OpRow, OpPC, Fits
  <2>. QED  BY <1>3, <2>1 DEF Crash, OpTypes
<1>4. CASE \/ \E w \in Worker : Rehash(w)
           \/ CleanExpiredLocks
           \/ \E t \in Token : Age(t)
           \/ UNCHANGED vars
  BY <1>2, <1>4 DEF Rehash, RehashScan, RehashRead, RehashWrite, CleanExpiredLocks, Age, vars
<1>. QED
  BY <1>3, <1>4, LockOpTypes, WriteOpTypes, RequestOpTypes DEF Next, Step

-----------------------------------------------------------------------------
(* The rows of file_locks *)

LEMMA NoNone == None \notin Token /\ None \notin Key
BY KeysDisjoint

\* Of a key's rows, the first is one, if there are any.
LEMMA FirstRow ==
  ASSUME TypeOK, OneRow, NEW k \in Key
  PROVE  /\ lock[k] \subseteq Token
         /\ Holder(k) = None <=> lock[k] = {}
         /\ Holder(k) # None => Holder(k) \in lock[k]
BY NoNone DEF TypeOK, OneRow, FirstOf

\* One row comes, for a token that locks nothing; or those of some tokens go.
OneComes == \E k \in Key, t \in Token, h \in Token :
              /\ \A l \in Key : t \notin lock[l]
              /\ h \in {t, Holder(k)}
              /\ Holder(k) = None => h = t
              /\ Is("serial") => Holder(k) = None
              /\ lock' = [lock EXCEPT ![k] = @ \cup {t}]
              /\ first' = [first EXCEPT ![k] = h]

SomeGo == \E T \in SUBSET Token :
            /\ lock' = [k \in Key |-> lock[k] \ T]
            /\ first' \in [Key -> Token \cup {None}]
            /\ \A k \in Key : first'[k] \in IF Holder(k) \in lock[k] \ T THEN {Holder(k)}
                                           ELSE FirstOf(lock[k] \ T)

LEMMA ReleaseGoes ==
  ASSUME TypeOK, OneRow, NEW t \in Token, NEW k, ReleaseLock(k, t)
  PROVE  UNCHANGED <<lock, first>> \/ SomeGo
<1>1. CASE k \notin Key
  BY <1>1 DEF ReleaseLock, TypeOK
<1>2. CASE k \in Key /\ Holder(k) # t
  BY <1>2 DEF ReleaseLock
<1>3. CASE k \in Key /\ Holder(k) = t
  <2>1. PICK h \in FirstOf(lock[k] \ {t}) : first' = [first EXCEPT ![k] = h]
    BY <1>3 DEF ReleaseLock
  <2>2. lock' = [lock EXCEPT ![k] = @ \ {t}]  BY <1>3 DEF ReleaseLock
  <2>3. t \in lock[k]  BY <1>3, FirstRow, NoNone
  <2>4. \A l \in Key : l # k => t \notin lock[l]  BY <1>3, <2>3 DEF OneRow
  <2>5. lock' = [l \in Key |-> lock[l] \ {t}]  BY <1>3, <2>2, <2>4 DEF TypeOK
  <2>6. h \in Token \cup {None}  BY <1>3, <2>1, FirstRow DEF FirstOf
  <2>7. first' \in [Key -> Token \cup {None}]  BY <2>1, <2>6 DEF TypeOK
  <2>8. ASSUME NEW l \in Key
        PROVE  first'[l] \in IF Holder(l) \in lock[l] \ {t} THEN {Holder(l)} ELSE FirstOf(lock[l] \ {t})
    <3>1. CASE l = k  BY <1>3, <2>1, <3>1 DEF TypeOK
    <3>2. CASE l # k
      <4>1. first'[l] = Holder(l) /\ lock[l] \ {t} = lock[l]  BY <2>1, <2>4, <3>2 DEF TypeOK, Holder
      <4>2. Holder(l) \in FirstOf(lock[l])  BY DEF OneRow
      <4>. QED  BY <4>1, <4>2
    <3>. QED  BY <3>1, <3>2
  <2>. QED  BY <2>5, <2>7, <2>8 DEF SomeGo
<1>. QED  BY <1>1, <1>2, <1>3

LEMMA UnlockGoes ==
  ASSUME TypeOK, OneRow, NEW t \in Token, Unlock(t)
  PROVE  UNCHANGED <<lock, first>> \/ SomeGo
BY ReleaseGoes DEF Unlock

\* A transaction that inserts adds its token to its key.
LEMMA InsertComes ==
  ASSUME TypeOK, LocalsSet, OneRow, NEW c \in Client, AcquireInsert(c)
  PROVE  OneComes
<1>1. op[c] \in OpRow /\ Fits(op[c])  BY DEF TypeOK, LocalsSet
<1>2. op[c].pc = "insert" /\ op[c].key \in Key /\ op[c].tok \in Token
  BY <1>1 DEF AcquireInsert, OpRow, Fits
<1>. DEFINE k == op[c].key
            t == op[c].tok
<1>3. \A l \in Key : t \notin lock[l]
  BY <1>2 DEF OneRow
<1>4. Is("serial") => Holder(k) = None  BY <1>2 DEF OneRow
<1>5. lock' = [lock EXCEPT ![k] = @ \cup {t}]  BY DEF AcquireInsert
<1>6. PICK h \in {t, Holder(k)} \ {None} : first' = [first EXCEPT ![k] = h]
  BY DEF AcquireInsert
<1>7. h \in Token  BY <1>2, <1>6 DEF TypeOK, Holder
<1>8. k \in Key /\ t \in Token /\ h \in {t, Holder(k)} /\ (Holder(k) = None => h = t)
  BY <1>2, <1>6
<1>. HIDE DEF k, t
<1>. QED  BY <1>3, <1>4, <1>5, <1>6, <1>7, <1>8 DEF OneComes

LEMMA LockSteps ==
  ASSUME TypeOK, LocalsSet, OneRow, [Next]_vars
  PROVE  UNCHANGED <<lock, first>> \/ OneComes \/ SomeGo
<1>1. \A c \in Client : op[c] \in OpRow /\ Fits(op[c])  BY DEF TypeOK, LocalsSet
<1>3. ASSUME NEW c \in Client, Release(c)  PROVE UNCHANGED <<lock, first>> \/ SomeGo
  <2>1. CASE op[c].tmp = {}  BY <1>3, <2>1 DEF Release
  <2>2. CASE op[c].tmp # {}
    <3>1. PICK t \in op[c].tmp : ReleaseLock(op[c].key, t) \/ Unlock(t)
      BY <1>3, <2>2 DEF Release
    <3>2. t \in Token  BY <1>1 DEF OpRow
    <3>. QED  BY <3>1, <3>2, ReleaseGoes, UnlockGoes
  <2>. QED  BY <2>1, <2>2
<1>4. ASSUME NEW c \in Client, ReturnLock(c)  PROVE UNCHANGED <<lock, first>> \/ SomeGo
  <2>1. held[c] \in Token /\ Unlock(held[c])  BY <1>4 DEF ReturnLock, TypeOK
  <2>. QED  BY <2>1, UnlockGoes
<1>5. ASSUME NEW c \in Client, NEW f \in File, WopiLock(c, f)
      PROVE  UNCHANGED <<lock, first>> \/ SomeGo
  <2>1. UNCHANGED <<lock, first>> \/ (held[c] # None /\ ReleaseLock(f, held[c]))
    BY <1>5 DEF WopiLock
  <2>2. held[c] # None => held[c] \in Token  BY DEF TypeOK
  <2>. QED  BY <2>1, <2>2, ReleaseGoes
<1>6. CASE CleanExpiredLocks
  BY <1>6 DEF CleanExpiredLocks, SomeGo, TypeOK
<1>. QED  BY <1>3, <1>4, <1>5, <1>6, InsertComes, NextWriters DEF Writers

\* What the rows are after such a step.
LEMMA LockAfter ==
  ASSUME TypeOK, OneRow, UNCHANGED <<lock, first>> \/ OneComes \/ SomeGo
  PROVE  /\ lock' \in [Key -> SUBSET Token] /\ first' \in [Key -> Token \cup {None}]
         /\ \A k \in Key : Holder(k)' \in FirstOf(lock'[k])
         /\ \A k, l \in Key : lock'[k] \cap lock'[l] # {} => k = l
         /\ Is("serial") => \A k \in Key : lock'[k] \subseteq {Holder(k)'}
         /\ ~OneComes => \A k \in Key : lock'[k] \subseteq lock[k]
         /\ (Is("serial") /\ ~OneComes) => \A k \in Key : Holder(k)' \in {None, Holder(k)}
<1>0. /\ \A k, l \in Key : lock[k] \cap lock[l] # {} => k = l
      /\ \A k \in Key : Holder(k) \in FirstOf(lock[k])
      /\ Is("serial") => \A k \in Key : lock[k] \subseteq {Holder(k)}
  BY DEF OneRow
<1>1. CASE UNCHANGED <<lock, first>>
  <2>1. \A k \in Key : Holder(k)' = Holder(k)  BY <1>1 DEF Holder
  <2>. QED  BY <1>0, <1>1, <2>1 DEF TypeOK
<1>2. CASE OneComes
  <2>1. PICK k \in Key, t \in Token, h \in Token :
          /\ \A l \in Key : t \notin lock[l]
          /\ h \in {t, Holder(k)}
          /\ Holder(k) = None => h = t
          /\ Is("serial") => Holder(k) = None
          /\ lock' = [lock EXCEPT ![k] = @ \cup {t}]
          /\ first' = [first EXCEPT ![k] = h]
    BY <1>2 DEF OneComes
  <2>3. \A l \in Key : lock'[l] = IF l = k THEN lock[k] \cup {t} ELSE lock[l]  BY <2>1 DEF TypeOK
  <2>4. \A l \in Key : Holder(l)' = IF l = k THEN h ELSE Holder(l)  BY <2>1 DEF Holder, TypeOK
  <2>5. lock' \in [Key -> SUBSET Token] /\ first' \in [Key -> Token \cup {None}]
    BY <2>1 DEF TypeOK
  <2>6. h \in lock[k] \cup {t}
    <3>1. CASE Holder(k) = None  BY <2>1, <3>1
    <3>2. CASE Holder(k) # None  BY <2>1, <3>2, FirstRow
    <3>. QED  BY <3>1, <3>2
  <2>7. \A l \in Key : Holder(l)' \in FirstOf(lock'[l])
    <3>1. Holder(k)' \in FirstOf(lock'[k])  BY <2>3, <2>4, <2>6 DEF FirstOf
    <3>2. \A l \in Key : l # k => Holder(l)' \in FirstOf(lock'[l])  BY <1>0, <2>3, <2>4
    <3>. QED  BY <3>1, <3>2
  <2>8. \A a, b \in Key : lock'[a] \cap lock'[b] # {} => a = b  BY <1>0, <2>1, <2>3
  <2>9. ASSUME Is("serial"), NEW l \in Key  PROVE lock'[l] \subseteq {Holder(l)'}
    <3>1. CASE l = k
      <4>1. lock[k] = {} /\ h = t  BY <2>1, <2>9, FirstRow
      <4>. QED  BY <2>3, <2>4, <3>1, <4>1
    <3>2. CASE l # k  BY <1>0, <2>3, <2>4, <2>9, <3>2
    <3>. QED  BY <3>1, <3>2
  <2>. QED  BY <1>2, <2>5, <2>7, <2>8, <2>9
<1>3. CASE SomeGo /\ ~OneComes
  <2>1. PICK T \in SUBSET Token :
          /\ lock' = [k \in Key |-> lock[k] \ T]
          /\ first' \in [Key -> Token \cup {None}]
          /\ \A k \in Key : first'[k] \in IF Holder(k) \in lock[k] \ T THEN {Holder(k)}
                                         ELSE FirstOf(lock[k] \ T)
    BY <1>3 DEF SomeGo
  <2>2. lock' \in [Key -> SUBSET Token] /\ \A k \in Key : lock'[k] = lock[k] \ T
    BY <2>1 DEF TypeOK
  <2>3. ASSUME NEW k \in Key
        PROVE  /\ Holder(k)' \in FirstOf(lock'[k])
               /\ Is("serial") => /\ lock'[k] \subseteq {Holder(k)'}
                                  /\ Holder(k)' \in {None, Holder(k)}
    <3>0. Holder(k)' = first'[k]  BY DEF Holder
    <3>1. CASE Holder(k) \in lock[k] \ T
      <4>1. Holder(k)' = Holder(k)  BY <2>1, <3>0, <3>1
      <4>. QED  BY <1>0, <2>2, <3>1, <4>1 DEF FirstOf
    <3>2. CASE Holder(k) \notin lock[k] \ T
      <4>1. Holder(k)' \in FirstOf(lock'[k])  BY <2>1, <2>2, <3>0, <3>2
      <4>2. Is("serial") => lock'[k] = {}  BY <1>0, <2>2, <3>2
      <4>. QED  BY <4>1, <4>2 DEF FirstOf
    <3>. QED  BY <3>1, <3>2
  <2>4. \A k, l \in Key : lock'[k] \cap lock'[l] # {} => k = l  BY <1>0, <2>2
  <2>. QED  BY <1>3, <2>1, <2>2, <2>3, <2>4
<1>. QED  BY <1>1, <1>2, <1>3

-----------------------------------------------------------------------------
(* The types of the rest *)

LEMMA NextTypes ==
  ASSUME TypeOK, LocalsSet, OneRow, [Next]_vars
  PROVE  TypeOK' /\ LocalsSet'
<1>1. Writers /\ OpTypes'  BY NextWriters, NextOpTypes
<1>2. \A c \in Client : op[c] \in OpRow /\ Fits(op[c])  BY DEF TypeOK, LocalsSet
<1>3. lock' \in [Key -> SUBSET Token] /\ first' \in [Key -> Token \cup {None}]  BY LockSteps, LockAfter
<1>4. aged' \subseteq Token
  <2>1. ASSUME NEW c \in Client, AcquireRead(c) \/ RefreshLock(c)  PROVE aged' \subseteq aged
    BY <2>1 DEF AcquireRead, RefreshLock
  <2>. QED  BY <1>1, <2>1 DEF Writers, CleanExpiredLocks, Age, TypeOK
<1>5. row' \in [File -> Row] /\ \A f \in File : row'[f].kind = "file" => row'[f].obj # None
  <2>1. CASE row' = row  BY <2>1 DEF TypeOK, LocalsSet
  <2>2. ASSUME NEW c \in Client, NEW f \in File, NEW r \in Row, r.kind = "file" => r.obj # None,
               row' = [row EXCEPT ![f] = r]
        PROVE  row' \in [File -> Row] /\ \A g \in File : row'[g].kind = "file" => row'[g].obj # None
    BY <2>2 DEF TypeOK, LocalsSet
  <2>3. ASSUME NEW c \in Client, LockOpen(c), row' # row
        PROVE  \E f \in File, r \in Row : /\ r.kind = "file" => r.obj # None
                                          /\ row' = [row EXCEPT ![f] = r]
    <3>1. PICK f \in FreshFile, o \in FreshObject :
            row' = [row EXCEPT ![f] = [kind |-> "file", name |-> op[c].n, obj |-> o]]
      BY <2>3 DEF LockOpen
    <3>2. [kind |-> "file", name |-> op[c].n, obj |-> o] \in Row  BY <1>2, FreshTypes DEF Row, OpRow
    <3>. QED  BY <3>1, <3>2, FreshTypes, KeysDisjoint
  <2>4. ASSUME NEW c \in Client, CloseNewFile(c)
        PROVE  \E f \in File, r \in Row : /\ r.kind = "file" => r.obj # None
                                          /\ row' = [row EXCEPT ![f] = r]
    <3>1. PICK f \in FreshFile :
            row' = [row EXCEPT ![f] = [kind |-> "file", name |-> op[c].n, obj |-> op[c].obj]]
      BY <2>4 DEF CloseNewFile
    <3>2. op[c].obj # None  BY <1>2, <2>4 DEF CloseNewFile, Fits
    <3>3. [kind |-> "file", name |-> op[c].n, obj |-> op[c].obj] \in Row  BY <1>2 DEF Row, OpRow
    <3>. QED  BY <3>1, <3>2, <3>3, FreshTypes
  <2>5. ASSUME NEW c \in Client, Mkdir(c)
        PROVE  \E f \in File, r \in Row : /\ r.kind = "file" => r.obj # None
                                          /\ row' = [row EXCEPT ![f] = r]
    <3>1. PICK f \in FreshFile :
            row' = [row EXCEPT ![f] = [kind |-> "folder", name |-> op[c].n, obj |-> None]]
      BY <2>5 DEF Mkdir
    <3>2. [kind |-> "folder", name |-> op[c].n, obj |-> None] \in Row  BY <1>2 DEF Row, OpRow
    <3>. QED  BY <3>1, <3>2, FreshTypes
  <2>6. ASSUME NEW f \in File, row' = [row EXCEPT ![f].kind = "deleted"]
        PROVE  row' \in [File -> Row] /\ \A g \in File : row'[g].kind = "file" => row'[g].obj # None
    BY <2>6 DEF TypeOK, LocalsSet, Row
  <2>7. ASSUME NEW c \in Client, RemoveAll(c) \/ MoveOver(c)
        PROVE  row' = row \/ \E f \in File : row' = [row EXCEPT ![f].kind = "deleted"]
    BY <2>7, FreshTypes DEF RemoveAll, MoveOver
  <2>8. ASSUME NEW c \in Client, Rename(c), row' # row
        PROVE  row' \in [File -> Row] /\ \A g \in File : row'[g].kind = "file" => row'[g].obj # None
    <3>1. op[c].f \in File /\ op[c].d \in Name \cup {None}
      BY <1>2, <2>8 DEF Rename, Fits, OpRow
    <3>2. row' = [row EXCEPT ![op[c].f].name = op[c].d]  BY <2>8 DEF Rename
    <3>. QED  BY <3>1, <3>2 DEF TypeOK, LocalsSet, Row
  <2>. QED  BY <1>1, <2>1, <2>2, <2>3, <2>4, <2>5, <2>6, <2>7, <2>8 DEF Writers
<1>6. \A set \in {blob', sized', hashed', flagged'} : set \subseteq Object
  <2>0. blob \subseteq Object /\ sized \subseteq Object /\ hashed \subseteq Object /\ flagged \subseteq Object
    BY DEF TypeOK
  <2>1. ASSUME NEW c \in Client, NEW o \in Object, NEW r, Put(c, o, r)
        PROVE  blob' \subseteq Object /\ sized' \subseteq Object /\ hashed' \subseteq Object
    BY <2>0, <2>1 DEF Put
  <2>2. ASSUME NEW c \in Client, StreamToStorage(c)
        PROVE  \A set \in {blob', sized', hashed', flagged'} : set \subseteq Object
    BY <2>0, <2>2, FreshTypes DEF StreamToStorage
  <2>3. ASSUME NEW c \in Client, OverwritePut(c)
        PROVE  \A set \in {blob', sized', hashed', flagged'} : set \subseteq Object
    <3>1. op[c].f \in File  BY <1>2, <2>3 DEF OverwritePut, OpRow, Fits
    <3>2. row[op[c].f].obj \in Object  BY <2>3, <3>1 DEF TypeOK, LocalsSet, Row, OverwritePut
    <3>. QED  BY <2>0, <2>1, <2>3, <3>2 DEF OverwritePut
  <2>4. ASSUME NEW c \in Client, OverwriteUpdate(c) \/ FastOverwriteCommit(c)
        PROVE  \A set \in {blob', sized', hashed', flagged'} : set \subseteq Object
    <3>1. op[c].obj \in Object
      BY <1>2, <2>4 DEF OverwriteUpdate, FastOverwriteCommit, OpRow, Fits
    <3>. QED  BY <2>0, <2>4, <3>1 DEF OverwriteUpdate, FastOverwriteCommit, SetSize
  <2>5. ASSUME NEW c \in Client, NEW f \in File, FastOverwritePut(c, f)
        PROVE  \A set \in {blob', sized', hashed', flagged'} : set \subseteq Object
    <3>1. row[f].obj \in Object  BY <2>5 DEF FastOverwritePut, TypeOK, Row
    <3>. QED  BY <2>0, <2>1, <2>5, <3>1 DEF FastOverwritePut
  <2>6. ASSUME NEW w \in Worker, RehashWrite(w)
        PROVE  \A set \in {blob', sized', hashed', flagged'} : set \subseteq Object
    <3>1. rehash[w].o \in Object  BY <2>6 DEF RehashWrite, TypeOK
    <3>. QED  BY <2>0, <2>6, <3>1 DEF RehashWrite
  <2>7. CASE UNCHANGED content  BY <2>0, <2>7 DEF content
  <2>. QED  BY <1>1, <2>2, <2>3, <2>4, <2>5, <2>6, <2>7 DEF Writers
<1>7. held' \in [Client -> Token \cup {None}]
  <2>1. ASSUME NEW c \in Client, AcquireDone(c) \/ LockOpen(c) \/ ReturnLock(c)
                                 \/ \E f \in File : WopiLock(c, f)
        PROVE  held' = held \/ \E t \in Token \cup {None} : held' = [held EXCEPT ![c] = t]
    <3>1. op[c].tok \in Token \cup {None}  BY <1>2 DEF OpRow
    <3>. QED  BY <2>1, <3>1 DEF AcquireDone, LockOpen, ReturnLock, WopiLock
  <2>. QED  BY <1>1, <2>1 DEF Writers, TypeOK
<1>8. sent' \subseteq Client  BY <1>1 DEF Writers, TypeOK
<1>9. rehash' \in [Worker -> [todo : SUBSET Object, o : Object \cup {None}, now : BOOLEAN]]
  <2>. DEFINE Pass == [todo : SUBSET Object, o : Object \cup {None}, now : BOOLEAN]
  <2>0. rehash \in [Worker -> Pass] /\ flagged \subseteq Object  BY DEF TypeOK
  <2>1. CASE UNCHANGED rehash  BY <2>0, <2>1
  <2>2. CASE Crash  BY <2>2 DEF Crash, IdleRehash
  <2>3. ASSUME NEW c \in Client, NEW o, NEW r, Put(c, o, r)  PROVE rehash' \in [Worker -> Pass]
    <3>1. ASSUME NEW w \in Worker
          PROVE  [rehash[w] EXCEPT !.now = @ /\ rehash[w].o # o] \in Pass
      <4>. DEFINE now == rehash[w].now /\ rehash[w].o # o
      <4>1. now \in BOOLEAN  OBVIOUS
      <4>. HIDE DEF now
      <4>2. [rehash[w] EXCEPT !.now = now] \in Pass  BY <2>0, <4>1
      <4>. QED  BY <4>2 DEF now
    <3>. HIDE DEF Pass
    <3>. QED  BY <2>3, <3>1 DEF Put
  <2>4. ASSUME NEW c \in Client, OverwritePut(c) \/ \E f \in File : FastOverwritePut(c, f)
        PROVE  rehash' \in [Worker -> Pass]
    <3>. HIDE DEF Pass
    <3>. QED  BY <2>3, <2>4 DEF OverwritePut, FastOverwritePut
  <2>5. ASSUME NEW w \in Worker, RehashScan(w)  PROVE rehash' \in [Worker -> Pass]
    BY <2>0, <2>5 DEF RehashScan
  <2>6. ASSUME NEW w \in Worker, RehashRead(w)  PROVE rehash' \in [Worker -> Pass]
    <3>1. PICK o \in rehash[w].todo :
            rehash' = [rehash EXCEPT ![w] = [todo |-> rehash[w].todo \ {o},
                                             o   |-> IF Refs(o) = 0 THEN None ELSE o,
                                             now |-> Refs(o) # 0]]
      BY <2>6 DEF RehashRead
    <3>. DEFINE p == IF Refs(o) = 0 THEN None ELSE o
                n == Refs(o) # 0
                r == [todo |-> rehash[w].todo \ {o}, o |-> p, now |-> n]
    <3>2. n \in BOOLEAN /\ p \in Object \cup {None}  BY <2>0
    <3>3. rehash' = [rehash EXCEPT ![w] = r]  BY <3>1
    <3>. HIDE DEF n, p
    <3>4. r \in Pass  BY <2>0, <3>2
    <3>. HIDE DEF r
    <3>. QED  BY <2>0, <3>3, <3>4
  <2>7. ASSUME NEW w \in Worker, RehashWrite(w)  PROVE rehash' \in [Worker -> Pass]
    BY <2>0, <2>7 DEF RehashWrite
  <2>. QED  BY <1>1, <2>1, <2>2, <2>4, <2>5, <2>6, <2>7 DEF Writers
<1>10. world' \in Worlds  BY <1>1 DEF Writers, TypeOK
<1>11. TypeOK'  BY <1>1, <1>3, <1>4, <1>5, <1>6, <1>7, <1>8, <1>9, <1>10 DEF TypeOK, OpTypes
<1>12. LocalsSet'  BY <1>1, <1>5 DEF LocalsSet, OpTypes
<1>. QED  BY <1>11, <1>12

-----------------------------------------------------------------------------
(* What requests know *)

\* All of a request but whether its bytes are still those stored, and what a
\* request keeps from statement to statement.
Core(r) == <<r.pc, r.kind, r.todo, r.n, r.f, r.obj, r.key, r.tok, r.tmp>>
Rest(r) == <<r.kind, r.todo, r.n, r.key, r.tok, r.tmp>>

LEMMA OthersKeep ==
  ASSUME TypeOK, NEW b \in Client, Lock(b) \/ Write(b) \/ Request(b), NEW c \in Client, c # b
  PROVE  Core(op'[c]) = Core(op[c]) /\ held'[c] = held[c]
<1>1. op[c] \in OpRow  BY DEF TypeOK
<1>2. ASSUME NEW o, NEW mine, Put(b, o, mine)  PROVE Core(op'[c]) = Core(op[c])
  BY <1>1, <1>2 DEF Put, OpRow, Core
<1>3. op'[c] = op[c] \/ \E o, mine : Put(b, o, mine)
  <2>1. CASE Lock(b)
    BY <2>1 DEF Lock, AcquireRead, AcquireInsert, AcquireDone, LockCreate, LockOpen, Release,
                Goto, Answered, TypeOK
  <2>2. CASE Write(b)
    BY <2>2 DEF Write, OpenForWrite, StreamToStorage, CloseNewFile, RemoveAll, Mkdir, MoveOver, FindSource,
                Rename, PatchRead, OverwritePut, OverwriteFails, OverwriteUpdate,
                FastOverwriteCommit, EnsureOpen, Served, Goto, Answered, TypeOK
  <2>3. CASE Request(b)
    BY <2>3 DEF Request, DavRequest, Confirm, OpenForRead, WopiLock, FastOverwritePut, EditCheck,
                ReturnLock, RefreshLock, TypeOK
  <2>. QED  BY <2>1, <2>2, <2>3
<1>4. held'[c] = held[c]
  <2>1. CASE held' = held  BY <2>1
  <2>2. CASE Lock(b) /\ held' # held
    <3>1. AcquireDone(b) \/ LockOpen(b)
      BY <2>2 DEF Lock, AcquireRead, AcquireInsert, LockCreate, Release
    <3>. QED  BY <3>1 DEF AcquireDone, LockOpen, TypeOK
  <2>3. CASE Write(b) /\ held' # held
    BY <2>3 DEF Write, OpenForWrite, StreamToStorage, CloseNewFile, RemoveAll, Mkdir, MoveOver, FindSource,
                Rename, PatchRead, OverwritePut, OverwriteFails, OverwriteUpdate,
                FastOverwriteCommit, EnsureOpen, Served
  <2>4. CASE Request(b) /\ held' # held
    <3>1. ReturnLock(b) \/ \E f \in File : WopiLock(b, f)
      BY <2>4 DEF Request, DavRequest, Confirm, OpenForRead, FastOverwritePut, EditCheck, RefreshLock
    <3>. QED  BY <3>1 DEF ReturnLock, WopiLock, TypeOK
  <2>. QED  BY <2>1, <2>2, <2>3, <2>4
<1>. QED  BY <1>2, <1>3, <1>4

\* Where the statements of a request lead.
LEMMA WriteGoes ==
  ASSUME TypeOK, LocalsSet, NEW c \in Client, Write(c)
  PROVE  /\ held' = held
         /\ \/ op' = [op EXCEPT ![c] = IdleOp]
            \/ /\ Rest(op'[c]) = Rest(op[c])
               /\ \/ op'[c].pc \in {"release", "write", "update", "served"}
                  \/ OpenForWrite(c) /\ op'[c].pc = "store" /\ Named(op[c].n) = {}
                  \/ StreamToStorage(c) /\ op'[c].pc = "record"
                  \/ MoveOver(c) /\ op'[c].pc = "source"
                  \/ FindSource(c) /\ op'[c].pc = "rename"
<1>1. op[c] \in OpRow /\ Fits(op[c])  BY DEF TypeOK, LocalsSet
<1>2. held' = held
  BY DEF Write, OpenForWrite, StreamToStorage, CloseNewFile, RemoveAll, Mkdir, MoveOver, FindSource,
         Rename, PatchRead, OverwritePut, OverwriteFails, OverwriteUpdate,
         FastOverwriteCommit, EnsureOpen, Served
<1>3. CASE FastOverwriteCommit(c) \/ Served(c)
  BY <1>2, <1>3 DEF FastOverwriteCommit, Served, Answered
<1>4. ASSUME NEW pc, Goto(c, pc)
      PROVE  Rest(op'[c]) = Rest(op[c]) /\ op'[c].pc = pc
  BY <1>1, <1>4 DEF Goto, TypeOK, OpRow, Rest
<1>5. CASE RemoveAll(c) \/ Mkdir(c) \/ Rename(c) \/ OverwriteFails(c)
  <2>1. Goto(c, "release")  BY <1>5 DEF RemoveAll, Mkdir, Rename, OverwriteFails
  <2>. QED  BY <1>2, <1>4, <2>1
<1>6. CASE OpenForWrite(c)
  <2>1. PICK f \in Resolve(op[c].n) :
          op' = IF f # None /\ row[f].kind = "folder"
                THEN [op EXCEPT ![c].pc = "release"]
                ELSE [op EXCEPT ![c].pc = IF f = None THEN "store" ELSE "write", ![c].f = f]
    BY <1>6 DEF OpenForWrite
  <2>2. CASE Goto(c, "release")  BY <1>2, <1>4, <2>2
  <2>3. CASE ~Goto(c, "release")
    <3>. DEFINE pc == IF f = None THEN "store" ELSE "write"
    <3>1. op' = [op EXCEPT ![c].pc = pc, ![c].f = f]  BY <2>1, <2>3 DEF Goto
    <3>. HIDE DEF pc
    <3>2. Rest(op'[c]) = Rest(op[c]) /\ op'[c].pc = pc  BY <1>1, <3>1 DEF TypeOK, OpRow, Rest
    <3>3. f = None => Named(op[c].n) = {}  BY KeysDisjoint DEF Resolve, Named, Key
    <3>. QED  BY <1>2, <1>6, <3>2, <3>3 DEF pc
  <2>. QED  BY <2>2, <2>3
<1>7. CASE StreamToStorage(c)
  <2>1. PICK o : op' = [op EXCEPT ![c].pc = "record", ![c].obj = o]
    BY <1>7 DEF StreamToStorage
  <2>2. Rest(op'[c]) = Rest(op[c]) /\ op'[c].pc = "record"  BY <1>1, <2>1 DEF TypeOK, OpRow, Rest
  <2>. QED  BY <1>2, <1>7, <2>2
<1>8. CASE CloseNewFile(c)
  <2>1. op' = [op EXCEPT ![c].pc = "release", ![c].obj = None]  BY <1>8 DEF CloseNewFile
  <2>. QED  BY <1>1, <1>2, <2>1 DEF TypeOK, OpRow, Rest
<1>14. CASE MoveOver(c)
  <2>1. Goto(c, "source")  BY <1>14 DEF MoveOver
  <2>. QED  BY <1>2, <1>4, <1>14, <2>1
<1>9. CASE FindSource(c)
  <2>1. PICK f : op' = [op EXCEPT ![c].pc = IF f = None THEN "release" ELSE "rename", ![c].f = f]
    BY <1>9 DEF FindSource
  <2>. DEFINE pc == IF f = None THEN "release" ELSE "rename"
  <2>2. op' = [op EXCEPT ![c].pc = pc, ![c].f = f]  BY <2>1
  <2>3. pc \in {"release", "rename"}  OBVIOUS
  <2>. HIDE DEF pc
  <2>4. Rest(op'[c]) = Rest(op[c]) /\ op'[c].pc = pc  BY <1>1, <2>2 DEF TypeOK, OpRow, Rest
  <2>. QED  BY <1>2, <1>9, <2>3, <2>4
<1>10. CASE PatchRead(c)
  <2>1. op' = [op EXCEPT ![c].pc = "write", ![c].obj = row[op[c].f].obj, ![c].now = TRUE]
    BY <1>10 DEF PatchRead
  <2>. QED  BY <1>1, <1>2, <2>1 DEF TypeOK, OpRow, Rest
<1>11. CASE OverwritePut(c)
  <2>. DEFINE r == [op[c] EXCEPT !.pc = "update"]
              o == row[op[c].f].obj
  <2>1. op'[c] = [r EXCEPT !.obj = o, !.now = TRUE]  BY <1>11 DEF OverwritePut, Put
  <2>. HIDE DEF o
  <2>2. Rest(op'[c]) = Rest(op[c]) /\ op'[c].pc = "update"  BY <1>1, <2>1 DEF OpRow, Rest
  <2>. QED  BY <1>2, <2>2
<1>12. CASE OverwriteUpdate(c)
  <2>1. op' = [op EXCEPT ![c].pc = "release", ![c].obj = None, ![c].now = FALSE]
    BY <1>12 DEF OverwriteUpdate
  <2>. QED  BY <1>1, <1>2, <2>1 DEF TypeOK, OpRow, Rest
<1>13. CASE EnsureOpen(c)
  <2>1. op' = [op EXCEPT ![c].pc = "served"]  BY <1>13 DEF EnsureOpen
  <2>. QED  BY <1>1, <1>2, <2>1 DEF TypeOK, OpRow, Rest
<1>. QED
  BY <1>3, <1>5, <1>6, <1>7, <1>8, <1>9, <1>10, <1>11, <1>12, <1>13, <1>14 DEF Write

\* Where the requests to lock lead: a transaction ...
LEMMA AcquireGoes ==
  ASSUME TypeOK, LocalsSet, NEW c \in Client, AcquireRead(c) \/ AcquireInsert(c)
  PROVE  /\ held' = held /\ Rest(op'[c]) = Rest(op[c]) /\ row' = row
         /\ \/ op'[c].pc = "release"
            \/ op[c].pc = "acquire" /\ op'[c].pc = "insert" /\ UNCHANGED <<lock, first>>
            \/ op[c].pc = "acquire" /\ op'[c].pc = "confirmed" /\ UNCHANGED <<lock, first>> /\ Holder(op[c].key) = op[c].tok
            \/ AcquireInsert(c) /\ op[c].pc = "insert" /\ op'[c].pc = "confirmed"
<1>1. op[c] \in OpRow /\ Fits(op[c])  BY DEF TypeOK, LocalsSet
<1>2. ASSUME NEW pc, Goto(c, pc)
      PROVE  Rest(op'[c]) = Rest(op[c]) /\ op'[c].pc = pc
  BY <1>1, <1>2 DEF Goto, TypeOK, OpRow, Rest
<1>3. CASE AcquireRead(c)
  <2>1. PICK pc \in {"release", "insert", "confirmed"} :
          Goto(c, pc) /\ (pc = "confirmed" => Holder(op[c].key) = op[c].tok)
    BY <1>3 DEF AcquireRead
  <2>. QED  BY <1>2, <1>3, <2>1 DEF AcquireRead
<1>4. CASE AcquireInsert(c)
  BY <1>2, <1>4 DEF AcquireInsert
<1>. QED  BY <1>3, <1>4

\* ... what comes before it and after it, ...
LEMMA LockCreateGoes ==
  ASSUME TypeOK, LocalsSet, NEW c \in Client, LockCreate(c)
  PROVE  /\ UNCHANGED <<held, row, lock, first>> /\ op[c].pc = "create"
         /\ \/ Rest(op'[c]) = Rest(op[c]) /\ op'[c].pc = "release"
            \/ /\ op'[c].pc = "acquire" /\ op'[c].kind = op[c].kind /\ op'[c].todo = op[c].todo
               /\ op'[c].n = op[c].n /\ op'[c].tmp = op[c].tmp
               /\ op'[c].tok \in FreshToken
               /\ Holder(Head(op[c].todo)) = None
               /\ \/ op'[c].key = Head(op[c].todo) /\ Named(Head(op[c].todo)) = {}
                  \/ op'[c].key \in Named(Head(op[c].todo))
<1>1. op[c] \in OpRow  BY DEF TypeOK
<1>2. UNCHANGED <<held, row, lock, first>> /\ op[c].pc = "create"  BY DEF LockCreate, locks
<1>3. CASE Goto(c, "release")
  BY <1>1, <1>2, <1>3 DEF Goto, TypeOK, OpRow, Rest
<1>4. CASE ~Goto(c, "release")
  <2>. DEFINE n == Head(op[c].todo)
  <2>1. PICK t \in FreshToken, f \in Resolve(n) :
          op' = [op EXCEPT ![c].pc = "acquire", ![c].tok = t, ![c].key = IF f = None THEN n ELSE f]
    BY <1>4 DEF LockCreate
  <2>2. Holder(n) = None  BY <1>4 DEF LockCreate
  <2>. DEFINE key == IF f = None THEN n ELSE f
  <2>3. (key = n /\ Named(n) = {}) \/ key \in Named(n)
    BY KeysDisjoint DEF Resolve, Named, Key
  <2>. HIDE DEF n, key
  <2>4. op' = [op EXCEPT ![c].pc = "acquire", ![c].tok = t, ![c].key = key]  BY <2>1 DEF key
  <2>5. /\ op'[c].pc = "acquire" /\ op'[c].kind = op[c].kind /\ op'[c].todo = op[c].todo
        /\ op'[c].n = op[c].n /\ op'[c].tmp = op[c].tmp /\ op'[c].tok = t /\ op'[c].key = key
    BY <1>1, <2>4 DEF TypeOK, OpRow
  <2>. QED  BY <1>2, <2>1, <2>2, <2>3, <2>5 DEF n
<1>. QED  BY <1>3, <1>4

LEMMA AcquireDoneGoes ==
  ASSUME TypeOK, LocalsSet, NEW c \in Client, AcquireDone(c)
  PROVE  /\ UNCHANGED <<row, lock, first>> /\ op[c].pc = "confirmed"
         /\ \/ op'[c] = IdleOp /\ held'[c] = op[c].tok
            \/ /\ held' = held /\ op[c].kind \in DavKind
               /\ op'[c].kind = op[c].kind /\ op'[c].n = op[c].n /\ op'[c].key = op[c].key
               /\ op'[c].tok = op[c].tok /\ op'[c].tmp = op[c].tmp \cup {op[c].tok}
               /\ op'[c].todo = Tail(op[c].todo)
               /\ op'[c].pc = IF Len(op[c].todo) = 1 THEN "apply" ELSE "create"
<1>1. op[c] \in OpRow  BY DEF TypeOK
<1>2. UNCHANGED <<row, lock, first>> /\ op[c].pc = "confirmed"  BY DEF AcquireDone, locks
<1>3. CASE op[c].kind \in WopiKind
  BY <1>2, <1>3 DEF AcquireDone, Answered, TypeOK
<1>4. CASE op[c].kind \notin WopiKind
  <2>. DEFINE pc == IF Len(op[c].todo) = 1 THEN "apply" ELSE "create"
  <2>1. op' = [op EXCEPT ![c].pc = pc, ![c].todo = Tail(@), ![c].tmp = @ \cup {op[c].tok}]
    BY <1>4 DEF AcquireDone
  <2>. HIDE DEF pc
  <2>2. /\ op'[c].kind = op[c].kind /\ op'[c].n = op[c].n /\ op'[c].key = op[c].key
        /\ op'[c].tok = op[c].tok /\ op'[c].tmp = op[c].tmp \cup {op[c].tok}
        /\ op'[c].todo = Tail(op[c].todo) /\ op'[c].pc = pc
    BY <1>1, <2>1 DEF TypeOK, OpRow
  <2>. QED  BY <1>2, <1>4, <2>2 DEF pc, AcquireDone
<1>. QED  BY <1>3, <1>4

LEMMA EndGoes ==
  ASSUME TypeOK, LocalsSet, NEW c \in Client, LockOpen(c) \/ Release(c)
  PROVE  \/ op'[c] = IdleOp /\ held'[c] \in {held[c], op[c].tok}
         \/ /\ Release(c) /\ held' = held /\ op'[c].pc = "release"
            /\ op'[c].kind = op[c].kind /\ op'[c].n = op[c].n
            /\ op'[c].tok = op[c].tok /\ op'[c].tmp \subseteq op[c].tmp
<1>1. op[c] \in OpRow  BY DEF TypeOK
<1>2. CASE LockOpen(c)
  BY <1>2 DEF LockOpen, Answered, TypeOK
<1>3. CASE Release(c) /\ Answered(c)
  BY <1>3 DEF Release, Answered, TypeOK
<1>4. CASE Release(c) /\ ~Answered(c)
  <2>1. PICK t : op' = [op EXCEPT ![c].tmp = @ \ {t}]  BY <1>4 DEF Release
  <2>2. held' = held /\ op[c].pc = "release"  BY <1>4 DEF Release
  <2>. QED  BY <1>1, <1>4, <2>1, <2>2 DEF TypeOK, OpRow
<1>. QED  BY <1>2, <1>3, <1>4

\* ... and a new request.
NewRequest(c) ==
  /\ op[c].pc = "idle" /\ op'[c].tok \in FreshToken \cup {None, held[c]} /\ held'[c] \in {None, held[c]}
  /\ \/ /\ op'[c].pc = "create" /\ op'[c].kind \in DavKind \cap world.kinds[c] /\ op'[c].n \in Name
        /\ op'[c].kind # "move" => op'[c].todo = <<op'[c].n>>
        /\ op'[c].tmp = {}
     \/ /\ op'[c].pc = "apply" /\ op'[c].kind = "putIf" /\ "putIf" \in world.kinds[c]
        /\ op'[c].n \in Name /\ op'[c].key = op'[c].n /\ op'[c].tmp = {held[c]}
        /\ held[c] # None /\ Holder(op'[c].n) = held[c] /\ UNCHANGED <<lock, first>>
     \/ /\ op'[c].pc = "acquire" /\ op'[c].kind = "wopiLock" /\ op'[c].key \in File /\ op'[c].tmp = {}
     \/ /\ op'[c].pc \in {"stream", "commit"} /\ op'[c].kind \in {"get", "fast"} /\ op'[c].tmp = {}
        /\ op'[c].pc = "commit" => "fast" \in world.kinds[c] /\ (Is("calm") => ~Rehashing)
     \/ /\ op'[c].pc \in {"read", "write"} /\ op'[c].kind \in EditKind /\ op'[c].tmp = {}
        /\ op'[c].pc = "write" => op'[c].kind # "patch"
        /\ op'[c].f \in File /\ row[op'[c].f].kind = "file" /\ UNCHANGED <<lock, first, held>>
        /\ Is("strict") => held[c] # None /\ Holder(op'[c].f) = held[c]

LEMMA RequestGoes ==
  ASSUME TypeOK, LocalsSet, NEW c \in Client, Request(c)
  PROVE  /\ row' = row
         /\ \/ op' = op /\ op[c].pc = "idle" /\ held'[c] \in {None, held[c]}
            \/ NewRequest(c)
<1>1. IdleOp \in OpRow /\ IdleOp.tok = None /\ IdleOp.tmp = {}  BY IdleType DEF IdleOp
<1>2. row' = row
  BY DEF Request, DavRequest, Confirm, OpenForRead, WopiLock, FastOverwritePut, EditCheck,
         ReturnLock, RefreshLock
<1>3. ASSUME NEW kind \in Kind, NEW n \in Name, NEW d \in Name, DavRequest(c, kind, n, d)
      PROVE  NewRequest(c)
  <2>. DEFINE todo == IF kind = "move" THEN <<n, d>> ELSE <<n>>
  <2>1. op' = [op EXCEPT ![c] = [IdleOp EXCEPT !.pc = "create", !.kind = kind, !.n = n, !.d = d,
                                               !.todo = todo]]
    BY <1>3 DEF DavRequest
  <2>2. kind \in DavKind \cap world.kinds[c] /\ op[c].pc = "idle" /\ held' = held
    BY <1>3 DEF DavRequest, Begins
  <2>3. kind # "move" => todo = <<n>>  OBVIOUS
  <2>. HIDE DEF todo
  <2>4. /\ op'[c].pc = "create" /\ op'[c].kind = kind /\ op'[c].n = n /\ op'[c].todo = todo
        /\ op'[c].tok = None /\ op'[c].tmp = {}
    BY <1>1, <2>1 DEF TypeOK, OpRow
  <2>. QED  BY <2>2, <2>3, <2>4 DEF NewRequest
<1>4. ASSUME NEW n \in Name, Confirm(c, n), op' # op  PROVE NewRequest(c)
  <2>1. /\ op' = [op EXCEPT ![c] = [IdleOp EXCEPT !.pc = "apply", !.kind = "putIf", !.n = n,
                                                  !.key = n, !.tmp = {held[c]}]]
        /\ Holder(n) = held[c] /\ held[c] # None /\ UNCHANGED <<held, lock, first>>
        /\ op[c].pc = "idle" /\ "putIf" \in world.kinds[c]
    BY <1>4 DEF Confirm, Begins, locks
  <2>2. /\ op'[c].pc = "apply" /\ op'[c].kind = "putIf" /\ op'[c].n = n /\ op'[c].key = n
        /\ op'[c].tok = None /\ op'[c].tmp = {held[c]}
    BY <1>1, <2>1 DEF TypeOK, OpRow
  <2>. QED  BY <2>1, <2>2 DEF NewRequest
<1>5. ASSUME NEW n \in Name, OpenForRead(c, n)  PROVE NewRequest(c)
  <2>1. PICK f \in Named(n) :
          op' = [op EXCEPT ![c] = [IdleOp EXCEPT !.pc = "stream", !.kind = "get", !.f = f,
                                                 !.obj = row[f].obj,
                                                 !.now = row[f].obj \in sized]]
    BY <1>5 DEF OpenForRead
  <2>2. op[c].pc = "idle" /\ held' = held  BY <1>5 DEF OpenForRead, Begins
  <2>. DEFINE now == row[f].obj \in sized
              obj == row[f].obj
  <2>3. op' = [op EXCEPT ![c] = [IdleOp EXCEPT !.pc = "stream", !.kind = "get", !.f = f,
                                               !.obj = obj, !.now = now]]
    BY <2>1
  <2>. HIDE DEF now, obj
  <2>4. op'[c].pc = "stream" /\ op'[c].kind = "get" /\ op'[c].tok = None /\ op'[c].tmp = {}
    BY <1>1, <2>3 DEF TypeOK, OpRow
  <2>. QED  BY <2>2, <2>4 DEF NewRequest
<1>6. ASSUME NEW f \in File, WopiLock(c, f)  PROVE NewRequest(c)
  <2>1. PICK t \in IF held'[c] = None THEN FreshToken ELSE {held[c]} :
          op' = [op EXCEPT ![c] = [IdleOp EXCEPT !.pc = "acquire", !.kind = "wopiLock", !.f = f,
                                                 !.key = f, !.tok = t]]
    BY <1>6 DEF WopiLock
  <2>2. op[c].pc = "idle" /\ held'[c] \in {None, held[c]}  BY <1>6 DEF WopiLock, Begins, TypeOK
  <2>3. t \in FreshToken \cup {None, held[c]}  OBVIOUS
  <2>4. /\ op'[c].pc = "acquire" /\ op'[c].kind = "wopiLock" /\ op'[c].key = f
        /\ op'[c].tok = t /\ op'[c].tmp = {}
    BY <1>1, <2>1 DEF TypeOK, OpRow
  <2>. QED  BY <2>2, <2>3, <2>4 DEF NewRequest
<1>7. ASSUME NEW f \in File, FastOverwritePut(c, f)  PROVE NewRequest(c)
  <2>. DEFINE r == [IdleOp EXCEPT !.pc = "commit", !.kind = "fast", !.f = f]
              o == row[f].obj
  <2>1. /\ Put(c, o, r) /\ held' = held /\ op[c].pc = "idle"
        /\ "fast" \in world.kinds[c] /\ (Is("calm") => ~Rehashing)
    BY <1>7 DEF FastOverwritePut, Begins
  <2>. HIDE DEF o
  <2>2. op'[c] = [r EXCEPT !.obj = o, !.now = TRUE]  BY <2>1 DEF Put
  <2>3. op'[c].pc = "commit" /\ op'[c].kind = "fast" /\ op'[c].tok = None /\ op'[c].tmp = {}
    BY <1>1, <2>2 DEF OpRow
  <2>. QED  BY <2>1, <2>3 DEF NewRequest
<1>8. ASSUME NEW kind \in Kind, NEW f \in File, NEW t \in Token \cup {None}, EditCheck(c, kind, f, t)
      PROVE  NewRequest(c)
  <2>. DEFINE pc == IF kind = "patch" THEN "read" ELSE "write"
  <2>1. op' = [op EXCEPT ![c] = [IdleOp EXCEPT !.pc = pc, !.kind = kind, !.f = f]]
    BY <1>8 DEF EditCheck
  <2>2. /\ op[c].pc = "idle" /\ UNCHANGED <<lock, first, held>> /\ kind \in EditKind /\ row[f].kind = "file"
        /\ Is("strict") => held[c] # None /\ Holder(f) = held[c]
    BY <1>8 DEF EditCheck, Begins, locks
  <2>3. pc \in {"read", "write"} /\ (pc = "write" => kind # "patch")  OBVIOUS
  <2>. HIDE DEF pc
  <2>4. /\ op'[c].pc = pc /\ op'[c].kind = kind /\ op'[c].f = f /\ op'[c].tok = None /\ op'[c].tmp = {}
    BY <1>1, <2>1 DEF TypeOK, OpRow
  <2>. QED  BY <2>2, <2>3, <2>4 DEF NewRequest
<1>9. CASE ReturnLock(c) \/ RefreshLock(c) \/ (op' = op /\ \E n \in Name : Confirm(c, n))
  BY <1>2, <1>9 DEF ReturnLock, RefreshLock, Confirm, Begins, TypeOK
<1>. QED  BY <1>2, <1>3, <1>4, <1>5, <1>6, <1>7, <1>8, <1>9 DEF Request

-----------------------------------------------------------------------------
(* Requests and their tokens *)

\* One client acts, all at once fall silent, or none is concerned.
Acts(b) == Lock(b) \/ Write(b) \/ Request(b)

LEMMA WhoActs ==
  ASSUME [Next]_vars
  PROVE  /\ world' = world
         /\ \/ op' = [c \in Client |-> IdleOp] /\ UNCHANGED <<held, row, locks>>
            \/ /\ UNCHANGED <<op, held, row>>
               /\ \/ UNCHANGED locks
                  \/ aged # {} /\ aged' = {}
                  \/ Is("expire")
            \/ \E b \in Client : Acts(b) /\ Undisturbed({b})
<1>1. world' = world  BY NextWriters DEF Writers
<1>2. CASE Crash
  BY <1>1, <1>2 DEF Crash, locks
<1>3. CASE UNCHANGED vars
  BY <1>1, <1>3 DEF vars, locks
<1>4. CASE \E w \in Worker : Rehash(w)
  BY <1>1, <1>4 DEF Rehash, RehashScan, RehashRead, RehashWrite, locks
<1>5. CASE CleanExpiredLocks \/ \E t \in Token : Age(t)
  BY <1>1, <1>5 DEF CleanExpiredLocks, Age
<1>6. ASSUME NEW b \in Client, Step(b) \/ (Undisturbed({}) /\ Request(b))
      PROVE  Acts(b) /\ Undisturbed({b})
  BY <1>6 DEF Step, Acts, Undisturbed
<1>. QED  BY <1>1, <1>2, <1>3, <1>4, <1>5, <1>6 DEF Next

LEMMA KindStep ==
  ASSUME TypeOK, LocalsSet, NEW c \in Client, KindFits(c), Acts(c), world' = world
  PROVE  KindFits(c)'
<1>1. op[c] \in OpRow /\ Fits(op[c])  BY DEF TypeOK, LocalsSet
<1>2. ASSUME op'[c] = IdleOp  PROVE KindFits(c)'
  BY <1>2 DEF KindFits, IdleOp
<1>3. CASE op' = op  BY <1>3 DEF KindFits
<1>4. ASSUME Rest(op'[c]) = Rest(op[c]), op[c].pc # "idle",
             op'[c].pc \in {"release", "write", "update", "served"}
      PROVE  KindFits(c)'
  BY <1>4 DEF KindFits, Rest
<1>5. ASSUME AcquireRead(c) \/ AcquireInsert(c)  PROVE KindFits(c)'
  <2>1. /\ Rest(op'[c]) = Rest(op[c]) /\ op[c].pc \in {"acquire", "insert"}
        /\ op'[c].pc \in {"release", "insert", "confirmed"}
    BY <1>5, AcquireGoes DEF AcquireRead, AcquireInsert
  <2>2. op[c].pc # "idle"  BY <2>1
  <2>. QED  BY <2>1, <2>2, <1>4 DEF KindFits, Rest
<1>6. CASE LockCreate(c)
  <2>0. op[c].pc = "create" /\ op[c].kind \in DavKind  BY <1>1, <1>6 DEF LockCreate, Fits
  <2>1. CASE Rest(op'[c]) = Rest(op[c]) /\ op'[c].pc = "release"
    BY <2>0, <2>1, <1>4
  <2>2. CASE ~(Rest(op'[c]) = Rest(op[c]) /\ op'[c].pc = "release")
    <3>1. op'[c].pc = "acquire" /\ op'[c].kind = op[c].kind /\ op'[c].todo = op[c].todo /\ op'[c].n = op[c].n
      BY <1>6, <2>2, LockCreateGoes
    <3>. QED  BY <2>0, <3>1 DEF KindFits
  <2>. QED  BY <2>1, <2>2
<1>7. CASE AcquireDone(c)
  <2>1. CASE op'[c] = IdleOp  BY <1>2, <2>1
  <2>2. CASE op'[c] # IdleOp
    <3>1. /\ op[c].pc = "confirmed" /\ op[c].kind \in DavKind
          /\ op'[c].kind = op[c].kind /\ op'[c].n = op[c].n
          /\ op'[c].todo = Tail(op[c].todo)
          /\ op'[c].pc = IF Len(op[c].todo) = 1 THEN "apply" ELSE "create"
      BY <1>7, <2>2, AcquireDoneGoes
    <3>2. op[c].kind # "move" => op'[c].pc = "apply"
      <4>1. op[c].kind # "move" => op[c].todo = <<op[c].n>>  BY <3>1 DEF KindFits
      <4>2. Len(<<op[c].n>>) = 1  OBVIOUS
      <4>. QED  BY <3>1, <4>1, <4>2
    <3>3. op'[c].pc \in {"apply", "create"}  BY <3>1
    <3>4. op[c].kind \in world.kinds[c] /\ op[c].n # None  BY <3>1 DEF KindFits
    <3>. QED  BY <1>7, <3>1, <3>2, <3>3, <3>4, world' = world DEF KindFits
  <2>. QED  BY <2>1, <2>2
<1>8. CASE LockOpen(c) \/ Release(c)
  <2>1. CASE op'[c] = IdleOp  BY <1>2, <2>1
  <2>2. CASE op'[c] # IdleOp
    <3>1. /\ Release(c) /\ op'[c].pc = "release" /\ op'[c].kind = op[c].kind /\ op'[c].n = op[c].n
      BY <1>8, <2>2, EndGoes
    <3>2. op[c].pc = "release"  BY <3>1 DEF Release
    <3>. QED  BY <3>1, <3>2 DEF KindFits
  <2>. QED  BY <2>1, <2>2
<1>9. CASE Write(c)
  <2>0. op[c].pc # "idle"
    BY <1>9 DEF Write, OpenForWrite, StreamToStorage, CloseNewFile, RemoveAll, Mkdir, MoveOver, FindSource,
                Rename, PatchRead, OverwritePut, OverwriteFails, OverwriteUpdate,
                FastOverwriteCommit, EnsureOpen, Served
  <2>1. CASE op' = [op EXCEPT ![c] = IdleOp]  BY <1>2, <2>1 DEF TypeOK
  <2>2. CASE op' # [op EXCEPT ![c] = IdleOp]
    <3>1. /\ Rest(op'[c]) = Rest(op[c])
          /\ \/ op'[c].pc \in {"release", "write", "update", "served"}
             \/ OpenForWrite(c) /\ op'[c].pc = "store" /\ Named(op[c].n) = {}
             \/ StreamToStorage(c) /\ op'[c].pc = "record"
             \/ MoveOver(c) /\ op'[c].pc = "source"
             \/ FindSource(c) /\ op'[c].pc = "rename"
      BY <1>9, <2>2, WriteGoes
    <3>2. CASE op'[c].pc \in {"release", "write", "update", "served"}
      BY <1>4, <2>0, <3>1, <3>2
    <3>3. CASE OpenForWrite(c) /\ op'[c].pc = "store"
      <4>1. op[c].kind \in {"put", "putIf"}  BY <3>3 DEF OpenForWrite
      <4>. QED  BY <2>0, <3>1, <3>3, <4>1 DEF KindFits, Rest
    <3>4. CASE StreamToStorage(c) /\ op'[c].pc = "record"
      <4>1. op[c].kind \in {"put", "putIf"}  BY <3>4 DEF StreamToStorage, KindFits
      <4>. QED  BY <2>0, <3>1, <3>4, <4>1 DEF KindFits, Rest
    <3>5. CASE \/ MoveOver(c) /\ op'[c].pc = "source"
               \/ FindSource(c) /\ op'[c].pc = "rename"
      <4>1. op[c].kind = "move"  BY <3>5 DEF MoveOver, FindSource, KindFits
      <4>. QED  BY <2>0, <3>1, <3>5, <4>1 DEF KindFits, Rest
    <3>. QED  BY <3>1, <3>2, <3>3, <3>4, <3>5
  <2>. QED  BY <2>1, <2>2
<1>10. CASE NewRequest(c)
  <2>1. Name \subseteq Key /\ None \notin Key  BY KeysDisjoint DEF Key
  <2>2. CASE op'[c].pc = "create" \/ op'[c].kind = "putIf"
    BY <1>10, <2>1, <2>2 DEF NewRequest, KindFits, EditKind
  <2>3. CASE ~(op'[c].pc = "create" \/ op'[c].kind = "putIf")
    <3>1. \/ op'[c].pc = "acquire" /\ op'[c].kind = "wopiLock" /\ op'[c].key \in File
          \/ /\ op'[c].pc \in {"stream", "commit", "read", "write"}
             /\ op'[c].kind \in {"get", "fast"} \cup EditKind
             /\ op'[c].pc = "commit" => "fast" \in world.kinds[c]
      BY <1>10, <2>3 DEF NewRequest
    <3>. QED  BY <3>1, world' = world DEF KindFits, EditKind, DavKind
  <2>. QED  BY <2>2, <2>3
<1>. QED
  BY <1>3, <1>5, <1>6, <1>7, <1>8, <1>9, <1>10, RequestGoes DEF Acts, Lock

LEMMA FreshApart ==
  /\ \A t \in FreshToken : t \notin Held /\ t # None
  /\ \A t \in FreshToken, k \in Key : t \notin lock[k]
  /\ \A c \in Client : Tokens(c) \subseteq Held
  /\ \A f \in FreshFile : f \in File /\ row[f].kind = "free"
<1>1. FreshToken \subseteq {t \in Token \ Held : \A k \in Key : t \notin lock[k]}
  BY DEF FreshToken, OneOf
<1>2. FreshFile \subseteq {f \in File : row[f].kind = "free"}  BY DEF FreshFile, OneOf
<1>3. \A c \in Client : Tokens(c) \subseteq Held  BY DEF Tokens, Held
<1>. QED  BY <1>1, <1>2, <1>3, KeysDisjoint

\* A request takes no token that anybody has.
LEMMA TokensStep ==
  ASSUME TypeOK, LocalsSet, NEW c \in Client, Acts(c)
  PROVE  Tokens(c)' \subseteq Tokens(c) \cup FreshToken
<1>1. op[c] \in OpRow  BY DEF TypeOK
<1>2. ASSUME op'[c].tok \in FreshToken \cup {None, held[c], op[c].tok},
             held'[c] \in {None, held[c], op[c].tok},
             op'[c].tmp \subseteq op[c].tmp \cup {op[c].tok, held[c]}
      PROVE  Tokens(c)' \subseteq Tokens(c) \cup FreshToken
  BY <1>2 DEF Tokens
<1>3. ASSUME op'[c] = IdleOp, held'[c] \in {held[c], op[c].tok}
      PROVE  Tokens(c)' \subseteq Tokens(c) \cup FreshToken
  BY <1>2, <1>3 DEF IdleOp
<1>4. ASSUME Rest(op'[c]) = Rest(op[c]), held' = held
      PROVE  Tokens(c)' \subseteq Tokens(c) \cup FreshToken
  BY <1>2, <1>4 DEF Rest
<1>5. CASE Write(c)
  <2>1. CASE op' = [op EXCEPT ![c] = IdleOp]  BY <1>3, <1>5, <2>1, WriteGoes DEF TypeOK
  <2>. QED  BY <1>4, <1>5, <2>1, WriteGoes
<1>6. CASE AcquireRead(c) \/ AcquireInsert(c)
  BY <1>4, <1>6, AcquireGoes
<1>7. CASE LockCreate(c)
  <2>1. held' = held /\ (Rest(op'[c]) = Rest(op[c]) \/ (op'[c].tmp = op[c].tmp /\ op'[c].tok \in FreshToken))
    BY <1>7, LockCreateGoes
  <2>. QED  BY <1>2, <1>4, <2>1
<1>8. CASE AcquireDone(c)
  <2>1. \/ op'[c] = IdleOp /\ held'[c] = op[c].tok
        \/ held' = held /\ op'[c].tok = op[c].tok /\ op'[c].tmp = op[c].tmp \cup {op[c].tok}
    BY <1>8, AcquireDoneGoes
  <2>. QED  BY <1>2, <1>3, <2>1
<1>9. CASE LockOpen(c) \/ Release(c)
  <2>1. \/ op'[c] = IdleOp /\ held'[c] \in {held[c], op[c].tok}
        \/ held' = held /\ op'[c].tok = op[c].tok /\ op'[c].tmp \subseteq op[c].tmp
    BY <1>9, EndGoes
  <2>. QED  BY <1>2, <1>3, <2>1
<1>10. CASE Request(c)
  <2>1. CASE op' = op /\ held'[c] \in {None, held[c]}  BY <1>2, <2>1
  <2>2. CASE NewRequest(c)
    <3>1. /\ op'[c].tok \in FreshToken \cup {None, held[c]} /\ held'[c] \in {None, held[c]}
          /\ op'[c].tmp \subseteq {held[c]}
      BY <2>2 DEF NewRequest
    <3>. QED  BY <1>2, <3>1
  <2>. QED  BY <1>10, <2>1, <2>2, RequestGoes
<1>. QED  BY <1>5, <1>6, <1>7, <1>8, <1>9, <1>10 DEF Acts, Lock

LEMMA NextRequestsFit ==
  ASSUME TypeOK, LocalsSet, RequestsFit, [Next]_vars
  PROVE  RequestsFit'
<1>1. world' = world  BY WhoActs
<1>2. ASSUME NEW b \in Client, Acts(b)  PROVE RequestsFit'
  <2>1. ASSUME NEW c \in Client  PROVE KindFits(c)'
    <3>1. CASE c = b  BY <1>1, <1>2, <3>1, KindStep DEF RequestsFit
    <3>2. CASE c # b
      <4>1. Core(op'[c]) = Core(op[c])  BY <1>2, <3>2, OthersKeep DEF Acts
      <4>. QED  BY <1>1, <4>1 DEF RequestsFit, KindFits, Core
    <3>. QED  BY <3>1, <3>2
  <2>2. ASSUME NEW c \in Client, c # b  PROVE Tokens(c)' = Tokens(c)
    <3>1. Core(op'[c]) = Core(op[c]) /\ held'[c] = held[c]  BY <1>2, <2>2, OthersKeep DEF Acts
    <3>. QED  BY <3>1 DEF Tokens, Core
  <2>3. Tokens(b)' \subseteq Tokens(b) \cup FreshToken  BY <1>2, TokensStep
  <2>4. \A c \in Client : FreshToken \cap Tokens(c) = {}  BY FreshApart
  <2>5. ASSUME NEW a \in Client, NEW c \in Client, a # c  PROVE Tokens(a)' \cap Tokens(c)' = {}
    <3>1. Tokens(a) \cap Tokens(c) = {}  BY <2>5 DEF RequestsFit
    <3>. QED  BY <2>2, <2>3, <2>4, <2>5, <3>1
  <2>. QED  BY <2>1, <2>5 DEF RequestsFit
<1>3. CASE UNCHANGED <<op, held, row>>
  BY <1>1, <1>3 DEF RequestsFit, KindFits, Tokens
<1>4. CASE op' = [c \in Client |-> IdleOp] /\ held' = held
  <2>1. \A c \in Client : KindFits(c)'  BY <1>4 DEF KindFits, IdleOp
  <2>2. \A c \in Client : Tokens(c)' \subseteq Tokens(c)  BY <1>4 DEF Tokens, IdleOp
  <2>. QED  BY <2>1, <2>2 DEF RequestsFit
<1>. QED  BY <1>2, <1>3, <1>4, WhoActs

-----------------------------------------------------------------------------
(* The transactions of AcquireLock *)

\* A transaction begins with a token of its own, or the one that has the key.
\* Others leave it alone, and in a steady deployment do nothing until it ends.
LEMMA InTransaction ==
  ASSUME TypeOK, LocalsSet, [Next]_vars, NEW c \in Client,
         op'[c].pc \in {"acquire", "insert"}
  PROVE  \/ (LockCreate(c) /\ op[c].pc = "create")
         \/ AcquireRead(c)
         \/ \E f \in File : WopiLock(c, f)
         \/ /\ Core(op'[c]) = Core(op[c])
            /\ Is("steady") => op' = op /\ UNCHANGED <<lock, first>>
<1>1. op[c] \in OpRow /\ Fits(op[c])  BY DEF TypeOK, LocalsSet
<1>2. CASE UNCHANGED vars  BY <1>2 DEF vars
<1>3. CASE Crash  BY <1>3 DEF Crash, IdleOp
<1>4. ASSUME op'[c].pc = op[c].pc  PROVE c \in Locking
  BY <1>4 DEF Locking
<1>5. CASE Undisturbed({}) /\ (\/ CleanExpiredLocks \/ \E t \in Token : Age(t)
                              \/ \E w \in Worker : RehashScan(w) \/ RehashRead(w) \/ RehashWrite(w))
  <2>1. op' = op  BY <1>5 DEF CleanExpiredLocks, Age, RehashScan, RehashRead, RehashWrite
  <2>. QED  BY <1>4, <1>5, <2>1 DEF Undisturbed
<1>6. ASSUME NEW b \in Client, b # c, Step(b) \/ Request(b), Undisturbed({b})
      PROVE  Core(op'[c]) = Core(op[c]) /\ ~Is("steady")
  <2>1. Core(op'[c]) = Core(op[c])  BY <1>6, OthersKeep DEF Step
  <2>2. c \in Locking  BY <1>4, <2>1 DEF Core
  <2>. QED  BY <1>6, <2>1, <2>2 DEF Undisturbed
<1>8. CASE Request(c) /\ Undisturbed({})
  <2>1. CASE op' = op  BY <1>4, <1>8, <2>1 DEF Undisturbed
  <2>2. ASSUME NEW kind \in Kind, NEW n \in Name, NEW d \in Name, DavRequest(c, kind, n, d)
        PROVE  FALSE
    <3>. DEFINE todo == IF kind = "move" THEN <<n, d>> ELSE <<n>>
    <3>1. op' = [op EXCEPT ![c] = [IdleOp EXCEPT !.pc = "create", !.kind = kind, !.n = n, !.d = d,
                                                 !.todo = todo]]
      BY <2>2 DEF DavRequest
    <3>. HIDE DEF todo
    <3>2. op'[c].pc = "create"  BY <3>1, IdleType DEF TypeOK, OpRow
    <3>. QED  BY <3>2
  <2>3. ASSUME NEW n \in Name, Confirm(c, n), op' # op  PROVE FALSE
    BY <2>3, IdleType DEF Confirm, TypeOK, OpRow
  <2>4. ASSUME NEW n \in Name, OpenForRead(c, n)  PROVE FALSE
    <3>1. PICK f \in Named(n) :
            op' = [op EXCEPT ![c] = [IdleOp EXCEPT !.pc = "stream", !.kind = "get", !.f = f,
                                                   !.obj = row[f].obj,
                                                   !.now = row[f].obj \in sized]]
      BY <2>4 DEF OpenForRead
    <3>. DEFINE now == row[f].obj \in sized
    <3>2. op' = [op EXCEPT ![c] = [IdleOp EXCEPT !.pc = "stream", !.kind = "get", !.f = f,
                                                   !.obj = row[f].obj, !.now = now]]
      BY <3>1
    <3>. HIDE DEF now
    <3>3. op'[c].pc = "stream"  BY <3>2, IdleType DEF TypeOK, OpRow
    <3>. QED  BY <3>3
  <2>5. ASSUME NEW f \in File, FastOverwritePut(c, f)  PROVE FALSE
    <3>. DEFINE r == [IdleOp EXCEPT !.pc = "commit", !.kind = "fast", !.f = f]
    <3>1. r.pc = "commit" /\ r \in [pc : {"commit"}, kind : {"fast"}, todo : {<<>>}, n : {None},
                                    d : {None}, f : File, obj : {None}, key : {None},
                                    tok : {None}, tmp : {{}}, now : {FALSE}]
      BY DEF IdleOp
    <3>2. Put(c, row[f].obj, r)  BY <2>5 DEF FastOverwritePut
    <3>. HIDE DEF r
    <3>3. op'[c].pc = "commit"  BY <3>1, <3>2 DEF Put
    <3>. QED  BY <3>3
  <2>6. ASSUME NEW kind \in Kind, NEW f \in File, NEW t \in Token \cup {None}, EditCheck(c, kind, f, t)
        PROVE  FALSE
    <3>1. op'[c].pc \in {"read", "write"}  BY <2>6, IdleType DEF EditCheck, TypeOK, OpRow
    <3>. QED  BY <3>1
  <2>. QED
    BY <1>8, <2>1, <2>2, <2>3, <2>4, <2>5, <2>6 DEF Request, ReturnLock, RefreshLock
<1>9. CASE Lock(c)
  <2>1. ASSUME AcquireInsert(c)  PROVE op'[c].pc \in {"release", "confirmed"}
    BY <2>1, AcquireGoes DEF AcquireInsert
  <2>2. ASSUME AcquireDone(c)  PROVE op'[c] = IdleOp \/ op'[c].pc \in {"apply", "create"}
    BY <2>2, AcquireDoneGoes
  <2>3. ASSUME LockOpen(c) \/ Release(c)  PROVE op'[c] = IdleOp \/ op'[c].pc = "release"
    BY <2>3, EndGoes
  <2>4. LockCreate(c) => op[c].pc = "create"  BY DEF LockCreate
  <2>5. op'[c] # IdleOp  BY DEF IdleOp
  <2>. QED  BY <1>9, <2>1, <2>2, <2>3, <2>4, <2>5 DEF Lock
<1>10. CASE Write(c)
  <2>1. \/ op'[c] = IdleOp
        \/ op'[c].pc \in {"release", "write", "update", "served", "store", "record",
                         "source", "rename"}
    BY <1>10, WriteGoes DEF TypeOK
  <2>. QED  BY <2>1 DEF IdleOp
<1>11. (\E b \in Client : b # c /\ ((Undisturbed({}) /\ Request(b)) \/ Step(b)))
          => \E b \in Client : b # c /\ (Step(b) \/ Request(b)) /\ Undisturbed({b})
  BY DEF Step, Undisturbed
<1>. QED
  BY <1>2, <1>3, <1>5, <1>6, <1>8, <1>9, <1>10, <1>11 DEF Next, Step, Rehash

\* Only a transaction that inserts adds a row, and it adds its token.
LEMMA RowsGrow ==
  ASSUME TypeOK, LocalsSet, OneRow, [Next]_vars, NEW k \in Key, NEW t \in lock'[k], t \notin lock[k]
  PROVE  \E b \in Client : AcquireInsert(b) /\ op[b].key = k /\ op[b].tok = t
<1>1. CASE \E b \in Client : AcquireInsert(b)
  <2>1. PICK b \in Client : AcquireInsert(b)  BY <1>1
  <2>2. lock' = [lock EXCEPT ![op[b].key] = @ \cup {op[b].tok}]  BY <2>1 DEF AcquireInsert
  <2>. QED  BY <2>1, <2>2 DEF TypeOK
<1>2. CASE ~\E b \in Client : AcquireInsert(b)
  <2>1. ASSUME NEW u, NEW l, ReleaseLock(l, u)  PROVE lock'[k] \subseteq lock[k]
    BY <2>1 DEF ReleaseLock, TypeOK
  <2>2. ASSUME NEW u, Unlock(u)  PROVE lock'[k] \subseteq lock[k]
    BY <2>1, <2>2 DEF Unlock
  <2>3. ASSUME NEW c \in Client, Release(c)  PROVE lock'[k] \subseteq lock[k]
    BY <2>1, <2>2, <2>3 DEF Release
  <2>4. ASSUME NEW c \in Client, ReturnLock(c) \/ \E f \in File : WopiLock(c, f)
        PROVE  lock'[k] \subseteq lock[k]
    BY <2>1, <2>2, <2>4 DEF ReturnLock, WopiLock
  <2>5. CASE CleanExpiredLocks  BY <2>5 DEF CleanExpiredLocks
  <2>. QED  BY <1>2, <2>3, <2>4, <2>5, NextWriters DEF Writers
<1>. QED  BY <1>1, <1>2

\* What a transaction that is under way knows of the rows stays true.
LEMMA StillApart ==
  ASSUME TypeOK, LocalsSet, OneRow, RequestsFit, [Next]_vars, NEW c \in Client,
         op'[c].pc \in {"acquire", "insert"}, Core(op'[c]) = Core(op[c])
  PROVE  \A k \in Key : op[c].tok \in lock'[k] => op[c].tok \in lock[k]
<1>1. op[c] \in OpRow /\ Fits(op[c]) /\ op[c].pc = op'[c].pc  BY DEF TypeOK, LocalsSet, Core
<1>2. op[c].tok \in Tokens(c)  BY <1>1 DEF Fits, Tokens
<1>3. ASSUME NEW b \in Client, AcquireInsert(b), op[b].tok = op[c].tok  PROVE FALSE
  <2>1. op[b].tok \in Tokens(b)  BY <1>2, <1>3 DEF Tokens
  <2>2. b = c  BY <1>2, <1>3, <2>1 DEF RequestsFit
  <2>3. op'[c].pc \in {"release", "confirmed"}  BY <1>3, <2>2, AcquireGoes DEF AcquireInsert
  <2>. QED  BY <2>3
<1>. QED  BY <1>3, RowsGrow

LEMMA NextOneRow ==
  ASSUME TypeOK, LocalsSet, OneRow, RequestsFit, [Next]_vars
  PROVE  OneRow'
<1>1. UNCHANGED <<lock, first>> \/ OneComes \/ SomeGo  BY LockSteps
<1>2. /\ \A k \in Key : Holder(k)' \in FirstOf(lock'[k])
      /\ \A k, l \in Key : lock'[k] \cap lock'[l] # {} => k = l
      /\ Is("serial") => \A k \in Key : lock'[k] \subseteq {Holder(k)'}
  BY <1>1, LockAfter
<1>3. world' = world  BY NextWriters DEF Writers
<1>4. ASSUME NEW c \in Client, op'[c].pc \in {"acquire", "insert"}, NEW k \in Key, op'[c].tok \in lock'[k]
      PROVE  op'[c].pc = "acquire" /\ k = op'[c].key
  <2>1. op[c] \in OpRow /\ Fits(op[c])  BY DEF TypeOK, LocalsSet
  <2>2. CASE Core(op'[c]) = Core(op[c])
    BY <1>4, <2>2, StillApart DEF OneRow, Core
  <2>3. CASE LockCreate(c) /\ op[c].pc = "create"
    <3>1. op'[c].tok \in FreshToken /\ lock' = lock  BY <1>4, <2>3, LockCreateGoes
    <3>. QED  BY <1>4, <3>1, FreshApart
  <2>4. CASE AcquireRead(c)
    <3>1. lock' = lock /\ op[c].pc = "acquire"  BY <2>4 DEF AcquireRead
    <3>2. PICK pc \in {"release", "insert", "confirmed"} :
            Goto(c, pc) /\ (pc = "insert" => Holder(op[c].key) = None)
      BY <2>4 DEF AcquireRead
    <3>3. op'[c].pc = pc /\ op'[c].tok = op[c].tok /\ op'[c].key = op[c].key
      BY <2>1, <3>2 DEF Goto, TypeOK, OpRow
    <3>4. op[c].tok \in lock[k] /\ k = op[c].key  BY <1>4, <3>1, <3>3 DEF OneRow
    <3>5. Holder(k) # None  BY <3>4, FirstRow
    <3>. QED  BY <1>4, <3>2, <3>3, <3>4, <3>5
  <2>5. ASSUME NEW f \in File, WopiLock(c, f)  PROVE op'[c].pc = "acquire" /\ k = op'[c].key
    <3>1. PICK t \in IF held'[c] = None THEN FreshToken ELSE {held[c]} :
            op' = [op EXCEPT ![c] = [IdleOp EXCEPT !.pc = "acquire", !.kind = "wopiLock", !.f = f,
                                                   !.key = f, !.tok = t]]
      BY <2>5 DEF WopiLock
    <3>2. op'[c].pc = "acquire" /\ op'[c].tok = t /\ op'[c].key = f
      BY <3>1, IdleType DEF TypeOK, OpRow
    <3>3. CASE held'[c] = None
      <4>1. t \in FreshToken  BY <3>1, <3>3
      <4>2. t \notin lock[k]  BY <4>1, FreshApart
      <4>3. PICK b \in Client : AcquireInsert(b) /\ op[b].tok = t
        BY <1>4, <3>2, <4>2, RowsGrow
      <4>4. t \in Held  BY <4>3 DEF Held
      <4>. QED  BY <4>1, <4>4, FreshApart
    <3>4. CASE held'[c] # None
      <4>1. lock' = lock /\ Holder(f) = held[c] /\ held[c] # None
        BY <2>5, <3>4 DEF WopiLock, TypeOK
      <4>2. t = held[c]  BY <3>1, <3>4
      <4>3. f \in Key  BY DEF Key
      <4>4. t \in lock[f]  BY <4>1, <4>2, <4>3, FirstRow
      <4>. QED  BY <1>4, <3>2, <4>1, <4>3, <4>4 DEF OneRow
    <3>. QED  BY <3>3, <3>4
  <2>. QED  BY <1>4, <2>2, <2>3, <2>4, <2>5, InTransaction
<1>5. ASSUME NEW c \in Client, op'[c].pc = "insert"
      PROVE  Core(op'[c]) = Core(op[c]) \/ AcquireRead(c)
  <2>1. op[c] \in OpRow  BY DEF TypeOK
  <2>2. LockCreate(c) => op'[c].pc # "insert"
    BY LockCreateGoes
  <2>3. ASSUME NEW f \in File, WopiLock(c, f)  PROVE op'[c].pc # "insert"
    BY <2>3, IdleType DEF WopiLock, TypeOK, OpRow
  <2>. QED  BY <1>5, <2>2, <2>3, InTransaction
<1>6. ASSUME NEW c \in Client, AcquireRead(c), op'[c].pc = "insert"
      PROVE  /\ op[c].pc = "acquire" /\ Holder(op[c].key) = None /\ op'[c].key = op[c].key
             /\ UNCHANGED <<lock, first>>
  <2>1. op[c] \in OpRow  BY DEF TypeOK
  <2>2. PICK pc \in {"release", "insert", "confirmed"} :
          Goto(c, pc) /\ (pc = "insert" => Holder(op[c].key) = None)
    BY <1>6 DEF AcquireRead
  <2>3. op'[c].pc = pc /\ op'[c].key = op[c].key  BY <2>1, <2>2 DEF Goto, TypeOK, OpRow
  <2>. QED  BY <1>6, <2>2, <2>3 DEF AcquireRead
<1>7. ASSUME Is("serial"), NEW c \in Client, op'[c].pc = "insert"  PROVE first'[op'[c].key] = None
  <2>0. op[c] \in OpRow /\ Fits(op[c])  BY DEF TypeOK, LocalsSet
  <2>1. CASE AcquireRead(c)
    <3>1. Holder(op[c].key) = None /\ op'[c].key = op[c].key /\ first' = first  BY <1>6, <1>7, <2>1
    <3>. QED  BY <3>1 DEF Holder
  <2>2. CASE Core(op'[c]) = Core(op[c])
    <3>. DEFINE k == op[c].key
    <3>1. op[c].pc = "insert" /\ op'[c].key = k  BY <1>7, <2>2 DEF Core
    <3>2. k \in Key /\ Holder(k) = None  BY <1>7, <2>0, <3>1 DEF OneRow, Fits, OpRow
    <3>3. lock[k] = {}  BY <3>2, FirstRow
    <3>4. ASSUME NEW t \in lock'[k]  PROVE FALSE
      <4>1. PICK b \in Client : AcquireInsert(b) /\ op[b].key = k  BY <3>2, <3>3, <3>4, RowsGrow
      <4>2. b = c  BY <1>7, <3>1, <4>1 DEF OneRow, AcquireInsert
      <4>3. op'[c].pc \in {"release", "confirmed"}  BY <4>1, <4>2, AcquireGoes DEF AcquireInsert
      <4>. QED  BY <1>7, <4>3
    <3>5. lock'[k] = {}  BY <3>4
    <3>6. first'[k] = None  BY <1>2, <3>2, <3>5 DEF FirstOf, Holder
    <3>. QED  BY <3>1, <3>6
  <2>. QED  BY <1>5, <1>7, <2>1, <2>2
<1>8. ASSUME Is("serial"), NEW b \in Client, NEW c \in Client, op'[b].pc = "insert", op'[c].pc = "insert",
             op'[b].key = op'[c].key, b # c
      PROVE  FALSE
  <2>1. ASSUME NEW x \in Client, NEW y \in Client, x # y, AcquireRead(x), op'[x].pc = "insert",
               op'[y].pc = "insert", op'[x].key = op'[y].key
        PROVE  FALSE
    <3>1. Core(op'[y]) = Core(op[y])  BY <2>1, OthersKeep DEF Lock
    <3>2. op[y].pc = "insert" /\ op[y].key = op'[y].key  BY <2>1, <3>1 DEF Core
    <3>3. op[x].key = op[y].key  BY <1>6, <2>1, <3>2
    <3>. QED  BY <1>8, <2>1, <3>2, <3>3 DEF AcquireRead
  <2>2. CASE AcquireRead(b) \/ AcquireRead(c)  BY <1>8, <2>1, <2>2
  <2>3. CASE Core(op'[b]) = Core(op[b]) /\ Core(op'[c]) = Core(op[c])
    <3>1. op[b].pc = "insert" /\ op[c].pc = "insert" /\ op[b].key = op[c].key
      BY <1>8, <2>3 DEF Core
    <3>. QED  BY <1>8, <3>1 DEF OneRow
  <2>. QED  BY <1>5, <1>8, <2>2, <2>3
<1>9. Is("serial")' <=> Is("serial")  BY <1>3 DEF Is
<1>10. ASSUME Is("serial"), NEW b \in Client, NEW c \in Client, op'[b].pc = "insert" /\ op'[c].pc = "insert"
       PROVE  first'[op'[c].key] = None /\ (op'[b].key = op'[c].key => b = c)
  BY <1>7, <1>8, <1>10
<1>. QED  BY <1>2, <1>4, <1>9, <1>10 DEF OneRow, Holder

-----------------------------------------------------------------------------
(* Names *)

\* In a world that guards its names a request deletes a file of its path, or
\* makes one there after it found the path free.
Deletes(b) ==
  /\ op[b].pc = "apply" /\ op'[b].pc = "release"
  /\ \E f \in Named(op[b].n) : row' = [row EXCEPT ![f].kind = "deleted"]

Makes(b) ==
  /\ Maker(b) /\ op[b].pc \in {"apply", "record"} /\ op'[b].pc \in {"idle", "release"}
  /\ Named(op[b].n) = {}
  /\ \E f \in FreshFile : \E o : row' = [row EXCEPT ![f] = [kind |-> "file", name |-> op[b].n, obj |-> o]]

LEMMA RowGoes ==
  ASSUME TypeOK, LocalsSet, RequestsFit, NamesApart, NamesGuarded, NEW b \in Client, Acts(b)
  PROVE  row' = row \/ Deletes(b) \/ Makes(b)
<1>1. op[b] \in OpRow /\ Fits(op[b]) /\ KindFits(b)  BY DEF TypeOK, LocalsSet, RequestsFit
<1>2. "move" \notin world.kinds[b] /\ "mkcol" \notin world.kinds[b]  BY DEF NamesGuarded
<1>3. CASE LockOpen(b)
  <2>1. op[b].pc = "apply" /\ op[b].kind = "lock" /\ op'[b].pc = "idle"
    BY <1>3 DEF LockOpen, Answered, IdleOp, TypeOK
  <2>2. "lock" \in world.kinds[b]  BY <1>1, <2>1 DEF KindFits, DavKind
  <2>3. Maker(b)  BY <2>2 DEF Maker
  <2>. QED  BY <1>3, <2>1, <2>3 DEF LockOpen, Makes
<1>4. CASE CloseNewFile(b)
  <2>1. op[b].pc = "record"
    BY <1>4 DEF CloseNewFile
  <2>2. op'[b].pc = "release"
    <3>1. op' = [op EXCEPT ![b].pc = "release", ![b].obj = None]  BY <1>4 DEF CloseNewFile
    <3>. QED  BY <1>1, <3>1 DEF TypeOK, OpRow
  <2>3. op[b].kind \in {"put", "putIf"} /\ op[b].kind \in world.kinds[b]
    BY <1>1, <2>1 DEF KindFits, DavKind
  <2>4. Maker(b)  BY <2>3 DEF Maker
  <2>5. Named(op[b].n) = {}  BY <2>1 DEF NamesApart
  <2>. QED  BY <1>4, <2>1, <2>2, <2>4, <2>5 DEF CloseNewFile, Makes
<1>5. CASE RemoveAll(b)
  <2>1. op'[b].pc = "release" /\ op[b].pc = "apply"
    BY <1>1, <1>5 DEF RemoveAll, Goto, TypeOK, OpRow
  <2>2. PICK f \in Resolve(op[b].n) : row' = IF f = None THEN row ELSE [row EXCEPT ![f].kind = "deleted"]
    BY <1>5 DEF RemoveAll
  <2>3. f # None => f \in Named(op[b].n)  BY DEF Resolve
  <2>. QED  BY <2>1, <2>2, <2>3 DEF Deletes
<1>6. CASE Mkdir(b) \/ MoveOver(b)
  <2>1. op[b].pc = "apply" /\ op[b].kind \in {"mkcol", "move"}  BY <1>6 DEF Mkdir, MoveOver
  <2>. QED  BY <1>1, <1>2, <2>1 DEF KindFits, DavKind
<1>7. CASE Rename(b)
  <2>1. op[b].pc = "rename"  BY <1>7 DEF Rename
  <2>. QED  BY <1>1, <1>2, <2>1 DEF KindFits, DavKind
<1>8. CASE Lock(b) /\ ~LockOpen(b)
  BY <1>8 DEF Lock, AcquireRead, AcquireInsert, AcquireDone, LockCreate, Release
<1>9. CASE Write(b) /\ ~(CloseNewFile(b) \/ RemoveAll(b) \/ Mkdir(b) \/ MoveOver(b) \/ Rename(b))
  BY <1>9 DEF Write, OpenForWrite, StreamToStorage, FindSource, PatchRead, OverwritePut,
              OverwriteFails, OverwriteUpdate, FastOverwriteCommit, EnsureOpen, Served
<1>10. CASE Request(b)  BY <1>10, RequestGoes
<1>. QED  BY <1>3, <1>4, <1>5, <1>6, <1>7, <1>8, <1>9, <1>10 DEF Acts

\* What names name after such a step.
LEMMA DeletesNames ==
  ASSUME TypeOK, NEW b \in Client, Deletes(b)
  PROVE  /\ \A f \in File : Live(f)' => Live(f) /\ row'[f].name = row[f].name
         /\ \A n : Named(n)' \subseteq Named(n)
         /\ \A n : n # op[b].n => Named(n)' = Named(n)
<1>1. PICK f \in Named(op[b].n) : row' = [row EXCEPT ![f].kind = "deleted"]  BY DEF Deletes
<1>2. f \in File /\ row[f].name = op[b].n /\ row[f] \in Row  BY DEF Named, TypeOK
<1>3. /\ row'[f].kind = "deleted" /\ row'[f].name = row[f].name
      /\ \A g \in File : g # f => row'[g] = row[g]
  BY <1>1, <1>2 DEF TypeOK, Row
<1>4. ~Live(f)' /\ \A g \in File : g # f => (Live(g)' <=> Live(g))  BY <1>3 DEF Live
<1>. QED  BY <1>2, <1>3, <1>4 DEF Named

LEMMA MakesNames ==
  ASSUME TypeOK, NEW b \in Client, Makes(b)
  PROVE  \E f \in File :
           /\ ~Live(f) /\ Live(f)' /\ row'[f].name = op[b].n
           /\ \A g \in File : g # f => (Live(g)' <=> Live(g)) /\ row'[g].name = row[g].name
<1>0. PICK f \in FreshFile : \E o : row' = [row EXCEPT ![f] = [kind |-> "file", name |-> op[b].n, obj |-> o]]
  BY DEF Makes
<1>1. PICK o : row' = [row EXCEPT ![f] = [kind |-> "file", name |-> op[b].n, obj |-> o]]
  BY <1>0
<1>2. f \in File /\ row[f].kind = "free"  BY FreshApart
<1>3. /\ row'[f] = [kind |-> "file", name |-> op[b].n, obj |-> o]
      /\ \A g \in File : g # f => row'[g] = row[g]
  BY <1>1, <1>2 DEF TypeOK
<1>4. row'[f].kind = "file" /\ row'[f].name = op[b].n  BY <1>3
<1>5. ~Live(f) /\ Live(f)' /\ \A g \in File : g # f => (Live(g)' <=> Live(g))
  BY <1>2, <1>3, <1>4 DEF Live
<1>. QED  BY <1>2, <1>3, <1>4, <1>5

\* Two requests do not guard one path.
LEMMA OneGuard ==
  ASSUME TypeOK, RequestsFit, NamesApart, NamesGuarded,
         NEW b \in Client, NEW c \in Client, b # c, op[b].n = op[c].n, Guards(b), Guards(c)
  PROVE  FALSE
<1>1. op[b].tmp \subseteq Token /\ op[c].tmp \subseteq Token /\ None \notin Token
  BY KeysDisjoint DEF TypeOK, OpRow
<1>2. op[b].tmp \cap op[c].tmp = {}
  <2>1. Tokens(b) \cap Tokens(c) = {}  BY DEF RequestsFit
  <2>. QED  BY <1>1, <2>1 DEF Tokens
<1>3. op[b].key # op[c].key  BY <1>2 DEF Guards
<1>4. Holder(op[b].key) # None /\ Holder(op[c].key) # None  BY <1>1 DEF Guards
<1>5. op[b].key \in Named(op[b].n) /\ op[c].key \in Named(op[b].n)  BY <1>3, <1>4 DEF Guards
<1>. QED  BY <1>3, <1>5 DEF Named, NamesApart

\* No other request is making what this one is about to make.
LEMMA OneMakes ==
  ASSUME TypeOK, RequestsFit, NamesApart, PathsGuarded, NamesGuarded,
         NEW b \in Client, Makes(b),
         NEW c \in Client, c # b, op[c].pc \in {"store", "record"}
  PROVE  op[c].n # op[b].n
<1>1. CASE Is("serial") /\ Is("steady") /\ ~Is("expire")
  <2>1. Guards(b) /\ Guards(c)  BY <1>1 DEF PathsGuarded, Makes
  <2>. QED  BY <2>1, OneGuard
<1>2. CASE ~(Is("serial") /\ Is("steady") /\ ~Is("expire"))
  <2>1. KindFits(c)  BY DEF RequestsFit
  <2>2. op[c].kind \in {"put", "putIf"} /\ op[c].kind \in world.kinds[c]  BY <2>1 DEF KindFits, DavKind
  <2>3. Maker(c) /\ Maker(b)  BY <2>2 DEF Maker, Makes
  <2>. QED  BY <1>2, <2>3 DEF NamesGuarded
<1>. QED  BY <1>1, <1>2

LEMMA NextNamesApart ==
  ASSUME TypeOK, LocalsSet, RequestsFit, NamesApart, PathsGuarded, [Next]_vars
  PROVE  NamesApart'
<1>1. world' = world  BY WhoActs
<1>2. SUFFICES ASSUME NamesGuarded
               PROVE  /\ \A f, g \in File : Live(f)' /\ Live(g)' /\ row'[f].name = row'[g].name => f = g
                      /\ \A c \in Client : \A n : op'[c].pc \in {"store", "record"} /\ n = op'[c].n => Named(n)' = {}
  <2>1. NamesGuarded' <=> NamesGuarded  BY <1>1 DEF NamesGuarded, Maker, Is
  <2>2. SUFFICES ASSUME NamesGuarded
                 PROVE  /\ \A f, g \in File : Live(f)' /\ Live(g)' /\ row'[f].name = row'[g].name => f = g
                        /\ \A c \in Client : op'[c].pc \in {"store", "record"} => (Named(op[c].n))' = {}
    BY <2>1 DEF NamesApart
  <2>3. \A c \in Client : (Named(op[c].n))' = {f \in File : Live(f)' /\ row'[f].name = op'[c].n}
    BY DEF Named
  <2>4. \A n : Named(n)' = {f \in File : Live(f)' /\ row'[f].name = n}
    BY DEF Named
  <2>. QED  BY <2>2, <2>3, <2>4
<1>3. /\ \A f, g \in File : Live(f) /\ Live(g) /\ row[f].name = row[g].name => f = g
      /\ \A c \in Client : op[c].pc \in {"store", "record"} => Named(op[c].n) = {}
  BY <1>2 DEF NamesApart
<1>4. CASE UNCHANGED <<op, held, row>>
  BY <1>3, <1>4 DEF Live, Named
<1>5. CASE op' = [c \in Client |-> IdleOp] /\ row' = row
  <2>1. \A c \in Client : op'[c].pc = "idle"  BY <1>5 DEF IdleOp
  <2>. QED  BY <1>3, <1>5, <2>1 DEF Live, Named
<1>6. ASSUME NEW b \in Client, Acts(b)
      PROVE  /\ \A f, g \in File : Live(f)' /\ Live(g)' /\ row'[f].name = row'[g].name => f = g
             /\ \A c \in Client : \A n : op'[c].pc \in {"store", "record"} /\ n = op'[c].n => Named(n)' = {}
  <2>1. \A c \in Client : c # b => op'[c].pc = op[c].pc /\ op'[c].n = op[c].n
    BY <1>6, OthersKeep DEF Acts, Core
  <2>2. CASE row' = row
    <3>1. \A n : Named(n)' = Named(n)  BY <2>2 DEF Named, Live
    <3>2. ASSUME op'[b].pc \in {"store", "record"}  PROVE Named(op'[b].n) = {}
      <4>1. CASE op' = op  BY <1>3, <3>2, <4>1
      <4>2. CASE op' # op
        <5>1. Write(b)
          <6>1. ASSUME NewRequest(b)  PROVE FALSE
            BY <3>2, <6>1 DEF NewRequest
          <6>2. ASSUME Lock(b)  PROVE FALSE
            <7>1. CASE AcquireRead(b) \/ AcquireInsert(b)  BY <3>2, <7>1, AcquireGoes
            <7>2. CASE LockCreate(b)  BY <3>2, <7>2, LockCreateGoes
            <7>3. CASE AcquireDone(b)  BY <3>2, <7>3, AcquireDoneGoes DEF IdleOp
            <7>4. CASE LockOpen(b) \/ Release(b)  BY <3>2, <7>4, EndGoes DEF IdleOp
            <7>. QED  BY <6>2, <7>1, <7>2, <7>3, <7>4 DEF Lock
          <6>. QED  BY <1>6, <4>2, <6>1, <6>2, RequestGoes DEF Acts
        <5>2. op' # [op EXCEPT ![b] = IdleOp]  BY <3>2 DEF IdleOp, TypeOK
        <5>3. /\ Rest(op'[b]) = Rest(op[b])
              /\ Named(op[b].n) = {} \/ StreamToStorage(b)
          BY <3>2, <5>1, <5>2, WriteGoes
        <5>4. CASE StreamToStorage(b)
          <6>1. op[b].pc = "store"  BY <5>4 DEF StreamToStorage
          <6>. QED  BY <1>3, <5>3, <6>1 DEF Rest
        <5>. QED  BY <5>3, <5>4 DEF Rest
      <4>. QED  BY <4>1, <4>2
    <3>3. ASSUME NEW c \in Client, op'[c].pc \in {"store", "record"}  PROVE Named(op'[c].n) = {}
      BY <1>3, <2>1, <3>2, <3>3
    <3>4. \A f, g \in File : Live(f)' /\ Live(g)' /\ row'[f].name = row'[g].name => f = g
      BY <1>3, <2>2 DEF Live
    <3>. QED  BY <3>1, <3>3, <3>4
  <2>3. CASE Deletes(b)
    <3>1. op'[b].pc = "release"  BY <2>3 DEF Deletes
    <3>. QED  BY <1>3, <2>1, <2>3, <3>1, DeletesNames
  <2>4. CASE Makes(b)
    <3>1. op'[b].pc \in {"idle", "release"} /\ Named(op[b].n) = {}  BY <2>4 DEF Makes
    <3>2. PICK f \in File :
            /\ ~Live(f) /\ Live(f)' /\ row'[f].name = op[b].n
            /\ \A g \in File : g # f => (Live(g)' <=> Live(g)) /\ row'[g].name = row[g].name
      BY <2>4, MakesNames
    <3>3. ASSUME NEW g \in File, g # f, Live(g)'  PROVE Live(g) /\ row'[g].name = row[g].name /\ row'[g].name # op[b].n
      BY <3>1, <3>2, <3>3 DEF Named
    <3>4. ASSUME NEW c \in Client, NEW n, op'[c].pc \in {"store", "record"}, n = op'[c].n
          PROVE  Named(n)' = {}
      <4>1. c # b  BY <3>1, <3>4
      <4>2. op[c].pc \in {"store", "record"} /\ op'[c].n = op[c].n  BY <2>1, <3>4, <4>1
      <4>3. op[c].n # op[b].n  BY <1>2, <2>4, <4>1, <4>2, OneMakes
      <4>4. Named(n) = {} /\ n # op[b].n  BY <1>3, <3>4, <4>2, <4>3
      <4>. QED  BY <3>2, <4>4 DEF Named
    <3>. QED  BY <1>3, <3>2, <3>3, <3>4
  <2>. QED  BY <1>2, <1>6, <2>2, <2>3, <2>4, RowGoes
<1>. QED  BY <1>4, <1>5, <1>6, WhoActs

\* A request takes a key that is free and frees keys of its own tokens.
LEMMA HolderGoes ==
  ASSUME TypeOK, LocalsSet, OneRow, Is("serial"), NEW b \in Client, Acts(b), NEW k \in Key
  PROVE  \/ Holder(k)' = Holder(k)
         \/ Holder(k) \in Tokens(b) /\ Holder(k)' = None
         \/ AcquireInsert(b) /\ k = op[b].key /\ Holder(k) = None /\ Holder(k)' = op[b].tok
<1>1. op[b] \in OpRow /\ Fits(op[b])  BY DEF TypeOK, LocalsSet
<1>2. CASE UNCHANGED <<lock, first>>  BY <1>2 DEF Holder
<1>3. ASSUME NEW t \in Token, NEW l, ReleaseLock(l, t)
      PROVE  Holder(k)' = Holder(k) \/ (Holder(k) = t /\ Holder(k)' = None)
  <2>1. CASE Holder(l) = t /\ l = k
    <3>1. lock[k] \ {t} = {}  BY <2>1 DEF OneRow
    <3>2. first' = [first EXCEPT ![k] = None]  BY <1>3, <2>1, <3>1 DEF ReleaseLock, FirstOf
    <3>. QED  BY <2>1, <3>2 DEF Holder, TypeOK
  <2>2. CASE Holder(l) = t /\ l # k
    <3>1. PICK h : first' = [first EXCEPT ![l] = h]  BY <1>3, <2>2 DEF ReleaseLock
    <3>. QED  BY <2>2, <3>1 DEF Holder, TypeOK
  <2>3. CASE Holder(l) # t
    <3>1. UNCHANGED <<lock, first>>  BY <1>3, <2>3 DEF ReleaseLock
    <3>. QED  BY <3>1 DEF Holder
  <2>. QED  BY <2>1, <2>2, <2>3
<1>4. CASE AcquireInsert(b)
  <2>1. op[b].pc = "insert" /\ op[b].key \in Key /\ op[b].tok \in Token
    BY <1>1, <1>4 DEF AcquireInsert, OpRow, Fits
  <2>2. Holder(op[b].key) = None  BY <2>1 DEF OneRow
  <2>3. PICK l, t : l = op[b].key /\ t = op[b].tok  OBVIOUS
  <2>4. first' = [first EXCEPT ![l] = t]  BY <1>4, <2>1, <2>2, <2>3, NoNone DEF AcquireInsert
  <2>5. Holder(k)' = IF k = l THEN t ELSE Holder(k)  BY <2>4 DEF Holder, TypeOK
  <2>. QED  BY <1>4, <2>2, <2>3, <2>5
<1>5. CASE Release(b)
  <2>1. CASE UNCHANGED <<lock, first>>  BY <1>2, <2>1
  <2>2. CASE ~UNCHANGED <<lock, first>>
    <3>1. PICK t \in op[b].tmp : \E l : ReleaseLock(l, t)
      BY <1>5, <2>2 DEF Release, Unlock
    <3>2. t \in Token /\ t \in Tokens(b)  BY <1>1, NoNone DEF OpRow, Tokens
    <3>. QED  BY <1>3, <3>1, <3>2
  <2>. QED  BY <2>1, <2>2
<1>6. ASSUME held[b] \in Token, \E l : ReleaseLock(l, held[b])
      PROVE  Holder(k)' = Holder(k) \/ (Holder(k) \in Tokens(b) /\ Holder(k)' = None)
  <2>1. held[b] \in Tokens(b)  BY <1>6, NoNone DEF Tokens
  <2>. QED  BY <1>3, <1>6, <2>1
<1>7. CASE ReturnLock(b) /\ ~UNCHANGED <<lock, first>>
  <2>1. held[b] \in Token /\ \E l : ReleaseLock(l, held[b])
    BY <1>7 DEF ReturnLock, Unlock, TypeOK
  <2>. QED  BY <1>6, <2>1
<1>8. ASSUME NEW f \in File, WopiLock(b, f), ~UNCHANGED <<lock, first>>
      PROVE  Holder(k)' = Holder(k) \/ (Holder(k) \in Tokens(b) /\ Holder(k)' = None)
  <2>1. held[b] \in Token /\ \E l : ReleaseLock(l, held[b])
    BY <1>8 DEF WopiLock, TypeOK
  <2>. QED  BY <1>6, <2>1
<1>9. CASE Lock(b) /\ ~UNCHANGED <<lock, first>>
  BY <1>4, <1>5, <1>9 DEF Lock, AcquireRead, AcquireDone, LockCreate, LockOpen, locks
<1>10. CASE Write(b)
  <2>1. UNCHANGED <<lock, first>>
    BY <1>10 DEF Write, OpenForWrite, StreamToStorage, CloseNewFile, RemoveAll, Mkdir, MoveOver, FindSource,
                Rename, PatchRead, OverwritePut, OverwriteFails, OverwriteUpdate,
                FastOverwriteCommit, EnsureOpen, Served, locks
  <2>. QED  BY <1>2, <2>1
<1>11. CASE Request(b) /\ ~UNCHANGED <<lock, first>>
  <2>1. ReturnLock(b) \/ \E f \in File : WopiLock(b, f)
    BY <1>11 DEF Request, DavRequest, Confirm, OpenForRead, FastOverwritePut, EditCheck, RefreshLock, locks
  <2>. QED  BY <1>7, <1>8, <1>11, <2>1
<1>. QED  BY <1>2, <1>9, <1>10, <1>11 DEF Acts

Guarded == /\ TypeOK /\ LocalsSet /\ OneRow /\ RequestsFit /\ NamesApart /\ PathsGuarded
           /\ NamesGuarded /\ Is("serial") /\ Is("steady") /\ ~Is("expire")

\* What a request guards stays guarded whatever another does.
LEMMA GuardsStay ==
  ASSUME Guarded, NEW b \in Client, Acts(b),
         NEW c \in Client, c # b, op[c].pc \in {"apply", "store", "record"}
  PROVE  Guards(c)'
<1>1. Core(op'[c]) = Core(op[c])  BY OthersKeep DEF Acts, Guarded
<1>2. op'[c].key = op[c].key /\ op'[c].n = op[c].n /\ op'[c].tmp = op[c].tmp  BY <1>1 DEF Core
<1>. PICK k, n : k = op[c].key /\ n = op[c].n  OBVIOUS
<1>3. Guards(c) /\ KindFits(c)  BY DEF Guarded, PathsGuarded, RequestsFit
<1>4. n \in Name
  <2>1. op[c].kind \in DavKind \cup {"putIf"}  BY <1>3 DEF KindFits, DavKind
  <2>2. n # None  BY <1>3, <2>1 DEF KindFits
  <2>. QED  BY <2>2 DEF Guarded, TypeOK, OpRow
<1>5. k \in Key /\ n \in Key  BY <1>3, <1>4 DEF Guards, Named, Key
<1>6. Holder(k) \in op[c].tmp /\ op[c].tmp \subseteq Token /\ None \notin Token
  BY <1>3, KeysDisjoint DEF Guards, Guarded, TypeOK, OpRow
<1>7. Holder(k) \notin Tokens(b) /\ Holder(k) # None
  <2>1. Tokens(b) \cap Tokens(c) = {}  BY DEF Guarded, RequestsFit
  <2>. QED  BY <1>6, <2>1 DEF Tokens
<1>8. Holder(k)' = Holder(k)  BY <1>5, <1>7, HolderGoes DEF Guarded
<1>0. op'[c].kind = op[c].kind  BY <1>1 DEF Core
<1>11. (Named(op[c].n))' = Named(n)' /\ (Holder(op[c].n))' = Holder(n)' /\ (Holder(op[c].key))' = Holder(k)'
  BY <1>2 DEF Named, Holder
<1>9. CASE k = n
  <2>1. op[c].kind # "putIf" => Named(n) = {}
    <3>1. k \notin Named(n)  BY <1>4, <1>9, KeysDisjoint DEF Named
    <3>. QED  BY <1>3, <3>1 DEF Guards
  <2>2. ASSUME Named(n) = {}  PROVE Named(n)' = {}
    <3>1. CASE row' = row  BY <2>2, <3>1 DEF Named, Live
    <3>2. CASE Deletes(b)  BY <2>2, <3>2, DeletesNames DEF Guarded
    <3>3. CASE Makes(b)
      <4>1. PICK f \in File :
              /\ ~Live(f) /\ Live(f)' /\ row'[f].name = op[b].n
              /\ \A g \in File : g # f => (Live(g)' <=> Live(g)) /\ row'[g].name = row[g].name
        BY <3>3, MakesNames DEF Guarded
      <4>2. Guards(b)  BY <3>3 DEF Makes, Guarded, PathsGuarded
      <4>3. op[b].n # n  BY <1>3, <4>2, OneGuard DEF Guarded
      <4>. QED  BY <2>2, <4>1, <4>3 DEF Named
    <3>. QED  BY <3>1, <3>2, <3>3, RowGoes DEF Guarded
  <2>. QED  BY <1>0, <1>2, <1>6, <1>8, <1>9, <1>11, <2>1, <2>2 DEF Guards
<1>10. CASE k # n
  <2>1. k \in Named(n) /\ Holder(n) = None  BY <1>3, <1>10 DEF Guards
  <2>2. Holder(n)' = None
    <3>1. ASSUME AcquireInsert(b), n = op[b].key  PROVE FALSE
      <4>1. op[b].pc = "insert"  BY <3>1 DEF AcquireInsert
      <4>2. op[b].kind \in DavKind
        BY <1>4, <3>1, <4>1, KeysDisjoint DEF Guarded, RequestsFit, KindFits
      <4>3. WillGuard(b)  BY <4>1, <4>2 DEF Guarded, PathsGuarded
      <4>4. Named(n) = {} \/ n \in File  BY <3>1, <4>3 DEF WillGuard, Named
      <4>. QED  BY <1>4, <2>1, <4>4, KeysDisjoint
    <3>. QED  BY <1>5, <2>1, <3>1, HolderGoes DEF Guarded, Tokens
  <2>3. k \in Named(n)'
    <3>1. CASE row' = row  BY <2>1, <3>1 DEF Named, Live
    <3>2. CASE Deletes(b)
      <4>1. Guards(b)  BY <3>2 DEF Deletes, Guarded, PathsGuarded
      <4>2. op[b].n # n  BY <1>3, <4>1, OneGuard DEF Guarded
      <4>. QED  BY <2>1, <3>2, <4>2, DeletesNames DEF Guarded
    <3>3. CASE Makes(b)
      <4>1. PICK f \in File :
              /\ ~Live(f) /\ Live(f)' /\ row'[f].name = op[b].n
              /\ \A g \in File : g # f => (Live(g)' <=> Live(g)) /\ row'[g].name = row[g].name
        BY <3>3, MakesNames DEF Guarded
      <4>2. k # f /\ k \in File  BY <2>1, <4>1 DEF Named
      <4>. QED  BY <2>1, <4>1, <4>2 DEF Named
    <3>. QED  BY <3>1, <3>2, <3>3, RowGoes DEF Guarded
  <2>. QED  BY <1>2, <1>6, <1>8, <1>11, <2>2, <2>3 DEF Guards
<1>. QED  BY <1>9, <1>10

\* The statements of AcquireLock come to guard ...
LEMMA WillGuardNext ==
  ASSUME Guarded, NEW c \in Client, Acts(c),
         op'[c].pc \in {"acquire", "insert", "confirmed"}, op'[c].kind \in DavKind
  PROVE  WillGuard(c)'
<1>1. op[c] \in OpRow /\ Fits(op[c]) /\ KindFits(c) /\ TypeOK /\ LocalsSet
  BY DEF Guarded, TypeOK, LocalsSet, RequestsFit
<1>2. "move" \notin world.kinds[c]  BY DEF Guarded, NamesGuarded
<1>3. KindFits(c)'
  <2>1. world' = world  BY <1>1 DEF Acts, Lock, AcquireRead, AcquireInsert, AcquireDone, LockCreate,
          LockOpen, Release, Write, OpenForWrite, StreamToStorage, CloseNewFile, RemoveAll, Mkdir,
          MoveOver, FindSource, Rename, PatchRead, OverwritePut, OverwriteFails, OverwriteUpdate,
          FastOverwriteCommit, EnsureOpen, Served, Request, DavRequest, Confirm, OpenForRead,
          WopiLock, FastOverwritePut, EditCheck, ReturnLock, RefreshLock
  <2>. QED  BY <1>1, <2>1, KindStep
<1>4. CASE LockCreate(c)
  <2>1. op[c].pc = "create" /\ op[c].kind \in DavKind  BY <1>1, <1>4 DEF LockCreate, Fits
  <2>2. op[c].kind # "move"  BY <1>1, <1>2, <2>1 DEF KindFits
  <2>3. op[c].todo = <<op[c].n>> /\ Head(<<op[c].n>>) = op[c].n  BY <1>1, <2>1, <2>2 DEF KindFits
  <2>4. /\ UNCHANGED <<row, first>> /\ op'[c].n = op[c].n /\ op'[c].pc = "acquire"
        /\ Holder(op[c].n) = None
        /\ (op'[c].key = op[c].n /\ Named(op[c].n) = {}) \/ op'[c].key \in Named(op[c].n)
    <3>1. op'[c].pc # "release"  OBVIOUS
    <3>. QED  BY <1>1, <1>4, <2>3, <3>1, LockCreateGoes
  <2>5. (Named(op[c].n))' = Named(op[c].n) /\ (Holder(op[c].n))' = Holder(op[c].n)
    BY <2>4 DEF Named, Live, Holder
  <2>. QED  BY <2>4, <2>5 DEF WillGuard
<1>5. CASE AcquireRead(c) \/ AcquireInsert(c)
  <2>1. op[c].pc \in {"acquire", "insert"}  BY <1>5 DEF AcquireRead, AcquireInsert
  <2>2. Rest(op'[c]) = Rest(op[c]) /\ row' = row  BY <1>1, <1>5, AcquireGoes
  <2>3. PICK k, n, t : k = op[c].key /\ n = op[c].n /\ t = op[c].tok  OBVIOUS
  <2>4. op'[c].key = k /\ op'[c].n = n /\ op'[c].tok = t /\ op'[c].kind = op[c].kind
    BY <2>2, <2>3 DEF Rest
  <2>5. /\ (k = n /\ Named(n) = {}) \/ (k \in Named(n) /\ Holder(n) = None)
    BY <2>1, <2>3, <2>4 DEF Guarded, PathsGuarded, WillGuard
  <2>6. n # None /\ n \in Name
    <3>1. n # None  BY <1>1, <2>1, <2>3, <2>4 DEF KindFits
    <3>. QED  BY <1>1, <2>3, <3>1 DEF OpRow
  <2>7. k \in Key /\ n \in Key /\ (k \in Named(n) => k # n)
    BY <2>5, <2>6, KeysDisjoint DEF Key, Named
  <2>8. Named(n)' = Named(n)  BY <2>2 DEF Named, Live
  <2>9. op'[c].pc = "confirmed" => Holder(k)' = t
    <3>1. CASE first' = first /\ Holder(k) = t  BY <3>1 DEF Holder
    <3>2. CASE AcquireInsert(c)
      <4>1. op[c].pc = "insert"  BY <3>2 DEF AcquireInsert
      <4>2. Holder(k) = None  BY <2>3, <2>7, <4>1 DEF Guarded, OneRow
      <4>3. first' = [first EXCEPT ![k] = t]  BY <2>3, <3>2, <4>2 DEF AcquireInsert
      <4>. QED  BY <1>1, <2>7, <4>3 DEF Holder, TypeOK
    <3>. QED  BY <1>1, <1>5, <2>3, <3>1, <3>2, AcquireGoes
  <2>10. k \in Named(n) => Holder(n)' = None
    <3>1. ASSUME k \in Named(n)  PROVE Holder(n)' = None
      <4>1. Holder(n) = None /\ n # k  BY <2>5, <2>7, <3>1
      <4>2. first'[n] = first[n]
        BY <1>1, <1>5, <2>3, <2>7, <4>1 DEF AcquireRead, AcquireInsert, TypeOK
      <4>. QED  BY <4>1, <4>2 DEF Holder
    <3>. QED  BY <3>1
  <2>11. /\ (Named(op[c].n))' = Named(n)' /\ (Holder(op[c].n))' = Holder(n)'
         /\ (Holder(op[c].key))' = Holder(k)'
    BY <2>4 DEF Named, Holder
  <2>. QED  BY <2>4, <2>5, <2>8, <2>9, <2>10, <2>11 DEF WillGuard
<1>6. CASE AcquireDone(c)
  <2>1. op'[c] = IdleOp \/ op'[c].pc \in {"apply", "create"}  BY <1>1, <1>6, AcquireDoneGoes
  <2>. QED  BY <2>1 DEF IdleOp
<1>7. CASE LockOpen(c) \/ Release(c)
  <2>1. op'[c] = IdleOp \/ op'[c].pc = "release"  BY <1>1, <1>7, EndGoes
  <2>. QED  BY <2>1 DEF IdleOp
<1>8. CASE Write(c)
  <2>1. op'[c] = IdleOp \/ op'[c].pc \in {"release", "write", "update", "served", "store", "record",
                                             "source", "rename"}
    BY <1>1, <1>8, WriteGoes DEF TypeOK
  <2>. QED  BY <2>1 DEF IdleOp
<1>9. CASE NewRequest(c)
  BY <1>9 DEF NewRequest, DavKind
<1>10. CASE op' = op /\ op[c].pc = "idle"
  BY <1>10
<1>. QED
  BY <1>1, <1>4, <1>5, <1>6, <1>7, <1>8, <1>9, <1>10, RequestGoes DEF Acts, Lock

\* ... what the request then guards until it is done.
LEMMA GuardsNext ==
  ASSUME Guarded, NEW c \in Client, Acts(c), op'[c].pc \in {"apply", "store", "record"}
  PROVE  Guards(c)'
<1>1. op[c] \in OpRow /\ Fits(op[c]) /\ KindFits(c) /\ TypeOK /\ LocalsSet
  BY DEF Guarded, TypeOK, LocalsSet, RequestsFit
<1>2. CASE LockCreate(c)
  <2>1. op'[c].pc \in {"release", "acquire"}  BY <1>1, <1>2, LockCreateGoes
  <2>. QED  BY <2>1
<1>3. CASE AcquireRead(c) \/ AcquireInsert(c)
  <2>1. op'[c].pc \in {"release", "insert", "confirmed"}  BY <1>1, <1>3, AcquireGoes
  <2>. QED  BY <2>1
<1>4. CASE LockOpen(c) \/ Release(c)
  <2>1. op'[c] = IdleOp \/ op'[c].pc = "release"  BY <1>1, <1>4, EndGoes
  <2>. QED  BY <2>1 DEF IdleOp
<1>5. CASE AcquireDone(c)
  <2>1. /\ UNCHANGED <<row, first>> /\ op[c].pc = "confirmed" /\ op[c].kind \in DavKind
        /\ op'[c].n = op[c].n /\ op'[c].key = op[c].key /\ op[c].tok \in op'[c].tmp
    BY <1>1, <1>5, AcquireDoneGoes DEF IdleOp
  <2>2. WillGuard(c)  BY <2>1 DEF Guarded, PathsGuarded
  <2>3. /\ (Named(op[c].n))' = Named(op[c].n) /\ (Holder(op[c].n))' = Holder(op[c].n)
        /\ (Holder(op[c].key))' = Holder(op[c].key)
    BY <2>1 DEF Named, Live, Holder
  <2>. QED  BY <2>1, <2>2, <2>3 DEF Guards, WillGuard
<1>6. CASE Write(c)
  <2>1. /\ Rest(op'[c]) = Rest(op[c])
        /\ OpenForWrite(c) \/ StreamToStorage(c)
    <3>1. op' # [op EXCEPT ![c] = IdleOp]
      <4>1. op'[c] # IdleOp  BY DEF IdleOp
      <4>. QED  BY <1>1, <4>1 DEF TypeOK
    <3>2. op'[c].pc \notin {"release", "write", "update", "served", "source", "rename"}  OBVIOUS
    <3>. QED  BY <1>1, <1>6, <3>1, <3>2, WriteGoes
  <2>2. UNCHANGED <<row, first>> /\ op[c].pc \in {"apply", "store"}
    BY <2>1 DEF OpenForWrite, StreamToStorage, locks
  <2>3. Guards(c)  BY <2>2 DEF Guarded, PathsGuarded
  <2>4. /\ op'[c].n = op[c].n /\ op'[c].key = op[c].key /\ op'[c].tmp = op[c].tmp
        /\ op'[c].kind = op[c].kind
    BY <2>1 DEF Rest
  <2>5. /\ (Named(op[c].n))' = Named(op[c].n) /\ (Holder(op[c].n))' = Holder(op[c].n)
        /\ (Holder(op[c].key))' = Holder(op[c].key)
    BY <2>2, <2>4 DEF Named, Live, Holder
  <2>. QED  BY <2>3, <2>4, <2>5 DEF Guards
<1>7. CASE NewRequest(c)
  <2>1. /\ op'[c].key = op'[c].n /\ op'[c].tmp = {held[c]} /\ Holder(op'[c].n) = held[c] /\ first' = first
        /\ op'[c].kind = "putIf"
    BY <1>7 DEF NewRequest
  <2>2. first'[op'[c].key] = Holder(op'[c].n)  BY <2>1 DEF Holder
  <2>. QED  BY <2>1, <2>2 DEF Guards, Holder
<1>8. CASE op' = op /\ op[c].pc = "idle"
  BY <1>8
<1>. QED
  BY <1>1, <1>2, <1>3, <1>4, <1>5, <1>6, <1>7, <1>8, RequestGoes DEF Acts, Lock

LEMMA NextPathsGuarded ==
  ASSUME TypeOK, LocalsSet, OneRow, RequestsFit, NamesApart, PathsGuarded, [Next]_vars
  PROVE  PathsGuarded'
<1>1. world' = world  BY WhoActs
<1>2. SUFFICES ASSUME NamesGuarded, Is("serial"), Is("steady"), ~Is("expire")
               PROVE  /\ aged' = {}
                      /\ \A c \in Client :
                           /\ op'[c].pc \in {"apply", "store", "record"} => Guards(c)'
                           /\ op'[c].pc \in {"acquire", "insert", "confirmed"} /\ op'[c].kind \in DavKind
                                => WillGuard(c)'
  BY <1>1 DEF PathsGuarded, NamesGuarded, Maker, Is
<1>3. Guarded /\ aged = {}  BY <1>2 DEF Guarded, PathsGuarded
<1>4. CASE UNCHANGED <<op, held, row>> /\ UNCHANGED locks
  BY <1>2, <1>4 DEF locks, PathsGuarded, Guards, WillGuard, Holder, Named, Live
<1>5. CASE op' = [c \in Client |-> IdleOp] /\ UNCHANGED locks
  <2>1. \A c \in Client : op'[c].pc = "idle"  BY <1>5 DEF IdleOp
  <2>. QED  BY <1>3, <1>5, <2>1 DEF locks
<1>6. ASSUME NEW b \in Client, Acts(b), Locking \subseteq {b}
      PROVE  /\ aged' = {}
             /\ \A c \in Client :
                  /\ op'[c].pc \in {"apply", "store", "record"} => Guards(c)'
                  /\ op'[c].pc \in {"acquire", "insert", "confirmed"} /\ op'[c].kind \in DavKind
                       => WillGuard(c)'
  <2>1. aged' = {}
    <3>1. CASE Lock(b)
      BY <1>3, <3>1 DEF Lock, AcquireRead, AcquireInsert, AcquireDone, LockCreate, LockOpen, Release, locks
    <3>2. CASE Write(b)
      BY <1>3, <3>2 DEF Write, OpenForWrite, StreamToStorage, CloseNewFile, RemoveAll, Mkdir, MoveOver, FindSource,
                Rename, PatchRead, OverwritePut, OverwriteFails, OverwriteUpdate,
                FastOverwriteCommit, EnsureOpen, Served, locks
    <3>3. CASE Request(b)
      BY <1>3, <3>3 DEF Request, DavRequest, Confirm, OpenForRead, WopiLock, FastOverwritePut, EditCheck,
                ReturnLock, RefreshLock, locks
    <3>. QED  BY <1>6, <3>1, <3>2, <3>3 DEF Acts
  <2>2. ASSUME NEW c \in Client, c # b
        PROVE  /\ op'[c].pc \in {"apply", "store", "record"} => Guards(c)'
               /\ op'[c].pc \notin {"acquire", "insert", "confirmed"}
    <3>1. op'[c].pc = op[c].pc  BY <1>6, <2>2, OthersKeep DEF Acts, Core
    <3>. QED  BY <1>3, <1>6, <2>2, <3>1, GuardsStay DEF Locking
  <2>. QED  BY <1>3, <1>6, <2>1, <2>2, GuardsNext, WillGuardNext
<1>. QED  BY <1>2, <1>3, <1>4, <1>5, <1>6, WhoActs DEF Undisturbed

-----------------------------------------------------------------------------
(* Bytes *)

\* A request comes to the statements of a write in place by one of four steps.
LEMMA EditGoes ==
  ASSUME TypeOK, LocalsSet, NEW c \in Client, Acts(c), op'[c].pc \in {"read", "write", "update"}
  PROVE  /\ first' = first /\ row' = row
         /\ \/ \E f \in File :
                 /\ op'[c].f = f /\ row[f].kind = "file" /\ UNCHANGED held
                 /\ Is("strict") => held[c] # None /\ Holder(f) = held[c]
                 /\ op'[c].pc = "write" => op'[c].kind # "patch"
                 /\ op'[c].pc \in {"read", "write"}
            \/ /\ op[c].pc = "read" /\ op'[c].pc = "write" /\ Rest(op'[c]) = Rest(op[c]) /\ UNCHANGED held
               /\ op'[c].f = op[c].f /\ op'[c].obj = row[op[c].f].obj /\ op'[c].now
            \/ /\ op[c].pc = "apply" /\ op'[c].pc = "write" /\ Rest(op'[c]) = Rest(op[c]) /\ UNCHANGED held
               /\ op[c].kind \in {"put", "putIf"} /\ op'[c].f \in Named(op[c].n)
            \/ /\ op[c].pc = "write" /\ op'[c].pc = "update" /\ Rest(op'[c]) = Rest(op[c]) /\ UNCHANGED held
               /\ row[op[c].f].kind = "file" /\ OverwritePut(c)
               /\ op'[c].f = op[c].f /\ op'[c].obj = row[op[c].f].obj /\ op'[c].now
<1>1. op[c] \in OpRow /\ Fits(op[c])  BY DEF TypeOK, LocalsSet
<1>2. CASE PatchRead(c)
  <2>1. op' = [op EXCEPT ![c].pc = "write", ![c].obj = row[op[c].f].obj, ![c].now = TRUE]
    BY <1>2 DEF PatchRead
  <2>2. PICK o : o = row[op[c].f].obj  OBVIOUS
  <2>3. op' = [op EXCEPT ![c].pc = "write", ![c].obj = o, ![c].now = TRUE]  BY <2>1, <2>2
  <2>4. /\ op'[c].pc = "write" /\ Rest(op'[c]) = Rest(op[c]) /\ op'[c].f = op[c].f
        /\ op'[c].obj = o /\ op'[c].now
    BY <1>1, <2>3 DEF TypeOK, OpRow, Rest
  <2>5. op[c].pc = "read" /\ UNCHANGED <<first, row, held>>  BY <1>2 DEF PatchRead, locks
  <2>. QED  BY <2>2, <2>4, <2>5
<1>3. CASE OpenForWrite(c)
  <2>1. PICK f \in Resolve(op[c].n) :
          op' = IF f # None /\ row[f].kind = "folder"
                THEN [op EXCEPT ![c].pc = "release"]
                ELSE [op EXCEPT ![c].pc = IF f = None THEN "store" ELSE "write", ![c].f = f]
    BY <1>3 DEF OpenForWrite
  <2>2. op[c].pc = "apply" /\ op[c].kind \in {"put", "putIf"} /\ UNCHANGED <<first, row, held>>
    BY <1>3 DEF OpenForWrite, locks
  <2>. DEFINE pc == IF f = None THEN "store" ELSE "write"
  <2>3. CASE op' = [op EXCEPT ![c].pc = "release"]
    BY <1>1, <2>3 DEF TypeOK, OpRow
  <2>4. CASE op' = [op EXCEPT ![c].pc = pc, ![c].f = f]
    <3>. HIDE DEF pc
    <3>1. op'[c].pc = pc /\ op'[c].f = f /\ Rest(op'[c]) = Rest(op[c])
      BY <1>1, <2>4 DEF TypeOK, OpRow, Rest
    <3>2. f # None /\ pc = "write"  BY <3>1 DEF pc
    <3>3. f \in Named(op[c].n)  BY <3>2 DEF Resolve
    <3>. QED  BY <2>2, <3>1, <3>2, <3>3
  <2>. QED  BY <2>1, <2>3, <2>4
<1>4. CASE OverwritePut(c)
  <2>1. PICK o : o = row[op[c].f].obj  OBVIOUS
  <2>. DEFINE r == [op[c] EXCEPT !.pc = "update"]
  <2>2. op'[c] = [r EXCEPT !.obj = o, !.now = TRUE]  BY <1>4, <2>1 DEF OverwritePut, Put
  <2>3. /\ op'[c].pc = "update" /\ Rest(op'[c]) = Rest(op[c]) /\ op'[c].f = op[c].f
        /\ op'[c].obj = o /\ op'[c].now
    BY <1>1, <2>2 DEF OpRow, Rest
  <2>4. op[c].pc = "write" /\ row[op[c].f].kind = "file" /\ UNCHANGED <<first, row, held>>
    BY <1>4 DEF OverwritePut, locks
  <2>. QED  BY <1>4, <2>1, <2>3, <2>4
<1>6. CASE Lock(c)
  <2>1. ASSUME AcquireRead(c) \/ AcquireInsert(c)  PROVE op'[c].pc \in {"release", "insert", "confirmed"}
    BY <2>1, AcquireGoes
  <2>2. ASSUME LockCreate(c)  PROVE op'[c].pc \in {"release", "acquire"}
    BY <2>2, LockCreateGoes
  <2>3. ASSUME AcquireDone(c)  PROVE op'[c] = IdleOp \/ op'[c].pc \in {"apply", "create"}
    BY <2>3, AcquireDoneGoes
  <2>4. ASSUME LockOpen(c) \/ Release(c)  PROVE op'[c] = IdleOp \/ op'[c].pc = "release"
    BY <2>4, EndGoes
  <2>5. op'[c] # IdleOp  BY DEF IdleOp
  <2>. QED  BY <1>6, <2>1, <2>2, <2>3, <2>4, <2>5 DEF Lock
<1>7. CASE Write(c) /\ ~(PatchRead(c) \/ OpenForWrite(c) \/ OverwritePut(c))
  <2>1. ASSUME NEW pc, Goto(c, pc)  PROVE op'[c].pc = pc
    BY <1>1, <2>1 DEF Goto, TypeOK, OpRow
  <2>2. CASE RemoveAll(c) \/ Mkdir(c) \/ MoveOver(c) \/ Rename(c) \/ OverwriteFails(c)
    BY <2>1, <2>2 DEF RemoveAll, Mkdir, MoveOver, Rename, OverwriteFails
  <2>3. CASE FastOverwriteCommit(c) \/ Served(c)
    BY <2>3 DEF FastOverwriteCommit, Served, Answered, IdleOp, TypeOK
  <2>4. CASE FindSource(c)
    <3>1. PICK f : op' = [op EXCEPT ![c].pc = IF f = None THEN "release" ELSE "rename", ![c].f = f]
      BY <2>4 DEF FindSource
    <3>. DEFINE pc == IF f = None THEN "release" ELSE "rename"
    <3>2. op' = [op EXCEPT ![c].pc = pc, ![c].f = f]  BY <3>1
    <3>3. pc \in {"release", "rename"}  OBVIOUS
    <3>. HIDE DEF pc
    <3>4. op'[c].pc = pc  BY <1>1, <3>2 DEF TypeOK, OpRow
    <3>. QED  BY <3>3, <3>4
  <2>5. CASE StreamToStorage(c) \/ CloseNewFile(c) \/ OverwriteUpdate(c) \/ EnsureOpen(c)
    <3>1. op'[c].pc \in {"record", "release", "served"}
      BY <1>1, <2>5 DEF StreamToStorage, CloseNewFile, OverwriteUpdate, EnsureOpen, TypeOK, OpRow
    <3>. QED  BY <3>1
  <2>. QED  BY <1>7, <2>2, <2>3, <2>4, <2>5 DEF Write
<1>8. CASE Request(c)
  <2>1. row' = row /\ NewRequest(c)
    <3>1. op'[c].pc # "idle"  OBVIOUS
    <3>. QED  BY <1>8, <3>1, RequestGoes
  <2>2. /\ UNCHANGED <<first, held>>
        /\ op'[c].f \in File /\ row[op'[c].f].kind = "file" /\ op'[c].pc \in {"read", "write"}
        /\ Is("strict") => held[c] # None /\ Holder(op'[c].f) = held[c]
        /\ op'[c].pc = "write" => op'[c].kind # "patch"
    BY <2>1 DEF NewRequest
  <2>. QED  BY <2>1, <2>2
<1>. QED  BY <1>2, <1>3, <1>4, <1>6, <1>7, <1>8 DEF Acts

LEMMA BlobGrows ==
  ASSUME [Next]_vars
  PROVE  blob \subseteq blob'
<1>1. ASSUME NEW c \in Client, \/ StreamToStorage(c) \/ OverwritePut(c) \/ OverwriteUpdate(c)
                               \/ FastOverwriteCommit(c)
                               \/ \E f \in File : FastOverwritePut(c, f)
      PROVE  blob \subseteq blob'
  BY <1>1 DEF StreamToStorage, OverwritePut, OverwriteUpdate, FastOverwriteCommit, FastOverwritePut, Put
<1>2. ASSUME NEW w \in Worker, RehashWrite(w)  PROVE blob \subseteq blob'
  BY <1>2 DEF RehashWrite
<1>. QED  BY <1>1, <1>2, NextWriters DEF Writers, content

\* Who gives a file an object, and who has one to give.
LEMMA ObjectGoes ==
  ASSUME TypeOK, LocalsSet, NEW b \in Client, Acts(b)
  PROVE  /\ op'[b].pc = "record" => StreamToStorage(b)
         /\ \/ \A f \in File : row'[f].obj = row[f].obj
            \/ \E f \in File : /\ \A g \in File : g # f => row'[g] = row[g]
                               /\ \/ row'[f].obj = None
                                  \/ row'[f].obj \in FreshObject
                                  \/ op[b].pc = "record" /\ row'[f].obj = op[b].obj
<1>1. op'[b].pc = "record" => StreamToStorage(b)
  <2>1. CASE Lock(b)
    <3>1. ASSUME AcquireRead(b) \/ AcquireInsert(b)  PROVE op'[b].pc # "record"
      BY <3>1, AcquireGoes
    <3>2. ASSUME LockCreate(b)  PROVE op'[b].pc # "record"
      BY <3>2, LockCreateGoes
    <3>3. ASSUME AcquireDone(b)  PROVE op'[b].pc # "record"
      BY <3>3, AcquireDoneGoes DEF IdleOp
    <3>4. ASSUME LockOpen(b) \/ Release(b)  PROVE op'[b].pc # "record"
      BY <3>4, EndGoes DEF IdleOp
    <3>. QED  BY <2>1, <3>1, <3>2, <3>3, <3>4 DEF Lock
  <2>2. CASE Write(b)
    <3>1. op' = [op EXCEPT ![b] = IdleOp] => op'[b].pc # "record"  BY DEF IdleOp, TypeOK
    <3>. QED  BY <2>2, <3>1, WriteGoes
  <2>3. CASE Request(b)
    <3>1. NewRequest(b) => op'[b].pc # "record"  BY DEF NewRequest
    <3>. QED  BY <2>3, <3>1, RequestGoes
  <2>. QED  BY <2>1, <2>2, <2>3 DEF Acts
<1>2. ASSUME NEW f \in File, NEW r, row' = [row EXCEPT ![f] = r]
      PROVE  row'[f] = r /\ \A g \in File : g # f => row'[g] = row[g]
  BY <1>2 DEF TypeOK
<1>3. CASE LockOpen(b) /\ row' # row
  <2>1. PICK f \in FreshFile, o \in FreshObject :
          row' = [row EXCEPT ![f] = [kind |-> "file", name |-> op[b].n, obj |-> o]]
    BY <1>3 DEF LockOpen
  <2>2. f \in File  BY FreshApart
  <2>. QED  BY <1>1, <1>2, <2>1, <2>2
<1>4. CASE CloseNewFile(b)
  <2>1. PICK f \in FreshFile :
          row' = [row EXCEPT ![f] = [kind |-> "file", name |-> op[b].n, obj |-> op[b].obj]]
    BY <1>4 DEF CloseNewFile
  <2>2. f \in File /\ op[b].pc = "record"  BY <1>4, FreshApart DEF CloseNewFile
  <2>. QED  BY <1>1, <1>2, <2>1, <2>2
<1>5. CASE Mkdir(b)
  <2>1. PICK f \in FreshFile :
          row' = [row EXCEPT ![f] = [kind |-> "folder", name |-> op[b].n, obj |-> None]]
    BY <1>5 DEF Mkdir
  <2>2. f \in File  BY FreshApart
  <2>. QED  BY <1>1, <1>2, <2>1, <2>2
<1>6. CASE RemoveAll(b) \/ MoveOver(b)
  <2>1. row' = row \/ \E f : row' = [row EXCEPT ![f].kind = "deleted"]
    BY <1>6 DEF RemoveAll, MoveOver
  <2>2. \A f \in File : row[f] \in Row  BY DEF TypeOK
  <2>. QED  BY <1>1, <2>1, <2>2 DEF TypeOK, Row
<1>7. CASE Rename(b)
  <2>1. row' = row \/ row' = [row EXCEPT ![op[b].f].name = op[b].d]
    BY <1>7 DEF Rename
  <2>2. \A f \in File : row[f] \in Row  BY DEF TypeOK
  <2>. QED  BY <1>1, <2>1, <2>2 DEF TypeOK, Row
<1>8. CASE row' = row  BY <1>1, <1>8
<1>9. CASE Lock(b) /\ ~LockOpen(b)
  BY <1>8, <1>9 DEF Lock, AcquireRead, AcquireInsert, AcquireDone, LockCreate, Release
<1>10. CASE Write(b) /\ ~(CloseNewFile(b) \/ RemoveAll(b) \/ Mkdir(b) \/ MoveOver(b) \/ Rename(b))
  BY <1>8, <1>10 DEF Write, OpenForWrite, StreamToStorage, FindSource, PatchRead, OverwritePut,
              OverwriteFails, OverwriteUpdate, FastOverwriteCommit, EnsureOpen, Served
<1>. QED  BY <1>3, <1>4, <1>5, <1>6, <1>7, <1>8, <1>9, <1>10, RequestGoes DEF Acts

LEMMA NextObjectsApart ==
  ASSUME TypeOK, LocalsSet, ObjectsApart, [Next]_vars
  PROVE  ObjectsApart'
<1>1. world' = world  BY WhoActs
<1>. DEFINE Apart == /\ \A f, g \in File : row[f].obj = row[g].obj /\ row[f].obj # None => f = g
                     /\ \A c \in Client : op[c].pc = "record" =>
                          /\ op[c].obj \in blob /\ \A f \in File : row[f].obj # op[c].obj
                          /\ \A b \in Client : op[b].pc = "record" /\ op[b].obj = op[c].obj => b = c
<1>2. SUFFICES ASSUME Apart  PROVE Apart'
  BY <1>1 DEF ObjectsApart, Is
<1>3. blob \subseteq blob'  BY BlobGrows
<1>4. CASE UNCHANGED <<op, row>>
  BY <1>2, <1>3, <1>4
<1>5. CASE op' = [c \in Client |-> IdleOp] /\ row' = row
  <2>1. \A c \in Client : op'[c].pc # "record"  BY <1>5 DEF IdleOp
  <2>. QED  BY <1>2, <1>5, <2>1
<1>6. FreshObject \subseteq {o \in Object \ blob : \A f \in File : row[f].obj # o}
  BY DEF FreshObject, OneOf
<1>7. \A f \in File : row[f] \in Row  BY DEF TypeOK
<1>8. ASSUME NEW b \in Client, Acts(b)  PROVE Apart'
  <2>1. \A c \in Client : c # b => op'[c].pc = op[c].pc /\ op'[c].obj = op[c].obj
    BY <1>8, OthersKeep DEF Acts, Core
  <2>2. CASE op'[b].pc = "record"
    <3>1. StreamToStorage(b)  BY <1>8, <2>2, ObjectGoes
    <3>2. PICK o \in FreshObject : blob' = blob \cup {o} /\ op' = [op EXCEPT ![b].pc = "record", ![b].obj = o]
      BY <3>1 DEF StreamToStorage
    <3>3. op[b] \in OpRow /\ row' = row  BY <3>1 DEF StreamToStorage, TypeOK
    <3>4. op'[b].obj = o  BY <3>2, <3>3 DEF TypeOK, OpRow
    <3>5. o \notin blob /\ o \in blob' /\ \A f \in File : row[f].obj # o  BY <1>6, <3>2
    <3>6. ASSUME NEW c \in Client, op'[c].pc = "record"
          PROVE  /\ op'[c].obj \in blob' /\ (c # b => op'[c].obj \in blob)
                 /\ \A f \in File : row'[f].obj # op'[c].obj
      BY <1>2, <1>3, <2>1, <3>3, <3>4, <3>5, <3>6
    <3>7. ASSUME NEW a \in Client, NEW c \in Client, op'[a].pc = "record", op'[c].pc = "record",
                 op'[a].obj = op'[c].obj
          PROVE  a = c
      BY <1>2, <2>1, <3>4, <3>5, <3>6, <3>7
    <3>. QED  BY <1>2, <3>3, <3>6, <3>7
  <2>3. CASE op'[b].pc # "record"
    <3>1. CASE \A f \in File : row'[f].obj = row[f].obj
      BY <1>2, <1>3, <2>1, <2>3, <3>1
    <3>2. CASE \E f \in File : /\ \A g \in File : g # f => row'[g] = row[g]
                               /\ \/ row'[f].obj = None
                                  \/ row'[f].obj \in FreshObject
                                  \/ op[b].pc = "record" /\ row'[f].obj = op[b].obj
      <4>1. PICK f \in File : /\ \A g \in File : g # f => row'[g] = row[g]
                              /\ \/ row'[f].obj = None
                                 \/ row'[f].obj \in FreshObject
                                 \/ op[b].pc = "record" /\ row'[f].obj = op[b].obj
        BY <3>2
      <4>2. \A g \in File : row[g].obj = row'[f].obj => row'[f].obj = None
        BY <1>2, <1>6, <4>1
      <4>3. \A g, h \in File : row'[g].obj = row'[h].obj /\ row'[g].obj # None => g = h
        BY <1>2, <4>1, <4>2
      <4>4. ASSUME NEW c \in Client, op'[c].pc = "record"
            PROVE  /\ op'[c].obj \in blob' /\ \A g \in File : row'[g].obj # op'[c].obj
                   /\ \A a \in Client : op'[a].pc = "record" /\ op'[a].obj = op'[c].obj => a = c
        <5>1. c # b /\ op[c].pc = "record" /\ op'[c].obj = op[c].obj  BY <2>1, <2>3, <4>4
        <5>2. op[c].obj # None  BY <5>1 DEF LocalsSet, Fits
        <5>3. row'[f].obj # op[c].obj  BY <1>2, <1>6, <4>1, <5>1, <5>2
        <5>. QED  BY <1>2, <1>3, <2>1, <2>3, <4>1, <5>1, <5>3
      <4>. QED  BY <4>3, <4>4
    <3>. QED  BY <1>8, <3>1, <3>2, ObjectGoes
  <2>. QED  BY <2>2, <2>3
<1>. QED  BY <1>4, <1>5, <1>8, WhoActs

\* Another's copy of some bytes is outdated by a write in place of these only.
LEMMA NowKeeps ==
  ASSUME TypeOK, NEW b \in Client, Acts(b), "fast" \notin world.kinds[b],
         NEW c \in Client, c # b, op'[c].now # op[c].now
  PROVE  OverwritePut(b) /\ op[c].obj = row[op[b].f].obj
<1>1. op[c] \in OpRow  BY DEF TypeOK
<1>2. CASE OverwritePut(b)
  <2>1. PICK o : o = row[op[b].f].obj  OBVIOUS
  <2>2. op'[c] = [op[c] EXCEPT !.now = @ /\ op[c].obj # o]  BY <1>2, <2>1 DEF OverwritePut, Put
  <2>3. op[c].obj = o  BY <1>1, <2>2 DEF OpRow
  <2>. QED  BY <1>2, <2>1, <2>3
<1>3. ASSUME op'[c] = op[c]  PROVE FALSE
  BY <1>3
<1>4. CASE Lock(b)
  BY <1>3, <1>4 DEF Lock, AcquireRead, AcquireInsert, AcquireDone, LockCreate, LockOpen, Release,
                Goto, Answered, TypeOK
<1>5. CASE Write(b) /\ ~OverwritePut(b)
  BY <1>3, <1>5 DEF Write, OpenForWrite, StreamToStorage, CloseNewFile, RemoveAll, Mkdir, MoveOver, FindSource,
                Rename, PatchRead, OverwriteFails, OverwriteUpdate,
                FastOverwriteCommit, EnsureOpen, Served, Goto, Answered, TypeOK
<1>6. CASE Request(b)
  <2>1. \A f \in File : ~FastOverwritePut(b, f)  BY DEF FastOverwritePut, Begins
  <2>. QED
    BY <1>3, <1>6, <2>1 DEF Request, DavRequest, Confirm, OpenForRead, WopiLock, EditCheck,
                ReturnLock, RefreshLock, TypeOK
<1>. QED  BY <1>2, <1>4, <1>5, <1>6 DEF Acts

\* What is not free keeps its object.
LEMMA ObjectKeeps ==
  ASSUME TypeOK, LocalsSet, NEW b \in Client, Acts(b), NEW f \in File, row[f].kind # "free"
  PROVE  row'[f].kind # "free" /\ row'[f].obj = row[f].obj
<1>1. \A g \in File : row[g] \in Row  BY DEF TypeOK
<1>2. ASSUME NEW g \in FreshFile, NEW r, row' = [row EXCEPT ![g] = r]
      PROVE  row'[f] = row[f]
  BY <1>2, FreshApart DEF TypeOK
<1>3. CASE row' = row  BY <1>3
<1>4. CASE LockOpen(b) \/ CloseNewFile(b) \/ Mkdir(b)
  <2>1. row' = row \/ \E g \in FreshFile : \E r : row' = [row EXCEPT ![g] = r]
    BY <1>4 DEF LockOpen, CloseNewFile, Mkdir
  <2>. QED  BY <1>2, <2>1
<1>5. CASE RemoveAll(b) \/ MoveOver(b)
  <2>1. row' = row \/ \E g : row' = [row EXCEPT ![g].kind = "deleted"]
    BY <1>5 DEF RemoveAll, MoveOver
  <2>2. ASSUME NEW g, row' = [row EXCEPT ![g].kind = "deleted"]
        PROVE  row'[f].kind \in {row[f].kind, "deleted"} /\ row'[f].obj = row[f].obj
    <3>1. CASE g = f  BY <1>1, <2>2, <3>1 DEF TypeOK, Row
    <3>2. CASE g # f
      <4>1. row'[f] = row[f]  BY <2>2, <3>2 DEF TypeOK
      <4>. QED  BY <4>1
    <3>. QED  BY <3>1, <3>2
  <2>. QED  BY <1>3, <2>1, <2>2
<1>6. CASE Rename(b)
  <2>1. row' = row \/ row' = [row EXCEPT ![op[b].f].name = op[b].d]
    BY <1>6 DEF Rename
  <2>2. CASE op[b].f = f /\ row' # row
    <3>1. row' = [row EXCEPT ![f].name = op[b].d]  BY <2>1, <2>2
    <3>2. row'[f].kind = row[f].kind /\ row'[f].obj = row[f].obj  BY <1>1, <3>1 DEF TypeOK, Row
    <3>. QED  BY <3>2
  <2>3. CASE op[b].f # f \/ row' = row
    <3>1. row'[f] = row[f]  BY <2>1, <2>3 DEF TypeOK
    <3>. QED  BY <3>1
  <2>. QED  BY <2>2, <2>3
<1>7. CASE Lock(b) /\ ~LockOpen(b)
  BY <1>3, <1>7 DEF Lock, AcquireRead, AcquireInsert, AcquireDone, LockCreate, Release
<1>8. CASE Write(b) /\ ~(CloseNewFile(b) \/ RemoveAll(b) \/ Mkdir(b) \/ MoveOver(b) \/ Rename(b))
  BY <1>3, <1>8 DEF Write, OpenForWrite, StreamToStorage, FindSource, PatchRead, OverwritePut,
              OverwriteFails, OverwriteUpdate, FastOverwriteCommit, EnsureOpen, Served
<1>. QED  BY <1>3, <1>4, <1>5, <1>6, <1>7, <1>8, RequestGoes DEF Acts

Edited == Guarded /\ EditsGuarded /\ ObjectsApart /\ EditsApart

\* Two requests do not write one file in place.
LEMMA OneEdits ==
  ASSUME Edited, NEW b \in Client, NEW c \in Client, b # c,
         op[b].pc \in {"read", "write", "update"}, op[c].pc \in {"read", "write", "update"}
  PROVE  op[b].f # op[c].f
<1>1. Tokens(b) \cap Tokens(c) = {}  BY DEF Edited, Guarded, RequestsFit
<1>. QED  BY <1>1 DEF Edited, EditsApart

\* A request that has begun to write in place has it for itself ...
LEMMA EditsStay ==
  ASSUME Edited, NEW b \in Client, Acts(b), NEW c \in Client, c # b,
         op[c].pc \in {"read", "write", "update"}
  PROVE  /\ op'[c].f \in File /\ row'[op'[c].f].kind # "free" /\ (Holder(op[c].f))' \in Tokens(c)'
         /\ op[c].pc = "update" \/ (op[c].pc = "write" /\ op[c].kind = "patch") =>
              op'[c].now /\ op'[c].obj = row'[op'[c].f].obj
<1>1. TypeOK /\ LocalsSet /\ OneRow /\ Is("serial")  BY DEF Edited, Guarded
<1>2. Core(op'[c]) = Core(op[c]) /\ held'[c] = held[c]  BY <1>1, OthersKeep DEF Acts
<1>. PICK f : f = op[c].f  OBVIOUS
<1>3. op'[c].f = f /\ op'[c].obj = op[c].obj /\ op'[c].tok = op[c].tok /\ op'[c].tmp = op[c].tmp
  BY <1>2 DEF Core
<1>4. Tokens(c)' = Tokens(c)  BY <1>2, <1>3 DEF Tokens
<1>5. f \in File /\ row[f].kind # "free" /\ Holder(f) \in Tokens(c)  BY DEF Edited, EditsApart
<1>6. row'[f].kind # "free" /\ row'[f].obj = row[f].obj  BY <1>1, <1>5, ObjectKeeps
<1>7. Holder(f)' = Holder(f)
  <2>1. Holder(f) \notin Tokens(b)
    <3>1. Tokens(b) \cap Tokens(c) = {}  BY DEF Edited, Guarded, RequestsFit
    <3>. QED  BY <1>5, <3>1
  <2>2. Holder(f) # None  BY <1>5 DEF Tokens
  <2>3. f \in Key  BY <1>5 DEF Key
  <2>. QED  BY <1>1, <2>1, <2>2, <2>3, HolderGoes
<1>8. (Holder(op[c].f))' = Holder(f)'  BY <1>3 DEF Holder
<1>9. ASSUME op[c].pc = "update" \/ (op[c].pc = "write" /\ op[c].kind = "patch")
      PROVE  op'[c].now /\ op'[c].obj = row'[f].obj
  <2>1. op[c].now /\ op[c].obj = row[f].obj  BY <1>9 DEF Edited, EditsApart
  <2>2. ASSUME op'[c].now # op[c].now  PROVE FALSE
    <3>1. "fast" \notin world.kinds[b]  BY DEF Edited, EditsGuarded
    <3>2. OverwritePut(b) /\ row[f].obj = row[op[b].f].obj  BY <1>1, <2>1, <2>2, <3>1, NowKeeps
    <3>3. op[b].pc = "write" /\ row[op[b].f].kind = "file"  BY <3>2 DEF OverwritePut
    <3>4. op[b].f \in File  BY <3>3 DEF Edited, EditsApart
    <3>5. row[op[b].f].obj # None  BY <1>1, <3>3, <3>4 DEF LocalsSet
    <3>6. op[b].f = f  BY <1>5, <3>2, <3>4, <3>5 DEF Edited, EditsGuarded, ObjectsApart
    <3>. QED  BY <3>3, <3>6, OneEdits
  <2>3. op[c].now \in BOOLEAN /\ op'[c].now = op[c].now  BY <2>2, <1>1 DEF TypeOK, OpRow
  <2>. QED  BY <1>3, <1>6, <2>1, <2>3
<1>. QED  BY <1>3, <1>4, <1>5, <1>6, <1>7, <1>8, <1>9

\* ... and one that begins has the lock of the file.
LEMMA EditsNext ==
  ASSUME Edited, NEW c \in Client, Acts(c), op'[c].pc \in {"read", "write", "update"}
  PROVE  /\ op'[c].f \in File /\ row'[op'[c].f].kind # "free" /\ (Holder(op[c].f))' \in Tokens(c)'
         /\ op'[c].pc = "update" \/ (op'[c].pc = "write" /\ op'[c].kind = "patch") =>
              op'[c].now /\ op'[c].obj = row'[op'[c].f].obj
<1>1. TypeOK /\ LocalsSet /\ OneRow /\ Is("serial")  BY DEF Edited, Guarded
<1>. PICK f : f = op'[c].f  OBVIOUS
<1>2. first' = first /\ row' = row /\ UNCHANGED held  BY <1>1, EditGoes
<1>3. (Holder(op[c].f))' = Holder(f)  BY <1>2 DEF Holder
<1>4. ASSUME Rest(op'[c]) = Rest(op[c])  PROVE Tokens(c)' = Tokens(c) /\ op'[c].kind = op[c].kind
  BY <1>2, <1>4 DEF Rest, Tokens
<1>5. CASE /\ f \in File /\ row[f].kind = "file"
           /\ Is("strict") => held[c] # None /\ Holder(f) = held[c]
           /\ op'[c].pc = "write" => op'[c].kind # "patch"
           /\ op'[c].pc \in {"read", "write"}
  <2>1. held[c] # None /\ Holder(f) = held[c]  BY <1>5 DEF Edited, EditsGuarded
  <2>2. Holder(f) \in Tokens(c)'  BY <1>2, <2>1 DEF Tokens
  <2>. QED  BY <1>2, <1>3, <1>5, <2>2
<1>6. CASE /\ op[c].pc = "read" /\ op'[c].pc = "write" /\ Rest(op'[c]) = Rest(op[c])
           /\ op'[c].f = op[c].f /\ op'[c].obj = row[op[c].f].obj /\ op'[c].now
  BY <1>2, <1>3, <1>4, <1>6 DEF Edited, EditsApart
<1>7. CASE /\ op[c].pc = "apply" /\ op'[c].pc = "write" /\ Rest(op'[c]) = Rest(op[c])
           /\ op[c].kind \in {"put", "putIf"} /\ op'[c].f \in Named(op[c].n)
  <2>1. KindFits(c)  BY DEF Edited, Guarded, RequestsFit
  <2>2. op[c].kind = "put"
    <3>1. "putIf" \notin world.kinds[c]  BY DEF Edited, EditsGuarded
    <3>. QED  BY <1>7, <2>1, <3>1 DEF KindFits
  <2>3. Guards(c)  BY <1>7 DEF Edited, Guarded, PathsGuarded
  <2>4. op[c].key \in Named(op[c].n) /\ Holder(op[c].key) \in op[c].tmp
    BY <1>7, <2>2, <2>3 DEF Guards
  <2>5. op[c].key = f  BY <1>7, <2>4 DEF Named, Edited, Guarded, NamesApart
  <2>6. op[c].tmp \subseteq Token  BY <1>1 DEF TypeOK, OpRow
  <2>7. Holder(f) \in Tokens(c)  BY <2>4, <2>5, <2>6, KeysDisjoint DEF Tokens
  <2>8. f \in File /\ row[f].kind # "free"  BY <1>7 DEF Named, Live
  <2>. QED  BY <1>2, <1>3, <1>4, <1>7, <2>2, <2>7, <2>8
<1>8. CASE /\ op[c].pc = "write" /\ op'[c].pc = "update" /\ Rest(op'[c]) = Rest(op[c])
           /\ op'[c].f = op[c].f /\ op'[c].obj = row[op[c].f].obj /\ op'[c].now
  BY <1>2, <1>3, <1>4, <1>8 DEF Edited, EditsApart
<1>. QED  BY <1>1, <1>5, <1>6, <1>7, <1>8, EditGoes

LEMMA NextEditsApart ==
  ASSUME TypeOK, LocalsSet, OneRow, RequestsFit, NamesApart, PathsGuarded, ObjectsApart, EditsApart,
         [Next]_vars
  PROVE  EditsApart'
<1>1. world' = world  BY WhoActs
<1>. DEFINE Good(c) ==
       /\ op'[c].pc \in {"read", "write", "update"} =>
            op'[c].f \in File /\ row'[op'[c].f].kind # "free" /\ (Holder(op[c].f))' \in Tokens(c)'
       /\ op'[c].pc = "update" \/ (op'[c].pc = "write" /\ op'[c].kind = "patch") =>
            op'[c].now /\ op'[c].obj = row'[op'[c].f].obj
<1>2. SUFFICES ASSUME EditsGuarded, NEW c \in Client  PROVE Good(c)
  BY <1>1 DEF EditsApart, EditsGuarded, NamesGuarded, Maker, Is
<1>3. Edited /\ aged = {}
  BY <1>2 DEF Edited, Guarded, EditsGuarded, PathsGuarded
<1>4. CASE UNCHANGED <<op, held, row, first>>
  BY <1>3, <1>4 DEF Edited, EditsApart, Holder, Tokens
<1>5. CASE op' = [a \in Client |-> IdleOp]
  <2>1. op'[c].pc = "idle"  BY <1>5 DEF IdleOp
  <2>. QED  BY <2>1
<1>6. ASSUME NEW b \in Client, Acts(b)  PROVE Good(c)
  <2>1. CASE b = c  BY <1>3, <1>6, <2>1, EditsNext
  <2>2. CASE b # c
    <3>1. op'[c].pc = op[c].pc /\ op'[c].kind = op[c].kind
      BY <1>6, <2>2, OthersKeep DEF Acts, Core
    <3>. QED  BY <1>3, <1>6, <2>2, <3>1, EditsStay
  <2>. QED  BY <2>1, <2>2
<1>7. ~Is("expire")  BY <1>2 DEF EditsGuarded
<1>. QED  BY <1>3, <1>4, <1>5, <1>6, <1>7, WhoActs DEF locks

\* What a request does to the bytes and to what the rows say of them.
LeavesBytes == UNCHANGED <<blob, sized, hashed, flagged, rehash>>
AddsBytes   == \E o : /\ blob' = blob \cup {o} /\ sized' = sized \cup {o} /\ hashed' = hashed \cup {o}
                      /\ UNCHANGED <<flagged, rehash>>
PutsBytes(b) ==
  /\ op[b].pc = "write" /\ op'[b].pc = "update"
  /\ blob' = blob \cup {op'[b].obj} /\ sized' = sized \ {op'[b].obj} /\ hashed' = hashed \ {op'[b].obj}
  /\ flagged' = flagged /\ (Is("calm") => ~Rehashing)
  /\ \A w \in Worker : rehash'[w] = [rehash[w] EXCEPT !.now = @ /\ rehash[w].o # op'[b].obj]
TellsOfBytes(b) ==
  /\ op[b].pc = "update" /\ op'[b].pc = "release"
  /\ op[b].now => sized' = sized \cup {op[b].obj}
  /\ flagged' = flagged \cup {op[b].obj} /\ UNCHANGED <<blob, hashed, rehash>>

LEMMA BytesGo ==
  ASSUME TypeOK, LocalsSet, RequestsFit, world' = world,
         NEW b \in Client, Acts(b), "fast" \notin world.kinds[b]
  PROVE  /\ \A c \in Client : op[c].pc = op'[c].pc \/ c = b
         /\ \A c \in Client : op[c].obj = op'[c].obj \/ c = b
         /\ \/ LeavesBytes /\ ~Writing(b) /\ op'[b].pc \notin {"update", "commit"}
            \/ AddsBytes /\ ~Writing(b) /\ op'[b].pc \notin {"update", "commit"}
            \/ PutsBytes(b)
            \/ TellsOfBytes(b)
<1>1. op[b] \in OpRow /\ Fits(op[b]) /\ KindFits(b)  BY DEF TypeOK, LocalsSet, RequestsFit
<1>2. \A c \in Client : c # b => op'[c].pc = op[c].pc /\ op'[c].obj = op[c].obj
  BY OthersKeep DEF Acts, Core
<1>3. op[b].pc # "commit" /\ op'[b].pc # "commit"
  <2>1. KindFits(b)'  BY <1>1, KindStep
  <2>. QED  BY <1>1, <2>1, world' = world DEF KindFits
<1>4. CASE OverwritePut(b)
  <2>1. PICK o : o = row[op[b].f].obj  OBVIOUS
  <2>2. op'[b].pc = "update" /\ op'[b].obj = o  BY <1>1, <1>4, <2>1, EditGoes DEF OverwritePut, Put, OpRow
  <2>3. /\ op[b].pc = "write" /\ flagged' = flagged /\ (Is("calm") => ~Rehashing)
        /\ blob' = blob \cup {o} /\ sized' = sized \ {o} /\ hashed' = hashed \ {o}
        /\ rehash' = [w \in Worker |-> [rehash[w] EXCEPT !.now = @ /\ rehash[w].o # o]]
    BY <1>4, <2>1 DEF OverwritePut, Put
  <2>4. \A w \in Worker : rehash'[w] = [rehash[w] EXCEPT !.now = @ /\ rehash[w].o # o]
    BY <2>3
  <2>. QED  BY <1>2, <2>2, <2>3, <2>4 DEF PutsBytes
<1>5. CASE OverwriteUpdate(b)
  <2>1. op' = [op EXCEPT ![b].pc = "release", ![b].obj = None, ![b].now = FALSE]
    BY <1>5 DEF OverwriteUpdate
  <2>2. op'[b].pc = "release"  BY <1>1, <2>1 DEF TypeOK, OpRow
  <2>. QED  BY <1>2, <1>5, <2>2 DEF OverwriteUpdate, SetSize, TellsOfBytes
<1>6. CASE ~OverwritePut(b) /\ ~OverwriteUpdate(b)
  <2>1. op'[b].pc # "update"
    <3>1. OverwritePut(b) \/ op'[b].pc # "update"  BY EditGoes
    <3>. QED  BY <1>6, <3>1
  <2>2. op[b].pc # "update"
    <3>1. CASE Lock(b)
      BY <3>1 DEF Lock, AcquireRead, AcquireInsert, AcquireDone, LockCreate, LockOpen, Release
    <3>2. CASE Write(b)
      BY <1>6, <3>2 DEF Write, OpenForWrite, StreamToStorage, CloseNewFile, RemoveAll, Mkdir, MoveOver, FindSource,
                Rename, PatchRead, OverwritePut, OverwriteFails,
                FastOverwriteCommit, EnsureOpen, Served
    <3>3. CASE Request(b)
      BY <3>3 DEF Request, DavRequest, Confirm, OpenForRead, WopiLock, FastOverwritePut, EditCheck,
                ReturnLock, RefreshLock, Begins
    <3>. QED  BY <3>1, <3>2, <3>3 DEF Acts
  <2>3. CASE StreamToStorage(b)
    BY <1>2, <1>3, <2>1, <2>2, <2>3 DEF StreamToStorage, AddsBytes, Writing
  <2>4. CASE ~StreamToStorage(b)
    <3>1. ~FastOverwriteCommit(b)  BY <1>3 DEF FastOverwriteCommit
    <3>2. \A f \in File : ~FastOverwritePut(b, f)  BY DEF FastOverwritePut, Begins
    <3>3. LeavesBytes
      <4>1. CASE Lock(b)
        BY <4>1 DEF Lock, AcquireRead, AcquireInsert, AcquireDone, LockCreate, LockOpen, Release, content, LeavesBytes
      <4>2. CASE Write(b)
        BY <1>6, <2>4, <3>1, <4>2 DEF Write, OpenForWrite, CloseNewFile, RemoveAll, Mkdir, MoveOver, FindSource,
                  Rename, PatchRead, OverwriteFails, EnsureOpen, Served, content, LeavesBytes
      <4>3. CASE Request(b)
        BY <3>2, <4>3 DEF Request, DavRequest, Confirm, OpenForRead, WopiLock, EditCheck,
                  ReturnLock, RefreshLock, content, LeavesBytes
      <4>. QED  BY <4>1, <4>2, <4>3 DEF Acts
    <3>. QED  BY <1>2, <1>3, <2>1, <2>2, <3>3 DEF Writing
  <2>. QED  BY <2>3, <2>4
<1>. QED  BY <1>4, <1>5, <1>6

\* A write does not begin during a rehash where they keep apart.
LEMMA WriteBegins ==
  ASSUME TypeOK, LocalsSet, NEW b \in Client, Acts(b), Is("calm"), Rehashing
  PROVE  rehash' = rehash /\ ~Writing(b)'
<1>1. op'[b].pc # "update"
  <2>1. op'[b].pc = "update" => OverwritePut(b)  BY EditGoes
  <2>. QED  BY <2>1 DEF OverwritePut
<1>2. op'[b].pc # "commit"
  <2>1. CASE Lock(b)
    <3>1. ASSUME AcquireRead(b) \/ AcquireInsert(b)  PROVE op'[b].pc # "commit"
      BY <3>1, AcquireGoes
    <3>2. ASSUME LockCreate(b)  PROVE op'[b].pc # "commit"
      BY <3>2, LockCreateGoes
    <3>3. ASSUME AcquireDone(b)  PROVE op'[b].pc # "commit"
      BY <3>3, AcquireDoneGoes DEF IdleOp
    <3>4. ASSUME LockOpen(b) \/ Release(b)  PROVE op'[b].pc # "commit"
      BY <3>4, EndGoes DEF IdleOp
    <3>. QED  BY <2>1, <3>1, <3>2, <3>3, <3>4 DEF Lock
  <2>2. CASE Write(b)
    <3>1. op' = [op EXCEPT ![b] = IdleOp] => op'[b].pc # "commit"  BY DEF IdleOp, TypeOK
    <3>. QED  BY <2>2, <3>1, WriteGoes
  <2>3. CASE Request(b)
    <3>1. NewRequest(b) => op'[b].pc # "commit"  BY DEF NewRequest
    <3>. QED  BY <2>3, <3>1, RequestGoes
  <2>. QED  BY <2>1, <2>2, <2>3 DEF Acts
<1>3. ~OverwritePut(b) /\ \A f \in File : ~FastOverwritePut(b, f)
  BY DEF OverwritePut, FastOverwritePut
<1>4. rehash' = rehash
  <2>1. CASE Lock(b)
    BY <2>1 DEF Lock, AcquireRead, AcquireInsert, AcquireDone, LockCreate, LockOpen, Release
  <2>2. CASE Write(b)
    BY <1>3, <2>2 DEF Write, OpenForWrite, StreamToStorage, CloseNewFile, RemoveAll, Mkdir, MoveOver, FindSource,
              Rename, PatchRead, OverwriteFails, OverwriteUpdate, FastOverwriteCommit, EnsureOpen, Served
  <2>3. CASE Request(b)
    BY <1>3, <2>3 DEF Request, DavRequest, Confirm, OpenForRead, WopiLock, EditCheck,
              ReturnLock, RefreshLock
  <2>. QED  BY <2>1, <2>2, <2>3 DEF Acts
<1>. QED  BY <1>1, <1>2, <1>4 DEF Writing

LEMMA StaysIdle ==
  ASSUME TypeOK, NEW b \in Client, Acts(b), ~Rehashing
  PROVE  ~Rehashing'
<1>1. \A w \in Worker : rehash[w] = IdleRehash  BY DEF Rehashing
<1>2. CASE rehash' = rehash  BY <1>2 DEF Rehashing
<1>3. ASSUME NEW o, NEW mine, Put(b, o, mine)  PROVE ~Rehashing'
  <2>1. \A w \in Worker : rehash'[w] = [IdleRehash EXCEPT !.now = @ /\ rehash[w].o # o]
    BY <1>1, <1>3 DEF Put
  <2>2. \A w \in Worker : rehash'[w] = IdleRehash  BY <2>1 DEF IdleRehash
  <2>. QED  BY <2>2 DEF Rehashing
<1>4. rehash' = rehash \/ \E o, mine : Put(b, o, mine)
  <2>1. CASE Lock(b)
    BY <2>1 DEF Lock, AcquireRead, AcquireInsert, AcquireDone, LockCreate, LockOpen, Release
  <2>2. CASE Write(b)
    BY <2>2 DEF Write, OpenForWrite, StreamToStorage, CloseNewFile, RemoveAll, Mkdir, MoveOver, FindSource,
              Rename, PatchRead, OverwritePut, OverwriteFails, OverwriteUpdate, FastOverwriteCommit,
              EnsureOpen, Served
  <2>3. CASE Request(b)
    BY <2>3 DEF Request, DavRequest, Confirm, OpenForRead, WopiLock, FastOverwritePut, EditCheck,
              ReturnLock, RefreshLock
  <2>. QED  BY <2>1, <2>2, <2>3 DEF Acts
<1>. QED  BY <1>2, <1>3, <1>4

\* The steps of a rehash pass, and who else leaves it alone.
LEMMA RehashGoes ==
  ASSUME [Next]_vars
  PROVE  \/ \E b \in Client : Acts(b)
         \/ Crash
         \/ UNCHANGED <<op, content, rehash>>
         \/ op' = op /\ \E w \in Worker : RehashScan(w) \/ RehashRead(w) \/ RehashWrite(w)
<1>1. CASE UNCHANGED vars  BY <1>1 DEF vars, content
<1>2. ASSUME NEW b \in Client, Step(b) \/ Request(b)  PROVE Acts(b)
  BY <1>2 DEF Step, Acts
<1>3. ASSUME NEW w \in Worker, Rehash(w)
      PROVE  op' = op /\ (RehashScan(w) \/ RehashRead(w) \/ RehashWrite(w))
  BY <1>3 DEF Rehash, RehashScan, RehashRead, RehashWrite
<1>4. CASE CleanExpiredLocks \/ \E t \in Token : Age(t)
  BY <1>4 DEF CleanExpiredLocks, Age
<1>. QED  BY <1>1, <1>2, <1>3, <1>4 DEF Next

LEMMA NextRehashApart ==
  ASSUME TypeOK, LocalsSet, RehashApart, [Next]_vars
  PROVE  RehashApart'
<1>1. world' = world  BY WhoActs
<1>2. SUFFICES ASSUME Is("calm"), Rehashing'
               PROVE  /\ \A c \in Client : ~Writing(c)'
                      /\ \A w \in Worker : rehash'[w].o # None => rehash'[w].now
  BY <1>1 DEF RehashApart, Is
<1>3. ASSUME Rehashing
      PROVE  /\ \A c \in Client : ~Writing(c)
             /\ \A w \in Worker : rehash[w].o # None => rehash[w].now
  BY <1>2, <1>3 DEF RehashApart
<1>4. CASE UNCHANGED <<op, content, rehash>>
  <2>1. Rehashing  BY <1>2, <1>4 DEF Rehashing
  <2>. QED  BY <1>3, <1>4, <2>1 DEF Writing
<1>5. CASE Crash
  <2>1. ~Rehashing'  BY <1>5 DEF Crash, Rehashing
  <2>. QED  BY <1>2, <2>1
<1>6. ASSUME NEW b \in Client, Acts(b)
      PROVE  /\ \A c \in Client : ~Writing(c)'
             /\ \A w \in Worker : rehash'[w].o # None => rehash'[w].now
  <2>1. Rehashing  BY <1>2, <1>6, StaysIdle
  <2>2. rehash' = rehash /\ ~Writing(b)'  BY <1>2, <1>6, <2>1, WriteBegins
  <2>3. ASSUME NEW c \in Client, c # b  PROVE ~Writing(c)'
    <3>1. op'[c].pc = op[c].pc  BY <1>6, <2>3, OthersKeep DEF Acts, Core
    <3>. QED  BY <1>3, <2>1, <3>1 DEF Writing
  <2>. QED  BY <1>3, <2>1, <2>2, <2>3
<1>7. ASSUME NEW w \in Worker, op' = op, RehashScan(w) \/ RehashRead(w) \/ RehashWrite(w)
      PROVE  /\ \A c \in Client : ~Writing(c)'
             /\ \A v \in Worker : rehash'[v].o # None => rehash'[v].now
  <2>1. \A c \in Client : Writing(c)' <=> Writing(c)  BY <1>7 DEF Writing
  <2>2. rehash \in [Worker -> [todo : SUBSET Object, o : Object \cup {None}, now : BOOLEAN]]
    BY DEF TypeOK
  <2>3. CASE RehashScan(w)
    <3>1. \A c \in Client : ~Writing(c)  BY <1>2, <2>3 DEF RehashScan
    <3>2. PICK S : rehash' = [rehash EXCEPT ![w].todo = S]  BY <2>3 DEF RehashScan
    <3>3. \A v \in Worker : rehash'[v].o = rehash[v].o /\ rehash'[v].now = rehash[v].now
      BY <2>2, <3>2
    <3>4. CASE Rehashing  BY <1>3, <2>1, <3>1, <3>3, <3>4
    <3>5. CASE ~Rehashing
      <4>1. \A v \in Worker : rehash[v] = IdleRehash  BY <3>5 DEF Rehashing
      <4>2. \A v \in Worker : rehash'[v].o = None  BY <3>3, <4>1 DEF IdleRehash
      <4>. QED  BY <2>1, <3>1, <4>2
    <3>. QED  BY <3>4, <3>5
  <2>4. CASE RehashRead(w)
    <3>1. PICK o \in rehash[w].todo :
            rehash' = [rehash EXCEPT
              ![w] = [todo |-> rehash[w].todo \ {o},
                      o   |-> IF Refs(o) = 0 THEN None ELSE o,
                      now |-> Refs(o) # 0]]
      BY <2>4 DEF RehashRead
    <3>2. rehash[w] # IdleRehash  BY <3>1 DEF IdleRehash
    <3>3. Rehashing  BY <3>2 DEF Rehashing
    <3>4. \A v \in Worker : v # w => rehash'[v] = rehash[v]  BY <2>2, <3>1
    <3>5. rehash'[w].o # None => rehash'[w].now  BY <2>2, <3>1
    <3>. QED  BY <1>3, <2>1, <3>3, <3>4, <3>5
  <2>5. CASE RehashWrite(w)
    <3>1. rehash[w].o # None /\ rehash' = [rehash EXCEPT ![w].o = None, ![w].now = FALSE]
      BY <2>5 DEF RehashWrite
    <3>2. rehash[w] # IdleRehash  BY <3>1 DEF IdleRehash
    <3>3. Rehashing  BY <3>2 DEF Rehashing
    <3>4. \A v \in Worker : v # w => rehash'[v] = rehash[v]  BY <2>2, <3>1
    <3>5. rehash'[w].o = None  BY <2>2, <3>1
    <3>. QED  BY <1>3, <2>1, <3>3, <3>4, <3>5
  <2>. QED  BY <1>7, <2>3, <2>4, <2>5
<1>. QED  BY <1>4, <1>5, <1>6, <1>7, RehashGoes

\* The size and the hash of an object that no write is about to describe.
LEMMA NextSizesFollow ==
  ASSUME TypeOK, LocalsSet, RequestsFit, EditsApart, SizesFollow, [Next]_vars
  PROVE  SizesFollow'
<1>1. world' = world  BY WhoActs
<1>2. SUFFICES ASSUME EditsGuarded, ~Is("crash"), NEW o \in blob',
                      \A c \in Client : Writing(c)' => op'[c].obj # o
               PROVE  o \in sized'
  BY <1>1 DEF SizesFollow, EditsGuarded, NamesGuarded, Maker, Is
<1>3. ASSUME o \in blob, \A c \in Client : Writing(c) => op[c].obj # o  PROVE o \in sized
  BY <1>2, <1>3 DEF SizesFollow
<1>4. CASE UNCHANGED <<op, content, rehash>>
  BY <1>2, <1>3, <1>4 DEF content, Writing
<1>5. CASE op' = op /\ \E w \in Worker : RehashScan(w) \/ RehashRead(w) \/ RehashWrite(w)
  <2>1. UNCHANGED <<blob, sized, op>>
    BY <1>5 DEF RehashScan, RehashRead, RehashWrite, content
  <2>. QED  BY <1>2, <1>3, <2>1 DEF Writing
<1>6. ASSUME NEW b \in Client, Acts(b)  PROVE o \in sized'
  <2>0. "fast" \notin world.kinds[b]  BY <1>2 DEF EditsGuarded
  <2>1. /\ \A c \in Client : c # b => op[c].pc = op'[c].pc /\ op[c].obj = op'[c].obj
        /\ \/ LeavesBytes /\ ~Writing(b)
           \/ AddsBytes /\ ~Writing(b)
           \/ PutsBytes(b)
           \/ TellsOfBytes(b)
    BY <1>1, <1>6, <2>0, BytesGo
  <2>2. ASSUME NEW c \in Client, c # b, Writing(c)  PROVE op[c].obj # o
    BY <1>2, <2>1, <2>2 DEF Writing
  <2>3. CASE LeavesBytes /\ ~Writing(b)
    BY <1>3, <2>2, <2>3 DEF LeavesBytes
  <2>4. CASE AddsBytes /\ ~Writing(b)
    BY <1>3, <2>2, <2>4 DEF AddsBytes
  <2>5. CASE PutsBytes(b)
    <3>1. op'[b].obj # o  BY <1>2, <2>5 DEF PutsBytes, Writing
    <3>2. ~Writing(b)  BY <2>5 DEF PutsBytes, Writing
    <3>. QED  BY <1>3, <2>2, <2>5, <3>1, <3>2 DEF PutsBytes
  <2>6. CASE TellsOfBytes(b)
    <3>1. op[b].now  BY <1>2, <2>6 DEF TellsOfBytes, EditsApart
    <3>. QED  BY <1>3, <2>2, <2>6, <3>1 DEF TellsOfBytes
  <2>. QED  BY <2>1, <2>3, <2>4, <2>5, <2>6
<1>7. ~Crash  BY <1>2 DEF Crash
<1>. QED  BY <1>4, <1>5, <1>6, <1>7, RehashGoes

LEMMA NextFlagCoversStale ==
  ASSUME TypeOK, LocalsSet, RequestsFit, RehashApart, FlagCoversStale, [Next]_vars
  PROVE  FlagCoversStale'
<1>1. world' = world  BY WhoActs
<1>2. SUFFICES ASSUME Is("calm"), ~Is("crash"), \A c \in Client : "fast" \notin world.kinds[c],
                      NEW o \in blob', \A c \in Client : Writing(c)' => op'[c].obj # o
               PROVE  o \in flagged' \cup hashed'
  BY <1>1 DEF FlagCoversStale, FlagsKept, Is
<1>3. ASSUME o \in blob, \A c \in Client : Writing(c) => op[c].obj # o  PROVE o \in flagged \cup hashed
  BY <1>2, <1>3 DEF FlagCoversStale, FlagsKept
<1>4. CASE UNCHANGED <<op, content, rehash>>
  BY <1>2, <1>3, <1>4 DEF content, Writing
<1>5. ASSUME op' = op, NEW w \in Worker, RehashScan(w) \/ RehashRead(w) \/ RehashWrite(w)
      PROVE  o \in flagged' \cup hashed'
  <2>1. \A c \in Client : Writing(c) => op[c].obj # o  BY <1>2, <1>5 DEF Writing
  <2>2. CASE RehashScan(w) \/ RehashRead(w)
    BY <1>3, <2>1, <2>2 DEF RehashScan, RehashRead, content
  <2>3. CASE RehashWrite(w)
    <3>1. rehash[w].o # None  BY <2>3 DEF RehashWrite
    <3>2. rehash[w] # IdleRehash  BY <3>1 DEF IdleRehash
    <3>3. rehash[w].now  BY <1>2, <3>1, <3>2 DEF RehashApart, Rehashing
    <3>4. hashed' = hashed \cup {rehash[w].o} /\ flagged' = flagged \ {rehash[w].o} /\ blob' = blob
      BY <2>3, <3>3 DEF RehashWrite
    <3>. QED  BY <1>3, <2>1, <3>4
  <2>. QED  BY <1>5, <2>2, <2>3
<1>6. ASSUME NEW b \in Client, Acts(b)  PROVE o \in flagged' \cup hashed'
  <2>1. /\ \A c \in Client : c # b => op[c].pc = op'[c].pc /\ op[c].obj = op'[c].obj
        /\ \/ LeavesBytes /\ ~Writing(b)
           \/ AddsBytes /\ ~Writing(b)
           \/ PutsBytes(b)
           \/ TellsOfBytes(b)
    BY <1>1, <1>2, <1>6, BytesGo
  <2>2. ASSUME NEW c \in Client, c # b, Writing(c)  PROVE op[c].obj # o
    BY <1>2, <2>1, <2>2 DEF Writing
  <2>3. CASE LeavesBytes /\ ~Writing(b)
    BY <1>3, <2>2, <2>3 DEF LeavesBytes
  <2>4. CASE AddsBytes /\ ~Writing(b)
    BY <1>3, <2>2, <2>4 DEF AddsBytes
  <2>5. CASE PutsBytes(b)
    <3>1. op'[b].obj # o  BY <1>2, <2>5 DEF PutsBytes, Writing
    <3>2. ~Writing(b)  BY <2>5 DEF PutsBytes, Writing
    <3>. QED  BY <1>3, <2>2, <2>5, <3>1, <3>2 DEF PutsBytes
  <2>6. CASE TellsOfBytes(b)
    BY <1>3, <2>2, <2>6 DEF TellsOfBytes
  <2>. QED  BY <2>1, <2>3, <2>4, <2>5, <2>6
<1>7. ~Crash  BY <1>2 DEF Crash
<1>. QED  BY <1>4, <1>5, <1>6, <1>7, RehashGoes
-----------------------------------------------------------------------------
(* Theorems *)

LEMMA InitIInv == Init => IInv
<1>. SUFFICES ASSUME Init PROVE IInv
  OBVIOUS
<1>1. world \in World  BY WorldsTyped DEF Init
<1>2. world.named \in [File -> Name \cup {None}]  BY <1>1 DEF World
<1>3. ASSUME NEW f \in File
      PROVE  /\ InitialObject(world, f) \in Object \cup {None}
             /\ world.named[f] # None => InitialObject(world, f) # None
  <2>. DEFINE one == CHOOSE o \in Object : TRUE
              own == CHOOSE g \in [File -> Object] : \A a, b \in File : g[a] = g[b] => a = b
  <2>1. own \in [File -> Object]  BY ObjectsEnough
  <2>2. own[f] \in Object  BY <2>1
  <2>3. one \in Object  BY <2>2
  <2>4. InitialObject(world, f) = IF world.named[f] = None THEN None
                                  ELSE IF "shared" \in world.mode THEN one ELSE own[f]
    BY DEF InitialObject
  <2>. HIDE DEF one, own
  <2>. QED  BY <2>2, <2>3, <2>4, KeysDisjoint
<1>4. row \in [File -> Row] /\ \A f \in File : row[f].kind = "file" => row[f].obj # None
  BY <1>2, <1>3 DEF Init, Row
<1>5. IdleOp \in OpRow /\ Fits(IdleOp)  BY DEF IdleOp, OpRow, OpPC, Fits
<1>6. /\ hashed \subseteq Object /\ flagged \subseteq Object
      /\ blob = hashed \cup flagged /\ sized = blob
  BY DEF Init
<1>7. rehash \in [Worker -> [todo : SUBSET Object, o : Object \cup {None}, now : BOOLEAN]]
  BY DEF Init, IdleRehash
<1>8. \A k \in Key : lock[k] = {} /\ Holder(k) = None  BY DEF Init, Holder
<1>9. TypeOK  BY <1>4, <1>5, <1>6, <1>7, <1>8 DEF Init, TypeOK
<1>10. LocalsSet  BY <1>4, <1>5 DEF Init, LocalsSet
<1>11. OneRow
  <2>1. \A c \in Client : op[c].pc = "idle"  BY DEF Init, IdleOp
  <2>. QED  BY <1>8, <2>1 DEF OneRow, FirstOf
<1>12. RequestsFit
  <2>1. \A c \in Client : KindFits(c)  BY DEF Init, IdleOp, KindFits
  <2>2. \A c \in Client : Tokens(c) = {}  BY DEF Init, IdleOp, Tokens
  <2>. QED  BY <2>1, <2>2 DEF RequestsFit
<1>13. NamesApart
  <2>1. \A c \in Client : op[c].pc = "idle"  BY DEF Init, IdleOp
  <2>2. \A f \in File : row[f].name = world.named[f] /\ (Live(f) => world.named[f] # None)
    BY DEF Init, Live
  <2>. QED  BY <2>1, <2>2 DEF NamesApart, NamesGuarded
<1>14. PathsGuarded
  <2>1. \A c \in Client : op[c].pc = "idle"  BY DEF Init, IdleOp
  <2>. QED  BY <2>1 DEF Init, PathsGuarded
<1>15. ObjectsApart
  <2>1. \A c \in Client : op[c].pc = "idle"  BY DEF Init, IdleOp
  <2>2. \A f \in File : row[f].obj = InitialObject(world, f)  BY DEF Init
  <2>3. ASSUME ~Is("shared"), NEW f \in File, NEW g \in File,
               InitialObject(world, f) = InitialObject(world, g), InitialObject(world, f) # None
        PROVE  f = g
    <3>. DEFINE own == CHOOSE h \in [File -> Object] : \A a, b \in File : h[a] = h[b] => a = b
    <3>1. \A a, b \in File : own[a] = own[b] => a = b  BY ObjectsEnough
    <3>2. \A a \in File : InitialObject(world, a) = IF world.named[a] = None THEN None ELSE own[a]
      BY <2>3 DEF InitialObject, Is
    <3>. HIDE DEF own
    <3>. QED  BY <2>3, <3>1, <3>2
  <2>. QED  BY <2>1, <2>2, <2>3 DEF ObjectsApart
<1>16. EditsApart
  <2>1. \A c \in Client : op[c].pc = "idle"  BY DEF Init, IdleOp
  <2>. QED  BY <2>1 DEF EditsApart
<1>17. RehashApart
  <2>1. ~Rehashing  BY DEF Init, Rehashing
  <2>. QED  BY <2>1 DEF RehashApart
<1>18. SizesFollow /\ FlagCoversStale  BY <1>6 DEF SizesFollow, FlagCoversStale
<1>. QED  BY <1>9, <1>10, <1>11, <1>12, <1>13, <1>14, <1>15, <1>16, <1>17, <1>18 DEF IInv

LEMMA NextIInv ==
  ASSUME IInv, [Next]_vars
  PROVE  IInv'
<1>1. TypeOK /\ LocalsSet /\ OneRow  BY DEF IInv
<1>2. RequestsFit /\ NamesApart /\ PathsGuarded  BY DEF IInv
<1>3. TypeOK' /\ LocalsSet' /\ OneRow'  BY <1>1, <1>2, NextTypes, NextOneRow
<1>4. RequestsFit' /\ NamesApart'  BY <1>1, <1>2, NextRequestsFit, NextNamesApart
<1>5. PathsGuarded'  BY <1>1, <1>2, NextPathsGuarded
<1>6. ObjectsApart'  BY <1>1, NextObjectsApart DEF IInv
<1>7. EditsApart'  BY <1>1, <1>2, NextEditsApart DEF IInv
<1>8. RehashApart'  BY <1>1, NextRehashApart DEF IInv
<1>9. SizesFollow'  BY <1>1, <1>2, NextSizesFollow DEF IInv
<1>10. FlagCoversStale'  BY <1>1, <1>2, NextFlagCoversStale DEF IInv
<1>. QED  BY <1>3, <1>4, <1>5, <1>6, <1>7, <1>8, <1>9, <1>10 DEF IInv

\* Whatever WebDAV, WOPI and REST clients do, die or let expire, and however
\* the transactions of AcquireLock overlap: a token locks one key and is one
\* client's, the rows of a key have one that comes first, and a request has
\* what its next statement uses.  Where no two of those transactions overlap
\* and no lock was looked up too early or times out, what a request is about
\* to change stays guarded; so the size of a row is that of the bytes where
\* edits take the lock.  Bytes the hash does not describe are flagged where no
\* write overlaps a rehash.
THEOREM Invariance ==
  Spec => []IInv
<1>1. IInv /\ [Next]_vars => IInv'  BY NextIInv
<1>. QED  BY <1>1, InitIInv, PTL DEF Spec

\* PUT, DELETE and LOCK never look whether a file has their path when they
\* make one, and the schema has no unique index.  The locks they take keep a
\* name to one file where each is taken alone and outlives its request, or
\* where only one client makes files; nothing is assumed of the deployment
\* beyond what NamesGuarded says of it.
THEOREM NamesAreUnique ==
  Spec => []OneFilePerName
<1>1. ASSUME NamesApart  PROVE OneFilePerName
  <2>1. SUFFICES ASSUME NamesGuarded, NEW n \in Name  PROVE Cardinality(Named(n)) <= 1
    BY DEF OneFilePerName
  <2>2. \A f, g \in Named(n) : f = g  BY <1>1, <2>1 DEF NamesApart, Named
  <2>3. CASE Named(n) = {}  BY <2>3, FS_EmptySet
  <2>4. CASE Named(n) # {}
    <3>1. PICK f \in Named(n) : Named(n) = {f}  BY <2>2, <2>4
    <3>2. Cardinality({f}) = 1  BY FS_Singleton
    <3>. QED  BY <3>1, <3>2
  <2>. QED  BY <2>3, <2>4
<1>2. IInv => OneFilePerName  BY <1>1 DEF IInv
<1>. QED  BY <1>2, Invariance, PTL

\* ApplyFilePatch writes back what it computed from the bytes that are there,
\* not from older ones, where EditsGuarded: clients edit only under the lock of
\* the file, no upload replaces the file in place, no lock times out and none
\* is taken while another is.
THEOREM EditsAreNotLost ==
  Spec => NoLostEdit
<1>. DEFINE Kept == \A c \in Client :
       (EditsGuarded /\ op[c].kind = "patch" /\ op[c].pc = "write" /\ op'[c].pc = "update")
         => op[c].now
<1>1. IInv => Kept  BY DEF IInv, EditsApart
<1>2. IInv /\ [Next]_vars => [Kept]_vars  BY <1>1
<1>. QED  BY <1>2, Invariance, PTL DEF Spec, NoLostEdit

\* A step of the rows is a step of the table of locks, or none.
LEMMA StepRefines ==
  ASSUME IInv, [Next]_vars
  PROVE  [Exclusive!Next]_<<first, [k \in Key |-> lock[k] \ {first[k]}], ~Is("serial")>>
<1>. DEFINE b == [k \in Key |-> lock[k] \ {first[k]}]
<1>1. TypeOK /\ LocalsSet /\ OneRow  BY DEF IInv
<1>2. \A k \in Key : /\ first[k] = None => lock[k] = {}
                     /\ first[k] # None => first[k] \in lock[k]
  BY <1>1, FirstRow DEF Holder
<1>3. UNCHANGED ~Is("serial")  BY NextWriters DEF Writers, Is
<1>4. CASE UNCHANGED <<lock, first>>
  BY <1>3, <1>4
<1>5. CASE OneComes
  <2>1. PICK k \in Key, t \in Token, h \in Token :
          /\ \A l \in Key : t \notin lock[l]
          /\ h \in {t, first[k]}
          /\ first[k] = None => h = t
          /\ Is("serial") => first[k] = None
          /\ lock' = [lock EXCEPT ![k] = @ \cup {t}]
          /\ first' = [first EXCEPT ![k] = h]
    BY <1>5 DEF OneComes, Holder
  <2>2. \A l \in Key : lock'[l] = IF l = k THEN lock[k] \cup {t} ELSE lock[l]
    BY <1>1, <2>1 DEF TypeOK
  <2>3. \A l \in Key : first'[l] = IF l = k THEN h ELSE first[l]
    BY <1>1, <2>1 DEF TypeOK
  <2>4. \A l \in Key : first[l] # t /\ t \notin b[l]
    BY <1>2, <2>1, NoNone
  <2>5. Exclusive!Unused(t)  BY <2>4 DEF Exclusive!Unused
  <2>6. CASE first[k] = None
    <3>1. b'[k] = b[k]  BY <1>2, <2>1, <2>2, <2>3, <2>6
    <3>2. b' = b  BY <2>2, <2>3, <3>1
    <3>3. first' = [first EXCEPT ![k] = t]  BY <2>1, <2>6
    <3>4. Exclusive!Acquire(k, t)  BY <1>3, <2>5, <2>6, <3>2, <3>3 DEF Exclusive!Acquire
    <3>. QED  BY <2>1, <3>4 DEF Exclusive!Next
  <2>7. CASE first[k] # None
    <3>1. b'[k] = (b[k] \cup {first[k], t}) \ {h}  BY <1>2, <2>2, <2>3, <2>7
    <3>2. b' = [b EXCEPT ![k] = (b[k] \cup {first[k], t}) \ {h}]  BY <2>2, <2>3, <3>1
    <3>3. ~Is("serial")  BY <2>1, <2>7
    <3>4. Exclusive!Join(k, t)  BY <1>3, <2>1, <2>5, <2>7, <3>2, <3>3 DEF Exclusive!Join
    <3>. QED  BY <2>1, <3>4 DEF Exclusive!Next
  <2>. QED  BY <2>6, <2>7
<1>6. CASE SomeGo
  <2>1. PICK T \in SUBSET Token :
          /\ lock' = [k \in Key |-> lock[k] \ T]
          /\ first' \in [Key -> Token \cup {None}]
          /\ \A k \in Key : first'[k] \in IF first[k] \in lock[k] \ T THEN {first[k]}
                                         ELSE FirstOf(lock[k] \ T)
    BY <1>6 DEF SomeGo, Holder
  <2>2. ASSUME NEW k \in Key
        PROVE  /\ first'[k] \in IF first[k] \notin T THEN {first[k]}
                               ELSE IF b[k] \subseteq T THEN {None} ELSE b[k] \ T
               /\ b'[k] = b[k] \ (T \cup {first'[k]})
    <3>1. CASE first[k] = None
      <4>1. lock[k] = {} /\ None \notin T  BY <1>2, <3>1, NoNone
      <4>2. first'[k] = None  BY <2>1, <4>1 DEF FirstOf
      <4>. QED  BY <2>1, <3>1, <4>1, <4>2
    <3>2. CASE first[k] # None /\ first[k] \notin T
      <4>1. first'[k] = first[k]  BY <1>2, <2>1, <3>2
      <4>. QED  BY <2>1, <3>2, <4>1
    <3>3. CASE first[k] # None /\ first[k] \in T
      <4>1. first'[k] \in FirstOf(lock[k] \ T) /\ lock[k] \ T = b[k] \ T  BY <2>1, <3>3
      <4>. QED  BY <2>1, <3>3, <4>1 DEF FirstOf
    <3>. QED  BY <3>1, <3>2, <3>3
  <2>3. b' = [k \in Key |-> b[k] \ (T \cup {first'[k]})]  BY <2>2
  <2>4. Exclusive!GiveBack(T)  BY <1>3, <2>1, <2>2, <2>3 DEF Exclusive!GiveBack
  <2>. QED  BY <2>4 DEF Exclusive!Next
<1>. QED  BY <1>1, <1>4, <1>5, <1>6, LockSteps

\* The lock rows, read and inserted by transactions without a unique index,
\* cleaned by every query and released by key and token, implement a table of
\* locks in which a token holds one key at most.  Where those transactions do
\* not overlap, a key that is held stays with its holder alone until it is
\* given back or times out; where they do (service/lock.go:39), another token
\* may join or displace the holder, and nothing worse.
THEOREM LocksRefine ==
  Spec => LocksAreExclusive
<1>1. Init => Exclusive!Init  BY DEF Init, Exclusive!Init
<1>2. IInv /\ [Next]_vars
        => [Exclusive!Next]_<<first, [k \in Key |-> lock[k] \ {first[k]}], ~Is("serial")>>
  BY StepRefines
<1>. QED  BY <1>1, <1>2, Invariance, PTL DEF Spec, LocksAreExclusive, Exclusive!Spec
=============================================================================
