--------------------------- MODULE FileTreeProofs ---------------------------
(***************************************************************************)
(* Proofs about FileTree: its inductive invariant holds for any number of  *)
(* files, objects, requests and workers.                                   *)
(***************************************************************************)
EXTENDS FileTree, TLAPS

\* A step that takes no object, no blob and no reference away and lets nobody
\* get hold of an object or of a row.
Undisturbing ==
  /\ object' = object /\ blob \subseteq blob' /\ lost' = lost
  /\ \A f \in File : /\ row'[f].obj = row[f].obj
                     /\ Exists(f)' <=> Exists(f)
  /\ \A p \in Op : /\ op'[p].pc \in {"parent", "insert"} =>
                        op[p].pc \in {"parent", "insert"} /\ op'[p].obj = op[p].obj
                   /\ op'[p].pc = "objects" <=> op[p].pc = "objects"
                   /\ op[p].pc = "objects" => op'[p] = op[p]
                   /\ op'[p].dead = {} \/ op'[p].dead = op[p].dead
  /\ \A w \in Worker : work'[w].pc = "insert" =>
                         work[w].pc = "insert" /\ work'[w].obj = work[w].obj

Stored == PendingIsFresh /\ PendingApart /\ KeysAreOwn /\ RowsStored /\ PurgesApart /\ BlobsKept

\* Steps that do not disturb the store keep what the invariant says of it.
LEMMA UndisturbingKeeps ==
  ASSUME TypeOK, TypeOK', Stored, Undisturbing
  PROVE  Stored'
<1>1. PendingIsFresh'
  <2>1. \A o \in Object : Pending(o)' => Pending(o)
    BY DEF Undisturbing, Pending
  <2>. QED  BY <2>1 DEF Undisturbing, Stored, PendingIsFresh
<1>6. PendingApart'
  <2>1. \A p \in Op, w \in Worker : op'[p].pc \in {"parent", "insert"} /\ work'[w].pc = "insert"
                                     => op'[p].obj # work'[w].obj
    <3>. SUFFICES ASSUME NEW p \in Op, NEW w \in Worker, op'[p].pc \in {"parent", "insert"},
                         work'[w].pc = "insert"
                  PROVE  op'[p].obj # work'[w].obj
      OBVIOUS
    <3>1. op[p].pc \in {"parent", "insert"} /\ op'[p].obj = op[p].obj  BY DEF Undisturbing
    <3>2. work[w].pc = "insert" /\ work'[w].obj = work[w].obj  BY DEF Undisturbing
    <3>. QED  BY <3>1, <3>2 DEF Stored, PendingApart
  <2>. QED  BY <2>1 DEF Undisturbing, Stored, PendingApart
<1>2. KeysAreOwn' /\ RowsStored'
  BY DEF Undisturbing, Stored, KeysAreOwn, RowsStored, TypeOK, Row
<1>3. \A p \in Op : Gone(p)' = Gone(p)
  BY DEF Undisturbing, Gone
<1>4. PurgesApart'
  <2>1. (\A p \in Op : op[p].pc # "objects" => op[p].dead = {})'
    BY DEF Undisturbing, Stored, PurgesApart
  <2>2. ASSUME NEW p \in Op, op'[p].pc = "objects"
        PROVE  (/\ \A f \in op[p].ids : Exists(f)
                /\ \A o \in op[p].objs \cup op[p].dead : \E f \in op[p].ids : row[f].obj = o
                /\ \A o \in op[p].dead, f \in File : row[f].obj = o => f \in op[p].ids)'
    <3>1. op'[p] = op[p] /\ op[p].pc = "objects" /\ op[p].ids \subseteq File
      BY <2>2 DEF Undisturbing, TypeOK, OpRow
    <3>2. /\ \A f \in op[p].ids : Exists(f)
          /\ \A o \in op[p].objs \cup op[p].dead : \E f \in op[p].ids : row[f].obj = o
          /\ \A o \in op[p].dead, f \in File : row[f].obj = o => f \in op[p].ids
      BY <3>1 DEF Stored, PurgesApart
    <3>. QED  BY <3>1, <3>2 DEF Undisturbing
  <2>3. (\A p, q \in Op : p # q => Gone(p) \cap Gone(q) = {})'
    BY <1>3 DEF Stored, PurgesApart
  <2>. QED  BY <2>1, <2>2, <2>3 DEF PurgesApart
<1>5. BlobsKept'
  BY <1>3 DEF Undisturbing, Stored, BlobsKept, PurgesApart, Gone
<1>. QED  BY <1>1, <1>2, <1>4, <1>5, <1>6 DEF Stored

-----------------------------------------------------------------------------
(* The tree *)

\* C holds S and the live children of its members.
Holds(C, S) == S \subseteq C /\ \A g \in File : Live(g) /\ row[g].parent \in C => g \in C

\* The recursive query finds the least such set.
LEMMA LiveTreeIsClosed ==
  ASSUME NEW S \in SUBSET File
  PROVE  LiveTree(S) \in SUBSET File /\ Holds(LiveTree(S), S)
BY DEF LiveTree, Closure, Holds

\* A step that makes no row live and gives no live row a new parent keeps the
\* tree a tree and what a move has checked.
LEMMA ShrinkingKeeps ==
  ASSUME TypeOK, TypeOK', RowsWellFormed, MovesStaySafe, OneMoverAcyclic, world' = world,
         \A f \in File : /\ row'[f].st = "unused" <=> row[f].st = "unused"
                         /\ row'[f].st \in {"unused", "purged"} => row'[f].obj = None
                         /\ Live(f)' => Live(f) /\ row'[f].parent = row[f].parent
                         /\ row'[f].parent \in {row[f].parent, Root},
         \A p \in Op : op'[p].pc = "move" => op'[p] = op[p]
  PROVE  RowsWellFormed' /\ MovesStaySafe' /\ OneMoverAcyclic'
<1>1. RowsWellFormed'
  BY DEF RowsWellFormed, TypeOK, Row
<1>2. MovesStaySafe'
  <2>1. \A p \in Op : op'[p].pc = "move" /\ op'[p].to # Root => row'[op'[p].to].st # "unused"
    BY DEF MovesStaySafe, TypeOK, OpRow
  <2>2. \A p \in Op : op'[p].pc = "move" => world'.kinds[p] \cap {"move", "update"} # {}
    BY DEF MovesStaySafe
  <2>3. ASSUME OneMover, NEW p \in Op, op'[p].pc = "move"
        PROVE  (op[p].to \notin LiveTree(op[p].ids))'
    <3>1. op'[p] = op[p] /\ op[p].ids \in SUBSET File /\ op[p].to \notin LiveTree(op[p].ids)
      BY <2>3 DEF MovesStaySafe, TypeOK, OpRow
    <3>2. PICK C \in SUBSET File : C = LiveTree(op[p].ids)
      BY <3>1, LiveTreeIsClosed
    <3>3. Holds(C, op[p].ids)
      BY <3>1, <3>2, LiveTreeIsClosed
    <3>4. \A g \in File : row'[g].st = "live" /\ row'[g].parent \in C => g \in C
      BY <3>3 DEF Holds, Live
    <3>. QED  BY <3>1, <3>2, <3>3, <3>4 DEF LiveTree, Closure, Holds, Live
  <2>. QED  BY <2>1, <2>2, <2>3 DEF MovesStaySafe, OneMover
<1>3. OneMoverAcyclic'
  BY DEF OneMoverAcyclic, OneMover, LiveAcyclic, Live
<1>. QED  BY <1>1, <1>2, <1>3

\* A new row is a leaf: its parent was there before, and nobody is below it.
LEMMA GrowingKeeps ==
  ASSUME TypeOK, TypeOK', RowsWellFormed, MovesStaySafe, OneMoverAcyclic, world' = world,
         NEW g \in File, NEW to \in File \cup {Root}, NEW o \in Object \cup {None},
         row[g].st = "unused", to # Root => row[to].st # "unused",
         row' = [row EXCEPT ![g] = [Blank EXCEPT !.st = "live", !.parent = to, !.obj = o]],
         \A p \in Op : op'[p].pc = "move" => op'[p] = op[p]
  PROVE  RowsWellFormed' /\ MovesStaySafe' /\ OneMoverAcyclic'
<1>1. /\ row'[g].st = "live" /\ row'[g].parent = to
      /\ \A f \in File \ {g} : row'[f] = row[f]
      /\ to # g
  BY IdsAreDistinct DEF TypeOK, Blank
<1>2. \A f \in File : row[f].parent # g
  BY IdsAreDistinct DEF RowsWellFormed
<1>3. RowsWellFormed'
  <2>1. \A f \in File : row'[f].st \in {"unused", "purged"} => row'[f].obj = None
    BY <1>1 DEF RowsWellFormed
  <2>2. \A f \in File : row'[f].parent # Root => row'[row'[f].parent].st # "unused"
    BY <1>1 DEF RowsWellFormed, TypeOK, Row
  <2>. QED  BY <2>1, <2>2 DEF RowsWellFormed
<1>4. MovesStaySafe'
  <2>1. \A p \in Op : op'[p].pc = "move" /\ op'[p].to # Root => row'[op'[p].to].st # "unused"
    BY <1>1 DEF MovesStaySafe, TypeOK, OpRow
  <2>2. \A p \in Op : op'[p].pc = "move" => world'.kinds[p] \cap {"move", "update"} # {}
    BY DEF MovesStaySafe
  <2>3. ASSUME OneMover, NEW p \in Op, op'[p].pc = "move"
        PROVE  (op[p].to \notin LiveTree(op[p].ids))'
    <3>1. op'[p] = op[p] /\ op[p].ids \in SUBSET File /\ op[p].to \notin LiveTree(op[p].ids)
      BY <2>3 DEF MovesStaySafe, TypeOK, OpRow
    <3>2. PICK C \in SUBSET File : C = LiveTree(op[p].ids)
      BY <3>1, LiveTreeIsClosed
    <3>3. Holds(C, op[p].ids)
      BY <3>1, <3>2, LiveTreeIsClosed
    <3>4. op[p].to # g
      BY <2>3, <3>1, IdsAreDistinct DEF MovesStaySafe
    <3>5. \A f \in File : row'[f].st = "live" /\ row'[f].parent \in C \cup {g} => f \in C \cup {g}
      BY <1>1, <1>2, <3>3 DEF Holds, Live
    <3>6. C \cup {g} \in SUBSET File /\ op[p].ids \subseteq C \cup {g} /\ op[p].to \notin C \cup {g}
      BY <3>1, <3>2, <3>3, <3>4 DEF Holds
    <3>. QED  BY <3>1, <3>5, <3>6 DEF LiveTree, Closure, Live
  <2>. QED  BY <2>1, <2>2, <2>3 DEF MovesStaySafe, OneMover
<1>5. OneMoverAcyclic'
  <2>. SUFFICES ASSUME OneMover, NEW C \in SUBSET File, C # {}, \A f \in C : row'[f].st = "live",
                       \A f \in C : row'[f].parent \in C
                PROVE  FALSE
    BY DEF OneMoverAcyclic, OneMover, LiveAcyclic, Live
  <2>1. LiveAcyclic
    BY DEF OneMoverAcyclic
  <2>2. C \ {g} # {}
    BY <1>1
  <2>3. C \ {g} \in SUBSET {f \in File : Live(f)}
    BY <1>1 DEF Live
  <2>4. PICK f \in C \ {g} : row[f].parent \notin C \ {g}
    BY <2>1, <2>2, <2>3 DEF LiveAcyclic
  <2>5. row'[f] = row[f] /\ row[f].parent # g
    BY <1>1, <1>2, <2>4
  <2>. QED  BY <2>4, <2>5
<1>. QED  BY <1>3, <1>4, <1>5

\* A move keeps the tree a tree: its target is not below the moved files.
LEMMA MoveKeeps ==
  ASSUME TypeOK, TypeOK', RowsWellFormed, MovesStaySafe, OneMoverAcyclic, world' = world,
         NEW p \in Op, op[p].pc = "move", op[p].to # Root => Exists(op[p].to),
         row' = [f \in File |-> IF f \in op[p].ids /\ Live(f)
                                  THEN [row[f] EXCEPT !.parent = op[p].to] ELSE row[f]],
         op' = [op EXCEPT ![p] = IdleOp]
  PROVE  RowsWellFormed' /\ MovesStaySafe' /\ OneMoverAcyclic'
<1>1. op[p].ids \in SUBSET File /\ op[p].to \in File \cup {Root}
  BY DEF TypeOK, OpRow
<1>2. \A f \in File : /\ row'[f].st = row[f].st /\ row'[f].obj = row[f].obj
                      /\ row'[f].parent = IF f \in op[p].ids /\ Live(f) THEN op[p].to
                                                                         ELSE row[f].parent
  BY DEF TypeOK, Row
<1>3. RowsWellFormed'
  <2>1. \A f \in File : row'[f].st \in {"unused", "purged"} => row'[f].obj = None
    BY <1>2 DEF RowsWellFormed
  <2>2. \A f \in File : row'[f].parent # Root => row'[row'[f].parent].st # "unused"
    BY <1>1, <1>2 DEF RowsWellFormed, TypeOK, Row, Exists
  <2>. QED  BY <2>1, <2>2 DEF RowsWellFormed
<1>4. MovesStaySafe'
  <2>1. op'[p].pc # "move" /\ \A q \in Op \ {p} : op'[q] = op[q]
    BY DEF TypeOK, IdleOp
  <2>2. \A q \in Op : op'[q].pc = "move" /\ op'[q].to # Root => row'[op'[q].to].st # "unused"
    BY <1>2, <2>1 DEF MovesStaySafe, TypeOK, OpRow
  <2>3. \A q \in Op : op'[q].pc = "move" => world'.kinds[q] \cap {"move", "update"} # {}
    BY <2>1 DEF MovesStaySafe
  <2>4. OneMover => \A q \in Op : op'[q].pc # "move"
    BY <2>1 DEF MovesStaySafe, OneMover
  <2>. QED  BY <2>2, <2>3, <2>4 DEF MovesStaySafe, OneMover
<1>5. OneMoverAcyclic'
  <2>. SUFFICES ASSUME OneMover, NEW C \in SUBSET File, C # {}, \A f \in C : row'[f].st = "live",
                       \A f \in C : row'[f].parent \in C
                PROVE  FALSE
    BY DEF OneMoverAcyclic, OneMover, LiveAcyclic, Live
  <2>1. LiveAcyclic /\ op[p].to \notin LiveTree(op[p].ids)
    BY DEF OneMoverAcyclic, MovesStaySafe
  <2>2. PICK D \in SUBSET File : D = LiveTree(op[p].ids) /\ Holds(D, op[p].ids)
    BY <1>1, LiveTreeIsClosed
  <2>3. \A f \in C : Live(f)
    BY <1>2 DEF Live
  \* Outside the moved tree nothing changed, so a cycle cannot lie there ...
  <2>4. C \ D = {}
    <3>. SUFFICES ASSUME C \ D # {} PROVE FALSE
      OBVIOUS
    <3>1. PICK f \in C \ D : row[f].parent \notin C \ D
      BY <2>1, <2>3 DEF LiveAcyclic
    <3>2. row'[f].parent = row[f].parent
      BY <1>2, <2>2, <3>1 DEF Holds
    <3>3. row[f].parent \in D
      BY <3>1, <3>2
    <3>. QED  BY <2>2, <2>3, <3>1, <3>3 DEF Holds
  \* ... and from inside it a moved file leads to the target, which is outside.
  <2>5. C \cap op[p].ids = {}
    BY <1>2, <2>1, <2>2, <2>3, <2>4
  <2>6. \A f \in C : row[f].parent \in C
    BY <1>2, <2>5
  <2>. QED  BY <2>1, <2>3, <2>6 DEF LiveAcyclic
<1>. QED  BY <1>3, <1>4, <1>5

-----------------------------------------------------------------------------
(* Types *)

\* A request that writes typed locals leaves the locals of all typed.
LEMMA OpKept ==
  ASSUME TypeOK, NEW p \in Op, NEW r \in OpRow
  PROVE  [op EXCEPT ![p] = r] \in [Op -> OpRow]
BY DEF TypeOK

\* The locals of a request, and those of one that has returned, are typed.
LEMMA IdleIsTyped ==
  ASSUME TypeOK, NEW p \in Op
  PROVE  op[p] \in OpRow /\ IdleOp \in OpRow
BY DEF TypeOK, OpRow, OpPC, IdleOp

\* A request leaves its locals typed.
LEMMA RequestLocals ==
  ASSUME TypeOK, NEW p \in Op, Request(p) \/ Crash(p)
  PROVE  op' \in [Op -> OpRow]
<1>. USE IdleIsTyped
<1>1. ASSUME Return(p)
      PROVE  op' \in [Op -> OpRow]
  BY <1>1, OpKept DEF Return
<1>2. CASE Create(p)
  <2>1. [op[p] EXCEPT !.pc = "parent"] \in OpRow
    BY DEF OpRow, OpPC
  <2>2. \A o \in Object : [op[p] EXCEPT !.pc = "parent", !.obj = o] \in OpRow
    BY DEF OpRow, OpPC
  <2>. QED  BY <1>2, <2>1, <2>2, OpKept DEF Create
<1>3. CASE ensureParent(p)
  <2>1. \A to \in File \cup {Root} : [op[p] EXCEPT !.pc = "insert", !.to = to] \in OpRow
    BY DEF OpRow, OpPC
  <2>. QED  BY <1>1, <1>3, <2>1, OpKept DEF ensureParent
<1>4. CASE MoveCheck(p) \/ UpdateParent(p)
  <2>1. \A ids \in SUBSET File, to \in File \cup {Root} :
          [op[p] EXCEPT !.pc = "move", !.to = to, !.ids = ids] \in OpRow
    BY DEF OpRow, OpPC
  <2>2. PICK ids \in SUBSET File, to \in File \cup {Root} :
          op' = [op EXCEPT ![p] = [@ EXCEPT !.pc = "move", !.to = to, !.ids = ids]]
    BY <1>4, SelectionsAreSo DEF MoveCheck, UpdateParent
  <2>. QED  BY <2>1, <2>2, OpKept
<1>5. CASE DeleteRead(p)
  <2>1. \A ids \in SUBSET File : [op[p] EXCEPT !.pc = "delete", !.ids = ids] \in OpRow
    BY DEF OpRow, OpPC
  <2>2. PICK ids \in SUBSET File : op' = [op EXCEPT ![p] = [@ EXCEPT !.pc = "delete", !.ids = ids]]
    BY <1>5, LiveTreeIsClosed DEF DeleteRead
  <2>. QED  BY <2>1, <2>2, OpKept
<1>6. CASE PurgeRead(p)
  <2>1. \A f \in File, ids \in SUBSET File :
          [op[p] EXCEPT !.pc = "purge", !.f = f, !.ids = ids] \in OpRow
    BY DEF OpRow, OpPC
  <2>2. PICK f \in File, ids \in SUBSET File :
          op' = [op EXCEPT ![p] = [@ EXCEPT !.pc = "purge", !.f = f, !.ids = ids]]
    BY <1>6 DEF PurgeRead, WholeTree, Closure
  <2>. QED  BY <2>1, <2>2, OpKept
<1>7. CASE PurgeDelete(p)
  <2>1. \A ids \in SUBSET File, objs \in SUBSET Object :
          [op[p] EXCEPT !.pc = "objects", !.ids = ids, !.objs = objs] \in OpRow
    BY DEF OpRow, OpPC
  <2>2. op[p].ids \in SUBSET File
    BY DEF OpRow
  <2>3. {row[f].obj : f \in {g \in op[p].ids : Exists(g)}} \ {None} \in SUBSET Object
    BY <2>2 DEF TypeOK, Row
  <2>4. CASE ~Return(p)
    <3>1. PICK ids \in SUBSET File, objs \in SUBSET Object :
            op' = [op EXCEPT ![p] = [@ EXCEPT !.pc = "objects", !.ids = ids, !.objs = objs]]
      BY <1>7, <2>2, <2>3, <2>4 DEF PurgeDelete
    <3>. QED  BY <2>1, <3>1, OpKept
  <2>. QED  BY <1>1, <2>4
<1>8. CASE PurgeObject(p)
  <2>1. \A o \in Object : /\ [op[p] EXCEPT !.objs = op[p].objs \ {o}] \in OpRow
                          /\ [op[p] EXCEPT !.objs = op[p].objs \ {o},
                                          !.dead = op[p].dead \cup {o}] \in OpRow
    BY DEF OpRow
  <2>2. op[p].objs \subseteq Object
    BY DEF OpRow
  <2>3. PICK o \in Object :
          \/ op' = [op EXCEPT ![p] = [@ EXCEPT !.objs = op[p].objs \ {o}]]
          \/ op' = [op EXCEPT ![p] = [@ EXCEPT !.objs = op[p].objs \ {o},
                                              !.dead = op[p].dead \cup {o}]]
    BY <1>8, <2>2 DEF PurgeObject
  <2>. QED  BY <2>1, <2>3, OpKept
<1>9. CASE RecycleBatch(p) \/ RestoreBatch(p)
  <2>1. \A ids \in SUBSET File, mark \in BOOLEAN :
          [op[p] EXCEPT !.pc = "publish", !.ids = ids, !.mark = mark] \in OpRow
    BY DEF OpRow, OpPC
  <2>2. PICK ids \in SUBSET File, mark \in BOOLEAN :
          op' = [op EXCEPT ![p] = [@ EXCEPT !.pc = "publish", !.ids = ids, !.mark = mark]]
    BY <1>9, SelectionsAreSo DEF RecycleBatch, RestoreBatch, MarkRecycled
  <2>. QED  BY <2>1, <2>2, OpKept
<1>10. CASE Publish(p)
  <2>1. \A f \in File : [op[p] EXCEPT !.ids = op[p].ids \ {f}] \in OpRow
    BY DEF OpRow
  <2>2. op[p].ids \subseteq File
    BY DEF OpRow
  <2>3. PICK r \in OpRow : op' = [op EXCEPT ![p] = r]
    BY <1>10, <2>1, <2>2 DEF Publish
  <2>. QED  BY <2>3, OpKept
<1>11. CASE PurgeRecycleBin(p)
  BY <1>11 DEF PurgeRecycleBin, TypeOK
<1>. QED
  BY <1>1, <1>2, <1>3, <1>4, <1>5, <1>6, <1>7, <1>8, <1>9, <1>10, <1>11
  DEF Request, Crash, CreateInsert, MoveWrite, DeleteWrite, PurgeCommit

\* So do the rows, objects, blobs and actions it writes.
LEMMA RequestTypes ==
  ASSUME TypeOK, NEW p \in Op, Request(p)
  PROVE  TypeOK'
<1>1. op' \in [Op -> OpRow]
  BY RequestLocals
<1>2. row' \in [File -> Row]
  <2>1. \A S \in SUBSET File : SoftDelete(S) => row' \in [File -> Row]
    BY DEF SoftDelete, TypeOK, Row
  <2>2. \A S \in SUBSET File, mark \in BOOLEAN : SetMarks(S, mark) => row' \in [File -> Row]
    <3>1. \A f \in File, mark \in BOOLEAN : [row[f] EXCEPT !.marked = mark] \in Row
      BY DEF TypeOK, Row
    <3>. QED  BY <3>1 DEF SetMarks, TypeOK
  <2>3. op[p] \in OpRow
    BY DEF TypeOK
  <2>4. CASE row' = row
    BY <2>4 DEF TypeOK
  <2>5. CASE CreateInsert(p)
    <3>1. op[p].to \in File \cup {Root} /\ op[p].obj \in Object \cup {None}
      BY <2>3 DEF OpRow
    <3>2. [Blank EXCEPT !.st = "live", !.parent = op[p].to, !.obj = op[p].obj] \in Row
      BY <3>1 DEF Blank, Row
    <3>. QED  BY <2>5, <3>2 DEF CreateInsert, Insert, TypeOK
  <2>6. CASE MoveWrite(p)
    <3>1. op[p].to \in File \cup {Root}
      BY <2>3 DEF OpRow
    <3>2. \A f \in File, to \in File \cup {Root} : [row[f] EXCEPT !.parent = to] \in Row
      BY DEF TypeOK, Row
    <3>. QED  BY <2>6, <3>1, <3>2 DEF MoveWrite, TypeOK
  <2>7. CASE DeleteWrite(p)
    BY <2>1, <2>3, <2>7 DEF DeleteWrite, OpRow
  <2>8. CASE PurgeCommit(p)
    BY <2>8 DEF PurgeCommit, TypeOK, Row, Blank
  <2>9. CASE RecycleBatch(p) \/ RestoreBatch(p)
    BY <2>2, <2>9, SelectionsAreSo DEF RecycleBatch, RestoreBatch, MarkRecycled
  <2>10. CASE PurgeRecycleBin(p)
    BY <2>1, <2>10 DEF PurgeRecycleBin
  <2>. QED
    BY <2>4, <2>5, <2>6, <2>7, <2>8, <2>9, <2>10
    DEF Request, Create, ensureParent, MoveCheck, UpdateParent, DeleteRead, PurgeRead,
        PurgeDelete, PurgeObject, Publish, tree
<1>3. object' \in [Object -> ObjectRow] /\ blob' \subseteq Key /\ lost' \subseteq Key
  <2>1. CASE object' = object /\ blob' \subseteq blob /\ lost' = lost
    BY <2>1 DEF TypeOK
  <2>2. CASE Create(p)
    <3>1. \A o \in Object : [st |-> "stored", key |-> o] \in ObjectRow
      BY DEF ObjectRow, Key
    <3>. QED  BY <2>2, <3>1 DEF Create, TypeOK, Key, store
  <2>3. CASE PurgeCommit(p)
    BY <2>3 DEF PurgeCommit, TypeOK, ObjectRow, bin
  <2>. QED
    BY <2>1, <2>2, <2>3
    DEF Request, ensureParent, CreateInsert, MoveCheck, UpdateParent, MoveWrite, DeleteRead,
        DeleteWrite, PurgeRead, PurgeDelete, PurgeObject, RecycleBatch, RestoreBatch,
        MarkRecycled, Publish, PurgeRecycleBin, tree, store, bin
<1>4. queue' \in Seq(Action) /\ Len(queue') <= QueueSize /\ wish' \subseteq File
  <2>1. CASE UNCHANGED <<queue, wish>>
    BY <2>1 DEF TypeOK
  <2>2. CASE Publish(p)
    <3>1. PICK f \in File : queue' = Append(queue, [file |-> f, mark |-> op[p].mark])
      BY <2>2 DEF Publish, TypeOK, OpRow
    <3>2. [file |-> f, mark |-> op[p].mark] \in Action
      BY DEF TypeOK, OpRow, Action
    <3>. QED  BY <2>2, <3>1, <3>2, QueueHasRoom DEF Publish, TypeOK
  <2>3. CASE RecycleBatch(p) \/ RestoreBatch(p)
    BY <2>3, SelectionsAreSo DEF RecycleBatch, RestoreBatch, MarkRecycled, TypeOK
  <2>. QED
    BY <2>1, <2>2, <2>3
    DEF Request, Create, ensureParent, CreateInsert, MoveCheck, UpdateParent, MoveWrite,
        DeleteRead, DeleteWrite, PurgeRead, PurgeDelete, PurgeObject, PurgeCommit,
        PurgeRecycleBin, bin
<1>5. UNCHANGED <<world, work, hand>>
  BY DEF Request, Create, ensureParent, CreateInsert, MoveCheck, UpdateParent, MoveWrite,
     DeleteRead, DeleteWrite, PurgeRead, PurgeDelete, PurgeObject, PurgeCommit, RecycleBatch,
     RestoreBatch, MarkRecycled, Publish, PurgeRecycleBin, bin
<1>. QED
  BY <1>1, <1>2, <1>3, <1>4, <1>5 DEF TypeOK

\* Deaths and the steps of the workers leave every variable typed.
LEMMA OtherTypes ==
  ASSUME TreeInv, \/ \E p \in Op : Crash(p)
                  \/ \E w \in Worker : Work(w) \/ WorkCrash(w)
                  \/ ActionsLost
  PROVE  TypeOK'
<1>. TypeOK
  BY DEF TreeInv
<1>1. ASSUME NEW p \in Op, Crash(p)
      PROVE  TypeOK'
  <2>1. \A o \in op[p].dead : o \in Object /\ object[o].st = "stored"
    BY IdsAreDistinct DEF TreeInv, PurgesApart, RowsStored, TypeOK, OpRow, Row, Key
  <2>2. \A o \in op[p].dead : object[o].key \in Key
    BY <2>1 DEF TreeInv, KeysAreOwn, Key
  <2>. QED  BY <1>1, <2>2, RequestLocals DEF Crash, TypeOK, tree, bin
<1>2. ASSUME NEW w \in Worker, DeriveStart(w) \/ DerivePut(w) \/ DeriveObject(w)
      PROVE  TypeOK'
  <2>1. work[w] \in WorkRow /\ (work[w].pc # "idle" => work[w].f \in File)
    BY DEF TypeOK, WorkRow, TreeInv, LocalsSet
  <2>2. \A f \in File : [work[w] EXCEPT !.pc = "put", !.f = f] \in WorkRow
    BY <2>1 DEF WorkRow
  <2>3. \A o \in Object : [work[w] EXCEPT !.pc = "insert", !.obj = o] \in WorkRow
    BY <2>1 DEF WorkRow
  <2>4. [work[w] EXCEPT !.pc = "object"] \in WorkRow
    BY <2>1 DEF WorkRow
  <2>5. work' \in [Worker -> WorkRow]
    BY <1>2, <2>2, <2>3, <2>4 DEF DeriveStart, DerivePut, DeriveObject, TypeOK
  <2>6. object' \in [Object -> ObjectRow] /\ blob' \subseteq Key
    <3>1. work[w].pc # "idle" => [st |-> "stored", key |-> work[w].f] \in ObjectRow
      BY <2>1 DEF ObjectRow, Key
    <3>. QED
      BY <1>2, <2>1, <3>1 DEF DeriveStart, DerivePut, DeriveObject, TypeOK, Key, tree
  <2>. QED
    BY <1>2, <2>5, <2>6 DEF DeriveStart, DerivePut, DeriveObject, TypeOK, tree, bin
<1>3. ASSUME NEW w \in Worker, DeriveInsert(w)
      PROVE  TypeOK'
  <2>1. work[w].f \in File /\ work[w].obj \in Object
    BY <1>3 DEF DeriveInsert, TypeOK, WorkRow, TreeInv, LocalsSet
  <2>2. [Blank EXCEPT !.st = "live", !.parent = work[w].f, !.obj = work[w].obj] \in Row
    BY <2>1 DEF Blank, Row
  <2>3. row' \in [File -> Row]
    BY <1>3, <2>2 DEF DeriveInsert, Insert, TypeOK
  <2>4. work' \in [Worker -> WorkRow]
    BY <1>3 DEF DeriveInsert, TypeOK, WorkRow, IdleWork
  <2>. QED  BY <1>3, <2>3, <2>4 DEF DeriveInsert, TypeOK, store, bin
<1>4. ASSUME NEW w \in Worker, TakeAction(w)
      PROVE  TypeOK'
  <2>1. Head(queue) \in Action /\ Tail(queue) \in Seq(Action) /\ Len(Tail(queue)) <= QueueSize
    BY <1>4, QueueHasRoom DEF TakeAction, TypeOK
  <2>. QED  BY <1>4, <2>1 DEF TakeAction, TypeOK, tree
<1>5. ASSUME NEW w \in Worker, ApplyAction(w)
      PROVE  TypeOK'
  <2>1. hand[w].mark \in BOOLEAN
    BY <1>5 DEF ApplyAction, TypeOK, Action
  <2>2. row' \in [File -> Row]
    BY <1>5, <2>1 DEF ApplyAction, SetMarks, TypeOK, Row
  <2>. QED  BY <1>5, <2>2 DEF ApplyAction, TypeOK, store
<1>6. ASSUME NEW w \in Worker, WorkCrash(w)
      PROVE  TypeOK'
  BY <1>6 DEF WorkCrash, TypeOK, WorkRow, IdleWork, tree, bin
<1>7. CASE ActionsLost
  BY <1>7, QueueHasRoom DEF ActionsLost, TypeOK, tree
<1>. QED  BY <1>1, <1>2, <1>3, <1>4, <1>5, <1>6, <1>7 DEF Work

-----------------------------------------------------------------------------
(* Steps that do not disturb the store *)

\* No row comes, goes, or gets another parent or object; none becomes live.
RowsQuiet ==
  \A f \in File : /\ row'[f].obj = row[f].obj /\ row'[f].parent = row[f].parent
                  /\ Exists(f)' <=> Exists(f)
                  /\ row'[f].st = "unused" <=> row[f].st = "unused"
                  /\ Live(f)' => Live(f)

\* Marking and soft-deleting rows changes neither parents nor objects.
LEMMA MarksAreQuiet ==
  ASSUME TypeOK, NEW S,
         \/ row' = row
         \/ SoftDelete(S)
         \/ \E mark \in BOOLEAN : SetMarks(S, mark)
  PROVE  RowsQuiet
BY DEF TypeOK, Row, SoftDelete, SetMarks, RowsQuiet, Exists, Live

\* The request p purges nothing and gets hold of nothing.
OpQuiet(p) ==
  /\ \A q \in Op \ {p} : op'[q] = op[q]
  /\ op[p].pc # "objects" /\ op'[p].pc # "objects" /\ op'[p].dead = {}
  /\ op'[p].pc \in {"parent", "insert"} =>
       op[p].pc \in {"parent", "insert"} /\ op'[p].obj = op[p].obj

\* The requests that neither store nor purge get hold of no object and no row.
LEMMA QuietOp ==
  ASSUME TreeInv, NEW p \in Op,
         \/ ensureParent(p) \/ MoveCheck(p) \/ UpdateParent(p) \/ MoveWrite(p)
         \/ DeleteRead(p) \/ DeleteWrite(p) \/ PurgeRead(p)
         \/ RecycleBatch(p) \/ RestoreBatch(p) \/ Publish(p) \/ PurgeRecycleBin(p)
         \/ op[p].pc # "objects" /\ Return(p)
  PROVE  OpQuiet(p)
<1>. op \in [Op -> OpRow]
  BY DEF TreeInv, TypeOK
<1>1. op[p].pc # "objects" => op[p].dead = {}
  BY DEF TreeInv, PurgesApart
<1>2. CASE op[p].pc # "objects" /\ Return(p)
  BY <1>2 DEF Return, IdleOp, OpQuiet
<1>3. CASE ensureParent(p)
  <2>1. op[p].pc = "parent"
    BY <1>3 DEF ensureParent
  <2>2. \/ Return(p)
        \/ \E to : op' = [op EXCEPT ![p] = [@ EXCEPT !.pc = "insert", !.to = to]]
    BY <1>3 DEF ensureParent
  <2>. QED  BY <1>1, <1>2, <2>1, <2>2 DEF OpQuiet, OpRow
<1>4. CASE MoveCheck(p) \/ UpdateParent(p)
  <2>1. PICK ids, to : op' = [op EXCEPT ![p] = [@ EXCEPT !.pc = "move", !.to = to, !.ids = ids]]
    BY <1>4 DEF MoveCheck, UpdateParent
  <2>2. op[p].pc = "idle"
    BY <1>4 DEF MoveCheck, UpdateParent, Idle
  <2>. QED  BY <1>1, <2>1, <2>2 DEF OpQuiet, OpRow
<1>5. CASE MoveWrite(p) \/ DeleteWrite(p)
  BY <1>5, <1>2 DEF MoveWrite, DeleteWrite
<1>6. CASE DeleteRead(p) \/ PurgeRead(p)
  <2>1. op[p].pc = "idle"
    BY <1>6 DEF DeleteRead, PurgeRead, Idle
  <2>2. CASE DeleteRead(p)
    <3>1. PICK ids : op' = [op EXCEPT ![p] = [@ EXCEPT !.pc = "delete", !.ids = ids]]
      BY <2>2 DEF DeleteRead
    <3>. QED  BY <1>1, <2>1, <3>1 DEF OpQuiet, OpRow
  <2>3. CASE PurgeRead(p)
    <3>1. PICK f, ids : op' = [op EXCEPT ![p] = [@ EXCEPT !.pc = "purge", !.f = f, !.ids = ids]]
      BY <2>3 DEF PurgeRead
    <3>. QED  BY <1>1, <2>1, <3>1 DEF OpQuiet, OpRow
  <2>. QED  BY <1>6, <2>2, <2>3
<1>7. CASE RecycleBatch(p) \/ RestoreBatch(p)
  <2>1. PICK ids, mark :
          op' = [op EXCEPT ![p] = [@ EXCEPT !.pc = "publish", !.ids = ids, !.mark = mark]]
    BY <1>7 DEF RecycleBatch, RestoreBatch, MarkRecycled
  <2>2. op[p].pc = "idle"
    BY <1>7 DEF RecycleBatch, RestoreBatch, MarkRecycled, Idle
  <2>. QED  BY <1>1, <2>1, <2>2 DEF OpQuiet, OpRow
<1>8. CASE Publish(p)
  <2>1. \/ op' = [op EXCEPT ![p] = IdleOp]
        \/ \E ids : op' = [op EXCEPT ![p] = [@ EXCEPT !.ids = ids]]
    BY <1>8 DEF Publish
  <2>2. op[p].pc = "publish"
    BY <1>8 DEF Publish
  <2>. QED  BY <1>1, <2>1, <2>2 DEF IdleOp, OpQuiet, OpRow
<1>9. CASE PurgeRecycleBin(p)
  BY <1>1, <1>9 DEF PurgeRecycleBin, Idle, OpQuiet
<1>. QED
  BY <1>2, <1>3, <1>4, <1>5, <1>6, <1>7, <1>8, <1>9

\* Such a request does not disturb the store.
LEMMA QuietIsUndisturbing ==
  ASSUME RowsQuiet, NEW p \in Op, OpQuiet(p), op[p].dead = {},
         UNCHANGED <<object, blob, lost, work>>
  PROVE  Undisturbing
BY DEF RowsQuiet, OpQuiet, Undisturbing

\* The local variables after a step.
LEMMA LocalsKept ==
  ASSUME TreeInv, TypeOK', Next
  PROVE  LocalsSet'
<1>. op \in [Op -> OpRow] /\ work \in [Worker -> WorkRow] /\ LocalsSet /\ IdleOp.pc = "idle"
  BY DEF TreeInv, TypeOK, IdleOp
<1>1. ASSUME NEW p \in Op, Request(p) \/ Crash(p)
      PROVE  LocalsSet'
  <2>1. \A q \in Op \ {p} : op'[q] = op[q]
    BY <1>1 DEF Request, Crash, Create, ensureParent, CreateInsert, MoveCheck, UpdateParent,
       MoveWrite, DeleteRead, DeleteWrite, PurgeRead, PurgeDelete, PurgeObject, PurgeCommit,
       RecycleBatch, RestoreBatch, MarkRecycled, Publish, PurgeRecycleBin, Return
  <2>2. op'[p].pc = "idle" => op'[p] = IdleOp
    <3>1. CASE Return(p)
      BY <3>1 DEF Return
    <3>2. CASE PurgeRecycleBin(p)
      BY <3>2 DEF PurgeRecycleBin, LocalsSet
    <3>3. CASE Publish(p)
      BY <3>3 DEF Publish, OpRow
    <3>4. CASE PurgeObject(p)
      BY <3>4 DEF PurgeObject, OpRow
    <3>5. CASE PurgeDelete(p)
      BY <3>1, <3>5 DEF PurgeDelete, OpRow
    <3>6. CASE ensureParent(p) \/ Create(p)
      BY <3>1, <3>6 DEF ensureParent, Create, OpRow
    <3>7. CASE MoveCheck(p) \/ UpdateParent(p) \/ DeleteRead(p) \/ PurgeRead(p)
      BY <3>7 DEF MoveCheck, UpdateParent, DeleteRead, PurgeRead, OpRow
    <3>8. CASE RecycleBatch(p) \/ RestoreBatch(p)
      BY <3>8 DEF RecycleBatch, RestoreBatch, MarkRecycled, OpRow
    <3>. QED
      BY <1>1, <3>1, <3>2, <3>3, <3>4, <3>5, <3>6, <3>7, <3>8
      DEF Request, Crash, CreateInsert, MoveWrite, DeleteWrite, PurgeCommit
  <2>3. work' = work
    BY <1>1 DEF Request, Crash, Create, ensureParent, CreateInsert, MoveCheck, UpdateParent,
       MoveWrite, DeleteRead, DeleteWrite, PurgeRead, PurgeDelete, PurgeObject, PurgeCommit,
       RecycleBatch, RestoreBatch, MarkRecycled, Publish, PurgeRecycleBin
  <2>. QED  BY <2>1, <2>2, <2>3 DEF LocalsSet
<1>2. ASSUME NEW w \in Worker, Work(w) \/ WorkCrash(w)
      PROVE  LocalsSet'
  <2>1. op' = op
    BY <1>2 DEF Work, WorkCrash, DeriveStart, DerivePut, DeriveObject, DeriveInsert,
       TakeAction, ApplyAction
  <2>2. \A v \in Worker : /\ work'[v].pc # "idle" => work'[v].f # None
                          /\ work'[v].pc = "insert" => work'[v].obj # None
    <3>1. CASE DeriveStart(w)
      BY <3>1, IdsAreDistinct DEF DeriveStart, LocalsSet, WorkRow, Key
    <3>2. CASE DerivePut(w)
      BY <3>2 DEF DerivePut, LocalsSet, WorkRow
    <3>3. CASE DeriveObject(w)
      BY <3>3, IdsAreDistinct DEF DeriveObject, LocalsSet, WorkRow, Key
    <3>4. CASE DeriveInsert(w) \/ WorkCrash(w)
      BY <3>4 DEF DeriveInsert, WorkCrash, LocalsSet, IdleWork
    <3>5. CASE TakeAction(w) \/ ApplyAction(w)
      BY <3>5 DEF TakeAction, ApplyAction, LocalsSet
    <3>. QED  BY <1>2, <3>1, <3>2, <3>3, <3>4, <3>5 DEF Work
  <2>. QED  BY <2>1, <2>2 DEF LocalsSet
<1>3. CASE ActionsLost
  BY <1>3 DEF ActionsLost, LocalsSet
<1>. QED  BY <1>1, <1>2, <1>3 DEF Next

-----------------------------------------------------------------------------
(* New objects and new rows *)

\* Nobody knows the object an upload stores.
LEMMA CreateStores ==
  ASSUME TreeInv, TypeOK', LocalsSet', NEW p \in Op, Create(p)
  PROVE  Stored'
<1>. USE IdsAreDistinct DEF TreeInv
<1>1. /\ op[p].pc = "idle" /\ op[p] = IdleOp
      /\ \A q \in Op \ {p} : op'[q] = op[q]
      /\ UNCHANGED <<row, work, lost>>
  BY DEF Create, Idle, LocalsSet, TypeOK, store
<1>6. op'[p].pc = "parent" /\ op'[p].dead = {}
  <2>1. \/ op' = [op EXCEPT ![p] = [IdleOp EXCEPT !.pc = "parent"]]
        \/ \E o : op' = [op EXCEPT ![p] = [IdleOp EXCEPT !.pc = "parent", !.obj = o]]
    BY <1>1 DEF Create
  <2>2. op \in [Op -> OpRow]
    BY DEF TypeOK
  <2>3. ASSUME op' = [op EXCEPT ![p] = [IdleOp EXCEPT !.pc = "parent"]]
        PROVE  op'[p].pc = "parent" /\ op'[p].dead = {}
    BY <2>2, <2>3 DEF IdleOp
  <2>4. ASSUME NEW o, op' = [op EXCEPT ![p] = [IdleOp EXCEPT !.pc = "parent", !.obj = o]]
        PROVE  op'[p].pc = "parent" /\ op'[p].dead = {}
    BY <2>2, <2>4 DEF IdleOp
  <2>. QED  BY <2>1, <2>3, <2>4
<1>2. \A q \in Op : Gone(q)' = Gone(q)
  BY <1>1, <1>6 DEF Gone
<1>3. PurgesApart'
  <2>1. (\A q \in Op : op[q].pc # "objects" => op[q].dead = {})'
    BY <1>1, <1>6 DEF PurgesApart
  <2>2. ASSUME NEW q \in Op, op'[q].pc = "objects"
        PROVE  op'[q] = op[q]
    BY <1>1, <1>6, <2>2
  <2>. QED  BY <1>1, <1>2, <2>1, <2>2 DEF PurgesApart, Exists
<1>4. ASSUME op' = [op EXCEPT ![p].pc = "parent"], UNCHANGED store
      PROVE  Stored'
  <2>1. op'[p].obj = None /\ op'[p].pc = "parent"
    BY <1>1, <1>4, <1>6 DEF TypeOK, IdleOp
  <2>2. \A o \in Object : Pending(o)' => Pending(o)
    BY <1>1, <2>1 DEF Pending, Key
  <2>3. PendingIsFresh' /\ KeysAreOwn' /\ RowsStored'
    BY <1>1, <1>4, <2>2 DEF PendingIsFresh, KeysAreOwn, RowsStored, store
  <2>4. PendingApart'
    BY <1>1, <2>1 DEF PendingApart, LocalsSet
  <2>5. BlobsKept'
    BY <1>1, <1>2, <1>4 DEF BlobsKept, store, Gone, PurgesApart
  <2>. QED  BY <1>3, <2>3, <2>4, <2>5 DEF Stored
<1>5. ASSUME NEW o \in Object, object[o].st = "unused",
             object' = [object EXCEPT ![o] = [st |-> "stored", key |-> o]],
             blob' = blob \cup {o},
             op' = [op EXCEPT ![p] = [@ EXCEPT !.pc = "parent", !.obj = o]]
      PROVE  Stored'
  <2>1. op'[p].obj = o /\ op'[p].pc = "parent"
    BY <1>1, <1>5 DEF TypeOK, OpRow, IdleOp
  <2>2. \A x \in Object : Pending(x)' => Pending(x) \/ x = o
    BY <1>1, <2>1 DEF Pending
  <2>3. ~Pending(o) /\ \A f \in File : row[f].obj # o
    BY <1>5 DEF PendingIsFresh, RowsStored, Key
  <2>4. /\ object'[o].st = "stored" /\ object'[o].key = o
        /\ \A x \in Object \ {o} : object'[x] = object[x]
    BY <1>5 DEF TypeOK
  <2>5. PendingIsFresh'
    BY <1>1, <1>5, <2>2, <2>3, <2>4 DEF PendingIsFresh
  <2>6. KeysAreOwn' /\ RowsStored'
    BY <1>1, <2>4 DEF KeysAreOwn, RowsStored, TypeOK, Row
  <2>7. PendingApart'
    BY <1>1, <2>1, <2>3 DEF PendingApart, Pending
  <2>8. BlobsKept'
    <3>1. \A f \in File : row[f].obj # None => object'[row[f].obj] = object[row[f].obj]
      BY <2>3, <2>4 DEF TypeOK, Row
    <3>. QED  BY <1>1, <1>2, <1>5, <3>1 DEF BlobsKept, Gone, PurgesApart
  <2>. QED  BY <1>3, <2>5, <2>6, <2>7, <2>8 DEF Stored
<1>. QED  BY <1>4, <1>5 DEF Create

\* Nor the one the worker stores for a derivative.
LEMMA DeriveStores ==
  ASSUME TreeInv, TypeOK', NEW w \in Worker, DeriveObject(w)
  PROVE  Stored'
<1>. USE IdsAreDistinct DEF TreeInv
<1>1. PICK o \in Object :
        /\ object[o].st = "unused"
        /\ object' = [object EXCEPT ![o] = [st |-> "stored", key |-> work[w].f]]
        /\ work' = [work EXCEPT ![w] = [@ EXCEPT !.pc = "insert", !.obj = o]]
  BY DEF DeriveObject
<1>2. work[w].f \in File
  BY DEF DeriveObject, LocalsSet, TypeOK, WorkRow
<1>3. /\ work'[w].pc = "insert" /\ work'[w].obj = o
      /\ \A v \in Worker \ {w} : work'[v] = work[v]
      /\ UNCHANGED <<row, blob, op, lost>>
  BY <1>1 DEF DeriveObject, TypeOK, WorkRow, bin
<1>4. \A x \in Object : Pending(x)' => Pending(x) \/ x = o
  BY <1>3 DEF Pending
<1>5. ~Pending(o) /\ \A f \in File : row[f].obj # o
  BY <1>1 DEF PendingIsFresh, RowsStored, Key
<1>6. /\ object'[o].st = "stored" /\ object'[o].key \in File
      /\ \A x \in Object \ {o} : object'[x] = object[x]
  BY <1>1, <1>2 DEF TypeOK
<1>7. PendingIsFresh'
  BY <1>3, <1>4, <1>5, <1>6 DEF PendingIsFresh
<1>8. KeysAreOwn' /\ RowsStored'
  BY <1>3, <1>6 DEF KeysAreOwn, RowsStored, TypeOK, Row
<1>9. PendingApart'
  <2>1. \A p \in Op : op[p].pc \in {"parent", "insert"} => op[p].obj # o
    BY <1>5 DEF Pending
  <2>2. \A v \in Worker : work[v].pc = "insert" => work[v].obj # o
    BY <1>5 DEF Pending
  <2>. QED  BY <1>3, <2>1, <2>2 DEF PendingApart
<1>10. PurgesApart'
  BY <1>3 DEF PurgesApart, Gone, Exists
<1>11. BlobsKept'
  <2>1. \A f \in File : row[f].obj # None => object'[row[f].obj] = object[row[f].obj]
    BY <1>5, <1>6 DEF TypeOK, Row
  <2>. QED  BY <1>3, <2>1 DEF BlobsKept, Gone
<1>. QED  BY <1>7, <1>8, <1>9, <1>10, <1>11 DEF Stored

\* The row of a pending object takes over what the process had.
LEMMA InsertStores ==
  ASSUME TreeInv, TypeOK', NEW g \in File, NEW to, NEW o \in Object \cup {None},
         row[g].st = "unused",
         row' = [row EXCEPT ![g] = [Blank EXCEPT !.st = "live", !.parent = to, !.obj = o]],
         o # None => Pending(o),
         UNCHANGED <<object, blob, lost>>,
         \A x \in Object : Pending(x)' => Pending(x) /\ x # o,
         PendingApart',
         \A q \in Op : /\ op'[q].pc = "objects" <=> op[q].pc = "objects"
                       /\ op[q].pc = "objects" => op'[q] = op[q]
                       /\ op'[q].pc # "objects" => op'[q].dead = {}
  PROVE  Stored'
<1>. USE IdsAreDistinct DEF TreeInv
<1>1. /\ row'[g].obj = o /\ row'[g].st = "live"
      /\ \A f \in File \ {g} : row'[f] = row[f]
  BY DEF TypeOK, Blank
<1>2. o # None => o \in Object /\ object[o].st = "stored" /\ \A f \in File : row[f].obj # o
  BY DEF PendingIsFresh
<1>3. PendingIsFresh'
  BY <1>1 DEF PendingIsFresh
<1>4. KeysAreOwn' /\ RowsStored'
  BY <1>1, <1>2 DEF KeysAreOwn, RowsStored
<1>5. \A q \in Op : Gone(q)' = Gone(q) /\ g \notin Gone(q)
  BY DEF Gone, PurgesApart, Exists
<1>6. PurgesApart'
  <2>1. (\A q \in Op : op[q].pc # "objects" => op[q].dead = {})'
    OBVIOUS
  <2>2. ASSUME NEW q \in Op, op'[q].pc = "objects"
        PROVE  (/\ \A f \in op[q].ids : Exists(f)
                /\ \A x \in op[q].objs \cup op[q].dead : \E f \in op[q].ids : row[f].obj = x
                /\ \A x \in op[q].dead, f \in File : row[f].obj = x => f \in op[q].ids)'
    <3>1. op'[q] = op[q] /\ op[q].pc = "objects" /\ op[q].ids \subseteq File
      BY <2>2 DEF TypeOK, OpRow
    <3>2. /\ \A f \in op[q].ids : Exists(f) /\ f # g
          /\ \A x \in op[q].objs \cup op[q].dead : \E f \in op[q].ids : row[f].obj = x
          /\ \A x \in op[q].dead, f \in File : row[f].obj = x => f \in op[q].ids
      BY <3>1 DEF PurgesApart, Exists
    <3>3. o # None => o \notin op[q].dead
      BY <1>2, <3>1, <3>2
    <3>4. None \notin op[q].dead
      BY <3>1 DEF TypeOK, OpRow, Key
    <3>. QED  BY <1>1, <3>1, <3>2, <3>3, <3>4 DEF Exists
  <2>3. (\A q, r \in Op : q # r => Gone(q) \cap Gone(r) = {})'
    BY <1>5 DEF PurgesApart
  <2>. QED  BY <2>1, <2>2, <2>3 DEF PurgesApart
<1>7. BlobsKept'
  <2>1. o # None /\ object[o].key = o => o \in blob \cup lost
    BY DEF PendingIsFresh
  <2>2. \A q \in Op, f \in File : f \in Gone(q) => op'[q] = op[q]
    BY DEF Gone
  <2>. QED  BY <1>1, <1>5, <2>1, <2>2 DEF BlobsKept
<1>. QED  BY <1>3, <1>4, <1>6, <1>7 DEF Stored

-----------------------------------------------------------------------------
(* Purges *)

\* A purge that has deleted its rows holds rows that nobody else holds.
LEMMA PurgeDeleteStores ==
  ASSUME TreeInv, TypeOK', NEW p \in Op, PurgeDelete(p)
  PROVE  Stored'
<1>. USE DEF TreeInv
<1>1. /\ op[p].pc = "purge" /\ Unlocked(op[p].ids)
      /\ UNCHANGED <<row, object, blob, lost, work>>
  BY DEF PurgeDelete, tree, Unlocked
<1>2. CASE Return(p)
  <2>1. OpQuiet(p) /\ op[p].dead = {}
    BY <1>1, <1>2, QuietOp DEF PurgesApart
  <2>2. RowsQuiet
    BY <1>1, MarksAreQuiet
  <2>. QED  BY <1>1, <2>1, <2>2, QuietIsUndisturbing, UndisturbingKeeps DEF Stored
<1>3. CASE ~Return(p)
  <2>. DEFINE S == {f \in op[p].ids : Exists(f)}
              O == {row[f].obj : f \in {g \in op[p].ids : Exists(g)}} \ {None}
  <2>1. op' = [op EXCEPT ![p] = [@ EXCEPT !.pc = "objects", !.ids = S, !.objs = O]]
    BY <1>3 DEF PurgeDelete
  <2>2. op \in [Op -> OpRow] /\ op[p].dead = {} /\ op[p].ids \subseteq File
    BY <1>1 DEF TypeOK, OpRow, PurgesApart
  <2>3. /\ op'[p].pc = "objects" /\ op'[p].ids = S /\ op'[p].objs = O /\ op'[p].dead = {}
        /\ \A q \in Op \ {p} : op'[q] = op[q]
    BY <2>1, <2>2 DEF OpRow
  <2>4. \A o \in Object : Pending(o)' => Pending(o)
    BY <1>1, <2>3 DEF Pending
  <2>5. PendingIsFresh' /\ KeysAreOwn' /\ RowsStored'
    BY <1>1, <2>4 DEF PendingIsFresh, KeysAreOwn, RowsStored
  <2>6. PendingApart'
    BY <1>1, <2>3 DEF PendingApart
  <2>7. Gone(p)' = S /\ \A q \in Op \ {p} : Gone(q)' = Gone(q)
    BY <2>3 DEF Gone
  <2>8. PurgesApart'
    <3>1. (\A q \in Op : op[q].pc # "objects" => op[q].dead = {})'
      BY <2>3 DEF PurgesApart
    <3>2. \A q \in Op : op'[q].pc = "objects" =>
            (/\ \A f \in op[q].ids : Exists(f)
             /\ \A x \in op[q].objs \cup op[q].dead : \E f \in op[q].ids : row[f].obj = x
             /\ \A x \in op[q].dead, f \in File : row[f].obj = x => f \in op[q].ids)'
      <4>1. \A q \in Op \ {p} : op'[q].pc = "objects" =>
              (/\ \A f \in op[q].ids : Exists(f)
               /\ \A x \in op[q].objs \cup op[q].dead : \E f \in op[q].ids : row[f].obj = x
               /\ \A x \in op[q].dead, f \in File : row[f].obj = x => f \in op[q].ids)'
        BY <1>1, <2>3 DEF PurgesApart, Exists
      <4>2. (/\ \A f \in op[p].ids : Exists(f)
             /\ \A x \in op[p].objs \cup op[p].dead : \E f \in op[p].ids : row[f].obj = x
             /\ \A x \in op[p].dead, f \in File : row[f].obj = x => f \in op[p].ids)'
        BY <1>1, <2>3 DEF Exists
      <4>. QED  BY <4>1, <4>2
    <3>3. \A q \in Op : S \cap Gone(q) = {}
      BY <1>1 DEF Unlocked
    <3>4. (\A q, r \in Op : q # r => Gone(q) \cap Gone(r) = {})'
      BY <2>7, <3>3 DEF PurgesApart
    <3>. QED  BY <3>1, <3>2, <3>4 DEF PurgesApart
  <2>9. BlobsKept'
    <3>1. \A q \in Op, f \in File : f \in Gone(q) => q # p
      BY <1>1 DEF Gone
    <3>. QED  BY <1>1, <2>3, <2>7, <3>1 DEF BlobsKept
  <2>. QED  BY <2>5, <2>6, <2>8, <2>9 DEF Stored
<1>. QED  BY <1>2, <1>3

\* A purge deletes an object and its blob when only its own rows refer to it.
LEMMA PurgeObjectStores ==
  ASSUME TreeInv, TypeOK', NEW p \in Op, PurgeObject(p)
  PROVE  Stored'
<1>. USE DEF TreeInv
<1>1. /\ op[p].pc = "objects"
      /\ op \in [Op -> OpRow] /\ op[p].objs \subseteq Object /\ op[p].ids \subseteq File
      /\ UNCHANGED <<row, object, lost, work>>
  BY DEF PurgeObject, TypeOK, OpRow, bin
<1>2. PICK o \in op[p].objs :
        IF Referring(p, o) # {} \/ object[o].st # "stored"
        THEN op' = [op EXCEPT ![p].objs = @ \ {o}] /\ blob' = blob
        ELSE /\ op' = [op EXCEPT ![p] = [@ EXCEPT !.objs = op[p].objs \ {o},
                                                  !.dead = op[p].dead \cup {o}]]
             /\ blob' \in {blob, blob \ {object[o].key}}
  BY DEF PurgeObject
<1>3. o \in Object /\ \E f \in op[p].ids : row[f].obj = o
  BY <1>1, <1>2 DEF PurgesApart
<1>4. /\ op'[p].pc = "objects" /\ op'[p].ids = op[p].ids /\ op'[p].objs = op[p].objs \ {o}
      /\ op'[p].dead \in {op[p].dead, op[p].dead \cup {o}}
      /\ \A q \in Op \ {p} : op'[q] = op[q]
  <2>1. CASE op' = [op EXCEPT ![p] = [@ EXCEPT !.objs = op[p].objs \ {o}]]
    BY <1>1, <2>1 DEF OpRow
  <2>2. CASE op' = [op EXCEPT ![p] = [@ EXCEPT !.objs = op[p].objs \ {o},
                                             !.dead = op[p].dead \cup {o}]]
    BY <1>1, <2>2 DEF OpRow
  <2>. QED  BY <1>2, <2>1, <2>2
<1>5. o \in op'[p].dead =>
        o \in op[p].dead \/ (Referring(p, o) = {} /\ object[o].st = "stored")
  BY <1>1, <1>2 DEF OpRow
<1>6. o \in op'[p].dead => \A f \in File : row[f].obj = o => f \in op[p].ids
  <2>1. CASE o \in op[p].dead
    BY <1>1, <2>1 DEF PurgesApart
  <2>2. CASE Referring(p, o) = {}
    <3>. SUFFICES ASSUME NEW f \in File, row[f].obj = o, f \notin op[p].ids
                  PROVE  FALSE
      OBVIOUS
    <3>1. Exists(f)
      BY <1>3, IdsAreDistinct DEF RowsWellFormed, TypeOK, Row, Exists, Key
    <3>. QED  BY <1>1, <2>2, <3>1 DEF Referring, Gone
  <2>. QED  BY <1>5, <2>1, <2>2
<1>7. \A q \in Op : Gone(q)' = Gone(q)
  BY <1>1, <1>4 DEF Gone
<1>8. \A x \in Object : x # o /\ x \in blob => x \in blob'
  BY <1>2, <1>3, IdsAreDistinct DEF KeysAreOwn
<1>9. blob' = blob \/ o \in op'[p].dead
  <2>1. CASE op' = [op EXCEPT ![p] = [@ EXCEPT !.objs = op[p].objs \ {o},
                                             !.dead = op[p].dead \cup {o}]]
    BY <1>1, <2>1 DEF OpRow
  <2>. QED  BY <1>2, <2>1
<1>10. \A x \in Object : Pending(x)' => Pending(x) /\ x # o
  <2>1. \A x \in Object : Pending(x)' => Pending(x)
    BY <1>1, <1>4 DEF Pending
  <2>. QED  BY <1>1, <1>3, <2>1 DEF PendingIsFresh
<1>11. PendingIsFresh'
  BY <1>1, <1>8, <1>10 DEF PendingIsFresh
<1>12. KeysAreOwn' /\ RowsStored'
  BY <1>1 DEF KeysAreOwn, RowsStored
<1>13. PendingApart'
  BY <1>1, <1>4 DEF PendingApart
<1>14. PurgesApart'
  <2>1. (\A q \in Op : op[q].pc # "objects" => op[q].dead = {})'
    BY <1>4 DEF PurgesApart
  <2>2. \A q \in Op \ {p} : op'[q].pc = "objects" =>
          (/\ \A f \in op[q].ids : Exists(f)
           /\ \A x \in op[q].objs \cup op[q].dead : \E f \in op[q].ids : row[f].obj = x
           /\ \A x \in op[q].dead, f \in File : row[f].obj = x => f \in op[q].ids)'
    BY <1>1, <1>4 DEF PurgesApart, Exists
  <2>3. (/\ \A f \in op[p].ids : Exists(f)
         /\ \A x \in op[p].objs \cup op[p].dead : \E f \in op[p].ids : row[f].obj = x
         /\ \A x \in op[p].dead, f \in File : row[f].obj = x => f \in op[p].ids)'
    BY <1>1, <1>3, <1>4, <1>6 DEF PurgesApart, Exists
  <2>4. (\A q, r \in Op : q # r => Gone(q) \cap Gone(r) = {})'
    BY <1>7 DEF PurgesApart
  <2>. QED  BY <2>1, <2>2, <2>3, <2>4 DEF PurgesApart
<1>15. BlobsKept'
  <2>. SUFFICES ASSUME NEW f \in File, row[f].obj # None, object[row[f].obj].key = row[f].obj,
                       row[f].obj \notin blob' \cup lost
                PROVE  \E q \in Op : f \in Gone(q)' /\ row[f].obj \in op'[q].dead
    BY <1>1 DEF BlobsKept
  <2>1. row[f].obj \in Object
    BY DEF TypeOK, Row
  <2>2. CASE row[f].obj \in blob
    BY <1>1, <1>4, <1>6, <1>8, <1>9, <2>1, <2>2 DEF Gone
  <2>3. CASE row[f].obj \notin blob
    <3>1. PICK q \in Op : f \in Gone(q) /\ row[f].obj \in op[q].dead
      BY <2>3 DEF BlobsKept
    <3>. QED  BY <1>4, <1>7, <3>1
  <2>. QED  BY <2>2, <2>3
<1>. QED  BY <1>11, <1>12, <1>13, <1>14, <1>15 DEF Stored

\* The commit takes away rows nobody else holds and objects nobody refers to.
LEMMA PurgeCommitStores ==
  ASSUME TreeInv, TypeOK', NEW p \in Op, PurgeCommit(p)
  PROVE  Stored'
<1>. USE DEF TreeInv
<1>1. /\ op[p].pc = "objects" /\ op[p].ids \subseteq File /\ op[p].dead \subseteq Object
      /\ UNCHANGED <<blob, lost, work>>
  BY DEF PurgeCommit, TypeOK, OpRow, bin
<1>2. /\ op'[p].pc = "idle" /\ op'[p].dead = {}
      /\ \A q \in Op \ {p} : op'[q] = op[q]
  BY DEF PurgeCommit, Return, TypeOK, IdleOp
<1>3. \A f \in File : IF f \in op[p].ids THEN row'[f].obj = None ELSE row'[f] = row[f]
  BY DEF PurgeCommit, Blank
<1>4. \A x \in Object : IF x \in op[p].dead THEN object'[x].st = "purged" ELSE object'[x] = object[x]
  BY DEF PurgeCommit
<1>5. \A f \in File : f \notin op[p].ids => row[f].obj \notin op[p].dead
  BY <1>1 DEF PurgesApart
<1>6. \A x \in Object : Pending(x)' => Pending(x)
  BY <1>1, <1>2 DEF Pending
<1>7. PendingIsFresh'
  <2>1. \A x \in op[p].dead : ~Pending(x)
    BY <1>1 DEF PendingIsFresh, PurgesApart
  <2>. QED  BY <1>1, <1>3, <1>4, <1>6, <2>1, IdsAreDistinct DEF PendingIsFresh, Key
<1>8. KeysAreOwn' /\ RowsStored'
  <2>1. KeysAreOwn'
    BY <1>4 DEF KeysAreOwn
  <2>2. RowsStored'
    BY <1>3, <1>4, <1>5 DEF RowsStored, TypeOK, Row
  <2>. QED  BY <2>1, <2>2
<1>9. PendingApart'
  BY <1>1, <1>2 DEF PendingApart
<1>10. Gone(p)' = {} /\ \A q \in Op \ {p} : Gone(q)' = Gone(q) /\ Gone(q) \cap op[p].ids = {}
  BY <1>1, <1>2 DEF Gone, PurgesApart
<1>11. PurgesApart'
  <2>1. (\A q \in Op : op[q].pc # "objects" => op[q].dead = {})'
    BY <1>2 DEF PurgesApart
  <2>2. ASSUME NEW q \in Op, op'[q].pc = "objects"
        PROVE  (/\ \A f \in op[q].ids : Exists(f)
                /\ \A x \in op[q].objs \cup op[q].dead : \E f \in op[q].ids : row[f].obj = x
                /\ \A x \in op[q].dead, f \in File : row[f].obj = x => f \in op[q].ids)'
    <3>1. q # p /\ op'[q] = op[q] /\ op[q].ids \subseteq File /\ op[q].dead \subseteq Object
      BY <1>2, <2>2 DEF TypeOK, OpRow
    <3>2. op[q].ids \cap op[p].ids = {}
      BY <1>10, <2>2, <3>1 DEF Gone
    <3>3. \A f \in op[q].ids : row'[f] = row[f]
      BY <1>3, <3>1, <3>2
    <3>4. /\ \A f \in op[q].ids : Exists(f)
          /\ \A x \in op[q].objs \cup op[q].dead : \E f \in op[q].ids : row[f].obj = x
          /\ \A x \in op[q].dead, f \in File : row[f].obj = x => f \in op[q].ids
      BY <2>2, <3>1 DEF PurgesApart
    <3>5. None \notin op[q].dead
      BY <3>1, IdsAreDistinct DEF Key
    <3>. QED  BY <1>3, <3>1, <3>3, <3>4, <3>5 DEF Exists
  <2>3. (\A q, r \in Op : q # r => Gone(q) \cap Gone(r) = {})'
    BY <1>10 DEF PurgesApart
  <2>. QED  BY <2>1, <2>2, <2>3 DEF PurgesApart
<1>12. BlobsKept'
  <2>. SUFFICES ASSUME NEW f \in File, row'[f].obj # None, object'[row'[f].obj].key = row'[f].obj,
                       row'[f].obj \notin blob' \cup lost'
                PROVE  \E q \in Op : f \in Gone(q)' /\ row'[f].obj \in op'[q].dead
    BY DEF BlobsKept
  <2>1. f \notin op[p].ids /\ row'[f] = row[f] /\ object'[row[f].obj] = object[row[f].obj]
    BY <1>3, <1>4, <1>5 DEF TypeOK, Row
  <2>2. PICK q \in Op : f \in Gone(q) /\ row[f].obj \in op[q].dead
    BY <1>1, <2>1 DEF BlobsKept
  <2>3. q # p
    BY <1>1, <2>1, <2>2 DEF Gone
  <2>. QED  BY <1>2, <1>10, <2>1, <2>2, <2>3
<1>. QED  BY <1>7, <1>8, <1>9, <1>11, <1>12 DEF Stored

\* A request that dies gives its rows back; its deleted blobs are lost.
LEMMA CrashStores ==
  ASSUME TreeInv, TypeOK', NEW p \in Op, Crash(p)
  PROVE  Stored'
<1>. USE DEF TreeInv
<1>1. /\ lost' = lost \cup {object[o].key : o \in op[p].dead}
      /\ UNCHANGED <<row, object, blob, work>>
  BY DEF Crash, tree
<1>2. /\ op'[p].pc = "idle" /\ op'[p].dead = {}
      /\ \A q \in Op \ {p} : op'[q] = op[q]
  BY DEF Crash, Return, TypeOK, IdleOp
<1>3. \A x \in Object : Pending(x)' => Pending(x)
  BY <1>1, <1>2 DEF Pending
<1>4. PendingIsFresh' /\ KeysAreOwn' /\ RowsStored'
  BY <1>1, <1>3 DEF PendingIsFresh, KeysAreOwn, RowsStored
<1>5. PendingApart'
  BY <1>1, <1>2 DEF PendingApart
<1>6. Gone(p)' = {} /\ \A q \in Op \ {p} : Gone(q)' = Gone(q)
  BY <1>2 DEF Gone
<1>7. PurgesApart'
  <2>1. (\A q \in Op : op[q].pc # "objects" => op[q].dead = {})'
    BY <1>2 DEF PurgesApart
  <2>2. \A q \in Op : op'[q].pc = "objects" =>
          (/\ \A f \in op[q].ids : Exists(f)
           /\ \A x \in op[q].objs \cup op[q].dead : \E f \in op[q].ids : row[f].obj = x
           /\ \A x \in op[q].dead, f \in File : row[f].obj = x => f \in op[q].ids)'
    BY <1>1, <1>2 DEF PurgesApart, Exists
  <2>3. (\A q, r \in Op : q # r => Gone(q) \cap Gone(r) = {})'
    BY <1>6 DEF PurgesApart
  <2>. QED  BY <2>1, <2>2, <2>3 DEF PurgesApart
<1>8. BlobsKept'
  <2>. SUFFICES ASSUME NEW f \in File, row[f].obj # None, object[row[f].obj].key = row[f].obj,
                       row[f].obj \notin blob \cup lost'
                PROVE  \E q \in Op : f \in Gone(q)' /\ row[f].obj \in op'[q].dead
    BY <1>1 DEF BlobsKept
  <2>1. PICK q \in Op : f \in Gone(q) /\ row[f].obj \in op[q].dead
    BY <1>1 DEF BlobsKept
  <2>2. q # p
    BY <1>1, <2>1
  <2>. QED  BY <1>2, <1>6, <2>1, <2>2
<1>. QED  BY <1>4, <1>5, <1>7, <1>8 DEF Stored

-----------------------------------------------------------------------------
(* The invariant *)

\* The invariant holds of an empty tree and of an imported one.
LEMMA InitHolds ==
  ASSUME Init
  PROVE  TreeInv
<1>1. world \in World
  BY WorldsAreSo DEF Init
<1>2. PICK o \in Object :
       /\ row = [f \in File |-> IF f \in world.imported
                                  THEN [Blank EXCEPT !.st = "live", !.obj = o] ELSE Blank]
       /\ object = [x \in Object |-> IF x = o /\ world.imported # {}
                                       THEN [st |-> "stored", key |-> o]
                                       ELSE [st |-> "unused", key |-> None]]
       /\ blob = IF world.imported = {} THEN {} ELSE {o}
  BY DEF Init
<1>3. /\ \A p \in Op : op[p] = IdleOp
      /\ \A w \in Worker : work[w] = IdleWork
  BY DEF Init
<1>4. \A f \in File : /\ row[f].parent = Root
                      /\ row[f].obj \in {o, None}
                      /\ row[f].obj = o => row[f].st = "live" /\ world.imported # {}
  BY <1>2, IdsAreDistinct DEF Blank, Key
<1>5. \A x \in Object : object[x] = IF x = o /\ world.imported # {}
                                      THEN [st |-> "stored", key |-> o]
                                      ELSE [st |-> "unused", key |-> None]
  BY <1>2
<1>6. TypeOK
  <2>1. row \in [File -> Row]
    BY <1>2 DEF Row, Blank
  <2>2. object \in [Object -> ObjectRow] /\ blob \subseteq Key
    BY <1>2 DEF ObjectRow, Key
  <2>3. op \in [Op -> OpRow] /\ work \in [Worker -> WorkRow]
    BY DEF Init, OpRow, OpPC, IdleOp, WorkRow, IdleWork
  <2>. QED  BY <2>1, <2>2, <2>3, QueueHasRoom DEF Init, TypeOK
<1>7. RowsWellFormed /\ LocalsSet
  <2>1. RowsWellFormed
    <3>1. o # None
      BY IdsAreDistinct DEF Key
    <3>2. \A f \in File : row[f].st # "live" => row[f].obj = None
      BY <1>2 DEF Blank
    <3>. QED  BY <1>4, <3>2 DEF RowsWellFormed
  <2>2. LocalsSet
    <3>1. IdleWork.pc = "idle"
      BY DEF IdleWork
    <3>. QED  BY <1>3, <3>1 DEF LocalsSet
  <2>. QED  BY <2>1, <2>2
<1>8. PendingIsFresh /\ PendingApart
  BY <1>3 DEF PendingIsFresh, PendingApart, Pending, IdleOp, IdleWork
<1>9. KeysAreOwn /\ RowsStored
  BY <1>4, <1>5 DEF KeysAreOwn, RowsStored
<1>10. PurgesApart /\ BlobsKept
  <2>1. \A p \in Op : op[p].pc = "idle" /\ op[p].dead = {} /\ Gone(p) = {}
    BY <1>3 DEF Gone, IdleOp
  <2>2. PurgesApart
    BY <2>1 DEF PurgesApart
  <2>3. \A f \in File : row[f].obj # None => row[f].obj = o /\ o \in blob
    BY <1>2, <1>4
  <2>. QED  BY <2>2, <2>3 DEF BlobsKept
<1>11. MovesStaySafe
  BY <1>3 DEF MovesStaySafe, IdleOp
<1>12. OneMoverAcyclic
  BY <1>4, IdsAreDistinct DEF OneMoverAcyclic, LiveAcyclic
<1>. QED
  BY <1>6, <1>7, <1>8, <1>9, <1>10, <1>11, <1>12 DEF TreeInv

-----------------------------------------------------------------------------
(* One step of the tree *)

\* A step that only marks or deletes rows and starts no move keeps the tree.
LEMMA QuietTree ==
  ASSUME TreeInv, TypeOK', world' = world, RowsQuiet,
         \A p \in Op : op'[p].pc = "move" => op'[p] = op[p]
  PROVE  RowsWellFormed' /\ MovesStaySafe' /\ OneMoverAcyclic'
<1>1. \A f \in File : row'[f].st \in {"unused", "purged"} => row'[f].obj = None
  BY DEF TreeInv, RowsWellFormed, RowsQuiet, TypeOK, Row, Exists
<1>. QED  BY <1>1, ShrinkingKeeps DEF TreeInv, RowsQuiet

\* The check of a move sees the tree its update will start from.
LEMMA MoveStarts ==
  ASSUME TreeInv, TypeOK', NEW p \in Op, MoveCheck(p) \/ UpdateParent(p)
  PROVE  RowsWellFormed' /\ MovesStaySafe' /\ OneMoverAcyclic'
<1>. USE DEF TreeInv
<1>1. PICK ids \in SUBSET File, to \in File \cup {Root} :
        /\ op' = [op EXCEPT ![p] = [@ EXCEPT !.pc = "move", !.to = to, !.ids = ids]]
        /\ to # Root => Exists(to)
        /\ MoveCheck(p) /\ to # Root => to \notin LiveTree(ids)
  BY SelectionsAreSo DEF MoveCheck, UpdateParent
<1>2. /\ UNCHANGED <<world, row>>
      /\ op'[p].pc = "move" /\ op'[p].to = to /\ op'[p].ids = ids
      /\ \A q \in Op \ {p} : op'[q] = op[q]
  BY <1>1 DEF MoveCheck, UpdateParent, TypeOK, OpRow, tree
<1>3. RowsWellFormed' /\ OneMoverAcyclic'
  BY <1>2 DEF RowsWellFormed, OneMoverAcyclic, OneMover, LiveAcyclic, Live
<1>4. \A q \in Op : op'[q].pc = "move" /\ op'[q].to # Root => row'[op'[q].to].st # "unused"
  BY <1>1, <1>2 DEF MovesStaySafe, Exists
<1>5. \A q \in Op : op'[q].pc = "move" => world'.kinds[q] \cap {"move", "update"} # {}
  BY <1>2 DEF MovesStaySafe, MoveCheck, UpdateParent, Idle
<1>6. ASSUME OneMover, NEW q \in Op, op'[q].pc = "move"
      PROVE  op'[q].to \notin LiveTree(op'[q].ids)
  <2>1. CASE q = p
    <3>1. MoveCheck(p)
      BY <1>6 DEF OneMover, UpdateParent, Idle
    <3>2. Root \notin LiveTree(ids)
      BY IdsAreDistinct, LiveTreeIsClosed
    <3>. QED  BY <1>1, <1>2, <2>1, <3>1, <3>2
  <2>2. CASE q # p
    BY <1>2, <1>6, <2>2 DEF MovesStaySafe
  <2>. QED  BY <2>1, <2>2
<1>7. \A S : LiveTree(S)' = LiveTree(S)
  BY <1>2 DEF LiveTree, Closure, Live
<1>8. MovesStaySafe'
  BY <1>2, <1>4, <1>5, <1>6, <1>7 DEF MovesStaySafe, OneMover
<1>. QED  BY <1>3, <1>8

\* The update of a move.
LEMMA MoveEnds ==
  ASSUME TreeInv, TypeOK', NEW p \in Op, MoveWrite(p)
  PROVE  RowsWellFormed' /\ MovesStaySafe' /\ OneMoverAcyclic'
<1>1. /\ op[p].pc = "move" /\ op' = [op EXCEPT ![p] = IdleOp] /\ world' = world
      /\ row' = IF op[p].to # Root /\ ~Exists(op[p].to) THEN row
                ELSE [f \in File |-> IF f \in op[p].ids /\ Live(f)
                                       THEN [row[f] EXCEPT !.parent = op[p].to] ELSE row[f]]
  BY DEF MoveWrite, Return
<1>2. CASE op[p].to # Root /\ ~Exists(op[p].to)
  <2>1. RowsQuiet
    BY <1>1, <1>2, MarksAreQuiet DEF TreeInv
  <2>2. \A q \in Op : op'[q].pc = "move" => op'[q] = op[q]
    BY <1>1 DEF IdleOp, TreeInv, TypeOK
  <2>. QED  BY <1>1, <2>1, <2>2, QuietTree
<1>3. CASE op[p].to # Root => Exists(op[p].to)
  BY <1>1, <1>3, MoveKeeps DEF TreeInv
<1>. QED  BY <1>2, <1>3

\* The new row of a creation, or no row when its parent is gone.
LEMMA InsertGrows ==
  ASSUME TreeInv, TypeOK', world' = world, NEW f \in File, NEW to \in File \cup {Root},
         NEW o \in Object \cup {None}, Insert(f, to, o),
         \A q \in Op : op'[q].pc = "move" => op'[q] = op[q]
  PROVE  RowsWellFormed' /\ MovesStaySafe' /\ OneMoverAcyclic'
<1>1. CASE to # Root /\ ~Exists(to)
  <2>1. RowsQuiet
    BY <1>1, MarksAreQuiet DEF Insert, TreeInv
  <2>. QED  BY <2>1, QuietTree
<1>2. CASE to # Root => Exists(to)
  BY <1>2, GrowingKeeps DEF Insert, Exists, TreeInv
<1>. QED  BY <1>1, <1>2

\* Purged rows leave the tree.
LEMMA PurgeShrinks ==
  ASSUME TreeInv, TypeOK', NEW p \in Op, PurgeCommit(p)
  PROVE  RowsWellFormed' /\ MovesStaySafe' /\ OneMoverAcyclic'
<1>1. /\ op[p].pc = "objects" /\ op[p].ids \subseteq File /\ world' = world
      /\ row' = [f \in File |-> IF f \in op[p].ids THEN [Blank EXCEPT !.st = "purged"] ELSE row[f]]
  BY DEF PurgeCommit, TreeInv, TypeOK, OpRow
<1>2. \A q \in Op : op'[q].pc = "move" => op'[q] = op[q]
  BY DEF PurgeCommit, Return, IdleOp, TreeInv, TypeOK
<1>3. \A f \in op[p].ids : Exists(f)
  BY <1>1 DEF TreeInv, PurgesApart
<1>4. \A f \in File : /\ row'[f].st = "unused" <=> row[f].st = "unused"
                      /\ row'[f].st \in {"unused", "purged"} => row'[f].obj = None
                      /\ Live(f)' => Live(f) /\ row'[f].parent = row[f].parent
                      /\ row'[f].parent \in {row[f].parent, Root}
  BY <1>1, <1>3 DEF TreeInv, RowsWellFormed, Blank, Live, Exists
<1>. QED  BY <1>1, <1>2, <1>4, ShrinkingKeeps DEF TreeInv

\* Every step of a request keeps the tree.
LEMMA RequestKeepsTree ==
  ASSUME TreeInv, TypeOK', NEW p \in Op, Request(p) \/ Crash(p)
  PROVE  RowsWellFormed' /\ MovesStaySafe' /\ OneMoverAcyclic'
<1>. op \in [Op -> OpRow]
  BY DEF TreeInv, TypeOK
<1>1. ASSUME world' = world, op' = [op EXCEPT ![p] = op'[p]], op'[p].pc # "move",
             \/ row' = row
             \/ \E S : SoftDelete(S)
             \/ \E S : \E mark \in BOOLEAN : SetMarks(S, mark)
      PROVE  RowsWellFormed' /\ MovesStaySafe' /\ OneMoverAcyclic'
  <2>1. RowsQuiet
    BY <1>1, MarksAreQuiet DEF TreeInv
  <2>2. \A q \in Op : op'[q].pc = "move" => op'[q] = op[q]
    BY <1>1
  <2>. QED  BY <1>1, <2>1, <2>2, QuietTree
<1>2. ASSUME Return(p)
      PROVE  op' = [op EXCEPT ![p] = op'[p]] /\ op'[p].pc # "move"
  BY <1>2 DEF Return, IdleOp
<1>3. CASE Create(p) \/ ensureParent(p)
  <2>1. \/ op' = [op EXCEPT ![p].pc = "parent"]
        \/ \E o : op' = [op EXCEPT ![p] = [@ EXCEPT !.pc = "parent", !.obj = o]]
        \/ \E to : op' = [op EXCEPT ![p] = [@ EXCEPT !.pc = "insert", !.to = to]]
        \/ Return(p)
    BY <1>3 DEF Create, ensureParent
  <2>2. CASE op' = [op EXCEPT ![p].pc = "parent"]
    BY <1>1, <1>3, <2>2 DEF Create, ensureParent, tree, OpRow
  <2>3. CASE \E o : op' = [op EXCEPT ![p] = [@ EXCEPT !.pc = "parent", !.obj = o]]
    BY <1>1, <1>3, <2>3 DEF Create, ensureParent, tree, OpRow
  <2>4. CASE \E to : op' = [op EXCEPT ![p] = [@ EXCEPT !.pc = "insert", !.to = to]]
    BY <1>1, <1>3, <2>4 DEF Create, ensureParent, tree, OpRow
  <2>. QED  BY <1>1, <1>2, <1>3, <2>1, <2>2, <2>3, <2>4 DEF Create, ensureParent, tree
<1>4. CASE CreateInsert(p)
  <2>1. op[p].to \in File \cup {Root} /\ op[p].obj \in Object \cup {None}
    BY DEF OpRow
  <2>2. PICK f \in File : Insert(f, op[p].to, op[p].obj)
    BY <1>4 DEF CreateInsert
  <2>3. world' = world /\ \A q \in Op : op'[q].pc = "move" => op'[q] = op[q]
    BY <1>4 DEF CreateInsert, Return, IdleOp
  <2>. QED  BY <2>1, <2>2, <2>3, InsertGrows
<1>5. CASE MoveCheck(p) \/ UpdateParent(p) \/ MoveWrite(p) \/ PurgeCommit(p)
  BY <1>5, MoveStarts, MoveEnds, PurgeShrinks
<1>6. CASE DeleteRead(p)
  <2>1. op' = [op EXCEPT ![p] = op'[p]] /\ op'[p].pc # "move"
    BY <1>6 DEF DeleteRead, OpRow
  <2>. QED  BY <1>1, <1>6, <2>1 DEF DeleteRead, tree
<1>7. CASE PurgeRead(p)
  <2>1. op' = [op EXCEPT ![p] = op'[p]] /\ op'[p].pc # "move"
    BY <1>7 DEF PurgeRead, OpRow
  <2>. QED  BY <1>1, <1>7, <2>1 DEF PurgeRead, tree
<1>8. CASE DeleteWrite(p) \/ Crash(p)
  BY <1>1, <1>2, <1>8 DEF DeleteWrite, Crash, tree
<1>9. CASE PurgeDelete(p)
  <2>1. op' = [op EXCEPT ![p] = op'[p]] /\ op'[p].pc # "move"
    BY <1>2, <1>9 DEF PurgeDelete, OpRow
  <2>. QED  BY <1>1, <1>9, <2>1 DEF PurgeDelete, tree
<1>10. CASE PurgeObject(p)
  <2>1. op' = [op EXCEPT ![p] = op'[p]] /\ op'[p].pc # "move"
    BY <1>10 DEF PurgeObject, OpRow
  <2>. QED  BY <1>1, <1>10, <2>1 DEF PurgeObject
<1>11. CASE RecycleBatch(p) \/ RestoreBatch(p)
  <2>1. op' = [op EXCEPT ![p] = op'[p]] /\ op'[p].pc # "move"
    BY <1>11 DEF RecycleBatch, RestoreBatch, MarkRecycled, OpRow
  <2>. QED  BY <1>1, <1>11, <2>1 DEF RecycleBatch, RestoreBatch, MarkRecycled
<1>12. CASE Publish(p)
  <2>1. op' = [op EXCEPT ![p] = op'[p]] /\ op'[p].pc # "move"
    BY <1>12 DEF Publish, OpRow, IdleOp
  <2>. QED  BY <1>1, <1>12, <2>1 DEF Publish, tree
<1>13. CASE PurgeRecycleBin(p)
  BY <1>1, <1>13 DEF PurgeRecycleBin, Idle
<1>. QED
  BY <1>3, <1>4, <1>5, <1>6, <1>7, <1>8, <1>9, <1>10, <1>11, <1>12, <1>13 DEF Request

\* So does every step of a worker.
LEMMA WorkKeepsTree ==
  ASSUME TreeInv, TypeOK', (\E w \in Worker : Work(w) \/ WorkCrash(w)) \/ ActionsLost
  PROVE  RowsWellFormed' /\ MovesStaySafe' /\ OneMoverAcyclic'
<1>1. world' = world /\ op' = op
  BY DEF Work, WorkCrash, ActionsLost, DeriveStart, DerivePut, DeriveObject, DeriveInsert,
     TakeAction, ApplyAction
<1>2. ASSUME \/ row' = row
             \/ \E S : \E mark \in BOOLEAN : SetMarks(S, mark)
      PROVE  RowsWellFormed' /\ MovesStaySafe' /\ OneMoverAcyclic'
  <2>1. RowsQuiet
    BY <1>2, MarksAreQuiet DEF TreeInv
  <2>. QED  BY <1>1, <2>1, QuietTree
<1>3. ASSUME NEW w \in Worker, ApplyAction(w)
      PROVE  RowsWellFormed' /\ MovesStaySafe' /\ OneMoverAcyclic'
  BY <1>2, <1>3 DEF ApplyAction, TreeInv, TypeOK, Action
<1>4. ASSUME NEW w \in Worker, DeriveInsert(w)
      PROVE  RowsWellFormed' /\ MovesStaySafe' /\ OneMoverAcyclic'
  <2>1. work[w].f \in File /\ work[w].obj \in Object
    BY <1>4 DEF DeriveInsert, TreeInv, TypeOK, WorkRow, LocalsSet
  <2>2. CASE \E g \in File : Insert(g, work[w].f, work[w].obj)
    BY <1>1, <2>1, <2>2, InsertGrows
  <2>. QED  BY <1>2, <1>4, <2>2 DEF DeriveInsert
<1>. QED
  BY <1>2, <1>3, <1>4
  DEF Work, WorkCrash, ActionsLost, DeriveStart, DerivePut, DeriveObject, TakeAction, tree

-----------------------------------------------------------------------------
(* One step of the store *)

\* A request that purges nothing and stores nothing leaves the store as it is.
LEMMA QuietStore ==
  ASSUME TreeInv, TypeOK', NEW p \in Op, OpQuiet(p), UNCHANGED <<object, blob, lost, work>>,
         \A f \in File : row'[f].obj = row[f].obj /\ (Exists(f)' <=> Exists(f))
  PROVE  Stored'
<1>1. op[p].dead = {}
  BY DEF TreeInv, PurgesApart, OpQuiet
<1>2. Undisturbing
  BY <1>1 DEF OpQuiet, Undisturbing
<1>. QED  BY <1>2, UndisturbingKeeps DEF TreeInv, Stored

\* The row of an upload, or of a folder, or no row.
LEMMA CreateInsertStores ==
  ASSUME TreeInv, TypeOK', NEW p \in Op, CreateInsert(p)
  PROVE  Stored'
<1>. USE DEF TreeInv
<1>1. /\ op[p].pc = "insert" /\ Return(p) /\ UNCHANGED <<object, blob, lost, work>>
      /\ op[p].obj \in Object \cup {None} /\ op \in [Op -> OpRow]
  BY DEF CreateInsert, store, TypeOK, OpRow
<1>2. PICK f \in File : Insert(f, op[p].to, op[p].obj)
  BY DEF CreateInsert
<1>3. CASE row' = row
  BY <1>1, <1>3, QuietOp, QuietStore DEF Exists
<1>4. CASE row' # row
  <2>1. /\ row[f].st = "unused"
        /\ row' = [row EXCEPT ![f] = [Blank EXCEPT !.st = "live", !.parent = op[p].to,
                                                   !.obj = op[p].obj]]
    BY <1>2, <1>4 DEF Insert
  <2>2. /\ op'[p].pc = "idle" /\ op'[p].dead = {}
        /\ \A q \in Op \ {p} : op'[q] = op[q]
    BY <1>1 DEF Return, IdleOp
  <2>3. op[p].obj # None => Pending(op[p].obj)
    BY <1>1 DEF Pending
  <2>4. \A x \in Object : Pending(x)' => Pending(x) /\ x # op[p].obj
    <3>. SUFFICES ASSUME NEW x \in Object, Pending(x)'
                  PROVE  Pending(x) /\ x # op[p].obj
      OBVIOUS
    <3>0. x # None
      BY IdsAreDistinct DEF Key
    <3>1. CASE \E q \in Op : op'[q].pc \in {"parent", "insert"} /\ op'[q].obj = x
      BY <1>1, <2>2, <3>0, <3>1 DEF Pending, PendingApart
    <3>2. CASE \E w \in Worker : work'[w].pc = "insert" /\ work'[w].obj = x
      BY <1>1, <3>2 DEF Pending, PendingApart
    <3>. QED  BY <3>1, <3>2 DEF Pending
  <2>5. PendingApart'
    BY <1>1, <2>2 DEF PendingApart
  <2>6. \A q \in Op : /\ op'[q].pc = "objects" <=> op[q].pc = "objects"
                      /\ op[q].pc = "objects" => op'[q] = op[q]
                      /\ op'[q].pc # "objects" => op'[q].dead = {}
    BY <1>1, <2>2 DEF PurgesApart
  <2>. QED  BY <1>1, <2>1, <2>3, <2>4, <2>5, <2>6, InsertStores
<1>. QED  BY <1>3, <1>4

\* The row of a derivative, or no row.
LEMMA DeriveInsertStores ==
  ASSUME TreeInv, TypeOK', NEW w \in Worker, DeriveInsert(w)
  PROVE  Stored'
<1>. USE DEF TreeInv
<1>1. /\ work[w].pc = "insert" /\ work[w].obj \in Object /\ UNCHANGED <<object, blob, lost, op>>
      /\ work'[w].pc = "idle" /\ \A v \in Worker \ {w} : work'[v] = work[v]
  BY DEF DeriveInsert, store, TypeOK, WorkRow, IdleWork, LocalsSet
<1>2. \A q \in Op : op[q].pc # "objects" => op[q].dead = {}
  BY DEF PurgesApart
<1>3. CASE row' = row
  <2>1. Undisturbing
    BY <1>1, <1>3 DEF Undisturbing, Exists
  <2>. QED  BY <2>1, UndisturbingKeeps DEF Stored
<1>4. CASE row' # row
  <2>1. PICK g \in File :
          /\ row[g].st = "unused"
          /\ row' = [row EXCEPT ![g] = [Blank EXCEPT !.st = "live", !.parent = work[w].f,
                                                     !.obj = work[w].obj]]
    BY <1>4 DEF DeriveInsert, Insert
  <2>2. Pending(work[w].obj)
    BY <1>1 DEF Pending
  <2>3. \A x \in Object : Pending(x)' => Pending(x) /\ x # work[w].obj
    <3>. SUFFICES ASSUME NEW x \in Object, Pending(x)'
                  PROVE  Pending(x) /\ x # work[w].obj
      OBVIOUS
    <3>1. CASE \E q \in Op : op'[q].pc \in {"parent", "insert"} /\ op'[q].obj = x
      BY <1>1, <3>1 DEF Pending, PendingApart
    <3>2. CASE \E v \in Worker : work'[v].pc = "insert" /\ work'[v].obj = x
      BY <1>1, <3>2 DEF Pending, PendingApart
    <3>. QED  BY <3>1, <3>2 DEF Pending
  <2>4. PendingApart'
    BY <1>1 DEF PendingApart
  <2>5. \A q \in Op : /\ op'[q].pc = "objects" <=> op[q].pc = "objects"
                      /\ op[q].pc = "objects" => op'[q] = op[q]
                      /\ op'[q].pc # "objects" => op'[q].dead = {}
    BY <1>1, <1>2
  <2>6. UNCHANGED <<object, blob, lost>> /\ work[w].obj \in Object \cup {None}
    BY <1>1
  <2>. QED  BY <2>1, <2>2, <2>3, <2>4, <2>5, <2>6, InsertStores
<1>. QED  BY <1>3, <1>4

\* Every step of a request keeps what the store has.
LEMMA RequestKeepsStore ==
  ASSUME TreeInv, TypeOK', LocalsSet', NEW p \in Op, Request(p) \/ Crash(p)
  PROVE  Stored'
<1>1. ASSUME OpQuiet(p), UNCHANGED <<object, blob, lost, work>>,
             \/ row' = row
             \/ \E S : SoftDelete(S)
             \/ \E S : \E mark \in BOOLEAN : SetMarks(S, mark)
      PROVE  Stored'
  <2>1. RowsQuiet
    BY <1>1, MarksAreQuiet DEF TreeInv
  <2>. QED  BY <1>1, <2>1, QuietStore DEF RowsQuiet
<1>2. CASE Create(p) \/ CreateInsert(p)
  BY <1>2, CreateStores, CreateInsertStores
<1>3. CASE PurgeDelete(p) \/ PurgeObject(p) \/ PurgeCommit(p) \/ Crash(p)
  BY <1>3, PurgeDeleteStores, PurgeObjectStores, PurgeCommitStores, CrashStores
<1>4. CASE ensureParent(p) \/ MoveCheck(p) \/ UpdateParent(p) \/ DeleteRead(p) \/ PurgeRead(p)
           \/ Publish(p)
  <2>1. OpQuiet(p)
    BY <1>4, QuietOp
  <2>. QED
    BY <1>1, <1>4, <2>1
    DEF ensureParent, MoveCheck, UpdateParent, DeleteRead, PurgeRead, Publish, tree, bin
<1>5. CASE MoveWrite(p)
  <2>1. \A f \in File : row'[f].obj = row[f].obj /\ (Exists(f)' <=> Exists(f))
    BY <1>5 DEF MoveWrite, Exists, TreeInv, TypeOK, Row
  <2>. QED  BY <1>5, <2>1, QuietOp, QuietStore DEF MoveWrite, store
<1>6. CASE DeleteWrite(p) \/ PurgeRecycleBin(p)
  BY <1>1, <1>6, QuietOp DEF DeleteWrite, PurgeRecycleBin, store
<1>7. CASE RecycleBatch(p) \/ RestoreBatch(p)
  <2>1. OpQuiet(p)
    BY <1>7, QuietOp
  <2>2. UNCHANGED <<object, blob, lost, work>> /\ \E S : \E mark \in BOOLEAN : SetMarks(S, mark)
    BY <1>7 DEF RecycleBatch, RestoreBatch, MarkRecycled, store
  <2>. QED  BY <1>1, <2>1, <2>2
<1>. QED
  BY <1>2, <1>3, <1>4, <1>5, <1>6, <1>7 DEF Request

\* So does every step of a worker.
LEMMA WorkKeepsStore ==
  ASSUME TreeInv, TypeOK', (\E w \in Worker : Work(w) \/ WorkCrash(w)) \/ ActionsLost
  PROVE  Stored'
<1>1. ASSUME NEW w \in Worker, DeriveObject(w) \/ DeriveInsert(w)
      PROVE  Stored'
  BY <1>1, DeriveStores, DeriveInsertStores
<1>2. ASSUME op' = op, object' = object, blob \subseteq blob', lost' = lost, RowsQuiet,
             \A v \in Worker : work'[v].pc = "insert" => work'[v] = work[v]
      PROVE  Stored'
  <2>1. Undisturbing
    BY <1>2 DEF Undisturbing, RowsQuiet
  <2>. QED  BY <2>1, UndisturbingKeeps DEF TreeInv, Stored
<1>3. row' = row => RowsQuiet
  BY MarksAreQuiet DEF TreeInv
<1>4. ASSUME NEW w \in Worker, DeriveStart(w) \/ DerivePut(w)
      PROVE  Stored'
  <2>1. work \in [Worker -> WorkRow]
    BY DEF TreeInv, TypeOK
  <2>2. \A v \in Worker : work'[v].pc = "insert" => work'[v] = work[v]
    BY <1>4, <2>1 DEF DeriveStart, DerivePut, WorkRow
  <2>. QED  BY <1>2, <1>3, <1>4, <2>2 DEF DeriveStart, DerivePut, tree
<1>5. ASSUME NEW w \in Worker, WorkCrash(w)
      PROVE  Stored'
  <2>1. \A v \in Worker : work'[v].pc = "insert" => work'[v] = work[v]
    BY <1>5 DEF WorkCrash, IdleWork, TreeInv, TypeOK
  <2>. QED  BY <1>2, <1>3, <1>5, <2>1 DEF WorkCrash, tree
<1>6. ASSUME NEW w \in Worker, ApplyAction(w)
      PROVE  Stored'
  <2>1. RowsQuiet
    BY <1>6, MarksAreQuiet DEF ApplyAction, TreeInv, TypeOK, Action
  <2>. QED  BY <1>2, <1>6, <2>1 DEF ApplyAction, store
<1>7. ASSUME ActionsLost \/ \E w \in Worker : TakeAction(w)
      PROVE  Stored'
  BY <1>2, <1>3, <1>7 DEF ActionsLost, TakeAction, tree
<1>. QED  BY <1>1, <1>4, <1>5, <1>6, <1>7 DEF Work

\* A step that changes nothing keeps the invariant.
LEMMA StutterKeeps ==
  ASSUME TreeInv, UNCHANGED vars
  PROVE  TreeInv'
<1>. USE DEF vars, TreeInv
<1>1. TypeOK' /\ LocalsSet'
  BY DEF TypeOK, LocalsSet
<1>2. Stored'
  BY DEF Stored, PendingIsFresh, PendingApart, Pending, KeysAreOwn, RowsStored, PurgesApart,
         BlobsKept, Gone, Exists
<1>3. RowsWellFormed' /\ MovesStaySafe' /\ OneMoverAcyclic'
  <2>1. RowsQuiet
    BY MarksAreQuiet
  <2>. QED  BY <1>1, <2>1, QuietTree
<1>. QED  BY <1>1, <1>2, <1>3 DEF Stored

\* Every step keeps what it says of rows, objects and requests.
LEMMA NextHolds ==
  ASSUME TreeInv, Next
  PROVE  TreeInv'
<1>1. TypeOK'
  <2>1. TypeOK
    BY DEF TreeInv
  <2>2. ASSUME NEW p \in Op, Request(p)
        PROVE  TypeOK'
    BY <2>1, <2>2, RequestTypes
  <2>3. CASE \/ \E p \in Op : Crash(p)
             \/ \E w \in Worker : Work(w) \/ WorkCrash(w)
             \/ ActionsLost
    BY <2>3, OtherTypes
  <2>. QED  BY <2>2, <2>3 DEF Next
<1>2. LocalsSet'
  BY <1>1, LocalsKept
<1>3. Stored'
  BY <1>1, <1>2, RequestKeepsStore, WorkKeepsStore DEF Next
<1>4. RowsWellFormed' /\ MovesStaySafe' /\ OneMoverAcyclic'
  BY <1>1, RequestKeepsTree, WorkKeepsTree DEF Next
<1>. QED  BY <1>1, <1>2, <1>3, <1>4 DEF TreeInv, Stored

-----------------------------------------------------------------------------
(* The recycle bin *)

\* A step that writes no mark, publishes nothing and applies nothing.
MarksLeft ==
  /\ UNCHANGED <<world, queue, hand, wish>>
  /\ \A f \in File :
       /\ row'[f].st = "unused" => row[f].st = "unused"
       /\ row'[f].st = "live" =>
            \/ row[f].st = "live" /\ row'[f].marked = row[f].marked
            \/ row[f].st = "unused" /\ ~row'[f].marked
  /\ \A p \in Op :
       /\ op'[p].pc = "publish" => op'[p] = op[p]
       /\ op[p].pc = "publish" => op'[p].pc = "publish"
       /\ op'[p].pc # "idle" => op[p].pc # "idle" \/ world.kinds[p] # {}

LEMMA MarksLeftKeep ==
  ASSUME TreeInv, MarksSettle, MarksLeft
  PROVE  MarksSettle'
<1>1. SUFFICES ASSUME InOrder
               PROVE  /\ LastIsWish' /\ \A p \in Op : op'[p].pc # "idle" => world.kinds[p] # {}
                      /\ \A f \in wish : row'[f].st # "unused"
  BY DEF MarksSettle, MarksLeft, InOrder
<1>2. /\ LastIsWish /\ \A p \in Op : op[p].pc # "idle" => world.kinds[p] # {}
      /\ \A f \in wish : f \in File /\ row[f].st # "unused"
  BY <1>1 DEF MarksSettle, TreeInv, TypeOK
<1>3. \A f : Publishing(f)' <=> Publishing(f)
  BY DEF MarksLeft, Publishing
<1>4. \A f : (Queued(f)' <=> Queued(f)) /\ (InHand(f)' <=> InHand(f))
  BY DEF MarksLeft, Queued, InHand
<1>5. LastIsWish'
  <2>1. \A p \in Op : op'[p].pc = "publish" => \A f \in op'[p].ids : op'[p].mark <=> f \in wish'
    BY <1>2 DEF MarksLeft, LastIsWish
  <2>2. ASSUME NEW i \in 1 .. Len(queue), NEW f, f = queue[i].file, ~Publishing(f)',
               \A j \in i + 1 .. Len(queue) : queue[j].file # f
        PROVE  queue[i].mark <=> f \in wish
    BY <1>2, <1>3, <2>2 DEF LastIsWish
  <2>3. ASSUME NEW w \in Worker, hand[w] # None, NEW f, f = hand[w].file, ~Publishing(f)', ~Queued(f)'
        PROVE  hand[w].mark <=> f \in wish
    BY <1>2, <1>3, <1>4, <2>3 DEF LastIsWish
  <2>4. ASSUME NEW f \in File, Live(f)', ~Publishing(f)', ~Queued(f)', ~InHand(f)'
        PROVE  row'[f].marked <=> f \in wish'
    BY <1>2, <1>3, <1>4, <2>4 DEF MarksLeft, LastIsWish, Live, TreeInv, TypeOK, Row
  <2>5. UNCHANGED <<queue, hand, wish>>  BY DEF MarksLeft
  <2>. HIDE DEF MarksLeft
  <2>6. (\A i \in 1 .. Len(queue) : LET f == queue[i].file IN
          ~Publishing(f) /\ (\A j \in i + 1 .. Len(queue) : queue[j].file # f)
            => (queue[i].mark <=> f \in wish))'
    BY <2>2, <2>5 DEF Publishing
  <2>7. (\A w \in Worker : hand[w] # None =>
          LET f == hand[w].file IN ~Publishing(f) /\ ~Queued(f) => (hand[w].mark <=> f \in wish))'
    BY <2>3, <2>5 DEF Publishing, Queued
  <2>. QED  BY <2>1, <2>4, <2>6, <2>7 DEF LastIsWish
<1>. QED  BY <1>2, <1>5 DEF MarksLeft, TreeInv, TypeOK

\* Every row that is live afterwards keeps its mark or is new and has none.
RowsAside ==
  \A f \in File :
    /\ row'[f].st = "unused" => row[f].st = "unused"
    /\ row'[f].st = "live" => \/ row[f].st = "live" /\ row'[f].marked = row[f].marked
                              \/ row[f].st = "unused" /\ ~row'[f].marked

LEMMA InsertAside ==
  ASSUME TreeInv, NEW f \in File, NEW to, NEW o, Insert(f, to, o)
  PROVE  RowsAside
BY DEF Insert, RowsAside, Blank, TreeInv, TypeOK

\* What a request that is not about the bin leaves alone, and when it starts.
LEMMA RequestScope ==
  ASSUME TypeOK, NEW p \in Op, Request(p), ~RecycleBatch(p), ~RestoreBatch(p), ~Publish(p)
  PROVE  /\ UNCHANGED <<world, queue, hand, wish>>
         /\ \A q \in Op : q # p => op'[q] = op[q]
         /\ op[p].pc # "publish"
         /\ op[p].pc # "idle" \/ world.kinds[p] # {}
<1>. op \in [Op -> OpRow]
  BY DEF TypeOK
<1>1. CASE Create(p)  BY <1>1, Zenon DEF Create, bin, Idle, store
<1>2. CASE ensureParent(p)  BY <1>2, Zenon DEF ensureParent, bin, Return, tree
<1>3. CASE CreateInsert(p)  BY <1>3, Zenon DEF CreateInsert, bin, Return
<1>4. CASE MoveCheck(p)  BY <1>4, Zenon DEF MoveCheck, bin, Idle, tree
<1>5. CASE UpdateParent(p)  BY <1>5, Zenon DEF UpdateParent, bin, Idle, tree
<1>6. CASE MoveWrite(p)  BY <1>6, Zenon DEF MoveWrite, bin, Return
<1>7. CASE DeleteRead(p)  BY <1>7, Zenon DEF DeleteRead, bin, Idle, tree
<1>8. CASE DeleteWrite(p)  BY <1>8, Zenon DEF DeleteWrite, bin, Return
<1>9. CASE PurgeRead(p)  BY <1>9, Zenon DEF PurgeRead, bin, Idle, tree
<1>10. CASE PurgeDelete(p)  BY <1>10, Zenon DEF PurgeDelete, bin, Return, tree
<1>11. CASE PurgeObject(p)  BY <1>11, Zenon DEF PurgeObject, bin
<1>12. CASE PurgeCommit(p)  BY <1>12, Zenon DEF PurgeCommit, bin, Return
<1>13. CASE PurgeRecycleBin(p)  BY <1>13, Zenon DEF PurgeRecycleBin, bin, Idle
<1>. QED
  BY <1>1, <1>2, <1>3, <1>4, <1>5, <1>6, <1>7, <1>8, <1>9, <1>10, <1>11, <1>12, <1>13 DEF Request

\* It does not come to publish anything.
LEMMA RequestUnpublished ==
  ASSUME TypeOK, NEW p \in Op, Request(p), ~RecycleBatch(p), ~RestoreBatch(p), ~Publish(p)
  PROVE  op'[p].pc # "publish"
<1>. op \in [Op -> OpRow]
  BY DEF TypeOK
<1>1. CASE Return(p)
  BY <1>1 DEF Return, IdleOp
<1>2. CASE PurgeRecycleBin(p)
  BY <1>2, RequestScope DEF PurgeRecycleBin
<1>3. CASE PurgeObject(p)
  BY <1>3 DEF PurgeObject, OpRow
<1>4. CASE PurgeDelete(p)
  BY <1>1, <1>4 DEF PurgeDelete, OpRow
<1>5. CASE ensureParent(p)
  <2>1. \/ Return(p)
        \/ \E to : op' = [op EXCEPT ![p] = [@ EXCEPT !.pc = "insert", !.to = to]]
    BY <1>5 DEF ensureParent
  <2>2. CASE ~Return(p)
    <3>1. PICK to : op' = [op EXCEPT ![p] = [@ EXCEPT !.pc = "insert", !.to = to]]
      BY <2>1, <2>2
    <3>. QED  BY <3>1 DEF OpRow
  <2>. QED  BY <1>1, <2>2
<1>6. CASE Create(p)
  <2>1. \/ op' = [op EXCEPT ![p].pc = "parent"]
        \/ \E o : op' = [op EXCEPT ![p] = [@ EXCEPT !.pc = "parent", !.obj = o]]
    BY <1>6 DEF Create
  <2>2. CASE op' = [op EXCEPT ![p].pc = "parent"]
    BY <2>2 DEF OpRow
  <2>3. CASE op' # [op EXCEPT ![p].pc = "parent"]
    <3>1. PICK o : op' = [op EXCEPT ![p] = [@ EXCEPT !.pc = "parent", !.obj = o]]
      BY <2>1, <2>3
    <3>. QED  BY <3>1 DEF OpRow
  <2>. QED  BY <2>2, <2>3
<1>7. CASE MoveCheck(p) \/ UpdateParent(p)
  <2>1. PICK ids, to : op' = [op EXCEPT ![p] = [@ EXCEPT !.pc = "move", !.to = to, !.ids = ids]]
    BY <1>7 DEF MoveCheck, UpdateParent
  <2>. QED  BY <2>1 DEF OpRow
<1>8. CASE DeleteRead(p)
  <2>1. PICK ids : op' = [op EXCEPT ![p] = [@ EXCEPT !.pc = "delete", !.ids = ids]]
    BY <1>8 DEF DeleteRead
  <2>. QED  BY <2>1 DEF OpRow
<1>9. CASE PurgeRead(p)
  <2>1. PICK f, ids : op' = [op EXCEPT ![p] = [@ EXCEPT !.pc = "purge", !.f = f, !.ids = ids]]
    BY <1>9 DEF PurgeRead
  <2>. QED  BY <2>1 DEF OpRow
<1>. QED
  BY <1>1, <1>2, <1>3, <1>4, <1>5, <1>6, <1>7, <1>8, <1>9 DEF Request, CreateInsert, MoveWrite,
     DeleteWrite, PurgeCommit

\* Such a request leaves the marks to others.
LEMMA RequestAside ==
  ASSUME TreeInv, NEW p \in Op, Request(p),
         ~RecycleBatch(p), ~RestoreBatch(p), ~Publish(p)
  PROVE  MarksLeft
<1>. row \in [File -> Row]
  BY DEF TreeInv, TypeOK
<1>1. RowsAside
  <2>1. CASE row' = row
    BY <2>1 DEF RowsAside
  <2>2. CASE CreateInsert(p)
    BY <2>2, InsertAside DEF CreateInsert
  <2>3. CASE MoveWrite(p)
    BY <2>3 DEF MoveWrite, RowsAside, Row
  <2>4. CASE DeleteWrite(p) \/ PurgeRecycleBin(p)
    BY <2>4 DEF DeleteWrite, PurgeRecycleBin, SoftDelete, RowsAside, Row
  <2>5. CASE PurgeCommit(p)
    BY <2>5 DEF PurgeCommit, RowsAside, Row, Blank
  <2>6. CASE \/ Create(p) \/ ensureParent(p) \/ MoveCheck(p) \/ UpdateParent(p)
             \/ DeleteRead(p) \/ PurgeRead(p) \/ PurgeDelete(p) \/ PurgeObject(p)
    <3>1. row' = row
      BY <2>6, Zenon DEF Create, ensureParent, MoveCheck, UpdateParent, DeleteRead, PurgeRead,
         PurgeDelete, PurgeObject, tree
    <3>. QED  BY <2>1, <3>1
  <2>. QED
    BY <2>2, <2>3, <2>4, <2>5, <2>6 DEF Request
<1>2. TypeOK
  BY DEF TreeInv
<1>. QED  BY <1>1, <1>2, RequestScope, RequestUnpublished DEF MarksLeft, RowsAside

\* So are the steps that make derivatives.
LEMMA DeriveAside ==
  ASSUME TreeInv, NEW w \in Worker,
         DeriveStart(w) \/ DerivePut(w) \/ DeriveObject(w) \/ DeriveInsert(w)
  PROVE  MarksLeft
<1>1. UNCHANGED <<world, op, queue, hand, wish>>
  <2>1. DeriveStart(w) => UNCHANGED <<world, op, queue, hand, wish, row>>
    BY Zenon DEF DeriveStart, bin, tree
  <2>2. DerivePut(w) => UNCHANGED <<world, op, queue, hand, wish, row>>
    BY Zenon DEF DerivePut, bin
  <2>3. DeriveObject(w) => UNCHANGED <<world, op, queue, hand, wish, row>>
    BY Zenon DEF DeriveObject, bin
  <2>4. DeriveInsert(w) => UNCHANGED <<world, op, queue, hand, wish>>
    BY Zenon DEF DeriveInsert, bin
  <2>. QED  BY <2>1, <2>2, <2>3, <2>4
<1>2. RowsAside
  <2>1. CASE row' = row  BY <2>1 DEF RowsAside
  <2>2. CASE row' # row
    <3>1. DeriveInsert(w)
      BY <2>2, Zenon DEF DeriveStart, DerivePut, DeriveObject, tree
    <3>. QED  BY <2>2, <3>1, InsertAside DEF DeriveInsert
  <2>. QED  BY <2>1, <2>2
<1>. QED  BY <1>1, <1>2 DEF MarksLeft, RowsAside

-----------------------------------------------------------------------------
(* Marks in flight *)

\* A recycle or restore request marks the files, takes them for its owner's wish
\* and has an action to publish for each of them.
LEMMA MarkKeeps ==
  ASSUME TreeInv, TypeOK', MarksSettle, NEW p \in Op, NEW kind, NEW mark \in BOOLEAN,
         MarkRecycled(p, kind, mark)
  PROVE  MarksSettle'
<1>. op \in [Op -> OpRow] /\ row \in [File -> Row] /\ wish \subseteq File
  BY DEF TreeInv, TypeOK
<1>1. PICK ids \in Selection :
        /\ \A f \in ids : Live(f)
        /\ SetMarks(ids, mark)
        /\ wish' = IF mark THEN wish \cup ids ELSE wish \ ids
        /\ op' = [op EXCEPT ![p] = [@ EXCEPT !.pc = "publish", !.ids = ids, !.mark = mark]]
  BY DEF MarkRecycled
<1>2. op[p].pc = "idle" /\ world.kinds[p] # {} /\ UNCHANGED <<world, queue, hand>>
  BY DEF MarkRecycled, Idle
<1>3. ids \subseteq File
  BY SelectionsAreSo
<1>4. /\ op'[p].pc = "publish" /\ op'[p].ids = ids /\ op'[p].mark = mark
      /\ \A q \in Op : q # p => op'[q] = op[q]
  BY <1>1 DEF OpRow
<1>5. SUFFICES ASSUME InOrder
               PROVE  /\ LastIsWish' /\ \A q \in Op : op'[q].pc # "idle" => world.kinds[q] # {}
                      /\ \A f \in wish' : row'[f].st # "unused"
  BY <1>2 DEF MarksSettle, InOrder
<1>6. /\ LastIsWish /\ \A q \in Op : op[q].pc # "idle" => world.kinds[q] # {}
      /\ \A f \in wish : row[f].st # "unused"
  BY <1>5 DEF MarksSettle
<1>7. \A q \in Op : q # p => op[q].pc = "idle"
  BY <1>2, <1>5, <1>6 DEF InOrder
<1>8. \A f : (Publishing(f)' <=> f \in ids) /\ ~Publishing(f)
  BY <1>2, <1>4, <1>7 DEF Publishing
<1>9. \A f : (Queued(f)' <=> Queued(f)) /\ (InHand(f)' <=> InHand(f))
  BY <1>2 DEF Queued, InHand
<1>10. \A f : f \notin ids => (f \in wish' <=> f \in wish)
  BY <1>1
<1>11. \A f \in File : /\ row'[f].st = row[f].st
                       /\ f \notin ids => row'[f] = row[f]
  BY <1>1 DEF SetMarks, Row
<1>12. LastIsWish'
  <2>1. \A q \in Op : op'[q].pc = "publish" => \A f \in op'[q].ids : op'[q].mark <=> f \in wish'
    BY <1>1, <1>4, <1>7
  <2>2. ASSUME NEW i \in 1 .. Len(queue), NEW f, f = queue[i].file, f \notin ids,
               \A j \in i + 1 .. Len(queue) : queue[j].file # f
        PROVE  queue[i].mark <=> f \in wish'
    BY <1>6, <1>8, <1>10, <2>2 DEF LastIsWish
  <2>3. ASSUME NEW w \in Worker, hand[w] # None, NEW f, f = hand[w].file, f \notin ids, ~Queued(f)
        PROVE  hand[w].mark <=> f \in wish'
    BY <1>6, <1>8, <1>10, <2>3 DEF LastIsWish
  <2>4. ASSUME NEW f \in File, Live(f)', f \notin ids, ~Queued(f), ~InHand(f)
        PROVE  row'[f].marked <=> f \in wish'
    BY <1>6, <1>8, <1>10, <1>11, <2>4 DEF LastIsWish, Live
  <2>6. (\A i \in 1 .. Len(queue) : LET f == queue[i].file IN
          ~Publishing(f) /\ (\A j \in i + 1 .. Len(queue) : queue[j].file # f)
            => (queue[i].mark <=> f \in wish))'
    BY <1>2, <1>8, <2>2
  <2>7. (\A w \in Worker : hand[w] # None =>
          LET f == hand[w].file IN ~Publishing(f) /\ ~Queued(f) => (hand[w].mark <=> f \in wish))'
    BY <1>2, <1>8, <1>9, <2>3
  <2>. QED  BY <1>8, <1>9, <2>1, <2>4, <2>6, <2>7 DEF LastIsWish
<1>13. \A f \in wish' : row'[f].st # "unused"
  BY <1>1, <1>3, <1>6, <1>11 DEF Live
<1>. QED  BY <1>2, <1>4, <1>6, <1>12, <1>13

\* An action is published behind the others of its file.
LEMMA PublishKeeps ==
  ASSUME TreeInv, MarksSettle, NEW p \in Op, Publish(p)
  PROVE  MarksSettle'
<1>. /\ op \in [Op -> OpRow] /\ row \in [File -> Row] /\ queue \in Seq(Action)
  BY DEF TreeInv, TypeOK
<1>1. PICK g \in op[p].ids :
        /\ queue' = Append(queue, [file |-> g, mark |-> op[p].mark])
        /\ op' = [op EXCEPT ![p] = IF op[p].ids = {g} THEN IdleOp
                                   ELSE [@ EXCEPT !.ids = op[p].ids \ {g}]]
  BY DEF Publish
<1>2. op[p].pc = "publish" /\ UNCHANGED <<world, row, hand, wish>>
  BY DEF Publish, tree
<1>3. /\ \A q \in Op : q # p => op'[q] = op[q]
      /\ \/ op[p].ids = {g} /\ op'[p].pc = "idle"
         \/ /\ op[p].ids # {g} /\ op'[p].pc = "publish" /\ op'[p].mark = op[p].mark
            /\ op'[p].ids = op[p].ids \ {g}
  BY <1>1, <1>2 DEF OpRow, IdleOp
<1>4. SUFFICES ASSUME InOrder
               PROVE  LastIsWish' /\ \A q \in Op : op'[q].pc # "idle" => world.kinds[q] # {}
  BY <1>2 DEF MarksSettle, InOrder
<1>5. LastIsWish /\ \A q \in Op : op[q].pc # "idle" => world.kinds[q] # {}
  BY <1>4 DEF MarksSettle
<1>6. \A q \in Op : q # p => op[q].pc = "idle"
  BY <1>2, <1>4, <1>5 DEF InOrder
<1>7. \A f : (Publishing(f)' <=> Publishing(f) /\ f # g) /\ (Publishing(f) <=> f \in op[p].ids)
  BY <1>2, <1>3, <1>6 DEF Publishing
<1>8. /\ Len(queue') = Len(queue) + 1 /\ Len(queue) \in Nat
      /\ \A i \in 1 .. Len(queue) : queue'[i] = queue[i]
      /\ queue'[Len(queue) + 1].file = g /\ queue'[Len(queue) + 1].mark = op[p].mark
  <2>1. [file |-> g, mark |-> op[p].mark] \in Action
    BY DEF Action, OpRow
  <2>. QED  BY <1>1, <2>1
<1>9. \A f : Queued(f)' <=> Queued(f) \/ f = g
  <2>1. \A i \in 1 .. Len(queue) + 1 : i \in 1 .. Len(queue) \/ i = Len(queue) + 1
    BY <1>8
  <2>2. 1 .. Len(queue) \subseteq 1 .. Len(queue) + 1 /\ Len(queue) + 1 \in 1 .. Len(queue) + 1
    BY <1>8
  <2>. QED  BY <1>8, <2>1, <2>2 DEF Queued
<1>10. \A f : InHand(f)' <=> InHand(f)
  BY <1>2 DEF InHand
<1>11. op[p].mark <=> g \in wish
  BY <1>2, <1>5 DEF LastIsWish
<1>12. LastIsWish'
  <2>1. \A q \in Op : op'[q].pc = "publish" => \A f \in op'[q].ids : op'[q].mark <=> f \in wish'
    BY <1>2, <1>3, <1>5, <1>6 DEF LastIsWish
  <2>2. ASSUME NEW i \in 1 .. Len(queue'), NEW f, f = queue'[i].file, ~Publishing(f)',
               \A j \in i + 1 .. Len(queue') : queue'[j].file # f
        PROVE  queue'[i].mark <=> f \in wish
    <3>1. CASE i = Len(queue) + 1
      BY <1>8, <1>11, <2>2, <3>1
    <3>2. CASE i \in 1 .. Len(queue)
      <4>1. Len(queue) + 1 \in i + 1 .. Len(queue') /\ i + 1 .. Len(queue) \subseteq i + 1 .. Len(queue')
        BY <1>8, <3>2
      <4>2. queue'[i] = queue[i] /\ queue[i].file = f /\ f # g
        BY <1>8, <2>2, <3>2, <4>1
      <4>3. \A j \in i + 1 .. Len(queue) : j \in 1 .. Len(queue)
        BY <1>8, <3>2
      <4>4. \A j \in i + 1 .. Len(queue) : queue[j].file # f
        BY <1>8, <2>2, <4>1, <4>3
      <4>5. ~Publishing(f)
        BY <1>7, <2>2, <4>2
      <4>. QED  BY <1>5, <3>2, <4>2, <4>4, <4>5 DEF LastIsWish
    <3>. QED  BY <1>8, <3>1, <3>2
  <2>3. ASSUME NEW w \in Worker, hand[w] # None, NEW f, f = hand[w].file, ~Publishing(f)', ~Queued(f)'
        PROVE  hand[w].mark <=> f \in wish
    BY <1>5, <1>7, <1>9, <2>3 DEF LastIsWish
  <2>4. ASSUME NEW f \in File, Live(f), ~Publishing(f)', ~Queued(f)', ~InHand(f)
        PROVE  row[f].marked <=> f \in wish
    BY <1>5, <1>7, <1>9, <2>4 DEF LastIsWish
  <2>5. (\A i \in 1 .. Len(queue) : LET f == queue[i].file IN
          ~Publishing(f) /\ (\A j \in i + 1 .. Len(queue) : queue[j].file # f)
            => (queue[i].mark <=> f \in wish))'
    BY <1>2, <2>2 DEF Publishing
  <2>6. (\A w \in Worker : hand[w] # None =>
          LET f == hand[w].file IN ~Publishing(f) /\ ~Queued(f) => (hand[w].mark <=> f \in wish))'
    BY <1>2, <2>3 DEF Publishing, Queued
  <2>7. (\A f \in File : Live(f) /\ ~Publishing(f) /\ ~Queued(f) /\ ~InHand(f)
                       => (row[f].marked <=> f \in wish))'
    BY <1>2, <1>10, <2>4 DEF Live
  <2>. QED  BY <2>1, <2>5, <2>6, <2>7 DEF LastIsWish
<1>. QED  BY <1>2, <1>3, <1>5, <1>12

\* The one worker takes the action at the head: the last for its file only when
\* no other is queued behind it.
LEMMA TakeKeeps ==
  ASSUME TreeInv, MarksSettle, NEW w \in Worker, TakeAction(w)
  PROVE  MarksSettle'
<1>. /\ row \in [File -> Row] /\ queue \in Seq(Action) /\ hand \in [Worker -> Action \cup {None}]
  BY DEF TreeInv, TypeOK
<1>1. UNCHANGED <<world, row, op, wish>>
  BY DEF TakeAction, tree
<1>2. SUFFICES ASSUME InOrder
               PROVE  LastIsWish'
  BY <1>1 DEF MarksSettle, InOrder
<1>3. LastIsWish
  BY <1>2 DEF MarksSettle
<1>4. /\ hand' = [hand EXCEPT ![w] = queue[1]] /\ queue[1] # None /\ hand[w] = None
      /\ Len(queue) \in Nat /\ Len(queue) >= 1 /\ Len(queue') = Len(queue) - 1
      /\ \A i \in 1 .. Len(queue) - 1 : queue'[i] = queue[i + 1]
  BY NoneIsNoAction DEF TakeAction
<1>5. \A v \in Worker : v = w
  BY <1>2 DEF InOrder
<1>6. \A f : Publishing(f)' <=> Publishing(f)
  BY <1>1 DEF Publishing
<1>7. \A f : Queued(f) => Queued(f)' \/ f = queue[1].file
  <2>1. ASSUME NEW f, NEW i \in 1 .. Len(queue), queue[i].file = f, f # queue[1].file
        PROVE  Queued(f)'
    <3>1. i - 1 \in 1 .. Len(queue) - 1
      BY <1>4, <2>1
    <3>2. queue'[i - 1] = queue[i]
      BY <1>4, <3>1
    <3>. QED  BY <1>4, <2>1, <3>1, <3>2 DEF Queued
  <2>. QED  BY <2>1 DEF Queued
<1>8. \A f : (InHand(f)' <=> f = queue[1].file) /\ ~InHand(f)
  BY <1>4, <1>5 DEF InHand
<1>9. (\A p \in Op : op[p].pc = "publish" => \A f \in op[p].ids : op[p].mark <=> f \in wish)'
  BY <1>1, <1>3 DEF LastIsWish
<1>10. ASSUME NEW i \in 1 .. Len(queue'), NEW f, f = queue'[i].file, ~Publishing(f),
              \A j \in i + 1 .. Len(queue') : queue'[j].file # f
       PROVE  queue'[i].mark <=> f \in wish
  <2>1. i + 1 \in 1 .. Len(queue) /\ queue'[i] = queue[i + 1]
    BY <1>4
  <2>2. ASSUME NEW j \in (i + 1) + 1 .. Len(queue)
        PROVE  queue[j].file # f
    <3>1. j - 1 \in i + 1 .. Len(queue') /\ j - 1 \in 1 .. Len(queue) - 1
      BY <1>4, <2>2
    <3>2. queue'[j - 1] = queue[j]
      BY <1>4, <3>1
    <3>. QED  BY <1>10, <3>1, <3>2
  <2>. QED  BY <1>3, <1>10, <2>1, <2>2 DEF LastIsWish
<1>11. ASSUME NEW f, f = queue[1].file, ~Publishing(f), ~Queued(f)'
       PROVE  queue[1].mark <=> f \in wish
  <2>1. ASSUME NEW j \in 1 + 1 .. Len(queue)
        PROVE  queue[j].file # f
    <3>1. j - 1 \in 1 .. Len(queue') /\ queue'[j - 1] = queue[j]
      BY <1>4, <2>1
    <3>. QED  BY <1>11, <3>1 DEF Queued
  <2>. QED  BY <1>3, <1>4, <1>11, <2>1 DEF LastIsWish
<1>12. (\A i \in 1 .. Len(queue) : LET f == queue[i].file IN
         ~Publishing(f) /\ (\A j \in i + 1 .. Len(queue) : queue[j].file # f)
           => (queue[i].mark <=> f \in wish))'
  BY <1>1, <1>10 DEF Publishing
<1>13. (\A v \in Worker : hand[v] # None =>
         LET f == hand[v].file IN ~Publishing(f) /\ ~Queued(f) => (hand[v].mark <=> f \in wish))'
  BY <1>1, <1>4, <1>5, <1>11 DEF Publishing, Queued
<1>14. (\A f \in File : Live(f) /\ ~Publishing(f) /\ ~Queued(f) /\ ~InHand(f)
                      => (row[f].marked <=> f \in wish))'
  BY <1>1, <1>3, <1>6, <1>7, <1>8 DEF LastIsWish, Live
<1>. QED  BY <1>9, <1>12, <1>13, <1>14 DEF LastIsWish

\* It writes the mark of the action once more.
LEMMA ApplyKeeps ==
  ASSUME TreeInv, MarksSettle, NEW w \in Worker, ApplyAction(w)
  PROVE  MarksSettle'
<1>. /\ row \in [File -> Row] /\ hand \in [Worker -> Action \cup {None}]
  BY DEF TreeInv, TypeOK
<1>1. UNCHANGED <<world, op, queue, wish>> /\ hand[w] # None /\ hand' = [hand EXCEPT ![w] = None]
  BY DEF ApplyAction
<1>2. \A f \in File :
        /\ row'[f].st = row[f].st
        /\ row'[f].marked = IF f = hand[w].file /\ Live(f) THEN hand[w].mark ELSE row[f].marked
  BY DEF ApplyAction, SetMarks, Row
<1>3. SUFFICES ASSUME InOrder
               PROVE  LastIsWish'
  BY <1>1, <1>2 DEF MarksSettle, InOrder, TreeInv, TypeOK
<1>4. LastIsWish
  BY <1>3 DEF MarksSettle
<1>5. \A v \in Worker : v = w /\ hand'[v] = None
  BY <1>1, <1>3 DEF InOrder
<1>6. \A f : (Publishing(f)' <=> Publishing(f)) /\ (Queued(f)' <=> Queued(f))
  BY <1>1 DEF Publishing, Queued
<1>7. \A f : InHand(f) <=> f = hand[w].file
  BY <1>1, <1>5 DEF InHand
<1>8. (\A p \in Op : op[p].pc = "publish" => \A f \in op[p].ids : op[p].mark <=> f \in wish)'
  BY <1>1, <1>4 DEF LastIsWish
<1>9. (\A i \in 1 .. Len(queue) : LET f == queue[i].file IN
        ~Publishing(f) /\ (\A j \in i + 1 .. Len(queue) : queue[j].file # f)
          => (queue[i].mark <=> f \in wish))'
  BY <1>1, <1>4 DEF LastIsWish, Publishing
<1>10. (\A v \in Worker : hand[v] # None =>
         LET f == hand[v].file IN ~Publishing(f) /\ ~Queued(f) => (hand[v].mark <=> f \in wish))'
  BY <1>5
<1>11. (\A f \in File : Live(f) /\ ~Publishing(f) /\ ~Queued(f) /\ ~InHand(f)
                      => (row[f].marked <=> f \in wish))'
  <2>1. ASSUME NEW f \in File, Live(f), ~Publishing(f), ~Queued(f)
        PROVE  row'[f].marked <=> f \in wish
    BY <1>1, <1>2, <1>4, <1>7, <2>1 DEF LastIsWish
  <2>2. \A f \in File : Live(f)' => Live(f)
    BY <1>2 DEF Live
  <2>. QED  BY <1>1, <1>6, <2>1, <2>2
<1>. QED  BY <1>8, <1>9, <1>10, <1>11 DEF LastIsWish

\* Every step leaves the marks settling: InOrder leaves no death.
LEMMA NextSettles ==
  ASSUME TreeInv, TypeOK', MarksSettle, Next
  PROVE  MarksSettle'
<1>1. ASSUME NEW p \in Op, Request(p)
      PROVE  MarksSettle'
  <2>1. CASE RecycleBatch(p) \/ RestoreBatch(p)
    BY <2>1, MarkKeeps DEF RecycleBatch, RestoreBatch
  <2>2. CASE Publish(p)
    BY <2>2, PublishKeeps
  <2>3. CASE ~RecycleBatch(p) /\ ~RestoreBatch(p) /\ ~Publish(p)
    BY <1>1, <2>3, RequestAside, MarksLeftKeep
  <2>. QED  BY <2>1, <2>2, <2>3
<1>2. ASSUME NEW w \in Worker, Work(w)
      PROVE  MarksSettle'
  <2>1. CASE DeriveStart(w) \/ DerivePut(w) \/ DeriveObject(w) \/ DeriveInsert(w)
    BY <2>1, DeriveAside, MarksLeftKeep
  <2>. QED  BY <1>2, <2>1, TakeKeeps, ApplyKeeps DEF Work
<1>3. CASE \/ \E p \in Op : Crash(p)
           \/ \E w \in Worker : WorkCrash(w)
           \/ ActionsLost
  BY <1>3, Zenon DEF Crash, WorkCrash, ActionsLost, MarksSettle, InOrder
<1>. QED  BY <1>1, <1>2, <1>3 DEF Next

LEMMA InitSettles ==
  ASSUME Init
  PROVE  MarksSettle
<1>1. op = [p \in Op |-> IdleOp] /\ hand = [w \in Worker |-> None] /\ queue = <<>> /\ wish = {}
  BY DEF Init
<1>2. \A f \in File : ~row[f].marked
  <2>1. PICK o \in Object : row = [f \in File |-> IF f \in world.imported
                                      THEN [Blank EXCEPT !.st = "live", !.obj = o] ELSE Blank]
    BY DEF Init
  <2>. QED  BY <2>1 DEF Blank
<1>. QED  BY <1>1, <1>2 DEF MarksSettle, LastIsWish, IdleOp

\* The invariant is inductive.
LEMMA IInvIsInductive ==
  /\ Init => IInv
  /\ IInv /\ [Next]_vars => IInv'
<1>1. Init => IInv
  BY InitHolds, InitSettles DEF IInv
<1>2. ASSUME IInv, Next
      PROVE  IInv'
  <2>1. TreeInv'
    BY <1>2, NextHolds DEF IInv
  <2>2. TypeOK'
    BY <2>1 DEF TreeInv
  <2>. QED  BY <1>2, <2>1, <2>2, NextSettles DEF IInv
<1>3. ASSUME IInv, UNCHANGED vars
      PROVE  IInv'
  <2>1. MarksLeft
    BY <1>3 DEF MarksLeft, vars, IInv, TreeInv, TypeOK, Row
  <2>. QED  BY <1>3, <2>1, StutterKeeps, MarksLeftKeep DEF IInv
<1>. QED  BY <1>1, <1>2, <1>3

-----------------------------------------------------------------------------
\* IInv holds of every state the requests and the workers of Next can reach.
THEOREM Invariance == Spec => []IInv
<1>. QED  BY IInvIsInductive, PTL DEF Spec

\* Every row, object, request and action keeps its type, and the action queue
\* never holds more than its capacity (Publish waits for room).
THEOREM TypeCorrect == Spec => []TypeOK
<1>1. IInv => TypeOK
  BY DEF IInv, TreeInv
<1>. QED  BY <1>1, Invariance, PTL

\* No sequence of creations, moves, deletions, purges and deaths takes the object
\* or the uploaded blob from a row that still refers to it, soft-deleted or not
\* (purgeObjectIfDereferenced), save the blob of a purge that died.
THEOREM SourcesAreKept == Spec => []RowsKeepSource
<1>1. IInv => RowsKeepSource
  <2>. SUFFICES ASSUME IInv, NEW f \in File, row[f].obj # None, Unlocked({f})
                PROVE  /\ object[row[f].obj].st = "stored"
                       /\ object[row[f].obj].key = row[f].obj => row[f].obj \in blob \cup lost
    BY DEF RowsKeepSource
  <2>1. object[row[f].obj].st = "stored"
    BY DEF IInv, TreeInv, RowsStored
  <2>2. \A p \in Op : f \notin Gone(p)
    BY DEF Unlocked
  <2>. QED  BY <2>1, <2>2 DEF IInv, TreeInv, BlobsKept
<1>. QED  BY <1>1, Invariance, PTL

\* While no two requests move files at the same time and none moves them without
\* the check of MoveBatch, no live file ever comes to lie above itself.
THEOREM MovesMakeNoCycle == Spec => []OneMoverAcyclic
<1>1. IInv => OneMoverAcyclic
  BY DEF IInv, TreeInv
<1>. QED  BY <1>1, Invariance, PTL

\* With one client that waits for its answers, one worker and no death, a live
\* file whose actions have all been applied is marked exactly when its owner's
\* last request was to recycle it (handleFileAction repeats the mark in order).
THEOREM MarksAreWishes == Spec => []SettledMarks
<1>1. IInv => SettledMarks
  <2>. SUFFICES ASSUME IInv, InOrder, AllQuiet, NEW f \in File, Live(f)
                PROVE  row[f].marked <=> f \in wish
    BY DEF SettledMarks
  <2>1. ~Publishing(f) /\ ~InHand(f)
    BY DEF AllQuiet, Publishing, InHand
  <2>2. ~Queued(f)
    <3>1. Len(queue) = 0
      BY DEF AllQuiet
    <3>. QED  BY <3>1 DEF Queued
  <2>. QED  BY <2>1, <2>2 DEF IInv, MarksSettle, LastIsWish
<1>. QED  BY <1>1, Invariance, PTL
=============================================================================
