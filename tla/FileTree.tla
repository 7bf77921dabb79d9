------------------------------ MODULE FileTree ------------------------------
(***************************************************************************)
(* The file tree of DysonFS: rows with a parent, the objects they refer to *)
(* and the blobs the objects name, under the requests that create, move,   *)
(* recycle, restore, delete and purge, the worker that makes derivatives   *)
(* and the worker that applies recycle and restore events once more.       *)
(*                                                                         *)
(* Every request is a process that takes one action per database statement *)
(* or storage call.  The database is Postgres at READ COMMITTED: only the  *)
(* rows a purge deletes stay locked over several actions, so they are the  *)
(* only row locks here.  The foreign keys of cloud_files are checked where *)
(* a statement could break them.                                           *)
(***************************************************************************)
EXTENDS Naturals, Sequences

CONSTANTS
  File,        \* ids of file rows
  Object,      \* ids of file_objects rows
  Op,          \* requests in flight
  Worker,      \* processes that make derivatives and apply file actions
  Selection,   \* sets of ids a batch request may name
  QueueSize,   \* capacity of the bundled action queue
  Worlds,      \* deployments: what clients ask for and what may happen
  Root,        \* the parent of a top-level file
  None

\* A blob is named after the object it was stored for, or, when it is a
\* derivative, after the file it was made from (storageKey).
Key == Object \cup File

Kind == {"folder", "upload", "move", "update", "delete", "purge", "recycle", "restore", "empty"}

\* imported: rows of a legacy import, which share one object
World == [kinds : [Op -> SUBSET Kind], imported : SUBSET File, derive : BOOLEAN,
          crashes : BOOLEAN]

ASSUME IdsAreDistinct == /\ File \cap Object = {}
                         /\ Root \notin File
                         /\ None \notin Key
ASSUME QueueHasRoom   == QueueSize \in Nat \ {0}
ASSUME WorldsAreSo    == Worlds \subseteq World
ASSUME SelectionsAreSo == Selection \subseteq SUBSET File

VARIABLES
  world,    \* the deployment this behaviour belongs to
  row,      \* cloud_files
  object,   \* file_objects
  blob,     \* keys present in the pool
  op,       \* local state of the requests
  work,     \* local state of the derivative workers
  queue,    \* file actions published and not yet taken
  hand,     \* the file action a worker took
  wish,     \* files whose owner's last accepted request was to recycle them
  lost      \* blobs deleted by a purge that died before its commit

vars == <<world, row, object, blob, op, work, queue, hand, wish, lost>>

Row == [st     : {"unused", "live", "deleted", "purged"},
        parent : File \cup {Root},
        obj    : Object \cup {None},      \* None: a folder
        marked : BOOLEAN]                 \* is_marked_recycle

ObjectRow == [st : {"unused", "stored", "purged"}, key : Key \cup {None}]

Action == [file : File, mark : BOOLEAN]   \* mark: "recycle", else "restore"

ASSUME NoneIsNoAction == None \notin Action

OpPC  == {"idle", "parent", "insert", "move", "delete", "purge", "objects", "publish"}
OpRow == [pc : OpPC, f : File \cup {None}, to : File \cup {Root}, ids : SUBSET File,
          obj : Object \cup {None}, objs : SUBSET Object, dead : SUBSET Object,
          mark : BOOLEAN]
WorkRow == [pc : {"idle", "put", "object", "insert"}, f : File \cup {None},
            obj : Object \cup {None}]

Blank    == [st |-> "unused", parent |-> Root, obj |-> None, marked |-> FALSE]
IdleOp   == [pc |-> "idle", f |-> None, to |-> Root, ids |-> {}, obj |-> None,
             objs |-> {}, dead |-> {}, mark |-> FALSE]
IdleWork == [pc |-> "idle", f |-> None, obj |-> None]

Init ==
  /\ world \in Worlds
  /\ \E o \in Object :
       /\ row = [f \in File |-> IF f \in world.imported
                                  THEN [Blank EXCEPT !.st = "live", !.obj = o] ELSE Blank]
       /\ object = [x \in Object |-> IF x = o /\ world.imported # {}
                                       THEN [st |-> "stored", key |-> o]
                                       ELSE [st |-> "unused", key |-> None]]
       /\ blob = IF world.imported = {} THEN {} ELSE {o}
  /\ op = [p \in Op |-> IdleOp]
  /\ work = [w \in Worker |-> IdleWork]
  /\ queue = <<>>
  /\ hand = [w \in Worker |-> None]
  /\ wish = {}
  /\ lost = {}

-----------------------------------------------------------------------------
(* What statements read *)

Live(f)   == row[f].st = "live"
Exists(f) == row[f].st \in {"live", "deleted"}   \* Unscoped()

\* The least set with S that has the children of its members among kids.
Closure(S, kids) ==
  {f \in File : \A C \in SUBSET File :
     (S \subseteq C /\ \A g \in kids : row[g].parent \in C => g \in C) => f \in C}

LiveTree(S)  == Closure(S, {g \in File : Live(g)})     \* loadDescendantIDs
WholeTree(S) == Closure(S, {g \in File : Exists(g)})   \* ...IncludingDeleted

\* Fault: a descendant query that is not recursive.
ChildrenOnly(S) == S \cup {g \in File : Live(g) /\ row[g].parent \in S}

\* Rows that an open purge has deleted: locked, and still there for the others.
Gone(p) == IF op[p].pc = "objects" THEN op[p].ids ELSE {}
Unlocked(S) == \A p \in Op : S \cap Gone(p) = {}

Referring(p, o) == {f \in File \ Gone(p) : Exists(f) /\ row[f].obj = o}

\* Fault: the count leaves soft-deleted rows out.
ReferringLive(p, o) == {f \in File \ Gone(p) : Live(f) /\ row[f].obj = o}

Idle(p, kind) == op[p].pc = "idle" /\ kind \in world.kinds[p]
Return(p)     == op' = [op EXCEPT ![p] = IdleOp]

bin   == <<queue, hand, wish>>
store == <<object, blob, lost>>
tree  == <<row, object, blob>>

-----------------------------------------------------------------------------
(* Creation: folders, and files whose bytes an upload has stored *)

\* The object and its blob come first and stay when the creation fails.
Create(p) ==
  /\ \/ Idle(p, "folder") /\ op' = [op EXCEPT ![p].pc = "parent"] /\ UNCHANGED store
     \/ /\ Idle(p, "upload")
        /\ \E o \in Object :
             /\ object[o].st = "unused"
             /\ object' = [object EXCEPT ![o] = [st |-> "stored", key |-> o]]
             /\ blob' = blob \cup {o}
             /\ op' = [op EXCEPT ![p] = [@ EXCEPT !.pc = "parent", !.obj = o]]
        /\ UNCHANGED lost
  /\ UNCHANGED <<world, row, work, bin>>

\* ensureParentWorkspace: no parent, or a live folder
ensureParent(p) ==
  /\ op[p].pc = "parent"
  /\ \/ \E to \in File \cup {Root} :
          /\ to # Root => Live(to) /\ row[to].obj = None
          /\ op' = [op EXCEPT ![p] = [@ EXCEPT !.pc = "insert", !.to = to]]
     \/ /\ \E to \in File : ~Live(to) \/ row[to].obj # None
        /\ Return(p)
  /\ UNCHANGED <<world, tree, work, bin, lost>>

\* The insert waits for a purge of the parent; the foreign key refuses a
\* parent that is gone, but not one that was soft-deleted meanwhile.
Insert(f, to, o) ==
  /\ Unlocked({to})
  /\ row[f].st = "unused"
  /\ row' = IF to # Root /\ ~Exists(to) THEN row
            ELSE [row EXCEPT ![f] = [Blank EXCEPT !.st = "live", !.parent = to, !.obj = o]]

CreateInsert(p) ==
  /\ op[p].pc = "insert"
  /\ \E f \in File : Insert(f, op[p].to, op[p].obj)
  /\ Return(p)
  /\ UNCHANGED <<world, work, store, bin>>

(* Derivatives, made by the worker from a live file *)

DeriveStart(w) ==
  /\ world.derive /\ work[w].pc = "idle"
  /\ \E f \in File : /\ Live(f) /\ row[f].obj # None
                     /\ work' = [work EXCEPT ![w] = [@ EXCEPT !.pc = "put", !.f = f]]
  /\ UNCHANGED <<world, tree, op, bin, lost>>

\* Every derivative of a file is put under the same key.
DerivePut(w) ==
  /\ work[w].pc = "put"
  /\ blob' = blob \cup {work[w].f}
  /\ work' = [work EXCEPT ![w].pc = "object"]
  /\ UNCHANGED <<world, row, object, op, bin, lost>>

DeriveObject(w) ==
  /\ work[w].pc = "object"
  /\ \E o \in Object :
       /\ object[o].st = "unused"
       /\ object' = [object EXCEPT ![o] = [st |-> "stored", key |-> work[w].f]]
       /\ work' = [work EXCEPT ![w] = [@ EXCEPT !.pc = "insert", !.obj = o]]
  /\ UNCHANGED <<world, row, blob, op, bin, lost>>

\* CreateDerivedFile: the object stays when the parent is no longer there.
DeriveInsert(w) ==
  /\ work[w].pc = "insert"
  /\ \/ ~Live(work[w].f) /\ UNCHANGED row
     \/ /\ Live(work[w].f)
        /\ \E g \in File : Insert(g, work[w].f, work[w].obj)
  /\ work' = [work EXCEPT ![w] = IdleWork]
  /\ UNCHANGED <<world, op, store, bin>>

-----------------------------------------------------------------------------
(* Moves *)

\* Fault: the check looks one level down.
MoveCheckShallow(p) ==
  /\ Idle(p, "move")
  /\ \E ids \in Selection \ {{}}, to \in File \cup {Root} :
       /\ \A f \in ids : Live(f)
       /\ to # Root => Exists(to) /\ to \notin ChildrenOnly(ids)
       /\ op' = [op EXCEPT ![p] = [@ EXCEPT !.pc = "move", !.to = to, !.ids = ids]]
  /\ UNCHANGED <<world, tree, work, bin, lost>>

\* MoveBatch: the target may not be among the moved files or below them.
\* Nothing else is asked of the target: it may be soft-deleted or no folder.
MoveCheck(p) ==
  /\ Idle(p, "move")
  /\ \E ids \in Selection \ {{}}, to \in File \cup {Root} :
       /\ \A f \in ids : Live(f)
       /\ to # Root => Exists(to) /\ to \notin LiveTree(ids)
       /\ op' = [op EXCEPT ![p] = [@ EXCEPT !.pc = "move", !.to = to, !.ids = ids]]
  /\ UNCHANGED <<world, tree, work, bin, lost>>

\* The UpdateFile call of the gRPC service moves a file without a check.
UpdateParent(p) ==
  /\ Idle(p, "update")
  /\ \E f \in File, to \in File \cup {Root} :
       /\ Live(f) /\ (to # Root => Exists(to))
       /\ op' = [op EXCEPT ![p] = [@ EXCEPT !.pc = "move", !.to = to, !.ids = {f}]]
  /\ UNCHANGED <<world, tree, work, bin, lost>>

\* Rows deleted since the check are left out; a parent that is gone is refused.
MoveWrite(p) ==
  /\ op[p].pc = "move"
  /\ Unlocked(op[p].ids \cup {op[p].to})
  /\ row' = IF op[p].to # Root /\ ~Exists(op[p].to) THEN row
            ELSE [f \in File |-> IF f \in op[p].ids /\ Live(f)
                                   THEN [row[f] EXCEPT !.parent = op[p].to] ELSE row[f]]
  /\ Return(p)
  /\ UNCHANGED <<world, work, store, bin>>

-----------------------------------------------------------------------------
(* Soft deletion and purge *)

SoftDelete(S) == row' = [f \in File |-> IF f \in S /\ Live(f)
                                          THEN [row[f] EXCEPT !.st = "deleted"] ELSE row[f]]

\* DeleteFile reads what is below the file, then deletes what it read.
DeleteRead(p) ==
  /\ Idle(p, "delete")
  /\ \E f \in File : /\ Live(f)
                     /\ op' = [op EXCEPT ![p] = [@ EXCEPT !.pc = "delete",
                                                         !.ids = LiveTree({f})]]
  /\ UNCHANGED <<world, tree, work, bin, lost>>

DeleteWrite(p) ==
  /\ op[p].pc = "delete"
  /\ Unlocked(op[p].ids)
  /\ SoftDelete(op[p].ids)
  /\ Return(p)
  /\ UNCHANGED <<world, work, store, bin>>

\* PurgeFile reads what is below the file before its transaction starts.
PurgeRead(p) ==
  /\ Idle(p, "purge")
  /\ \E f \in File : /\ Exists(f)
                     /\ op' = [op EXCEPT ![p] = [@ EXCEPT !.pc = "purge", !.f = f,
                                                         !.ids = WholeTree({f})]]
  /\ UNCHANGED <<world, tree, work, bin, lost>>

\* Rows outside the deleted set that still name one of it as their parent.
LeftBelow(S) == {g \in File \ S : Exists(g) /\ row[g].parent \in {f \in S : Exists(f)}}

\* The transaction: it fails when the file is gone, or when a child that came
\* in since the read is left below (the check waits for a purge of that child).
PurgeDelete(p) ==
  /\ op[p].pc = "purge"
  /\ Unlocked(op[p].ids \cup LeftBelow(op[p].ids))
  /\ IF ~Exists(op[p].f) \/ LeftBelow(op[p].ids) # {} THEN Return(p)
     ELSE op' = [op EXCEPT ![p] =
                   [@ EXCEPT !.pc = "objects",
                             !.ids = {f \in op[p].ids : Exists(f)},
                             !.objs = {row[f].obj : f \in {g \in op[p].ids : Exists(g)}} \ {None}]]
  /\ UNCHANGED <<world, tree, work, bin, lost>>

\* Fault: soft-deleted rows do not keep their object.
PurgeObjectScoped(p) ==
  /\ op[p].pc = "objects"
  /\ \E o \in op[p].objs :
       IF ReferringLive(p, o) # {} \/ object[o].st # "stored"
       THEN /\ op' = [op EXCEPT ![p].objs = @ \ {o}]
            /\ UNCHANGED blob
       ELSE /\ op' = [op EXCEPT ![p] = [@ EXCEPT !.objs = op[p].objs \ {o},
                                                   !.dead = op[p].dead \cup {o}]]
            /\ blob' = blob \ {object[o].key}
  /\ UNCHANGED <<world, row, object, work, bin, lost>>

\* purgeObjectIfDereferenced: rows of other open purges still count.  A pool
\* that does not answer leaves the blob.
PurgeObject(p) ==
  /\ op[p].pc = "objects"
  /\ \E o \in op[p].objs :
       IF Referring(p, o) # {} \/ object[o].st # "stored"
       THEN /\ op' = [op EXCEPT ![p].objs = @ \ {o}]
            /\ UNCHANGED blob
       ELSE /\ op' = [op EXCEPT ![p] = [@ EXCEPT !.objs = op[p].objs \ {o},
                                                   !.dead = op[p].dead \cup {o}]]
            /\ blob' \in {blob, blob \ {object[o].key}}
  /\ UNCHANGED <<world, row, object, work, bin, lost>>

PurgeCommit(p) ==
  /\ op[p].pc = "objects" /\ op[p].objs = {}
  /\ row' = [f \in File |-> IF f \in op[p].ids THEN [Blank EXCEPT !.st = "purged"] ELSE row[f]]
  /\ object' = [o \in Object |-> IF o \in op[p].dead THEN [st |-> "purged", key |-> None]
                                 ELSE object[o]]
  /\ Return(p)
  /\ UNCHANGED <<world, blob, work, bin, lost>>

-----------------------------------------------------------------------------
(* The recycle bin.  A handler writes the mark and then publishes an action *)
(* for each file; the worker that takes the action writes the mark again.   *)

SetMarks(S, mark) == row' = [f \in File |-> IF f \in S /\ Live(f)
                                              THEN [row[f] EXCEPT !.marked = mark] ELSE row[f]]

MarkRecycled(p, kind, mark) ==
  /\ Idle(p, kind)
  /\ \E ids \in Selection \ {{}} :
       /\ \A f \in ids : Live(f)
       /\ Unlocked(ids)
       /\ SetMarks(ids, mark)
       /\ wish' = IF mark THEN wish \cup ids ELSE wish \ ids
       /\ op' = [op EXCEPT ![p] = [@ EXCEPT !.pc = "publish", !.ids = ids, !.mark = mark]]
  /\ UNCHANGED <<world, work, store, queue, hand>>

RecycleBatch(p) == MarkRecycled(p, "recycle", TRUE)
RestoreBatch(p) == MarkRecycled(p, "restore", FALSE)

\* A full queue blocks the handler.
Publish(p) ==
  /\ op[p].pc = "publish"
  /\ Len(queue) < QueueSize
  /\ \E f \in op[p].ids :
       /\ queue' = Append(queue, [file |-> f, mark |-> op[p].mark])
       /\ op' = [op EXCEPT ![p] = IF op[p].ids = {f} THEN IdleOp
                                 ELSE [@ EXCEPT !.ids = op[p].ids \ {f}]]
  /\ UNCHANGED <<world, tree, work, hand, wish, lost>>

\* PurgeRecycleBin soft-deletes the marked rows, not what is below them.
PurgeRecycleBin(p) ==
  /\ Idle(p, "empty")
  /\ LET marked == {f \in File : Live(f) /\ row[f].marked}
     IN  Unlocked(marked) /\ SoftDelete(marked)
  /\ UNCHANGED <<world, op, work, store, bin>>

\* Fault: the newest action first.
TakeNewest(w) ==
  /\ hand[w] = None /\ queue # <<>>
  /\ hand' = [hand EXCEPT ![w] = queue[Len(queue)]]
  /\ queue' = SubSeq(queue, 1, Len(queue) - 1)
  /\ UNCHANGED <<world, tree, op, work, wish, lost>>

TakeAction(w) ==
  /\ hand[w] = None /\ queue # <<>>
  /\ hand' = [hand EXCEPT ![w] = Head(queue)]
  /\ queue' = Tail(queue)
  /\ UNCHANGED <<world, tree, op, work, wish, lost>>

\* handleFileAction.  The action of a purge names a file that is gone, or no
\* file, and one of a move is ignored: neither changes anything.
ApplyAction(w) ==
  /\ hand[w] # None
  /\ Unlocked({hand[w].file})
  /\ SetMarks({hand[w].file}, hand[w].mark)
  /\ hand' = [hand EXCEPT ![w] = None]
  /\ UNCHANGED <<world, op, work, store, queue, wish>>

-----------------------------------------------------------------------------
(* Deaths.  A transaction is rolled back, the blobs it deleted stay deleted. *)

Crash(p) ==
  /\ world.crashes /\ op[p].pc # "idle"
  /\ lost' = lost \cup {object[o].key : o \in op[p].dead}
  /\ Return(p)
  /\ UNCHANGED <<world, tree, work, bin>>

WorkCrash(w) ==
  /\ world.crashes /\ work[w].pc # "idle"
  /\ work' = [work EXCEPT ![w] = IdleWork]
  /\ UNCHANGED <<world, tree, op, bin, lost>>

\* The queue and what was taken from it live in memory.
ActionsLost ==
  /\ world.crashes /\ (queue # <<>> \/ \E w \in Worker : hand[w] # None)
  /\ queue' = <<>>
  /\ hand' = [w \in Worker |-> None]
  /\ UNCHANGED <<world, tree, op, work, wish, lost>>

Request(p) ==
  \/ Create(p) \/ ensureParent(p) \/ CreateInsert(p)
  \/ MoveCheck(p) \/ UpdateParent(p) \/ MoveWrite(p)
  \/ DeleteRead(p) \/ DeleteWrite(p)
  \/ PurgeRead(p) \/ PurgeDelete(p) \/ PurgeObject(p) \/ PurgeCommit(p)
  \/ RecycleBatch(p) \/ RestoreBatch(p) \/ Publish(p) \/ PurgeRecycleBin(p)

Work(w) ==
  \/ DeriveStart(w) \/ DerivePut(w) \/ DeriveObject(w) \/ DeriveInsert(w)
  \/ TakeAction(w) \/ ApplyAction(w)

Next ==
  \/ \E p \in Op : Request(p) \/ Crash(p)
  \/ \E w \in Worker : Work(w) \/ WorkCrash(w)
  \/ ActionsLost

Spec == Init /\ [][Next]_vars

-----------------------------------------------------------------------------
(* Properties *)

\* Every variable has its type and the queue keeps to its capacity.
TypeOK ==
  /\ world \in Worlds
  /\ row \in [File -> Row]
  /\ object \in [Object -> ObjectRow]
  /\ blob \subseteq Key
  /\ op \in [Op -> OpRow]
  /\ work \in [Worker -> WorkRow]
  /\ queue \in Seq(Action) /\ Len(queue) <= QueueSize
  /\ hand \in [Worker -> Action \cup {None}]
  /\ wish \subseteq File
  /\ lost \subseteq Key

\* No live file is above itself: MoveBatch says "parent_id cannot reference a
\* moved file or its descendant", and the ancestor queries of the permission
\* checks (UNION ALL) would not end on a cycle.
LiveAcyclic ==
  \A C \in SUBSET {f \in File : Live(f)} :
    C # {} => \E f \in C : row[f].parent \notin C

\* One request at a time moves files, and moves them with the check.
OneMover ==
  /\ \A p \in Op : "update" \notin world.kinds[p]
  /\ \A p, q \in Op : "move" \in world.kinds[p] /\ "move" \in world.kinds[q] => p = q

\* While moves do not overlap, the check before a move is enough, whatever is
\* created, deleted or purged between the check and the update.
OneMoverAcyclic == OneMover => LiveAcyclic

\* purgeObjectIfDereferenced: "Soft-deleted recycle entries must keep the blob
\* until they are purged too".  A row outside an open purge has its object,
\* and an uploaded file its blob, unless a purge died after deleting it.
RowsKeepSource ==
  \A f \in File :
    Exists(f) /\ row[f].obj # None /\ Unlocked({f}) =>
      /\ object[row[f].obj].st = "stored"
      /\ object[row[f].obj].key = row[f].obj => row[f].obj \in blob \cup lost

\* The same of every blob, the derivatives included.
RowsKeepBytes ==
  \A f \in File :
    Exists(f) /\ row[f].obj # None /\ Unlocked({f}) =>
      object[row[f].obj].key \in blob \cup lost

AllQuiet == /\ \A p \in Op : op[p].pc = "idle"
            /\ queue = <<>>
            /\ \A w \in Worker : hand[w] = None

\* One client that waits for its answers, one worker, no death.
InOrder == /\ ~world.crashes
           /\ \A v, w \in Worker : v = w
           /\ \A p, q \in Op : world.kinds[p] # {} /\ world.kinds[q] # {} => p = q

\* Applying the actions once more comes out where the owner's last request
\* left the file, when one worker applies them in the order of the requests.
SettledMarks ==
  InOrder /\ AllQuiet => \A f \in File : Live(f) => (row[f].marked <=> f \in wish)

\* "Restore instead if the file still matters": emptying the bin does not
\* delete a file whose owner restored it.
RestoredSurvive ==
  [][\A p \in Op : PurgeRecycleBin(p) =>
       \A f \in File : Live(f) /\ row'[f].st = "deleted" => f \in wish]_vars

-----------------------------------------------------------------------------
(* The inductive invariant *)

\* Rows that do not exist refer to nothing; a parent was created before.
RowsWellFormed ==
  \A f \in File : /\ row[f].st \in {"unused", "purged"} => row[f].obj = None
                  /\ row[f].parent # Root => row[row[f].parent].st # "unused"

\* A process in the middle of an operation knows what it works on.
LocalsSet ==
  /\ \A p \in Op : op[p].pc = "idle" => op[p] = IdleOp
  /\ \A w \in Worker : /\ work[w].pc # "idle" => work[w].f # None
                       /\ work[w].pc = "insert" => work[w].obj # None

\* A process past the creation of its object: no row refers to it yet.
Pending(o) == \/ \E p \in Op : op[p].pc \in {"parent", "insert"} /\ op[p].obj = o
              \/ \E w \in Worker : work[w].pc = "insert" /\ work[w].obj = o

PendingIsFresh ==
  \A o \in Object : Pending(o) => /\ object[o].st = "stored"
                                  /\ object[o].key = o => o \in blob \cup lost
                                  /\ \A f \in File : row[f].obj # o

\* No two processes are about to insert a row for the same object.
PendingApart ==
  /\ \A p, q \in Op : op[p].pc \in {"parent", "insert"} /\ op[q].pc \in {"parent", "insert"}
                        /\ op[p].obj = op[q].obj /\ op[p].obj # None => p = q
  /\ \A v, w \in Worker : work[v].pc = "insert" /\ work[w].pc = "insert"
                            /\ work[v].obj = work[w].obj => v = w
  /\ \A p \in Op, w \in Worker : op[p].pc \in {"parent", "insert"} /\ work[w].pc = "insert"
                                   => op[p].obj # work[w].obj

KeysAreOwn == \A o \in Object : object[o].st = "stored" => object[o].key \in {o} \cup File

RowsStored == \A f \in File : row[f].obj # None => object[row[f].obj].st = "stored"

\* An open purge holds existing rows that no other purge holds; the objects it
\* goes through are those of its rows, and the ones it deleted of no others.
PurgesApart ==
  /\ \A p \in Op : op[p].pc # "objects" => op[p].dead = {}
  /\ \A p \in Op : op[p].pc = "objects" =>
       /\ \A f \in op[p].ids : Exists(f)
       /\ \A o \in op[p].objs \cup op[p].dead : \E f \in op[p].ids : row[f].obj = o
       /\ \A o \in op[p].dead, f \in File : row[f].obj = o => f \in op[p].ids
  /\ \A p, q \in Op : p # q => Gone(p) \cap Gone(q) = {}

BlobsKept ==
  \A f \in File :
    row[f].obj # None /\ object[row[f].obj].key = row[f].obj =>
      \/ row[f].obj \in blob \cup lost
      \/ \E p \in Op : f \in Gone(p) /\ row[f].obj \in op[p].dead

\* The check of a move stays good until its update.
MovesStaySafe ==
  /\ \A p \in Op : op[p].pc = "move" /\ op[p].to # Root => row[op[p].to].st # "unused"
  /\ \A p \in Op : op[p].pc = "move" => world.kinds[p] \cap {"move", "update"} # {}
  /\ OneMover => \A p \in Op : op[p].pc = "move" => op[p].to \notin LiveTree(op[p].ids)

\* The last of what is still to be done to a file's mark, be it an action to
\* publish, the last in the queue or the one in hand, is what the owner asked
\* for last; with nothing to be done the mark is.
Publishing(f) == \E p \in Op : op[p].pc = "publish" /\ f \in op[p].ids
Queued(f)     == \E i \in 1 .. Len(queue) : queue[i].file = f
InHand(f)     == \E w \in Worker : hand[w] # None /\ hand[w].file = f

LastIsWish ==
  /\ \A p \in Op : op[p].pc = "publish" => \A f \in op[p].ids : op[p].mark <=> f \in wish
  /\ \A i \in 1 .. Len(queue) : LET f == queue[i].file IN
       ~Publishing(f) /\ (\A j \in i + 1 .. Len(queue) : queue[j].file # f)
         => (queue[i].mark <=> f \in wish)
  /\ \A w \in Worker : hand[w] # None =>
       LET f == hand[w].file IN ~Publishing(f) /\ ~Queued(f) => (hand[w].mark <=> f \in wish)
  /\ \A f \in File : Live(f) /\ ~Publishing(f) /\ ~Queued(f) /\ ~InHand(f)
                       => (row[f].marked <=> f \in wish)

\* Only a running request has something to publish, and only for files that exist.
MarksSettle ==
  InOrder => /\ LastIsWish
             /\ \A p \in Op : op[p].pc # "idle" => world.kinds[p] # {}
             /\ \A f \in wish : row[f].st # "unused"

\* Rows, objects, blobs and the tree.
TreeInv == /\ TypeOK /\ RowsWellFormed /\ LocalsSet /\ PendingIsFresh /\ PendingApart /\ KeysAreOwn
           /\ RowsStored /\ PurgesApart /\ BlobsKept /\ MovesStaySafe /\ OneMoverAcyclic

\* Together, every state's: each is kept with the help of TreeInv.
IInv == TreeInv /\ MarksSettle
=============================================================================
