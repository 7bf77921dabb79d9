---------------------------- MODULE ContentEdit ----------------------------
(***************************************************************************)
(* Editing the bytes of a file that exists: WebDAV, WOPI (Collabora), the  *)
(* REST content endpoints, uploads that overwrite in place, the lock table *)
(* they share, and the worker that rehashes what they changed.             *)
(*                                                                         *)
(* A lock row is found by its key: a file id, or a WebDAV path when the    *)
(* path did not resolve to a file.  No unique index protects the table, so *)
(* a key may have several rows; first[k] is the one of the least id, which *)
(* a First query returns.  Ids are drawn before their row is inserted, so  *)
(* of two inserts that overlap either may come first.  Paths are flat      *)
(* names of one account's root.  Of bytes, sizes and hashes only this      *)
(* matters: whether a size, a hash or a copy in somebody's hands is that   *)
(* of the bytes stored now.                                                *)
(***************************************************************************)
EXTENDS Naturals, Sequences, FiniteSets

CONSTANTS
  Name,     \* WebDAV paths
  File,     \* ids of file rows
  Object,   \* ids of file_objects rows and keys of their blobs
  Token,    \* lock tokens
  Client,   \* concurrent requests
  Worker,   \* processes that run the rehash queue
  Batch,    \* rows a rehash pass reads
  Worlds,   \* deployments: who does what, and what may go wrong
  None

Key == Name \cup File

\* Requests of x/net/webdav that name a path, the lock requests and the writes.
DavKind  == {"lock", "put", "delete", "mkcol", "move"}
WopiKind == {"wopiLock", "relock"}
EditKind == {"save", "restPut", "patch"}
Kind     == DavKind \cup WopiKind \cup EditKind \cup {"putIf", "unlock", "refresh", "get", "fast"}

Mode == {"shared",   \* the files there are at first share one object
         "backlog",  \* objects without a file are flagged at first
         "serial",   \* transactions of AcquireLock on one key do not overlap
         "steady",   \* nothing happens from the lookup of a lock or a path
                     \* until the lock is taken
         "strict",   \* clients edit a file only under its lock
         "calm",     \* no write overlaps a rehash
         "oneShot",  \* each client sends one request
         "expire",   \* locks may time out
         "crash"}    \* requests may die with the server

World == [kinds : [Client -> SUBSET Kind],
          named : [File -> Name \cup {None}],  \* the files there are at first
          paths : SUBSET Name,                 \* what WebDAV clients address
          mode  : SUBSET Mode]

ASSUME KeysDisjoint  == Name \cap File = {} /\ None \notin Key \cup Object \cup Token
ASSUME WorldsTyped   == Worlds \subseteq World
ASSUME ObjectsEnough == \E own \in [File -> Object] : \A f, g \in File : own[f] = own[g] => f = g

VARIABLES
  lock,    \* tokens of the file_locks rows by key
  first,   \* the token of the row of the key with the least id
  aged,    \* tokens of rows whose expires_at is in the past
  row,     \* cloud_files rows
  blob,    \* objects with bytes in storage
  sized,   \* objects whose row has the size of these bytes
  hashed,  \* objects whose row has the hash of these bytes
  flagged, \* objects whose row says needs_rehash
  op,      \* the request each client has in flight
  held,    \* the lock token each client was given and has not returned
  sent,    \* clients that have sent a request
  rehash,  \* local state of the rehash passes
  world

vars == <<lock, first, aged, row, blob, sized, hashed, flagged, op, held, sent, rehash, world>>

content == <<blob, sized, hashed, flagged>>
locks   == <<lock, first, aged>>

Row == [kind : {"free", "file", "folder", "deleted"}, name : Name \cup {None},
        obj : Object \cup {None}]

OpPC == {"idle", "create", "acquire", "insert", "apply", "store", "record", "read", "write",
         "update", "commit", "stream", "served", "source", "rename", "release", "confirmed"}

OpRow == [pc : OpPC, kind : Kind \cup {None}, todo : Seq(Name), n : Name \cup {None}, d : Name \cup {None},
          f : File \cup {None}, obj : Object \cup {None}, key : Key \cup {None},
          tok : Token \cup {None}, tmp : SUBSET Token,
          now : BOOLEAN]   \* its copy of the bytes, or their size, is that of the stored ones

IdleOp == [pc |-> "idle", kind |-> None, todo |-> <<>>, n |-> None, d |-> None, f |-> None,
           obj |-> None, key |-> None, tok |-> None, tmp |-> {}, now |-> FALSE]

IdleRehash == [todo |-> {}, o |-> None, now |-> FALSE]

Is(mode) == mode \in world.mode

Live(f)     == row[f].kind \in {"file", "folder"}
Named(n)    == {f \in File : Live(f) /\ row[f].name = n}
\* Fresh ids and new contents are interchangeable: one stands for all.
OneOf(S) == IF S = {} THEN {} ELSE {CHOOSE x \in S : TRUE}

FreshFile   == OneOf({f \in File : row[f].kind = "free"})
FreshObject == OneOf({o \in Object \ blob : \A f \in File : row[f].obj # o})
Held        == {held[c] : c \in Client} \cup {op[c].tok : c \in Client}
                 \cup UNION {op[c].tmp : c \in Client}
FreshToken  == OneOf({t \in Token \ Held : \A k \in Key : t \notin lock[k]})

\* GetLock and the First queries of the lock transactions: the row with the lowest id.
Holder(k) == first[k]

\* resolvePath: any row of that name, in the order the database returns them.
Resolve(n) == IF Named(n) = {} THEN {None} ELSE Named(n)

\* CanFastOverwrite: the number of live rows of the object
Refs(o) == Cardinality({f \in File : Live(f) /\ row[f].obj = o})

InitialObject(w, f) ==
  LET one == CHOOSE o \in Object : TRUE
      own == CHOOSE g \in [File -> Object] : \A a, b \in File : g[a] = g[b] => a = b
  IN  IF w.named[f] = None THEN None ELSE IF "shared" \in w.mode THEN one ELSE own[f]

Init ==
  /\ world \in Worlds
  /\ lock = [k \in Key |-> {}]
  /\ first = [k \in Key |-> None]
  /\ aged = {}
  /\ row = [f \in File |-> [kind |-> IF world.named[f] = None THEN "free" ELSE "file",
                            name |-> world.named[f], obj |-> InitialObject(world, f)]]
  /\ hashed = {o \in Object : \E f \in File : row[f].obj = o}
  /\ flagged = IF "backlog" \in world.mode THEN Object \ hashed ELSE {}
  /\ blob = hashed \cup flagged
  /\ sized = blob
  /\ op = [c \in Client |-> IdleOp]
  /\ held = [c \in Client |-> None]
  /\ sent = {}
  /\ rehash = [w \in Worker |-> IdleRehash]

\* A request of that kind begins; Answered ends it.
Begins(c, kind) ==
  /\ op[c].pc = "idle"
  /\ kind \in world.kinds[c]
  /\ Is("oneShot") => c \notin sent
  /\ sent' = IF Is("oneShot") THEN sent \cup {c} ELSE sent

Goto(c, pc)  == op' = [op EXCEPT ![c].pc = pc]
Answered(c)  == op' = [op EXCEPT ![c] = IdleOp]

Rehashing == \E w \in Worker : rehash[w] # IdleRehash

Locking == {c \in Client : op[c].pc \in {"acquire", "insert", "confirmed"}}

(***************************************************************************)
(* The lock table.                                                         *)
(***************************************************************************)

\* The row that comes first among the rows left: any of them may.
FirstOf(left) == IF left = {} THEN {None} ELSE left

\* ReleaseLock deletes the first row of the key, if it has this token.
ReleaseLock(k, t) ==
  IF Holder(k) = t
  THEN /\ lock' = [lock EXCEPT ![k] = @ \ {t}]
       /\ \E h \in FirstOf(lock[k] \ {t}) : first' = [first EXCEPT ![k] = h]
  ELSE UNCHANGED <<lock, first>>

\* findLockByToken, then ReleaseLock of the key found.
Unlock(t) ==
  \/ \E k \in Key : t \in lock[k] /\ ReleaseLock(k, t)
  \/ (\A k \in Key : t \notin lock[k]) /\ UNCHANGED <<lock, first>>

\* Mutant: another holder's row is no conflict.
AcquireReadBlind(c) ==
  /\ op[c].pc = "acquire"
  /\ Goto(c, "insert")
  /\ UNCHANGED <<locks, row, content, held, sent, rehash, world>>

\* The transaction of AcquireLock reads the first row ...
AcquireRead(c) ==
  /\ op[c].pc = "acquire"
  /\ Is("serial") => \A b \in Client : op[b].pc = "insert" => op[b].key # op[c].key
  /\ LET now == Holder(op[c].key)
     IN  /\ now # None /\ now # op[c].tok => Goto(c, "release")
         /\ now = None => Goto(c, "insert")
         /\ now # None /\ now = op[c].tok => Goto(c, "confirmed")
  /\ aged' = aged \ (IF Holder(op[c].key) = op[c].tok THEN {op[c].tok} ELSE {})
  /\ UNCHANGED <<lock, first, row, content, held, sent, rehash, world>>

\* ... and inserts one if there was none then.
AcquireInsert(c) ==
  /\ op[c].pc = "insert"
  /\ lock' = [lock EXCEPT ![op[c].key] = @ \cup {op[c].tok}]
  /\ \E h \in {op[c].tok, Holder(op[c].key)} \ {None} :
       first' = [first EXCEPT ![op[c].key] = h]
  /\ Goto(c, "confirmed")
  /\ UNCHANGED <<aged, row, content, held, sent, rehash, world>>

\* A temporary lock joins those of its request; LOCK keeps its own.
AcquireDone(c) ==
  /\ op[c].pc = "confirmed"
  /\ op[c].kind \in DavKind \cup WopiKind
  /\ IF op[c].kind \in WopiKind
     THEN /\ held' = [held EXCEPT ![c] = op[c].tok]
          /\ Answered(c)
     ELSE /\ op' = [op EXCEPT ![c].pc = IF Len(op[c].todo) = 1 THEN "apply" ELSE "create",
                              ![c].todo = Tail(@),
                              ![c].tmp = @ \cup {op[c].tok}]
          /\ UNCHANGED held
  /\ UNCHANGED <<locks, row, content, sent, rehash, world>>

\* A row whose time has come is deleted by whichever query cleans first.
Age(t) ==
  /\ Is("expire")
  /\ \E k \in Key : t \in lock[k]
  /\ aged' = aged \cup {t}
  /\ UNCHANGED <<lock, first, row, content, op, held, sent, rehash, world>>

CleanExpiredLocks ==
  /\ aged # {}
  /\ lock' = [k \in Key |-> lock[k] \ aged]
  /\ first' \in {h \in [Key -> Token \cup {None}] :
       \A k \in Key : h[k] \in IF Holder(k) \in lock[k] \ aged THEN {Holder(k)}
                              ELSE FirstOf(lock[k] \ aged)}
  /\ aged' = {}
  /\ UNCHANGED <<row, content, op, held, sent, rehash, world>>

RefreshLock(c) ==
  /\ held[c] # None
  /\ Begins(c, "refresh")
  /\ \E k \in Key : Holder(k) = held[c]
  /\ aged' = aged \ {held[c]}
  /\ UNCHANGED <<lock, first, row, content, op, held, rehash, world>>

(***************************************************************************)
(* WebDAV requests without an If header: the library takes temporary locks *)
(* on the paths it is about to change and returns them afterwards.         *)
(***************************************************************************)
DavRequest(c, kind, n, d) ==
  /\ kind \in DavKind /\ {n, d} \subseteq world.paths
  /\ Begins(c, kind)
  /\ kind = "lock" => held[c] = None
  /\ kind = "move" <=> n # d
  /\ op' = [op EXCEPT ![c] = [IdleOp EXCEPT !.pc = "create", !.kind = kind, !.n = n, !.d = d,
                              !.todo = IF kind = "move" THEN <<n, d>> ELSE <<n>>]]
  /\ UNCHANGED <<locks, row, content, held, rehash, world>>

\* Mutant: a path that does not resolve to a file is not locked.
LockCreateFilesOnly(c) ==
  /\ op[c].pc = "create"
  /\ LET n == Head(op[c].todo)
     IN  IF Holder(n) # None
         THEN Goto(c, "release")
         ELSE \E t \in FreshToken, f \in Resolve(n) :
                op' = [op EXCEPT ![c].pc = IF f = None THEN "confirmed" ELSE "acquire",
                                 ![c].tok = t,
                                 ![c].key = IF f = None THEN n ELSE f]
  /\ UNCHANGED <<locks, row, content, held, sent, rehash, world>>

\* Mutant: the lock is always that of the path.
LockCreateByPath(c) ==
  /\ op[c].pc = "create"
  /\ LET n == Head(op[c].todo)
     IN  IF Holder(n) # None
         THEN Goto(c, "release")
         ELSE \E t \in FreshToken :
                op' = [op EXCEPT ![c].pc = "acquire", ![c].tok = t, ![c].key = n]
  /\ UNCHANGED <<locks, row, content, held, sent, rehash, world>>

\* Create: refuse if the path is locked, then lock the file it resolves to, or the path.
LockCreate(c) ==
  /\ op[c].pc = "create"
  /\ LET n == Head(op[c].todo)
     IN  IF Holder(n) # None
         THEN Goto(c, "release")
         ELSE \E t \in FreshToken, f \in Resolve(n) :
                op' = [op EXCEPT ![c].pc = "acquire", ![c].tok = t,
                                 ![c].key = IF f = None THEN n ELSE f]
  /\ UNCHANGED <<locks, row, content, held, sent, rehash, world>>

\* LOCK of a path that does not exist creates an empty file there.
LockOpen(c) ==
  /\ op[c].pc = "apply" /\ op[c].kind = "lock"
  /\ \/ /\ Named(op[c].n) # {}
        /\ UNCHANGED row
     \/ /\ Named(op[c].n) = {}
        /\ \E f \in FreshFile, o \in FreshObject :
             row' = [row EXCEPT ![f] = [kind |-> "file", name |-> op[c].n, obj |-> o]]
  /\ held' = [held EXCEPT ![c] = op[c].tok]
  /\ Answered(c)
  /\ UNCHANGED <<locks, content, sent, rehash, world>>

\* openForWrite with O_CREATE|O_TRUNC: the file the path names now, if any.
OpenForWrite(c) ==
  /\ op[c].pc = "apply" /\ op[c].kind \in {"put", "putIf"}
  /\ \E f \in Resolve(op[c].n) :
       op' = IF f # None /\ row[f].kind = "folder"
             THEN [op EXCEPT ![c].pc = "release"]
             ELSE [op EXCEPT ![c].pc = IF f = None THEN "store" ELSE "write", ![c].f = f]
  /\ UNCHANGED <<locks, row, content, held, sent, rehash, world>>

\* closeNewFile streams the temporary file to storage ...
StreamToStorage(c) ==
  /\ op[c].pc = "store"
  /\ \E o \in FreshObject :
       /\ blob' = blob \cup {o}
       /\ sized' = sized \cup {o}
       /\ hashed' = hashed \cup {o}
       /\ op' = [op EXCEPT ![c].pc = "record", ![c].obj = o]
  /\ UNCHANGED <<locks, row, flagged, held, sent, rehash, world>>

\* ... and then creates the row.
CloseNewFile(c) ==
  /\ op[c].pc = "record"
  /\ \E f \in FreshFile :
       row' = [row EXCEPT ![f] = [kind |-> "file", name |-> op[c].n, obj |-> op[c].obj]]
  /\ op' = [op EXCEPT ![c].pc = "release", ![c].obj = None]
  /\ UNCHANGED <<locks, content, held, sent, rehash, world>>

RemoveAll(c) ==
  /\ op[c].pc = "apply" /\ op[c].kind = "delete"
  /\ \E f \in Resolve(op[c].n) :
       row' = IF f = None THEN row ELSE [row EXCEPT ![f].kind = "deleted"]
  /\ Goto(c, "release")
  /\ UNCHANGED <<locks, content, held, sent, rehash, world>>

\* Mkdir does not look whether the name is taken.
Mkdir(c) ==
  /\ op[c].pc = "apply" /\ op[c].kind = "mkcol"
  /\ \E f \in FreshFile :
       row' = [row EXCEPT ![f] = [kind |-> "folder", name |-> op[c].n, obj |-> None]]
  /\ Goto(c, "release")
  /\ UNCHANGED <<locks, content, held, sent, rehash, world>>

\* MOVE with Overwrite removes what the destination names, before it looks
\* for the source ...
MoveOver(c) ==
  /\ op[c].pc = "apply" /\ op[c].kind = "move"
  /\ \E g \in Resolve(op[c].d) :
       row' = IF g = None THEN row ELSE [row EXCEPT ![g].kind = "deleted"]
  /\ Goto(c, "source")
  /\ UNCHANGED <<locks, content, held, sent, rehash, world>>

\* ... and renames the file that it finds then.
FindSource(c) ==
  /\ op[c].pc = "source"
  /\ \E f \in Resolve(op[c].n) :
       op' = [op EXCEPT ![c].pc = IF f = None THEN "release" ELSE "rename", ![c].f = f]
  /\ UNCHANGED <<locks, row, content, held, sent, rehash, world>>

Rename(c) ==
  /\ op[c].pc = "rename"
  /\ row' = IF Live(op[c].f) THEN [row EXCEPT ![op[c].f].name = op[c].d] ELSE row
  /\ Goto(c, "release")
  /\ UNCHANGED <<locks, content, held, sent, rehash, world>>

\* The request returns its temporary locks, one Unlock each.
Release(c) ==
  /\ op[c].pc = "release"
  /\ IF op[c].tmp = {}
     THEN /\ Answered(c)
          /\ UNCHANGED <<lock, first>>
     ELSE \E t \in op[c].tmp :
            /\ IF op[c].kind = "putIf" THEN ReleaseLock(op[c].key, t) ELSE Unlock(t)
            /\ op' = [op EXCEPT ![c].tmp = @ \ {t}]
  /\ UNCHANGED <<aged, row, content, held, sent, rehash, world>>

(***************************************************************************)
(* Requests with a lock token of their own.                                *)
(***************************************************************************)

\* Confirm looks for the token under the path only, and what it returns as
\* "release" gives the user's own lock back when the PUT is over.
Confirm(c, n) ==
  /\ Begins(c, "putIf")
  /\ held[c] # None
  /\ op' = IF Holder(n) = held[c]
           THEN [op EXCEPT ![c] = [IdleOp EXCEPT !.pc = "apply", !.kind = "putIf", !.n = n,
                                                 !.key = n, !.tmp = {held[c]}]]
           ELSE op
  /\ UNCHANGED <<locks, row, content, held, rehash, world>>

\* UNLOCK of either protocol.
ReturnLock(c) ==
  /\ Begins(c, "unlock")
  /\ held[c] # None
  /\ Unlock(held[c])
  /\ held' = [held EXCEPT ![c] = None]
  /\ UNCHANGED <<aged, row, content, op, rehash, world>>

\* WOPI LOCK, with a new token or the one it has, and UNLOCK_AND_RELOCK,
\* which releases and then acquires.
WopiLock(c, f) ==
  /\ row[f].kind = "file"
  /\ \/ /\ Begins(c, "wopiLock")
        /\ Holder(f) = held[c]
        /\ UNCHANGED <<lock, first, held>>
     \/ /\ Begins(c, "relock")
        /\ held[c] # None /\ Holder(f) = held[c]
        /\ ReleaseLock(f, held[c])
        /\ held' = [held EXCEPT ![c] = None]
  /\ \E t \in IF held'[c] = None THEN FreshToken ELSE {held[c]} :
       op' = [op EXCEPT ![c] = [IdleOp EXCEPT !.pc = "acquire", !.kind = "wopiLock", !.f = f,
                                              !.key = f, !.tok = t]]
  /\ UNCHANGED <<aged, row, content, rehash, world>>

(***************************************************************************)
(* Writing in place.                                                       *)
(***************************************************************************)

\* What the lock of the file lets a WOPI save, a PUT and a PATCH do with the
\* token they present (None: no header).
MayWrite(kind, f, t) ==
  IF kind = "patch"
  THEN Holder(f) # None /\ t \in {None, Holder(f)}
  ELSE Holder(f) \in {None, t}

EditCheck(c, kind, f, t) ==
  /\ kind \in EditKind
  /\ Begins(c, kind)
  /\ row[f].kind = "file"
  /\ t \in {held[c]} \cup (IF Is("strict") THEN {} ELSE {None})
  /\ Is("strict") => held[c] # None /\ Holder(f) = held[c]
  /\ MayWrite(kind, f, t)
  /\ op' = [op EXCEPT ![c] = [IdleOp EXCEPT !.pc = IF kind = "patch" THEN "read" ELSE "write",
                                            !.kind = kind, !.f = f]]
  /\ UNCHANGED <<locks, row, content, held, rehash, world>>

\* New bytes under the key of o: every other copy, and both fields of the
\* row, describe bytes that are gone.
Put(c, o, mine) ==
  /\ blob' = blob \cup {o}
  /\ sized' = sized \ {o}
  /\ hashed' = hashed \ {o}
  /\ op' = [b \in Client |-> IF b = c THEN [mine EXCEPT !.obj = o, !.now = TRUE]
                            ELSE [op[b] EXCEPT !.now = @ /\ op[b].obj # o]]
  /\ rehash' = [w \in Worker |-> [rehash[w] EXCEPT !.now = @ /\ rehash[w].o # o]]

\* ApplyPatch reads the bytes the patch applies to.
PatchRead(c) ==
  /\ op[c].pc = "read"
  /\ op' = [op EXCEPT ![c].pc = "write", ![c].obj = row[op[c].f].obj, ![c].now = TRUE]
  /\ UNCHANGED <<locks, row, content, held, sent, rehash, world>>

\* OverwriteInPlace puts the new bytes under the key of the object ...
OverwritePut(c) ==
  /\ op[c].pc = "write"
  /\ row[op[c].f].kind = "file"
  /\ Is("calm") => ~Rehashing
  /\ Put(c, row[op[c].f].obj, [op[c] EXCEPT !.pc = "update"])
  /\ UNCHANGED <<locks, row, flagged, held, sent, world>>

\* (the file was deleted after the request looked it up)
OverwriteFails(c) ==
  /\ op[c].pc = "write"
  /\ row[op[c].f].kind # "file"
  /\ Goto(c, "release")
  /\ UNCHANGED <<locks, row, content, held, sent, rehash, world>>

\* ... and then updates its row.
SetSize(c) == sized' = IF op[c].now THEN sized \cup {op[c].obj} ELSE sized \ {op[c].obj}

\* Mutant: needs_rehash is forgotten.
OverwriteUpdateUnflagged(c) ==
  /\ op[c].pc = "update"
  /\ SetSize(c)
  /\ op' = [op EXCEPT ![c].pc = "release", ![c].obj = None, ![c].now = FALSE]
  /\ UNCHANGED <<locks, row, blob, hashed, flagged, held, sent, rehash, world>>

OverwriteUpdate(c) ==
  /\ op[c].pc = "update"
  /\ SetSize(c)
  /\ flagged' = flagged \cup {op[c].obj}
  /\ op' = [op EXCEPT ![c].pc = "release", ![c].obj = None, ![c].now = FALSE]
  /\ UNCHANGED <<locks, row, blob, hashed, held, sent, rehash, world>>

\* FastOverwriteFile: an upload that replaces the bytes of the only row of
\* an object.  It asks no lock, and puts the bytes inside its transaction.
FastOverwritePut(c, f) ==
  /\ Begins(c, "fast")
  /\ row[f].kind = "file" /\ row[f].obj # None
  /\ Refs(row[f].obj) = 1
  /\ Is("calm") => ~Rehashing
  /\ Put(c, row[f].obj, [IdleOp EXCEPT !.pc = "commit", !.kind = "fast", !.f = f])
  /\ UNCHANGED <<locks, row, flagged, held, world>>

FastOverwriteCommit(c) ==
  /\ op[c].pc = "commit"
  /\ SetSize(c)
  /\ hashed' = IF op[c].now THEN hashed \cup {op[c].obj} ELSE hashed \ {op[c].obj}
  /\ Answered(c)
  /\ UNCHANGED <<locks, row, blob, flagged, held, sent, rehash, world>>

\* A GET takes the length from the row when it opens the file and opens the
\* bytes at the first read.
OpenForRead(c, n) ==
  /\ Begins(c, "get")
  /\ \E f \in Named(n) :
       /\ row[f].kind = "file"
       /\ op' = [op EXCEPT ![c] = [IdleOp EXCEPT !.pc = "stream", !.kind = "get", !.f = f,
                                                 !.obj = row[f].obj,
                                                 !.now = row[f].obj \in sized]]
  /\ UNCHANGED <<locks, row, content, held, rehash, world>>

EnsureOpen(c) ==
  /\ op[c].pc = "stream"
  /\ op' = [op EXCEPT ![c].pc = "served"]
  /\ UNCHANGED <<locks, row, content, held, sent, rehash, world>>

Served(c) ==
  /\ op[c].pc = "served"
  /\ Answered(c)
  /\ UNCHANGED <<locks, row, content, held, sent, rehash, world>>

(***************************************************************************)
(* The rehash queue.                                                       *)
(***************************************************************************)
Writing(c) == op[c].pc \in {"update", "commit"}

\* processRehashQueue: up to Batch flagged rows, in no order.
RehashScan(w) ==
  /\ rehash[w] = IdleRehash
  /\ Is("calm") => \A c \in Client : ~Writing(c)
  /\ \E S \in SUBSET flagged :
       /\ S # {}
       /\ Cardinality(S) = Batch \/ (S = flagged /\ Cardinality(S) < Batch)
       /\ rehash' = [rehash EXCEPT ![w].todo = S]
  /\ UNCHANGED <<locks, row, content, op, held, sent, world>>

\* rehashObject reads the bytes, unless no live row refers to the object ...
RehashRead(w) ==
  /\ rehash[w].o = None
  /\ \E o \in rehash[w].todo :
       rehash' = [rehash EXCEPT
         ![w] = [todo |-> rehash[w].todo \ {o},
                 o   |-> IF Refs(o) = 0 THEN None ELSE o,
                 now |-> Refs(o) # 0]]
  /\ UNCHANGED <<locks, row, content, op, held, sent, world>>

\* Mutant: the flag stays.
RehashWriteKeeps(w) ==
  LET o == rehash[w].o
  IN  /\ o # None
      /\ hashed' = IF rehash[w].now THEN hashed \cup {o} ELSE hashed \ {o}
      /\ rehash' = [rehash EXCEPT ![w].o = None, ![w].now = FALSE]
      /\ UNCHANGED <<locks, row, blob, sized, flagged, op, held, sent, world>>

\* ... and later writes their hash and clears the flag.
RehashWrite(w) ==
  LET o == rehash[w].o
  IN  /\ o # None
      /\ hashed' = IF rehash[w].now THEN hashed \cup {o} ELSE hashed \ {o}
      /\ flagged' = flagged \ {o}
      /\ rehash' = [rehash EXCEPT ![w].o = None, ![w].now = FALSE]
      /\ UNCHANGED <<locks, row, blob, sized, op, held, sent, world>>

\* The server dies: what is in flight is lost, what is stored stays.
Crash ==
  /\ Is("crash")
  /\ op' = [c \in Client |-> IdleOp]
  /\ rehash' = [w \in Worker |-> IdleRehash]
  /\ UNCHANGED <<locks, row, content, held, sent, world>>

Lock(c) ==
  \/ AcquireRead(c) \/ AcquireInsert(c) \/ AcquireDone(c) \/ LockCreate(c) \/ LockOpen(c)
  \/ Release(c)

Write(c) ==
  \/ OpenForWrite(c) \/ StreamToStorage(c) \/ CloseNewFile(c)
  \/ RemoveAll(c) \/ Mkdir(c) \/ MoveOver(c) \/ FindSource(c) \/ Rename(c)
  \/ PatchRead(c) \/ OverwritePut(c) \/ OverwriteFails(c) \/ OverwriteUpdate(c) \/ FastOverwriteCommit(c)
  \/ EnsureOpen(c) \/ Served(c)

Request(c) ==
  \/ \E kind \in Kind, n, d \in Name : DavRequest(c, kind, n, d)
  \/ \E n \in Name : Confirm(c, n) \/ OpenForRead(c, n)
  \/ \E f \in File : WopiLock(c, f) \/ FastOverwritePut(c, f)
  \/ \E kind \in Kind, f \in File, t \in Token \cup {None} : EditCheck(c, kind, f, t)
  \/ ReturnLock(c) \/ RefreshLock(c)

\* In a steady deployment nobody acts while another client takes a lock.
Undisturbed(who) == Is("steady") => Locking \subseteq who

Step(c) ==
  /\ Undisturbed({c})
  /\ Lock(c) \/ Write(c)

Rehash(w) ==
  /\ Undisturbed({})
  /\ RehashScan(w) \/ RehashRead(w) \/ RehashWrite(w)

Next ==
  \/ \E c \in Client :
       \/ Step(c)
       \/ Undisturbed({}) /\ Request(c)
  \/ \E w \in Worker : Rehash(w)
  \/ Undisturbed({}) /\ (CleanExpiredLocks \/ \E t \in Token : Age(t))
  \/ Crash

Spec == Init /\ [][Next]_vars

FairSpec ==
  /\ Spec
  /\ \A c \in Client : WF_vars(Step(c))
  /\ \A w \in Worker : WF_vars(Rehash(w))

-----------------------------------------------------------------------------
TypeOK ==
  /\ world \in Worlds
  /\ lock \in [Key -> SUBSET Token]
  /\ first \in [Key -> Token \cup {None}]
  /\ aged \subseteq Token
  /\ row \in [File -> Row]
  /\ \A set \in {blob, sized, hashed, flagged} : set \subseteq Object
  /\ op \in [Client -> OpRow]
  /\ held \in [Client -> Token \cup {None}]
  /\ sent \subseteq Client
  /\ rehash \in [Worker -> [todo : SUBSET Object, o : Object \cup {None}, now : BOOLEAN]]

\* What a lock table promises: see ExclusiveLocks.
Exclusive == INSTANCE ExclusiveLocks WITH
  holder <- first, behind <- [k \in Key |-> lock[k] \ {first[k]}], overlap <- ~Is("serial")

\* The rows of file_locks implement a table of locks that are exclusive where
\* the transactions of AcquireLock do not overlap (service/lock.go:39), and
\* that queue behind each other, in any order, where they do.
LocksAreExclusive == Exclusive!Spec

\* A client that may make files.
Maker(c) == world.kinds[c] \cap {"lock", "put", "putIf"} # {}

\* MKCOL and MOVE do not look whether the name is taken; a lock that overlaps
\* another, was looked up too early, or times out under its request, keeps
\* nobody else from the name.
NamesGuarded ==
  /\ \A f, g \in File : world.named[f] = world.named[g] /\ world.named[f] # None => f = g
  /\ \A c \in Client : world.kinds[c] \cap {"mkcol", "move"} = {}
  /\ \/ Is("serial") /\ Is("steady") /\ ~Is("expire")
     \/ \A b, c \in Client : Maker(b) /\ Maker(c) => b = c

\* The temporary locks that PUT, DELETE and LOCK take, on paths and on files,
\* keep names unique although openForWrite and the schema never check them.
OneFilePerName ==
  NamesGuarded => \A n \in Name : Cardinality(Named(n)) <= 1

\* Every write in place is under a lock of the file, or of its path while it
\* was free, that is there until the write is done.
EditsGuarded ==
  /\ NamesGuarded /\ Is("serial") /\ Is("steady") /\ Is("strict")
  /\ ~Is("expire") /\ ~Is("shared")
  /\ \A c \in Client : world.kinds[c] \cap {"putIf", "fast"} = {}

\* Where clients edit only under the lock of the file, the bytes a patch
\* replaces are those it was computed from (service/patch.go:126-162).
NoLostEdit ==
  [][\A c \in Client :
       (EditsGuarded /\ op[c].kind = "patch" /\ op[c].pc = "write" /\ op'[c].pc = "update")
         => op[c].now]_vars

\* ... and the size of the row is that of the bytes whenever no write is
\* between its Put and its UPDATE.
SizesFollow ==
  (EditsGuarded /\ ~Is("crash")) =>
    \A o \in blob : (\A c \in Client : Writing(c) => op[c].obj # o) => o \in sized

\* An upload in place stores no flag, and a death between Put and UPDATE or a
\* write during a rehash leaves a wrong hash without one.
FlagsKept == Is("calm") /\ ~Is("crash") /\ \A c \in Client : "fast" \notin world.kinds[c]

\* Bytes that the stored hash does not describe are flagged for the rehash
\* worker, as long as no write overlaps a rehash.
FlagCoversStale ==
  FlagsKept =>
    \A o \in blob :
      (\A c \in Client : Writing(c) => op[c].obj # o) => o \in flagged \cup hashed

\* Files have objects, and the locals of a request fit the statement it is at.
Fits(r) ==
  /\ r.pc = "create" => r.kind \in DavKind
  /\ r.pc \in {"create", "acquire", "insert", "confirmed"} /\ r.kind \in DavKind => r.todo # <<>>
  /\ r.pc \in {"acquire", "insert", "confirmed"} => r.tok # None /\ r.key # None
  /\ r.pc \in {"read", "write", "rename"} => r.f # None
  /\ r.pc \in {"record", "update", "commit"} => r.obj # None

LocalsSet == /\ \A f \in File : row[f].kind = "file" => row[f].obj # None
             /\ \A c \in Client : Fits(op[c])

\* A token locks one key at most, and a transaction inserts one that locks
\* none; where transactions do not overlap, a key has one row at most.
OneRow ==
  /\ \A k \in Key : Holder(k) \in FirstOf(lock[k])
  /\ \A k, l \in Key : lock[k] \cap lock[l] # {} => k = l
  /\ \A c \in Client : op[c].pc \in {"acquire", "insert"} =>
       \A k \in Key : op[c].tok \in lock[k] => op[c].pc = "acquire" /\ k = op[c].key
  /\ Is("serial") =>
       /\ \A k \in Key : lock[k] \subseteq {Holder(k)}
       /\ \A b, c \in Client : op[b].pc = "insert" /\ op[c].pc = "insert" =>
            /\ Holder(op[c].key) = None
            /\ op[b].key = op[c].key => b = c

\* A request is of a kind its client sends, and names what that kind needs.
KindFits(c) ==
  LET r == op[c] IN
  /\ r.pc # "idle" /\ r.kind \in DavKind \cup {"putIf"} =>
       r.kind \in world.kinds[c] /\ r.n # None
  /\ r.pc \in {"create", "acquire", "insert", "confirmed"} /\ r.kind \in DavKind \ {"move"} =>
       r.todo = <<r.n>>
  /\ r.pc \in {"acquire", "insert", "confirmed"} => r.kind \in DavKind \/ r.key \in File
  /\ r.pc = "apply" => r.kind \in DavKind \cup {"putIf"}
  /\ r.pc \in {"store", "record"} => r.kind \in {"put", "putIf"}
  /\ r.pc \in {"source", "rename"} => r.kind = "move"
  /\ r.pc = "commit" => "fast" \in world.kinds[c]

\* No two clients have a token in common.
Tokens(c) == ({held[c], op[c].tok} \cup op[c].tmp) \ {None}

RequestsFit == /\ \A c \in Client : KindFits(c)
               /\ \A b, c \in Client : b # c => Tokens(b) \cap Tokens(c) = {}

\* A name has one file at most, and none while somebody is making it.
NamesApart ==
  NamesGuarded =>
    /\ \A f, g \in File : Live(f) /\ Live(g) /\ row[f].name = row[g].name => f = g
    /\ \A c \in Client : op[c].pc \in {"store", "record"} => Named(op[c].n) = {}

\* Until it has done what it came for, a request has its path locked or, with
\* the path free, the file there; one that is about to lock saw the path free.
Guards(c) ==
  LET r == op[c] IN
  /\ Holder(r.key) \in r.tmp
  /\ \/ r.key = r.n /\ (r.kind # "putIf" => Named(r.n) = {})
     \/ r.key \in Named(r.n) /\ Holder(r.n) = None

WillGuard(c) ==
  LET r == op[c] IN
  /\ r.pc = "confirmed" => Holder(r.key) = r.tok
  /\ \/ r.key = r.n /\ Named(r.n) = {}
     \/ r.key \in Named(r.n) /\ Holder(r.n) = None

PathsGuarded ==
  NamesGuarded /\ Is("serial") /\ Is("steady") /\ ~Is("expire") =>
    /\ aged = {}
    /\ \A c \in Client :
         /\ op[c].pc \in {"apply", "store", "record"} => Guards(c)
         /\ op[c].pc \in {"acquire", "insert", "confirmed"} /\ op[c].kind \in DavKind => WillGuard(c)

\* Objects that do not start out shared belong to one file, or to one request.
ObjectsApart ==
  ~Is("shared") =>
    /\ \A f, g \in File : row[f].obj = row[g].obj /\ row[f].obj # None => f = g
    /\ \A c \in Client : op[c].pc = "record" =>
         /\ op[c].obj \in blob /\ \A f \in File : row[f].obj # op[c].obj
         /\ \A b \in Client : op[b].pc = "record" /\ op[b].obj = op[c].obj => b = c

\* A request that writes in place has the lock of the file, and nobody has
\* written since it read or wrote.
EditsApart ==
  EditsGuarded =>
    \A c \in Client :
      LET r == op[c] IN
      /\ r.pc \in {"read", "write", "update"} =>
           r.f \in File /\ row[r.f].kind # "free" /\ Holder(r.f) \in Tokens(c)
      /\ r.pc = "update" \/ (r.pc = "write" /\ r.kind = "patch") => r.now /\ r.obj = row[r.f].obj

\* Where no write overlaps a rehash, what a pass has read are the bytes there.
RehashApart ==
  Is("calm") /\ Rehashing =>
    /\ \A c \in Client : ~Writing(c)
    /\ \A w \in Worker : rehash[w].o # None => rehash[w].now

\* The row of a file tells of its bytes, the size at once, the hash or a flag:
\* together with what the proofs carry from step to step.
IInv == /\ TypeOK /\ LocalsSet /\ OneRow /\ RequestsFit /\ NamesApart /\ PathsGuarded
        /\ ObjectsApart /\ EditsApart /\ RehashApart /\ SizesFollow /\ FlagCoversStale

\* Flagged objects no file refers to are skipped and stay in the queue.  While
\* they do not fill a batch, every edit of a file that stays is rehashed in the
\* end: its row has the hash of the bytes, and no flag (worker.go:336-358).
Skipped == {o \in flagged : Refs(o) = 0}

EditsSettle ==
  (Is("oneShot") /\ FlagsKept) =>
    ([](Cardinality(Skipped) < Batch) =>
       <>[](\A o \in blob : Refs(o) # 0 => o \in hashed \ flagged))

(***************************************************************************)
(* What comments and documents say.                                        *)
(***************************************************************************)

\* "a file locked via WebDAV is also locked for WOPI (Collabora) and vice
\* versa": no two clients hold the lock of one file.
LocksAreUnified ==
  \A f \in File, b, c \in Client :
    (/\ b # c /\ row[f].kind = "file" /\ held[b] # None /\ held[c] # None
     /\ held[b] = Holder(f)) => held[c] # Holder(row[f].name)

\* "Lock/unlock a file for exclusive editing": no two clients have been given
\* locks of one file, or of one path, that are both there.
LocksExclude ==
  \A k \in Key, b, c \in Client :
    (b # c /\ held[b] \in lock[k]) => held[c] \notin lock[k]
=============================================================================
