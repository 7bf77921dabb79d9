------------------------------ MODULE FileAccess ------------------------------
(***************************************************************************)
(* Who may read and manage a file: permission rows that files inherit from *)
(* their folders, the cache of these lookups, which all server processes   *)
(* share, its groups, by which an update invalidates it, and the           *)
(* permissions of pools.                                                   *)
(*                                                                         *)
(* A row grants a permission to a subject; accounts and scopes are         *)
(* subjects of one kind here, and superusers, like owners, need no row.    *)
(* Deleting a file for good and uploading one are left to other modules.   *)
(***************************************************************************)
EXTENDS Naturals

CONSTANTS File, Request, MaxWrites, Worlds, None

Permission == {"read", "manage"}
Subject    == {"public", "private", "bob"}
Viewer     == {"owner", "bob", "anonymous"}
Batches    == {"meta", "children"}   \* requests that look up several files at once

Row    == Permission \X Subject
Lookup == [has : BOOLEAN, source : File \cup {None}, to : SUBSET Subject]  \* cachedFilePermissionLookup
Key    == File \X Permission         \* filePermissionCacheKey
Pool   == [owned : BOOLEAN, hidden : BOOLEAN, usable : BOOLEAN, grants : SUBSET {"bob"}]

Op   == {"update", "publish", "unpublish", "move", "grpcMove", "delete", "purgeCache", "pool"}
Mode == {"overlap",  \* lookups and updates run next to each other
         "crash",    \* a process may die, once
         "faults"}   \* queries and calls of the cache fail

World == [parent : [File -> File \cup {None}], rows : [File -> SUBSET Row], pool : Pool,
          ops : SUBSET Op, items : SUBSET SUBSET Row, folders : SUBSET (File \cup {None}),
          readers : SUBSET Request, writers : SUBSET Request,  \* who sends what
          shown : SUBSET File, changed : SUBSET File,          \* the files that requests name
          asked : SUBSET {"info", "meta", "children"},
          mode : SUBSET Mode]

ASSUME WorldsTyped == Worlds \subseteq World
ASSUME MaxWritesNatural == MaxWrites \in Nat
ASSUME NoneIsNoFile == None \notin File

VARIABLES
  parent, live, rows,  \* cloud_files and file_permissions
  pool,                \* the pool that holds the files, with its permissions
  cached,              \* lookups in the cache
  groups,              \* keys in the group of each file
  request,             \* requests being served
  writes,              \* how many updates have begun
  died,                \* whether a process has died
  excused,             \* cached lookups that no invalidation needs to reach
  world

vars == <<parent, live, rows, pool, cached, groups, request, writes, died, excused, world>>
database == <<parent, live, rows, pool>>

Is(mode) == mode \in world.mode

\* real: lookups that were true at some moment since the request asked for
\* the place of the rows; raced: how many updates were committed since, up to two.
RequestRow == [pc : {"idle", "source", "rows", "chain", "store", "group",
                     "commit", "insert", "descend", "drop"},
               op : Op \cup {"info", "meta", "children"}, by : Viewer, p : Permission,
               f : File \cup {None}, dst : File \cup {None}, items : SUBSET Row,
               todo : SUBSET File, left : SUBSET File,
               found : [File -> Lookup], chain : [File -> SUBSET File],
               real : [File -> SUBSET Lookup], raced : 0 .. 2, loose : BOOLEAN]

NoLookup == [has |-> FALSE, source |-> None, to |-> {}]

Idle == [pc |-> "idle", op |-> "info", by |-> "owner", p |-> "read", f |-> None, dst |-> None,
         items |-> {}, todo |-> {}, left |-> {}, found |-> [f \in File |-> NoLookup],
         chain |-> [f \in File |-> {}], real |-> [f \in File |-> {}], raced |-> 0,
         loose |-> FALSE]

Init ==
  /\ world \in Worlds
  /\ parent = world.parent /\ live = File /\ rows = world.rows /\ pool = world.pool
  /\ cached = [k \in Key |-> None]
  /\ groups = [f \in File |-> {}]
  /\ request = [r \in Request |-> Idle]
  /\ writes = 0 /\ died = FALSE /\ excused = {}

-----------------------------------------------------------------------------
(* What the queries and the checks compute. *)

\* loadAncestorIDs: the file and the folders above it, up to a deleted one;
\* the least set that has the file and the live parents of its members.
Upward(S, above, alive) == \A g \in S : above[g] \in alive => above[g] \in S

AncestorsIn(above, alive, f) ==
  {a \in alive : f \in alive /\ \A S \in SUBSET alive : f \in S /\ Upward(S, above, alive) => a \in S}

Ancestors(f) == AncestorsIn(parent, live, f)

\* loadDescendantIDs: below the file, live or not itself, all that is live.
Descendants(f) ==
  {g \in File : \A S \in SUBSET File :
                  f \in S /\ (\A h \in live : parent[h] \in S => h \in S) => g \in S}

GrantedIn(table, f, p) == {s \in Subject : <<p, s>> \in table[f]}

\* The nearest folder on the way up that has a row of this permission.
SourceIn(above, alive, table, f, p) ==
  LET with == {a \in AncestorsIn(above, alive, f) : GrantedIn(table, a, p) # {}}
  IN  IF with = {} THEN None
      ELSE CHOOSE a \in with : with \subseteq AncestorsIn(above, alive, a)

\* What a lookup would answer if nothing ran next to it.
TruthIn(above, alive, table, f, p) ==
  LET s == SourceIn(above, alive, table, f, p)
  IN  IF s = None THEN NoLookup
      ELSE [has |-> TRUE, source |-> s, to |-> GrantedIn(table, s, p)]

Truth(f, p) == TruthIn(parent, live, rows, f, p)

\* sharedPoolIDs: a pool without an owner that is not hidden.
isSharedPoolFile == ~pool.owned /\ ~pool.hidden

\* Mutant: the pool's default outlives rows that say otherwise.
CanAccessFileByPool(v, lookup, p) ==
  \/ v = "owner"
  \/ p = "read" /\ isSharedPoolFile
  \/ lookup.has /\ ("public" \in lookup.to \/ v \in lookup.to)

CanAccessFile(v, lookup, p) ==
  \/ v = "owner"
  \/ ~lookup.has /\ p = "read" /\ isSharedPoolFile
  \/ lookup.has /\ ("public" \in lookup.to \/ v \in lookup.to)

\* permissionStatus and populateFilesMetadata: what a client is shown.
permissionStatus(lookup) ==
  \/ ~lookup.has /\ isSharedPoolFile
  \/ lookup.has /\ lookup.to \cap {"public", "bob"} # {}

\* ListPools shows a pool by its own rules, without the superuser's ...
poolVisibleTo(v) ==
  /\ ~pool.hidden
  /\ pool.owned => v = "owner" \/ pool.usable \/ v \in pool.grants

\* ... and this is the check for using it, here to read.
CanUsePool(v) ==
  /\ ~pool.hidden
  /\ \/ pool.owned /\ v = "owner"
     \/ pool.usable \/ v \in pool.grants

-----------------------------------------------------------------------------
(* The cache. *)

\* An update whose invalidation is still to come, and the groups it will
\* invalidate for certain.
IsPending(r) == request[r].pc \in {"insert", "descend", "drop"}

Pending == \E r \in Request : IsPending(r)

Reach(r) == IF request[r].pc = "drop" THEN request[r].todo
            ELSE IF IsPending(r) THEN {request[r].f} ELSE {}

\* What is lost with it.
Unreached(r) == UNION {groups[f] : f \in Reach(r)}

Fresh(k) == cached[k] \in {None, Truth(k[1], k[2])}

\* InvalidateFilePermissionCache: RemoveGroup takes the group's keys away.
InvalidateFilePermissionCache(f) ==
  /\ cached' = [k \in Key |-> IF k \in groups[f] THEN None ELSE cached[k]]
  /\ excused' = excused \ groups[f]
  /\ groups' = [groups EXCEPT ![f] = {}]

\* Mutant: an entry expires with its groups.
ExpireGroups(k) ==
  /\ cached[k] # None /\ \E f \in File : k \in groups[f]
  /\ cached' = [cached EXCEPT ![k] = None]
  /\ excused' = excused \ {k}
  /\ UNCHANGED <<database, groups, request, writes, died, world>>

\* SetData keeps a lookup for five minutes.
Expire(k) ==
  /\ cached[k] # None
  /\ cached' = [cached EXCEPT ![k] = None]
  /\ excused' = excused \ {k}
  /\ UNCHANGED <<database, groups, request, writes, died, world>>

-----------------------------------------------------------------------------
(* Lookups. *)

Set(r, row) == request' = [request EXCEPT ![r] = row]

\* After the lookup a request shows what it found, or goes on to its update.
Done(r, row) ==
  Set(r, IF row.op = "update" /\ CanAccessFile(row.by, row.found[row.f], "manage")
         THEN [row EXCEPT !.pc = "commit"] ELSE Idle)

\* resolveInheritedFilePermissions and its batch take what is cached, and
\* load the rest; a request that finds everything in the cache is over.
Resolve(r, op, files, p, start) ==
  LET missing == {f \in files : cached[<<f, p>>] = None}
      hits    == {<<f, p>> : f \in files \ missing}
      row     == [start EXCEPT !.op = op, !.p = p, !.todo = missing,
                    !.pc = "source",
                    !.loose = hits # {} /\ (Pending \/ hits \cap excused # {}),
                    !.found = [f \in File |-> IF f \in files \ missing THEN cached[<<f, p>>]
                                              ELSE NoLookup]]
  IN  IF missing # {} THEN Set(r, row) ELSE op = "update" /\ Done(r, row)

\* Requests may have to wait for each other.
MayStart(r) ==
  /\ request[r].pc = "idle"
  /\ Is("overlap") \/ \A q \in Request : request[q].pc = "idle"

MayRead(r, op) == MayStart(r) /\ r \in world.readers /\ op \in world.asked

fileInfo(r, f) ==
  /\ MayRead(r, "info") /\ f \in live \cap world.shown
  /\ Resolve(r, "info", {f}, "read", Idle)
  /\ UNCHANGED <<database, cached, groups, writes, died, excused, world>>

listFilesMetadata(r, files) ==
  /\ MayRead(r, "meta") /\ files \subseteq live \cap world.shown
  /\ Resolve(r, "meta", files, "read", Idle)
  /\ UNCHANGED <<database, cached, groups, writes, died, excused, world>>

listChildren(r, f) ==
  /\ MayRead(r, "children") /\ f \in live \cap world.shown
  /\ Resolve(r, "children", {g \in live : parent[g] = f}, "read", Idle)
  /\ UNCHANGED <<database, cached, groups, writes, died, excused, world>>

\* The first query: where the rows are.
LoadSource(r) ==
  /\ request[r].pc = "source"
  /\ LET row  == request[r]
         at   == [f \in File |-> IF f \in row.todo THEN SourceIn(parent, live, rows, f, row.p) ELSE None]
     IN  Set(r, [row EXCEPT
           !.pc = IF \E f \in row.todo : at[f] # None THEN "rows" ELSE "chain",
           !.found = [f \in File |-> IF f \in row.todo
                                     THEN [has |-> at[f] # None, source |-> at[f], to |-> {}]
                                     ELSE row.found[f]],
           !.real = [f \in File |-> IF f \in row.todo /\ at[f] # None THEN {Truth(f, row.p)}
                                    ELSE {}]])
  /\ UNCHANGED <<database, cached, groups, writes, died, excused, world>>

\* Mutant: rows of any permission.
RowsOfAny(source, p) == {s \in Subject : \E q \in Permission : <<q, s>> \in rows[source]}

\* The second query: the rows that are there now.
RowsOf(source, p) == GrantedIn(rows, source, p)

LoadRows(r) ==
  /\ request[r].pc = "rows"
  /\ LET row == request[r]
     IN  Set(r, [row EXCEPT !.pc = "chain", !.real = [f \in File |-> {}],
           !.found = [f \in File |-> IF f \in row.todo /\ row.found[f].has
                                     THEN [row.found[f] EXCEPT
                                            !.to = RowsOf(row.found[f].source, row.p)]
                                     ELSE row.found[f]]])
  /\ UNCHANGED <<database, cached, groups, writes, died, excused, world>>

\* Mutant: the entry is registered with its file only.
LoadChainShort(r) ==
  /\ request[r].pc = "chain"
  /\ Set(r, [request[r] EXCEPT !.pc = "store",
               !.chain = [f \in File |-> IF f \in request[r].todo THEN {f} ELSE {}]])
  /\ UNCHANGED <<database, cached, groups, writes, died, excused, world>>

\* A third query asks which groups the entries belong to.
LoadChain(r) ==
  /\ request[r].pc = "chain"
  /\ Set(r, [request[r] EXCEPT !.pc = "store",
               !.chain = [f \in File |-> IF f \in request[r].todo THEN Ancestors(f) ELSE {}]])
  /\ UNCHANGED <<database, cached, groups, writes, died, excused, world>>

\* If it fails, a batch caches nothing, a single lookup is cached in no group.
LoadChainFails(r) ==
  /\ Is("faults")
  /\ request[r].pc = "chain"
  /\ IF request[r].op \in Batches
     THEN Set(r, Idle)
     ELSE Set(r, [request[r] EXCEPT !.pc = "store"])
  /\ UNCHANGED <<database, cached, groups, writes, died, excused, world>>

\* One entry after the other, and within it one group after the other, the
\* file's own first.
Next1(r, row) ==
  IF row.left # {} THEN Set(r, [row EXCEPT !.pc = "group"])
  ELSE IF row.todo # {} THEN Set(r, [row EXCEPT !.pc = "store", !.f = IF row.op = "update" THEN @ ELSE None])
  ELSE Done(r, row)

\* A lookup that is stored, with the groups it will be registered with.
After(row, f, left) ==
  [row EXCEPT !.todo = @ \ {f}, !.f = f, !.left = left, !.chain[f] = {},
              !.found[f] = IF row.op = "update" THEN @ ELSE NoLookup]

\* cacheFilePermissionLookup: SetData ...
Store(r) ==
  /\ request[r].pc = "store"
  /\ \E f \in request[r].todo :
       LET row == request[r]
           k   == <<f, row.p>>
       IN  /\ cached' = [cached EXCEPT ![k] = row.found[f]]
           /\ excused' = IF row.raced > 0 \/ row.chain[f] = {} THEN excused \cup {k}
                         ELSE excused \ {k}
           /\ Next1(r, After(row, f, row.chain[f]))
  /\ UNCHANGED <<database, groups, writes, died, world>>

\* ... after whose error the lookup is in no group either ...
StoreFails(r) ==
  /\ Is("faults")
  /\ request[r].pc = "store"
  /\ \E f \in request[r].todo : Next1(r, After(request[r], f, {}))
  /\ UNCHANGED <<database, cached, groups, writes, died, excused, world>>

\* ... and AddToGroup.
AddToGroup(r) ==
  /\ request[r].pc = "group"
  /\ \E a \in request[r].left :
       /\ request[r].f \in request[r].left => a = request[r].f
       /\ groups' = [groups EXCEPT ![a] = @ \cup {<<request[r].f, request[r].p>>}]
       /\ Next1(r, [request[r] EXCEPT !.left = @ \ {a}])
  /\ UNCHANGED <<database, cached, writes, died, excused, world>>

\* Its errors are ignored: the entry stays, outside the group.
AddToGroupFails(r) ==
  /\ Is("faults")
  /\ request[r].pc = "group"
  /\ \E a \in request[r].left :
       /\ request[r].f \in request[r].left => a = request[r].f
       /\ Next1(r, [request[r] EXCEPT !.left = @ \ {a}])
  /\ excused' = excused \cup {<<request[r].f, request[r].p>>}
  /\ UNCHANGED <<database, cached, groups, writes, died, world>>

-----------------------------------------------------------------------------
(* Updates. *)

BeginWrite(r, op) ==
  /\ MayStart(r) /\ r \in world.writers /\ op \in world.ops
  /\ writes < MaxWrites
  /\ writes' = writes + 1

\* updateFilePermissions: owners, and those the cache says may manage.
updateFilePermissions(r, f, by, items) ==
  /\ BeginWrite(r, "update") /\ f \in live \cap world.changed
  /\ LET row == [Idle EXCEPT !.op = "update", !.p = "manage", !.by = by, !.f = f, !.items = items]
     IN  IF by = "owner" THEN Set(r, [row EXCEPT !.pc = "commit"])
         ELSE Resolve(r, "update", {f}, "manage", row)
  /\ UNCHANGED <<database, cached, groups, died, excused, world>>

\* Calls of other services, which are not checked, and DeleteFile and
\* MoveBatch, which first read what lies below the file.
BeginOther(r, op, f, dst) ==
  /\ BeginWrite(r, op) /\ f \in live \cap world.changed
  /\ op \in {"move", "grpcMove"} => dst \in world.folders
  /\ op = "move" => dst \notin Descendants(f)
  /\ op \notin {"move", "grpcMove"} => dst = None
  /\ Set(r, [Idle EXCEPT !.op = op, !.f = f, !.dst = dst,
               !.pc = IF op = "purgeCache" THEN "drop" ELSE "commit",
               !.todo = IF op = "delete" THEN Descendants(f)
                        ELSE IF op = "purgeCache" THEN {f} ELSE {}])
  /\ UNCHANGED <<database, cached, groups, died, excused, world>>

\* A change of the database, seen by the lookups that are under way.
Committed(r, row) ==
  /\ request' = [q \in Request |->
       IF q = r THEN row
       ELSE IF request[q].pc \notin {"source", "rows", "chain", "store", "group", "commit"}
       THEN request[q]
       ELSE [request[q] EXCEPT
              !.raced = IF @ = 2 THEN 2 ELSE @ + 1,
              !.real = [f \in File |-> IF request[q].real[f] = {} THEN {}
                                       ELSE request[q].real[f] \cup {TruthIn(parent', live', rows', f, request[q].p)}]]]
  /\ excused' = excused \cup {<<request[q].f, request[q].p>> :
                                q \in {q \in Request \ {r} : request[q].pc = "group"}}

\* UpdateFilePermissions replaces the rows in one transaction.
UpdateFilePermissions(r) ==
  /\ request[r].pc = "commit" /\ request[r].op = "update"
  /\ rows' = [rows EXCEPT ![request[r].f] = request[r].items]
  /\ UNCHANGED <<parent, live, pool>>
  /\ Committed(r, [Idle EXCEPT !.pc = "drop", !.todo = {request[r].f}])
  /\ UNCHANGED <<cached, groups, writes, died, world>>

\* SetFilePublic removes the rows for reading ...
SetFilePublicDelete(r) ==
  /\ request[r].pc = "commit" /\ request[r].op = "publish"
  /\ rows' = [rows EXCEPT ![request[r].f] = {x \in @ : x[1] # "read"}]
  /\ UNCHANGED <<parent, live, pool>>
  /\ Committed(r, [request[r] EXCEPT !.pc = "insert"])
  /\ UNCHANGED <<cached, groups, writes, died, world>>

\* ... and, in another statement, inserts a public one; UnsetFilePublic
\* inserts a private one.
InsertRow(r) ==
  /\ \/ request[r].pc = "insert"
     \/ request[r].pc = "commit" /\ request[r].op = "unpublish"
  /\ rows' = [rows EXCEPT ![request[r].f] =
                @ \cup {<<"read", IF request[r].pc = "insert" THEN "public" ELSE "private">>}]
  /\ UNCHANGED <<parent, live, pool>>
  /\ Committed(r, [Idle EXCEPT !.pc = "drop", !.todo = {request[r].f}])
  /\ UNCHANGED <<cached, groups, writes, died, world>>

\* MoveBatch invalidates what lies below the file now, UpdateFile the file.
Move(r) ==
  /\ request[r].pc = "commit" /\ request[r].op \in {"move", "grpcMove"}
  /\ parent' = [parent EXCEPT ![request[r].f] = request[r].dst]
  /\ UNCHANGED <<live, rows, pool>>
  /\ Committed(r, IF request[r].op = "move" THEN [request[r] EXCEPT !.pc = "descend"]
                  ELSE [Idle EXCEPT !.pc = "drop", !.todo = {request[r].f}])
  /\ UNCHANGED <<cached, groups, writes, died, world>>

LoadDescendants(r) ==
  /\ request[r].pc = "descend"
  /\ Set(r, [Idle EXCEPT !.pc = "drop", !.todo = Descendants(request[r].f)])
  /\ UNCHANGED <<database, cached, groups, writes, died, excused, world>>

\* If that fails, nothing is invalidated.
LoadDescendantsFails(r) ==
  /\ Is("faults") /\ request[r].pc = "descend"
  /\ excused' = excused \cup Unreached(r)
  /\ Set(r, Idle)
  /\ UNCHANGED <<database, cached, groups, writes, died, world>>

DeleteFile(r) ==
  /\ request[r].pc = "commit" /\ request[r].op = "delete"
  /\ live' = live \ request[r].todo
  /\ UNCHANGED <<parent, rows, pool>>
  /\ Committed(r, [Idle EXCEPT !.pc = "drop", !.todo = request[r].todo])
  /\ UNCHANGED <<cached, groups, writes, died, world>>

\* invalidatePermissionCaches: one group after the other.
Drop(r) ==
  /\ request[r].pc = "drop"
  /\ \E f \in request[r].todo :
       /\ InvalidateFilePermissionCache(f)
       /\ Set(r, IF request[r].todo = {f} THEN Idle ELSE [request[r] EXCEPT !.todo = @ \ {f}])
  /\ UNCHANGED <<database, writes, died, world>>

\* An error of RemoveGroup is ignored: what is in the group stays cached.
DropFails(r) ==
  /\ Is("faults")
  /\ request[r].pc = "drop"
  /\ \E f \in request[r].todo :
       /\ excused' = excused \cup groups[f]
       /\ Set(r, IF request[r].todo = {f} THEN Idle ELSE [request[r] EXCEPT !.todo = @ \ {f}])
  /\ UNCHANGED <<database, cached, groups, writes, died, world>>

\* UpdatePoolPermissions and UpdatePool: nothing of a pool is cached.
UpdatePool(r, grants, hidden) ==
  /\ BeginWrite(r, "pool")
  /\ pool' = [pool EXCEPT !.grants = grants, !.hidden = hidden]
  /\ UNCHANGED <<parent, live, rows, cached, groups, request, died, excused, world>>

\* A process dies: an update is not invalidated, an entry is in no group.
Die(r) ==
  /\ Is("crash") /\ ~died /\ request[r].pc # "idle"
  /\ died' = TRUE
  /\ excused' = excused \cup Unreached(r)
                \cup (IF request[r].pc = "group" THEN {<<request[r].f, request[r].p>>} ELSE {})
  /\ Set(r, Idle)
  /\ UNCHANGED <<database, cached, groups, writes, world>>

-----------------------------------------------------------------------------
Begin(r) ==
  \/ \E f \in File : fileInfo(r, f) \/ listChildren(r, f)
  \/ \E files \in SUBSET File : listFilesMetadata(r, files)
  \/ \E f \in File, by \in {"owner", "bob"}, items \in world.items :
       updateFilePermissions(r, f, by, items)
  \/ \E f \in File, dst \in File \cup {None}, op \in Op \ {"update", "pool"} :
       BeginOther(r, op, f, dst)
  \/ \E grants \in SUBSET {"bob"}, hidden \in BOOLEAN : UpdatePool(r, grants, hidden)

Work(r) ==
  \/ LoadSource(r) \/ LoadRows(r) \/ LoadChain(r) \/ LoadChainFails(r) \/ Store(r) \/ StoreFails(r)
  \/ AddToGroup(r) \/ AddToGroupFails(r)
  \/ UpdateFilePermissions(r) \/ SetFilePublicDelete(r) \/ InsertRow(r) \/ Move(r)
  \/ LoadDescendants(r) \/ LoadDescendantsFails(r) \/ DeleteFile(r) \/ Drop(r) \/ DropFails(r)

Next ==
  \/ \E r \in Request : Begin(r) \/ Work(r) \/ Die(r)
  \/ \E k \in Key : Expire(k)

Spec == Init /\ [][Next]_vars

FairSpec ==
  /\ Spec
  /\ \A r \in Request : WF_vars(Work(r))
  /\ \A k \in Key : WF_vars(Expire(k))

-----------------------------------------------------------------------------
TypeOK ==
  /\ world \in Worlds
  /\ parent \in [File -> File \cup {None}]
  /\ live \subseteq File
  /\ rows \in [File -> SUBSET Row]
  /\ pool \in Pool
  /\ cached \in [Key -> Lookup \cup {None}]
  /\ groups \in [File -> SUBSET Key]
  /\ request \in [Request -> RequestRow]
  /\ writes \in 0 .. MaxWrites
  /\ died \in BOOLEAN
  /\ excused \subseteq Key

\* Once an update has invalidated its groups, no lookup that it changed is
\* left in the cache, whichever folder the rows came from
\* (service/service.go:808, 1058): except lookups that overlapped an update,
\* that are not in all their groups after a failed query or call of the cache,
\* or that an invalidation would have reached that failed or died.
CacheIsFresh == ~Pending => \A k \in Key \ excused : Fresh(k)

\* The rows a lookup found were, together, what the database granted at some
\* moment of the lookup, although it asks for their place and for the rows
\* themselves in two queries (service/service.go:919, 927), if at most one
\* update came in between.
GrantsWereReal ==
  [][\A r \in Request :
       (request[r].pc = "rows" /\ request'[r].pc = "chain" /\ request[r].raced <= 1) =>
         \A f \in request[r].todo :
           request'[r].found[f].to # {} => request'[r].found[f] \in request[r].real[f]]_vars

\* Who manages a file by a grant still has it when the new rows are written,
\* unless another update came in between (handler/routes.go:815).
ManagersOnly ==
  [][\A r \in Request :
       (/\ request[r].pc = "commit" /\ request[r].op = "update" /\ request[r].by # "owner"
        /\ rows' # rows /\ request'[r].pc = "drop"
        /\ request[r].raced = 0 /\ ~request[r].loose)
         => request[r].by \in Truth(request[r].f, "manage").to
            \/ "public" \in Truth(request[r].f, "manage").to]_vars

\* A file that is shown as not readable is readable for its owner only: the
\* status and the check apply the rows and the pool's default alike
\* (service/service.go:1551, 1217).
HiddenIsDenied ==
  \A f \in live : ~permissionStatus(Truth(f, "read")) =>
    \A v \in Viewer \ {"owner"} : ~CanAccessFile(v, Truth(f, "read"), "read")

\* "poolVisibleTo mirrors CanUsePool's visibility rules without per-row DB
\* queries" (service/service.go:518), for pools with an owner.
ListedPoolsUsable == pool.owned => \A v \in Viewer : poolVisibleTo(v) <=> CanUsePool(v)

\* A right that is used was granted: when a lookup found it, and still when
\* the rows of a file are replaced by it.
GrantsHold == GrantsWereReal /\ ManagersOnly

\* A stale lookup does not survive: after the last update every answer of
\* the cache gets right and stays so, whatever overlapped, failed or died.
StaleEnds == <>[](\A k \in Key : Fresh(k))

\* "A `private` permission row with `read` keeps a file owner-only and
\* overrides the shared pool default, so unpublishing a file in a shared pool
\* still works" (README.md:508).
PrivateIsPrivate ==
  \A f \in live : <<"read", "private">> \in rows[f] =>
    \A v \in Viewer \ {"owner"} : ~CanAccessFile(v, Truth(f, "read"), "read")

\* What follows makes the properties above inductive.

\* A lookup in the cache is true and in the group of every folder it comes
\* from, or will be with the rest of its request; or an update under way is
\* going to drop it.
Registering(k, a) ==
  \E q \in Request : /\ request[q].pc = "group"
                     /\ <<request[q].f, request[q].p>> = k /\ a \in request[q].left

Tracked(k) == Fresh(k) /\ \A a \in Ancestors(k[1]) : k \in groups[a] \/ Registering(k, a)

Doomed(k) == \E r \in Request : k \in Unreached(r)

CacheTracked == \A k \in Key \ excused : cached[k] = None \/ Tracked(k) \/ Doomed(k)

\* The file that a request is about.
Named(q) ==
  /\ request[q].pc \in {"group", "commit", "insert", "descend"} => request[q].f \in File
  /\ request[q].op = "update" =>
       /\ request[q].f \in File
       /\ request[q].p = "manage"
       /\ request[q].pc \in {"source", "rows", "chain"} => request[q].todo = {request[q].f}
       /\ request[q].pc \in {"store", "group"} => request[q].todo \subseteq {request[q].f}

\* What a lookup has found, while no update was committed.
Looking(q) ==
  LET row == request[q]
  IN  /\ row.pc \in {"source", "rows", "chain"} => \A f \in File : row.chain[f] = {}
      /\ row.pc = "rows" =>
           \A f \in row.todo : /\ row.found[f].to = {}
                               /\ row.found[f].has <=> row.found[f].source # None
      /\ row.raced = 0 =>
           /\ row.pc = "rows" =>
                \A f \in row.todo : row.found[f].source = SourceIn(parent, live, rows, f, row.p)
           /\ row.pc \in {"chain", "store", "group"} =>
                \A f \in row.todo : row.found[f] = Truth(f, row.p)
           /\ row.pc \in {"store", "group"} =>
                \A f \in row.todo : row.chain[f] \in {{}, Ancestors(f)}

\* What the rows will answer was true at some moment since the place was read.
Real(q) ==
  LET row == request[q]
      Now(f) == GrantedIn(rows, row.found[f].source, row.p)
  IN  row.pc = "rows" /\ row.raced <= 1 =>
        \A f \in row.todo : row.found[f].has =>
          /\ row.raced = 0 => Truth(f, row.p) \in row.real[f]
          /\ Now(f) # {} =>
               [has |-> TRUE, source |-> row.found[f].source, to |-> Now(f)] \in row.real[f]

\* A manager by grant has the lookup that granted it.
Granted(q) ==
  LET row == request[q]
  IN  row.op = "update" /\ row.by # "owner" =>
        /\ row.raced = 0 /\ ~row.loose /\ row.pc \in {"chain", "store", "group", "commit"} =>
             row.found[row.f] = Truth(row.f, "manage")
        /\ row.pc = "commit" => CanAccessFile(row.by, row.found[row.f], "manage")

\* What is shown of files and pools is what the checks decide.
IInv == /\ TypeOK /\ HiddenIsDenied /\ ListedPoolsUsable /\ CacheTracked
        /\ \A q \in Request : Named(q) /\ Looking(q) /\ Real(q) /\ Granted(q)
=============================================================================
