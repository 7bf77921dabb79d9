--------------------------- MODULE FileAccessProofs ---------------------------
(***************************************************************************)
(* Proofs about FileAccess: the invariant by which the cache of permission *)
(* lookups is kept holds for any number of files and requests, wherever    *)
(* the files lie; the freshness of the cache and the action properties     *)
(* about grants follow from it.                                            *)
(***************************************************************************)
EXTENDS FileAccess, TLAPS

-----------------------------------------------------------------------------
(* The tree. *)

\* The ancestors of a file are the least set that is closed upwards.
LEMMA AncestorsClosed ==
  ASSUME NEW above, NEW alive, NEW f
  PROVE  /\ AncestorsIn(above, alive, f) \subseteq alive
         /\ f \in alive => f \in AncestorsIn(above, alive, f)
         /\ f \notin alive => AncestorsIn(above, alive, f) = {}
         /\ Upward(AncestorsIn(above, alive, f), above, alive)
<1>1. Upward(AncestorsIn(above, alive, f), above, alive)
  <2>. SUFFICES ASSUME NEW g \in AncestorsIn(above, alive, f), above[g] \in alive
                PROVE  above[g] \in AncestorsIn(above, alive, f)
    BY DEF Upward
  <2>1. f \in alive  BY DEF AncestorsIn
  <2>2. ASSUME NEW S \in SUBSET alive, f \in S, Upward(S, above, alive)
        PROVE  above[g] \in S
    <3>1. g \in S  BY <2>2 DEF AncestorsIn
    <3>. QED  BY <2>2, <3>1 DEF Upward
  <2>. QED  BY <2>1, <2>2 DEF AncestorsIn
<1>. QED  BY <1>1 DEF AncestorsIn

\* It is contained in every set that is closed upwards and has the file.
LEMMA AncestorsLeast ==
  ASSUME NEW above, NEW alive, NEW f, NEW S, S \subseteq alive, f \in S, Upward(S, above, alive)
  PROVE  AncestorsIn(above, alive, f) \subseteq S
BY DEF AncestorsIn

\* What is above a folder is above what lies below the folder.
LEMMA AncestorsAbove ==
  ASSUME NEW above, NEW alive, NEW f, NEW a \in AncestorsIn(above, alive, f)
  PROVE  AncestorsIn(above, alive, a) \subseteq AncestorsIn(above, alive, f)
BY AncestorsClosed, AncestorsLeast

\* A change elsewhere does not change them.
LEMMA AncestorsSame ==
  ASSUME NEW above, NEW alive, NEW f, NEW above2, NEW alive2, alive2 \subseteq alive,
         AncestorsIn(above, alive, f) \subseteq alive2,
         \A g \in AncestorsIn(above, alive, f) : above2[g] = above[g]
  PROVE  AncestorsIn(above2, alive2, f) = AncestorsIn(above, alive, f)
<1>. DEFINE A == AncestorsIn(above, alive, f)
            B == AncestorsIn(above2, alive2, f)
<1>1. CASE f \notin alive
  BY <1>1, AncestorsClosed
<1>2. CASE f \in alive
  <2>1. f \in A /\ A \subseteq alive2 /\ Upward(A, above2, alive2)
    BY <1>2, AncestorsClosed DEF Upward
  <2>2. B \subseteq A  BY <2>1, AncestorsLeast
  <2>3. f \in B /\ Upward(B, above2, alive2)  BY <2>1, AncestorsClosed
  <2>4. Upward(B, above, alive)
    <3>. SUFFICES ASSUME NEW g \in B, above[g] \in alive PROVE above[g] \in B
      BY DEF Upward
    <3>1. g \in A /\ above2[g] = above[g]  BY <2>2
    <3>2. above[g] \in A  BY <3>1, AncestorsClosed DEF Upward
    <3>. QED  BY <2>1, <2>3, <3>1, <3>2 DEF Upward
  <2>5. B \subseteq alive  BY AncestorsClosed
  <2>6. A \subseteq B  BY <2>3, <2>4, <2>5, AncestorsLeast
  <2>. QED  BY <2>2, <2>6
<1>. QED  BY <1>1, <1>2

\* The folders on the way up that have rows of the permission.
Granting(above, alive, table, f, p) == {a \in AncestorsIn(above, alive, f) : GrantedIn(table, a, p) # {}}

\* One of them is below all others.
LEMMA Nearest ==
  ASSUME NEW above, NEW alive, NEW table, NEW f, NEW p, Granting(above, alive, table, f, p) # {}
  PROVE  \E a \in Granting(above, alive, table, f, p) :
           Granting(above, alive, table, f, p) \subseteq AncestorsIn(above, alive, a)
<1>. DEFINE W == Granting(above, alive, table, f, p)
            Anc(g) == AncestorsIn(above, alive, g)
<1>. SUFFICES ASSUME \A a \in W : ~(W \subseteq Anc(a)) PROVE FALSE
  OBVIOUS
<1>. DEFINE S == {b \in Anc(f) : W \subseteq Anc(b)}
<1>1. W \subseteq Anc(f) /\ W # {}  BY DEF Granting
<1>2. f \in alive /\ Anc(f) \subseteq alive  BY <1>1, AncestorsClosed
<1>3. f \in S  BY <1>1, <1>2, AncestorsClosed
<1>4. ASSUME NEW b \in S, above[b] \in alive
      PROVE  above[b] \in S
  <2>1. b \in Anc(f) /\ b \notin W /\ W \subseteq Anc(b)  OBVIOUS
  <2>2. above[b] \in Anc(f)  BY <1>4, <2>1, AncestorsClosed DEF Upward
  <2>3. Anc(b) \subseteq {b} \cup Anc(above[b])
    <3>1. Upward({b} \cup Anc(above[b]), above, alive)
      <4>1. Upward(Anc(above[b]), above, alive) /\ above[b] \in Anc(above[b])
        BY <1>4, AncestorsClosed
      <4>. HIDE DEF Anc
      <4>. QED  BY <4>1 DEF Upward
    <3>2. {b} \cup Anc(above[b]) \subseteq alive  BY <1>2, <2>1, AncestorsClosed
    <3>. QED  BY <3>1, <3>2, AncestorsLeast
  <2>. QED  BY <2>1, <2>2, <2>3
<1>5. Upward(S, above, alive)  BY <1>4 DEF Upward
<1>6. Anc(f) \subseteq S  BY <1>2, <1>3, <1>5, AncestorsLeast
<1>7. PICK a \in W : TRUE  BY <1>1
<1>. QED  BY <1>1, <1>6, <1>7

\* The place of the rows is one of these folders, if there is one.
LEMMA SourceType ==
  ASSUME NEW above, NEW alive, NEW table, NEW f, NEW p
  PROVE  /\ Granting(above, alive, table, f, p) = {} => SourceIn(above, alive, table, f, p) = None
         /\ Granting(above, alive, table, f, p) # {} =>
              SourceIn(above, alive, table, f, p) \in Granting(above, alive, table, f, p)
BY Nearest DEF SourceIn, Granting

\* ... and it is the one that is below all others.
LEMMA SourceOf ==
  ASSUME NEW above, NEW alive, NEW table, NEW f, NEW p, NEW W,
         W = Granting(above, alive, table, f, p), W # {}
  PROVE  SourceIn(above, alive, table, f, p) = CHOOSE a \in W : W \subseteq AncestorsIn(above, alive, a)
BY DEF SourceIn, Granting

\* The place does not change when neither the way up nor the folders with
\* rows on it do.
LEMMA SourceSame ==
  ASSUME NEW above, NEW alive, NEW table, NEW f, NEW p, NEW above2, NEW alive2, NEW table2,
         alive2 \subseteq alive, AncestorsIn(above, alive, f) \subseteq alive2,
         \A g \in AncestorsIn(above, alive, f) : above2[g] = above[g],
         Granting(above2, alive2, table2, f, p) = Granting(above, alive, table, f, p)
  PROVE  SourceIn(above2, alive2, table2, f, p) = SourceIn(above, alive, table, f, p)
<1>. DEFINE W == Granting(above, alive, table, f, p)
<1>1. ASSUME NEW a \in W
      PROVE  AncestorsIn(above2, alive2, a) = AncestorsIn(above, alive, a)
  <2>1. AncestorsIn(above, alive, a) \subseteq AncestorsIn(above, alive, f)
    BY AncestorsAbove DEF Granting
  <2>. QED  BY <2>1, AncestorsSame
<1>2. (CHOOSE a \in W : W \subseteq AncestorsIn(above2, alive2, a))
        = (CHOOSE a \in W : W \subseteq AncestorsIn(above, alive, a))
  BY <1>1
<1>3. W = {} => SourceIn(above2, alive2, table2, f, p) = None /\ SourceIn(above, alive, table, f, p) = None
  BY SourceType
<1>4. ASSUME W # {}
      PROVE  SourceIn(above2, alive2, table2, f, p) = SourceIn(above, alive, table, f, p)
  <2>1. SourceIn(above, alive, table, f, p) = CHOOSE a \in W : W \subseteq AncestorsIn(above, alive, a)
    BY <1>4, SourceOf
  <2>2. SourceIn(above2, alive2, table2, f, p) = CHOOSE a \in W : W \subseteq AncestorsIn(above2, alive2, a)
    BY <1>4, SourceOf
  <2>. QED  BY <1>2, <2>1, <2>2
<1>. QED  BY <1>3, <1>4

\* A lookup has the place of its rows, if there is one.
LEMMA TruthType ==
  ASSUME NEW above, NEW alive, NEW table, NEW f, NEW p, alive \subseteq File
  PROVE  /\ TruthIn(above, alive, table, f, p) \in Lookup
         /\ SourceIn(above, alive, table, f, p) \in File \cup {None}
         /\ TruthIn(above, alive, table, f, p).has <=> SourceIn(above, alive, table, f, p) # None
         /\ TruthIn(above, alive, table, f, p).source = SourceIn(above, alive, table, f, p)
<1>1. SourceIn(above, alive, table, f, p) \in File \cup {None}
  BY SourceType, AncestorsClosed DEF Granting
<1>2. \A a : GrantedIn(table, a, p) \in SUBSET Subject  BY DEF GrantedIn
<1>. QED  BY <1>1, <1>2 DEF TruthIn, NoLookup, Lookup

\* A lookup does not change when no folder it comes from does.
LEMMA TruthSame ==
  ASSUME NEW above, NEW alive, NEW table, NEW f, NEW p, NEW above2, NEW alive2, NEW table2,
         alive2 \subseteq alive, AncestorsIn(above, alive, f) \subseteq alive2,
         \A g \in AncestorsIn(above, alive, f) : above2[g] = above[g] /\ table2[g] = table[g]
  PROVE  TruthIn(above2, alive2, table2, f, p) = TruthIn(above, alive, table, f, p)
<1>1. AncestorsIn(above2, alive2, f) = AncestorsIn(above, alive, f)
  BY AncestorsSame
<1>2. \A g \in AncestorsIn(above, alive, f) : GrantedIn(table2, g, p) = GrantedIn(table, g, p)
  BY DEF GrantedIn
<1>3. Granting(above2, alive2, table2, f, p) = Granting(above, alive, table, f, p)
  BY <1>1, <1>2 DEF Granting
<1>4. SourceIn(above2, alive2, table2, f, p) = SourceIn(above, alive, table, f, p)
  BY <1>3, SourceSame
<1>5. SourceIn(above, alive, table, f, p) # None
        => SourceIn(above, alive, table, f, p) \in AncestorsIn(above, alive, f)
  BY SourceType DEF Granting
<1>. QED  BY <1>2, <1>4, <1>5 DEF TruthIn

\* What lies below a file includes the file.
LEMMA Self == \A f \in File : f \in Descendants(f)
BY DEF Descendants

-----------------------------------------------------------------------------
(* Requests. *)

\* A request that is not being served.
LEMMA Idles ==
  /\ Idle \in RequestRow
  /\ Idle.pc = "idle" /\ Idle.op = "info" /\ Idle.by = "owner" /\ Idle.raced = 0
  /\ \A f \in File : Idle.chain[f] = {} /\ Idle.real[f] = {}
BY DEF Idle, RequestRow, Lookup, NoLookup, Op, Viewer, Permission

\* What the invariant says of one request.
Own(q) == Named(q) /\ Looking(q) /\ Real(q) /\ Granted(q)

\* Of an idle request the invariant says nothing.
LEMMA IdleOwn ==
  ASSUME NEW r \in Request, request'[r] = Idle
  PROVE  Own(r)'
BY Idles DEF Own, Named, Looking, Real, Granted

\* A request that does nothing, while the tree stays as it is.
LEMMA OwnKept ==
  ASSUME NEW q \in Request, Own(q), request'[q] = request[q], parent' = parent, live' = live, rows' = rows
  PROVE  Own(q)'
BY DEF Own, Named, Looking, Real, Granted, Ancestors, Truth, CanAccessFile, isSharedPoolFile

\* A step of one request that leaves the tree and the others alone.
Quiet(r) ==
  /\ parent' = parent /\ live' = live /\ rows' = rows
  /\ request' \in [Request -> RequestRow]
  /\ \A q \in Request \ {r} : request'[q] = request[q]

\* Setting a request leaves the others alone.
LEMMA SetRow ==
  ASSUME TypeOK, NEW r \in Request, NEW row \in RequestRow, Set(r, row)
  PROVE  /\ request' \in [Request -> RequestRow] /\ request'[r] = row
         /\ \A q \in Request \ {r} : request'[q] = request[q]
BY DEF TypeOK, Set

\* The types of the fields of a request.
LEMMA RowTypes ==
  ASSUME NEW row \in RequestRow
  PROVE  /\ row.p \in Permission /\ row.by \in Viewer /\ row.f \in File \cup {None} /\ row.dst \in File \cup {None}
         /\ row.items \in SUBSET Row /\ row.todo \in SUBSET File /\ row.left \in SUBSET File
         /\ row.raced \in 0 .. 2 /\ row.loose \in BOOLEAN
         /\ row.found \in [File -> Lookup] /\ row.chain \in [File -> SUBSET File]
         /\ row.real \in [File -> SUBSET Lookup]
BY DEF RequestRow

\* A lookup that nothing excuses and no update is about to drop is true.
LEMMA HitIsTrue ==
  ASSUME CacheTracked, ~Pending, NEW k \in Key \ excused, cached[k] # None
  PROVE  cached[k] = Truth(k[1], k[2])
<1>1. ~Doomed(k)
  <2>1. \A r \in Request : request[r].pc # "drop"  BY DEF Pending, IsPending
  <2>. QED  BY <2>1 DEF Doomed, Unreached, Reach, Pending
<1>. QED  BY <1>1 DEF CacheTracked, Tracked, Fresh

\* A lookup starts with what the cache has; an update whose lookup is cached,
\* is not excused and is not about to be dropped starts with the truth.
LEMMA Resolves ==
  ASSUME TypeOK, CacheTracked, NEW r \in Request,
         NEW op \in {"info", "meta", "children", "update"}, NEW files \in SUBSET File,
         NEW p \in Permission, NEW start \in RequestRow, Resolve(r, op, files, p, start),
         start.raced = 0, \A f \in File : start.chain[f] = {},
         op = "update" => start.f \in File /\ files = {start.f} /\ p = "manage" /\ start.by # "owner"
  PROVE  /\ request' \in [Request -> RequestRow]
         /\ \A q \in Request \ {r} : request'[q] = request[q]
         /\ parent' = parent /\ live' = live /\ rows' = rows => Own(r)'
         /\ request'[r].pc \in {"source", "commit", "idle"}
<1>. DEFINE missing == {f \in files : cached[<<f, p>>] = None}
            hits    == {<<f, p>> : f \in files \ missing}
            loose   == hits # {} /\ (Pending \/ hits \cap excused # {})
            found   == [f \in File |-> IF f \in files \ missing THEN cached[<<f, p>>] ELSE NoLookup]
            row     == [start EXCEPT !.op = op, !.p = p, !.todo = missing, !.pc = "source",
                                     !.loose = loose, !.found = found]
<1>1. found \in [File -> Lookup]
  <2>1. \A f \in files \ missing : cached[<<f, p>>] \in Lookup  BY DEF TypeOK, Key
  <2>2. NoLookup \in Lookup  BY DEF NoLookup, Lookup
  <2>. QED  BY <2>1, <2>2
<1>2. missing \in SUBSET File /\ loose \in BOOLEAN  OBVIOUS
<1>3. IF missing # {} THEN Set(r, row) ELSE op = "update" /\ Done(r, row)
  BY DEF Resolve
<1>4. op = "update" /\ ~loose /\ missing = {} => found[start.f] = Truth(start.f, "manage")
  <2>. SUFFICES ASSUME op = "update", ~loose, missing = {}
                PROVE  found[start.f] = Truth(start.f, "manage")
    OBVIOUS
  <2>1. start.f \in files \ missing /\ <<start.f, p>> \in hits  OBVIOUS
  <2>2. ~Pending /\ <<start.f, p>> \notin excused  BY <2>1
  <2>3. <<start.f, p>> \in Key \ excused /\ cached[<<start.f, p>>] # None  BY <2>1, <2>2 DEF Key
  <2>4. cached[<<start.f, p>>] = Truth(start.f, p)  BY <2>2, <2>3, HitIsTrue
  <2>. QED  BY <2>1, <2>4
<1>. HIDE DEF missing, hits, loose, found
<1>a. op \in Op \cup {"info", "meta", "children"}  BY DEF Op
<1>5. row \in RequestRow  BY <1>1, <1>2, <1>a DEF RequestRow
<1>6. /\ row.op = op /\ row.p = p /\ row.todo = missing /\ row.pc = "source" /\ row.loose = loose
      /\ row.found = found /\ row.raced = 0 /\ row.f = start.f /\ row.by = start.by
      /\ \A f \in File : row.chain[f] = {}
  BY DEF RequestRow
<1>7. missing \subseteq files  BY DEF missing
<1>. HIDE DEF row
<1>8. CASE missing # {}
  <2>1. /\ request' \in [Request -> RequestRow] /\ request'[r] = row
        /\ \A q \in Request \ {r} : request'[q] = request[q]
    BY <1>3, <1>5, <1>8, SetRow
  <2>2. Own(r)'
    BY <1>6, <1>7, <1>8, <2>1 DEF Own, Named, Looking, Real, Granted
  <2>. QED  BY <1>6, <2>1, <2>2
<1>9. CASE missing = {}
  <2>1. op = "update" /\ Done(r, row)  BY <1>3, <1>9
  <2>2. CASE CanAccessFile(row.by, row.found[row.f], "manage")
    <3>. DEFINE next == [row EXCEPT !.pc = "commit"]
    <3>1. next \in RequestRow  BY <1>5 DEF RequestRow
    <3>2. /\ next.pc = "commit" /\ next.op = "update" /\ next.p = "manage" /\ next.f = start.f
          /\ next.found = found /\ next.loose = loose /\ next.raced = 0 /\ next.by = start.by
      BY <1>5, <1>6, <2>1 DEF RequestRow
    <3>3. Set(r, next)  BY <1>6, <2>1, <2>2 DEF Done
    <3>. HIDE DEF next
    <3>4. /\ request' \in [Request -> RequestRow] /\ request'[r] = next
          /\ \A q \in Request \ {r} : request'[q] = request[q]
      BY <3>1, <3>3, SetRow
    <3>6. ASSUME parent' = parent, live' = live, rows' = rows
          PROVE  Own(r)'
      <4>1. Named(r)'  BY <2>1, <3>2, <3>4 DEF Named
      <4>2. Looking(r)' /\ Real(r)'  BY <3>2, <3>4 DEF Looking, Real
      <4>3. Truth(start.f, "manage")' = Truth(start.f, "manage")  BY <3>6 DEF Truth
      <4>4. Granted(r)'  BY <1>4, <1>6, <1>9, <2>1, <2>2, <3>2, <3>4, <4>3 DEF Granted, CanAccessFile
      <4>. QED  BY <4>1, <4>2, <4>4 DEF Own
    <3>. QED  BY <3>2, <3>4, <3>6
  <2>3. CASE ~CanAccessFile(row.by, row.found[row.f], "manage")
    <3>1. Set(r, Idle)  BY <1>6, <2>1, <2>3 DEF Done
    <3>. QED  BY <3>1, SetRow, Idles, IdleOwn
  <2>. QED  BY <2>2, <2>3
<1>. QED  BY <1>8, <1>9

\* What is known of a row between storing one entry and the next.
Between(row) ==
  /\ row.left # {} => row.f \in File
  /\ row.op = "update" => row.f \in File /\ row.p = "manage" /\ row.todo \subseteq {row.f}
  /\ row.raced = 0 => \A f \in row.todo : row.found[f] = Truth(f, row.p) /\ row.chain[f] \in {{}, Ancestors(f)}
  /\ row.op = "update" /\ row.by # "owner" /\ row.raced = 0 /\ ~row.loose
       => row.found[row.f] = Truth(row.f, "manage")

\* A lookup ends, or goes on to its update if what it found allows it.
LEMMA Finishes ==
  ASSUME TypeOK, NEW r \in Request, NEW row \in RequestRow, Between(row), Done(r, row),
         parent' = parent, live' = live, rows' = rows
  PROVE  /\ request' \in [Request -> RequestRow]
         /\ \A q \in Request \ {r} : request'[q] = request[q]
         /\ Own(r)' /\ request'[r].pc \in {"commit", "idle"}
<1>1. CASE row.op = "update" /\ CanAccessFile(row.by, row.found[row.f], "manage")
  <2>. DEFINE next == [row EXCEPT !.pc = "commit"]
  <2>1. next \in RequestRow  BY DEF RequestRow
  <2>2. /\ next.pc = "commit" /\ next.op = row.op /\ next.p = row.p /\ next.f = row.f
        /\ next.found = row.found /\ next.loose = row.loose /\ next.raced = row.raced /\ next.by = row.by
    BY DEF RequestRow
  <2>3. Set(r, next)  BY <1>1 DEF Done
  <2>. HIDE DEF next
  <2>4. /\ request' \in [Request -> RequestRow] /\ request'[r] = next
        /\ \A q \in Request \ {r} : request'[q] = request[q]
    BY <2>1, <2>3, SetRow
  <2>5. Named(r)'  BY <1>1, <2>2, <2>4 DEF Named, Between
  <2>6. Looking(r)' /\ Real(r)'  BY <2>2, <2>4 DEF Looking, Real
  <2>7. Truth(row.f, "manage")' = Truth(row.f, "manage")  BY DEF Truth
  <2>8. Granted(r)'  BY <1>1, <2>2, <2>4, <2>7 DEF Granted, CanAccessFile, Between
  <2>. QED  BY <2>2, <2>4, <2>5, <2>6, <2>8 DEF Own
<1>2. CASE ~(row.op = "update" /\ CanAccessFile(row.by, row.found[row.f], "manage"))
  <2>1. Set(r, Idle)  BY <1>2 DEF Done
  <2>. QED  BY <2>1, SetRow, Idles, IdleOwn
<1>. QED  BY <1>1, <1>2

\* After an entry or a group comes the next group, the next entry or the end.
LEMMA GoesOn ==
  ASSUME TypeOK, NEW r \in Request, NEW row \in RequestRow, Between(row), Next1(r, row),
         parent' = parent, live' = live, rows' = rows
  PROVE  /\ request' \in [Request -> RequestRow]
         /\ \A q \in Request \ {r} : request'[q] = request[q]
         /\ Own(r)' /\ request'[r].pc \in {"group", "store", "commit", "idle"}
         /\ row.left # {} => /\ request'[r].pc = "group" /\ request'[r].f = row.f
                             /\ request'[r].p = row.p /\ request'[r].left = row.left
<1>1. CASE row.left # {}
  <2>. DEFINE next == [row EXCEPT !.pc = "group"]
  <2>1. next \in RequestRow  BY DEF RequestRow
  <2>2. /\ next.pc = "group" /\ next.op = row.op /\ next.p = row.p /\ next.f = row.f /\ next.left = row.left
        /\ next.found = row.found /\ next.loose = row.loose /\ next.raced = row.raced /\ next.by = row.by
        /\ next.todo = row.todo /\ next.chain = row.chain
    BY DEF RequestRow
  <2>3. Set(r, next)  BY <1>1 DEF Next1
  <2>. HIDE DEF next
  <2>4. /\ request' \in [Request -> RequestRow] /\ request'[r] = next
        /\ \A q \in Request \ {r} : request'[q] = request[q]
    BY <2>1, <2>3, SetRow
  <2>5. Named(r)'  BY <1>1, <2>2, <2>4 DEF Named, Between
  <2>6. \A f, p : Truth(f, p)' = Truth(f, p) /\ Ancestors(f)' = Ancestors(f)  BY DEF Truth, Ancestors
  <2>7. Looking(r)' /\ Real(r)'  BY <2>2, <2>4, <2>6 DEF Looking, Real, Between
  <2>8. Granted(r)'  BY <2>2, <2>4, <2>6 DEF Granted, Between
  <2>. QED  BY <1>1, <2>2, <2>4, <2>5, <2>7, <2>8 DEF Own
<1>2. CASE row.left = {} /\ row.todo # {}
  <2>. DEFINE next == [row EXCEPT !.pc = "store", !.f = IF row.op = "update" THEN @ ELSE None]
  <2>1. next \in RequestRow  BY DEF RequestRow
  <2>2. /\ next.pc = "store" /\ next.op = row.op /\ next.p = row.p /\ (row.op = "update" => next.f = row.f)
        /\ next.found = row.found /\ next.loose = row.loose /\ next.raced = row.raced /\ next.by = row.by
        /\ next.todo = row.todo /\ next.chain = row.chain
    BY DEF RequestRow
  <2>3. Set(r, next)  BY <1>2 DEF Next1
  <2>. HIDE DEF next
  <2>4. /\ request' \in [Request -> RequestRow] /\ request'[r] = next
        /\ \A q \in Request \ {r} : request'[q] = request[q]
    BY <2>1, <2>3, SetRow
  <2>5. Named(r)'  BY <1>2, <2>2, <2>4 DEF Named, Between
  <2>6. \A f, p : Truth(f, p)' = Truth(f, p) /\ Ancestors(f)' = Ancestors(f)  BY DEF Truth, Ancestors
  <2>7. Looking(r)' /\ Real(r)'  BY <2>2, <2>4, <2>6 DEF Looking, Real, Between
  <2>8. Granted(r)'  BY <2>2, <2>4, <2>6 DEF Granted, Between
  <2>. QED  BY <1>2, <2>2, <2>4, <2>5, <2>7, <2>8 DEF Own
<1>3. CASE row.left = {} /\ row.todo = {}
  <2>1. Done(r, row)  BY <1>3 DEF Next1
  <2>. QED  BY <1>3, <2>1, Finishes
<1>. QED  BY <1>1, <1>2, <1>3

\* The cache, while the tree stays as it is.
LEMMA TrackedKept ==
  ASSUME NEW k, cached[k] = None \/ Tracked(k) \/ Doomed(k),
         parent' = parent, live' = live, rows' = rows, cached'[k] \in {None, cached[k]},
         \A a \in File : k \in groups[a] \/ Registering(k, a) => k \in groups'[a] \/ Registering(k, a)',
         Doomed(k) => Doomed(k)', live \subseteq File
  PROVE  (cached[k] = None \/ Tracked(k) \/ Doomed(k))'
<1>1. Ancestors(k[1])' = Ancestors(k[1]) /\ Truth(k[1], k[2])' = Truth(k[1], k[2])
  BY DEF Ancestors, Truth
<1>2. Fresh(k) => Fresh(k)'  BY <1>1 DEF Fresh
<1>3. Ancestors(k[1]) \subseteq File  BY AncestorsClosed DEF Ancestors
<1>. QED  BY <1>1, <1>2, <1>3 DEF Tracked

\* A registration goes on unless its own request does something else.
LEMMA StillRegistering ==
  ASSUME NEW k, NEW a, NEW r \in Request, \A q \in Request \ {r} : request'[q] = request[q],
         Registering(k, a),
         request[r].pc = "group" /\ <<request[r].f, request[r].p>> = k /\ a \in request[r].left
           => Registering(k, a)'
  PROVE  Registering(k, a)'
BY DEF Registering

\* A key is still going to be dropped unless its own update lost it.
LEMMA StillDoomed ==
  ASSUME NEW k, NEW r \in Request, \A q \in Request \ {r} : request'[q] = request[q], groups' = groups,
         Doomed(k), k \in Unreached(r) => Doomed(k)'
  PROVE  Doomed(k)'
BY DEF Doomed, Unreached, Reach, IsPending

\* Only an update that was committed has groups to invalidate.
LEMMA NotPending ==
  ASSUME NEW r \in Request, ~IsPending(r)
  PROVE  Unreached(r) = {}
BY DEF Unreached, Reach, IsPending

\* A step that neither registers nor invalidates leaves the cache as it was.
LEMMA TrackedQuiet ==
  ASSUME TypeOK, CacheTracked, NEW r \in Request, Quiet(r), ~IsPending(r), request[r].pc # "group",
         cached' = cached, groups' = groups, excused' = excused
  PROVE  CacheTracked'
<1>. SUFFICES ASSUME NEW k \in Key \ excused
              PROVE  (cached[k] = None \/ Tracked(k) \/ Doomed(k))'
  BY DEF CacheTracked
<1>1. \A a \in File : Registering(k, a) => Registering(k, a)'
  BY StillRegistering DEF Quiet
<1>2. Doomed(k) => Doomed(k)'  BY NotPending, StillDoomed DEF Quiet
<1>. QED  BY <1>1, <1>2, TrackedKept DEF CacheTracked, Quiet, TypeOK

-----------------------------------------------------------------------------
(* Lookups. *)

\* The first query finds where the rows are, and that was true when it ran.
LEMMA SourceStep ==
  ASSUME TypeOK, NEW r \in Request, Own(r), LoadSource(r)
  PROVE  Quiet(r) /\ Own(r)'
<1>. DEFINE row   == request[r]
            at    == [f \in File |-> IF f \in row.todo THEN SourceIn(parent, live, rows, f, row.p) ELSE None]
            found == [f \in File |-> IF f \in row.todo
                                     THEN [has |-> at[f] # None, source |-> at[f], to |-> {}]
                                     ELSE row.found[f]]
            real  == [f \in File |-> IF f \in row.todo /\ at[f] # None THEN {Truth(f, row.p)} ELSE {}]
            pc    == IF \E f \in row.todo : at[f] # None THEN "rows" ELSE "chain"
            next  == [row EXCEPT !.pc = pc, !.found = found, !.real = real]
<1>0. row \in RequestRow /\ row.pc = "source" /\ row.todo \in SUBSET File /\ live \subseteq File
  BY RowTypes DEF TypeOK, LoadSource
<1>1. \A f \in row.todo : /\ f \in File /\ at[f] = SourceIn(parent, live, rows, f, row.p)
                          /\ at[f] \in File \cup {None} /\ Truth(f, row.p) \in Lookup
                          /\ Truth(f, row.p).has <=> at[f] # None
  BY <1>0, TruthType DEF Truth
<1>2. found \in [File -> Lookup] /\ real \in [File -> SUBSET Lookup]
  <2>1. row.found \in [File -> Lookup]  BY <1>0, RowTypes
  <2>. QED  BY <1>1, <2>1 DEF Lookup
<1>3. \A f \in row.todo : /\ found[f] = [has |-> at[f] # None, source |-> at[f], to |-> {}]
                          /\ real[f] = IF at[f] # None THEN {Truth(f, row.p)} ELSE {}
  BY <1>1
<1>4. pc = "chain" => \A f \in row.todo : found[f] = Truth(f, row.p)
  BY <1>1, <1>3 DEF Truth, TruthIn, NoLookup
<1>5. \A f \in row.todo : at[f] # None =>
        /\ Truth(f, row.p) \in real[f]
        /\ [has |-> TRUE, source |-> at[f], to |-> GrantedIn(rows, at[f], row.p)] \in real[f]
  BY <1>1, <1>3 DEF Truth, TruthIn
<1>a. \A f \in row.todo :
        /\ found[f].to = {} /\ found[f].has = (at[f] # None) /\ found[f].source = at[f]
        /\ at[f] = SourceIn(parent, live, rows, f, row.p)
  BY <1>1, <1>3
<1>6. request' = [request EXCEPT ![r] = next] /\ parent' = parent /\ live' = live /\ rows' = rows
  BY DEF LoadSource, Set, database
<1>7. pc \in {"rows", "chain"}  OBVIOUS
<1>. HIDE DEF found, real, pc, at
<1>8. next \in RequestRow  BY <1>0, <1>2, <1>7 DEF RequestRow
<1>9. /\ next.pc = pc /\ next.found = found /\ next.real = real /\ next.op = row.op /\ next.p = row.p
      /\ next.f = row.f /\ next.by = row.by /\ next.todo = row.todo /\ next.raced = row.raced
      /\ next.loose = row.loose /\ next.chain = row.chain
  BY <1>0 DEF RequestRow
<1>. HIDE DEF next
<1>10. Quiet(r) /\ request'[r] = next
  BY <1>6, <1>8 DEF Quiet, TypeOK
<1>11. \A f, p : Truth(f, p)' = Truth(f, p)  BY <1>6 DEF Truth
<1>12. Named(r)'  BY <1>0, <1>7, <1>9, <1>10 DEF Own, Named
<1>13. Looking(r)'
  <2>1. \A f \in File : next.chain[f] = {}  BY <1>0, <1>9 DEF Own, Looking
  <2>2. \A f \in row.todo : found[f].to = {} /\ (found[f].has <=> found[f].source # None)
    BY <1>a
  <2>3. \A f \in row.todo : found[f].source = SourceIn(parent, live, rows, f, row.p)
    BY <1>a
  <2>. QED  BY <1>4, <1>6, <1>7, <1>9, <1>10, <1>11, <2>1, <2>2, <2>3 DEF Looking
<1>14. Real(r)'
  <2>1. \A f \in row.todo : found[f].has =>
          /\ Truth(f, row.p) \in real[f]
          /\ [has |-> TRUE, source |-> found[f].source, to |-> GrantedIn(rows, found[f].source, row.p)] \in real[f]
    BY <1>5, <1>a
  <2>. QED  BY <1>6, <1>9, <1>10, <1>11, <2>1 DEF Real
<1>15. Granted(r)'
  BY <1>0, <1>4, <1>7, <1>9, <1>10, <1>11 DEF Own, Named, Granted
<1>. QED  BY <1>10, <1>12, <1>13, <1>14, <1>15 DEF Own

\* The second query finds rows that were granted there at some moment since
\* the first, if at most one update was committed in between.
LEMMA RowsStep ==
  ASSUME TypeOK, NEW r \in Request, Own(r), LoadRows(r)
  PROVE  /\ Quiet(r) /\ Own(r)'
         /\ request'[r].pc = "chain"
         /\ request[r].raced <= 1 =>
              \A f \in request[r].todo :
                request'[r].found[f].to # {} => request'[r].found[f] \in request[r].real[f]
<1>. DEFINE row   == request[r]
            found == [f \in File |-> IF f \in row.todo /\ row.found[f].has
                                     THEN [row.found[f] EXCEPT !.to = RowsOf(row.found[f].source, row.p)]
                                     ELSE row.found[f]]
            next  == [row EXCEPT !.pc = "chain", !.real = [f \in File |-> {}], !.found = found]
<1>0. /\ row \in RequestRow /\ row.pc = "rows" /\ row.todo \in SUBSET File /\ live \subseteq File
      /\ row.found \in [File -> Lookup] /\ row.raced \in 0 .. 2
  BY RowTypes DEF TypeOK, LoadRows
<1>1. ASSUME NEW f \in row.todo
      PROVE  /\ row.found[f].to = {} /\ (row.found[f].has <=> row.found[f].source # None)
             /\ row.raced = 0 => row.found[f].source = SourceIn(parent, live, rows, f, row.p)
  BY <1>0 DEF Own, Looking
<1>2. ASSUME NEW f \in row.todo, row.found[f].has
      PROVE  found[f] = [has |-> TRUE, source |-> row.found[f].source,
                         to |-> GrantedIn(rows, row.found[f].source, row.p)]
  BY <1>0, <1>2 DEF Lookup, RowsOf
<1>3. ASSUME NEW f \in row.todo, ~row.found[f].has
      PROVE  found[f] = NoLookup
  <2>0. f \in File /\ ~(f \in row.todo /\ row.found[f].has)  BY <1>0, <1>3
  <2>1. found[f] = row.found[f]  BY <2>0
  <2>2. row.found[f] \in Lookup /\ row.found[f].source = None /\ row.found[f].to = {}
    BY <1>0, <1>1, <1>3
  <2>. QED  BY <1>3, <2>1, <2>2 DEF Lookup, NoLookup
<1>4. found \in [File -> Lookup]
  <2>1. \A s, p : GrantedIn(rows, s, p) \in SUBSET Subject  BY DEF GrantedIn
  <2>. QED  BY <1>0, <2>1 DEF Lookup, RowsOf
<1>5. row.raced = 0 => \A f \in row.todo : found[f] = Truth(f, row.p)
  <2>. SUFFICES ASSUME row.raced = 0, NEW f \in row.todo PROVE found[f] = Truth(f, row.p)
    OBVIOUS
  <2>1. row.found[f].source = SourceIn(parent, live, rows, f, row.p)  BY <1>1
  <2>2. CASE row.found[f].has
    <3>1. SourceIn(parent, live, rows, f, row.p) # None  BY <1>1, <2>1, <2>2
    <3>. QED  BY <1>2, <2>1, <2>2, <3>1 DEF Truth, TruthIn
  <2>3. CASE ~row.found[f].has
    <3>1. SourceIn(parent, live, rows, f, row.p) = None  BY <1>1, <2>1, <2>3
    <3>2. found[f] = NoLookup  BY <1>3, <2>3
    <3>3. Truth(f, row.p) = NoLookup  BY <3>1 DEF Truth, TruthIn
    <3>. QED  BY <3>2, <3>3
  <2>. QED  BY <2>2, <2>3
<1>6. request' = [request EXCEPT ![r] = next] /\ parent' = parent /\ live' = live /\ rows' = rows
  BY DEF LoadRows, Set, database
<1>7. row.raced <= 1 => \A f \in row.todo : found[f].to # {} => found[f] \in row.real[f]
  <2>. SUFFICES ASSUME row.raced <= 1, NEW f \in row.todo, found[f].to # {}
                PROVE  found[f] \in row.real[f]
    OBVIOUS
  <2>1. ASSUME ~row.found[f].has PROVE FALSE
    <3>1. found[f] = NoLookup  BY <1>3, <2>1
    <3>2. NoLookup.to = {}  BY DEF NoLookup
    <3>3. found[f].to = {}  BY <3>1, <3>2
    <3>. QED  BY <3>3
  <2>. QED  BY <1>0, <1>2, <2>1 DEF Own, Real
<1>. HIDE DEF found
<1>8. next \in RequestRow  BY <1>0, <1>4 DEF RequestRow
<1>9. /\ next.pc = "chain" /\ next.found = found /\ next.op = row.op /\ next.p = row.p
      /\ next.f = row.f /\ next.by = row.by /\ next.todo = row.todo /\ next.raced = row.raced
      /\ next.loose = row.loose /\ next.chain = row.chain
  BY <1>0 DEF RequestRow
<1>. HIDE DEF next
<1>10. Quiet(r) /\ request'[r] = next
  BY <1>6, <1>8 DEF Quiet, TypeOK
<1>11. \A f, p : Truth(f, p)' = Truth(f, p)  BY <1>6 DEF Truth
<1>12. Named(r)'  BY <1>0, <1>9, <1>10 DEF Own, Named
<1>13. Looking(r)'
  <2>1. \A f \in File : next.chain[f] = {}  BY <1>0, <1>9 DEF Own, Looking
  <2>. QED  BY <1>5, <1>9, <1>10, <1>11, <2>1 DEF Looking
<1>14. Real(r)'  BY <1>9, <1>10 DEF Real
<1>15. Granted(r)'  BY <1>0, <1>5, <1>9, <1>10, <1>11 DEF Own, Named, Granted
<1>. QED  BY <1>7, <1>9, <1>10, <1>12, <1>13, <1>14, <1>15 DEF Own

\* The third query finds the groups of the entries, or fails.
LEMMA ChainStep ==
  ASSUME TypeOK, NEW r \in Request, Own(r), LoadChain(r) \/ LoadChainFails(r)
  PROVE  Quiet(r) /\ Own(r)'
<1>. DEFINE row == request[r]
<1>0. /\ row \in RequestRow /\ row.pc = "chain" /\ row.todo \in SUBSET File /\ live \subseteq File
      /\ parent' = parent /\ live' = live /\ rows' = rows
      /\ \A f \in File : row.chain[f] = {}
      /\ row.chain \in [File -> SUBSET File]
  BY RowTypes DEF TypeOK, LoadChain, LoadChainFails, database, Own, Looking
<1>1. ASSUME NEW chain \in [File -> SUBSET File], \A f \in row.todo : chain[f] \in {{}, Ancestors(f)},
             Set(r, [row EXCEPT !.pc = "store", !.chain = chain])
      PROVE  Quiet(r) /\ Own(r)'
  <2>. DEFINE next == [row EXCEPT !.pc = "store", !.chain = chain]
  <2>1. next \in RequestRow  BY <1>0 DEF RequestRow
  <2>2. /\ next.pc = "store" /\ next.found = row.found /\ next.op = row.op /\ next.p = row.p
        /\ next.f = row.f /\ next.by = row.by /\ next.todo = row.todo /\ next.raced = row.raced
        /\ next.loose = row.loose /\ next.chain = chain
    BY <1>0 DEF RequestRow
  <2>3. Set(r, next)  BY <1>1
  <2>. HIDE DEF next
  <2>4. Quiet(r) /\ request'[r] = next
    BY <1>0, <2>1, <2>3 DEF Quiet, TypeOK, Set
  <2>5. \A f, p : Truth(f, p)' = Truth(f, p) /\ Ancestors(f)' = Ancestors(f)  BY <1>0 DEF Truth, Ancestors
  <2>6. Named(r)'  BY <1>0, <2>2, <2>4 DEF Own, Named
  <2>7. Looking(r)'  BY <1>0, <1>1, <2>2, <2>4, <2>5 DEF Own, Looking
  <2>8. Real(r)'  BY <2>2, <2>4 DEF Real
  <2>9. Granted(r)'  BY <1>0, <2>2, <2>4, <2>5 DEF Own, Granted
  <2>. QED  BY <2>4, <2>6, <2>7, <2>8, <2>9 DEF Own
<1>2. CASE LoadChain(r)
  <2>. DEFINE chain == [f \in File |-> IF f \in row.todo THEN Ancestors(f) ELSE {}]
  <2>1. \A f : Ancestors(f) \subseteq File  BY <1>0, AncestorsClosed DEF Ancestors
  <2>2. chain \in [File -> SUBSET File] /\ \A f \in row.todo : chain[f] \in {{}, Ancestors(f)}
    BY <1>0, <2>1
  <2>3. Set(r, [row EXCEPT !.pc = "store", !.chain = chain])  BY <1>2 DEF LoadChain
  <2>. HIDE DEF chain
  <2>. QED  BY <1>1, <2>2, <2>3
<1>3. CASE LoadChainFails(r) /\ row.op \in Batches
  <2>1. Set(r, Idle)  BY <1>3 DEF LoadChainFails
  <2>2. Quiet(r)  BY <1>0, <2>1, Idles, SetRow DEF Quiet
  <2>. QED  BY <2>1, <2>2, SetRow, Idles, IdleOwn
<1>4. CASE LoadChainFails(r) /\ row.op \notin Batches
  <2>1. Set(r, [row EXCEPT !.pc = "store"])  BY <1>4 DEF LoadChainFails
  <2>2. [row EXCEPT !.pc = "store"] = [row EXCEPT !.pc = "store", !.chain = row.chain]
    BY <1>0 DEF RequestRow
  <2>3. \A f \in row.todo : row.chain[f] \in {{}, Ancestors(f)}  BY <1>0
  <2>. QED  BY <1>0, <1>1, <2>1, <2>2, <2>3
<1>. QED  BY <1>2, <1>3, <1>4

\* What an update is going to invalidate are files.
LEMMA ReachFiles ==
  ASSUME TypeOK, NEW q \in Request, Own(q)
  PROVE  Reach(q) \subseteq File
<1>1. request[q].todo \subseteq File  BY RowTypes DEF TypeOK
<1>. QED  BY <1>1 DEF Reach, IsPending, Own, Named

\* The request of a lookup that is stored goes on, whatever groups are left.
LEMMA AfterStep ==
  ASSUME TypeOK, NEW r \in Request, Own(r), NEW p \in Permission, NEW f \in request[r].todo,
         NEW left \in SUBSET File,
         request[r].pc = "store", request[r].p = p, Next1(r, After(request[r], f, left)),
         parent' = parent, live' = live, rows' = rows
  PROVE  /\ request' \in [Request -> RequestRow] /\ \A q \in Request \ {r} : request'[q] = request[q]
         /\ Own(r)' /\ request'[r].pc \in {"group", "store", "commit", "idle"}
         /\ left # {} => /\ request'[r].pc = "group" /\ request'[r].f = f
                         /\ request'[r].p = p /\ request'[r].left = left
<1>. DEFINE row   == request[r]
            chain == [row.chain EXCEPT ![f] = {}]
            found == [row.found EXCEPT ![f] = IF row.op = "update" THEN @ ELSE NoLookup]
            next  == [row EXCEPT !.todo = row.todo \ {f}, !.f = f, !.left = left, !.chain = chain,
                                 !.found = found]
<1>0. /\ row \in RequestRow /\ row.todo \in SUBSET File /\ f \in File /\ row.raced \in 0 .. 2
      /\ row.found \in [File -> Lookup] /\ row.chain \in [File -> SUBSET File]
  BY RowTypes DEF TypeOK
<1>3. Next1(r, next)
  <2>1. next = After(row, f, left)  BY <1>0 DEF RequestRow, After
  <2>. QED  BY <2>1
<1>4. /\ chain \in [File -> SUBSET File] /\ found \in [File -> Lookup]
      /\ \A g \in row.todo \ {f} : g \in File /\ chain[g] = row.chain[g] /\ found[g] = row.found[g]
      /\ row.op = "update" => found[f] = row.found[f]
  BY <1>0 DEF Lookup, NoLookup
<1>. HIDE DEF chain, found
<1>5. next \in RequestRow  BY <1>0, <1>4 DEF RequestRow
<1>6. /\ next.todo = row.todo \ {f} /\ next.f = f /\ next.left = left /\ next.chain = chain
      /\ next.found = found /\ next.op = row.op /\ next.p = p /\ next.raced = row.raced
      /\ next.by = row.by /\ next.loose = row.loose
  BY <1>0 DEF RequestRow
<1>. HIDE DEF next
<1>7. row.op = "update" => row.f = f /\ p = "manage"
  BY <1>0 DEF Own, Named
<1>8. row.raced = 0 => \A g \in row.todo : row.found[g] = Truth(g, p) /\ row.chain[g] \in {{}, Ancestors(g)}
  BY <1>0 DEF Own, Looking
<1>9. row.op = "update" /\ row.by # "owner" /\ row.raced = 0 /\ ~row.loose => row.found[f] = Truth(f, "manage")
  BY <1>0, <1>7 DEF Own, Granted
<1>10. Between(next)
  <2>1. next.raced = 0 => \A g \in next.todo : next.found[g] = Truth(g, p) /\ next.chain[g] \in {{}, Ancestors(g)}
    BY <1>4, <1>6, <1>8
  <2>2. next.op = "update" /\ next.by # "owner" /\ next.raced = 0 /\ ~next.loose
          => next.found[f] = Truth(f, "manage")
    BY <1>4, <1>6, <1>9
  <2>3. next.op = "update" => next.p = "manage" /\ next.todo \subseteq {f}
    <3>1. row.op = "update" => row.todo \subseteq {f}  BY <1>0, <1>7 DEF Own, Named
    <3>. QED  BY <1>6, <1>7, <3>1
  <2>. QED  BY <1>0, <1>6, <2>1, <2>2, <2>3 DEF Between
<1>. QED  BY <1>3, <1>5, <1>6, <1>10, GoesOn

\* A lookup that is stored is true and about to be registered, or is excused.
LEMMA StoreStep ==
  ASSUME TypeOK, CacheTracked, NEW r \in Request, Own(r), Store(r)
  PROVE  Quiet(r) /\ Own(r)' /\ cached' \in [Key -> Lookup \cup {None}] /\ excused' \subseteq Key /\ CacheTracked'
<1>. DEFINE row == request[r]
<1>0. /\ row \in RequestRow /\ row.pc = "store" /\ row.todo \in SUBSET File /\ live \subseteq File
      /\ row.p \in Permission /\ row.raced \in 0 .. 2
      /\ row.found \in [File -> Lookup] /\ row.chain \in [File -> SUBSET File]
      /\ parent' = parent /\ live' = live /\ rows' = rows /\ groups' = groups
      /\ cached \in [Key -> Lookup \cup {None}] /\ excused \subseteq Key
  BY RowTypes DEF TypeOK, Store, database
<1>p. PICK p \in Permission : p = row.p  BY <1>0
<1>1. PICK f \in row.todo :
        /\ cached' = [cached EXCEPT ![<<f, p>>] = row.found[f]]
        /\ excused' = IF row.raced > 0 \/ row.chain[f] = {} THEN excused \cup {<<f, p>>}
                      ELSE excused \ {<<f, p>>}
        /\ Next1(r, After(row, f, row.chain[f]))
  BY <1>p DEF Store
<1>. DEFINE k == <<f, p>>
<1>2. f \in File /\ k \in Key  BY <1>0, <1>p DEF Key
<1>8. row.raced = 0 => \A g \in row.todo : row.found[g] = Truth(g, p) /\ row.chain[g] \in {{}, Ancestors(g)}
  BY <1>0, <1>p DEF Own, Looking
<1>11. /\ request' \in [Request -> RequestRow] /\ \A q \in Request \ {r} : request'[q] = request[q]
       /\ Own(r)' /\ request'[r].pc \in {"group", "store", "commit", "idle"}
       /\ row.chain[f] # {} => /\ request'[r].pc = "group" /\ request'[r].f = f
                               /\ request'[r].p = p /\ request'[r].left = row.chain[f]
  <2>. DEFINE left == row.chain[f]
  <2>1. left \in SUBSET File  BY <1>0, <1>2
  <2>2. request[r].pc = "store" /\ request[r].p = p /\ parent' = parent /\ live' = live /\ rows' = rows
    BY <1>0, <1>p
  <2>3. Next1(r, After(request[r], f, left)) /\ f \in request[r].todo  BY <1>1
  <2>. HIDE DEF left
  <2>4. /\ request' \in [Request -> RequestRow] /\ \A q \in Request \ {r} : request'[q] = request[q]
        /\ Own(r)' /\ request'[r].pc \in {"group", "store", "commit", "idle"}
        /\ left # {} => /\ request'[r].pc = "group" /\ request'[r].f = f
                        /\ request'[r].p = p /\ request'[r].left = left
    BY <2>1, <2>2, <2>3, AfterStep
  <2>. QED  BY <2>4 DEF left
<1>12. cached' \in [Key -> Lookup \cup {None}] /\ excused' \subseteq Key
  BY <1>0, <1>1, <1>2
<1>13. \A j, a : Registering(j, a) => Registering(j, a)'
  BY <1>0, <1>11, StillRegistering
<1>14. \A j : Doomed(j) => Doomed(j)'
  BY <1>0, <1>11, NotPending, StillDoomed DEF IsPending
<1>15. ASSUME NEW j \in Key, j \notin excused', j # k
       PROVE  (cached[j] = None \/ Tracked(j) \/ Doomed(j))'
  <2>1. j \notin excused /\ cached'[j] = cached[j]  BY <1>0, <1>1, <1>2, <1>15
  <2>. QED  BY <1>0, <1>13, <1>14, <2>1, TrackedKept DEF CacheTracked
<1>16. ASSUME k \notin excused'
       PROVE  Tracked(k)'
  <2>1. row.raced = 0 /\ row.chain[f] # {}  BY <1>0, <1>1, <1>16
  <2>2. cached'[k] = Truth(f, p) /\ row.chain[f] = Ancestors(f)
    BY <1>0, <1>1, <1>2, <1>8, <2>1
  <2>3. Truth(f, p)' = Truth(f, p) /\ Ancestors(f)' = Ancestors(f)  BY <1>0 DEF Truth, Ancestors
  <2>4. Fresh(k)'  BY <2>2, <2>3 DEF Fresh
  <2>5. \A a \in Ancestors(f) : Registering(k, a)'
    BY <1>11, <2>1, <2>2 DEF Registering
  <2>. QED  BY <2>3, <2>4, <2>5 DEF Tracked
<1>17. CacheTracked'  BY <1>15, <1>16 DEF CacheTracked
<1>18. Quiet(r)  BY <1>0, <1>11 DEF Quiet
<1>. QED  BY <1>11, <1>12, <1>17, <1>18

\* A lookup that is not stored leaves the cache as it was.
LEMMA StoreFailsStep ==
  ASSUME TypeOK, CacheTracked, NEW r \in Request, Own(r), StoreFails(r)
  PROVE  Quiet(r) /\ Own(r)' /\ CacheTracked'
<1>0. /\ request[r] \in RequestRow /\ request[r].pc = "store" /\ request[r].p \in Permission
      /\ parent' = parent /\ live' = live /\ rows' = rows
      /\ cached' = cached /\ groups' = groups /\ excused' = excused
  BY RowTypes DEF TypeOK, StoreFails, database
<1>1. PICK f \in request[r].todo : Next1(r, After(request[r], f, {}))  BY DEF StoreFails
<1>2. Quiet(r) /\ Own(r)'
  <2>1. PICK p \in Permission : p = request[r].p  BY <1>0
  <2>. DEFINE left == {}
  <2>2. left \in SUBSET File /\ Next1(r, After(request[r], f, left))  BY <1>1
  <2>. HIDE DEF left
  <2>3. /\ request' \in [Request -> RequestRow] /\ \A q \in Request \ {r} : request'[q] = request[q]
        /\ Own(r)'
    BY <1>0, <2>1, <2>2, AfterStep
  <2>. QED  BY <1>0, <2>3 DEF Quiet
<1>. QED  BY <1>0, <1>2, TrackedQuiet DEF IsPending

\* The request of a registration goes on, whether it was made or not.
LEMMA LeftStep ==
  ASSUME TypeOK, NEW r \in Request, Own(r), request[r].pc = "group", NEW a \in request[r].left,
         Next1(r, [request[r] EXCEPT !.left = @ \ {a}]),
         parent' = parent, live' = live, rows' = rows
  PROVE  /\ request' \in [Request -> RequestRow] /\ \A q \in Request \ {r} : request'[q] = request[q]
         /\ Own(r)' /\ request'[r].pc \in {"group", "store", "commit", "idle"}
         /\ request[r].left \ {a} # {} =>
              /\ request'[r].pc = "group" /\ request'[r].f = request[r].f
              /\ request'[r].p = request[r].p /\ request'[r].left = request[r].left \ {a}
<1>. DEFINE row  == request[r]
            next == [row EXCEPT !.left = row.left \ {a}]
<1>0. row \in RequestRow /\ row.left \in SUBSET File /\ row.f \in File /\ row.todo \in SUBSET File
  BY RowTypes DEF TypeOK, Own, Named
<1>3. Next1(r, next)
  <2>1. next = [row EXCEPT !.left = @ \ {a}]  BY <1>0 DEF RequestRow
  <2>. QED  BY <2>1
<1>4. next \in RequestRow  BY <1>0 DEF RequestRow
<1>5. /\ next.todo = row.todo /\ next.f = row.f /\ next.left = row.left \ {a} /\ next.chain = row.chain
      /\ next.found = row.found /\ next.op = row.op /\ next.p = row.p /\ next.raced = row.raced
      /\ next.by = row.by /\ next.loose = row.loose
  BY <1>0 DEF RequestRow
<1>. HIDE DEF next
<1>6. Between(next)
  BY <1>0, <1>5 DEF Between, Own, Named, Looking, Granted
<1>. QED  BY <1>0, <1>3, <1>4, <1>5, <1>6, GoesOn

\* A registration that is done is in the group.
LEMMA AddStep ==
  ASSUME TypeOK, CacheTracked, \A q \in Request : Own(q), NEW r \in Request, AddToGroup(r)
  PROVE  Quiet(r) /\ Own(r)' /\ groups' \in [File -> SUBSET Key] /\ CacheTracked'
<1>. DEFINE row == request[r]
<1>0. /\ row \in RequestRow /\ row.pc = "group" /\ row.todo \in SUBSET File /\ live \subseteq File
      /\ row.f \in File /\ row.p \in Permission /\ row.left \in SUBSET File
      /\ parent' = parent /\ live' = live /\ rows' = rows /\ cached' = cached /\ excused' = excused
      /\ groups \in [File -> SUBSET Key]
  BY RowTypes DEF TypeOK, AddToGroup, database, Own, Named
<1>1. PICK a \in row.left :
        /\ groups' = [groups EXCEPT ![a] = @ \cup {<<row.f, row.p>>}]
        /\ Next1(r, [row EXCEPT !.left = @ \ {a}])
  BY DEF AddToGroup
<1>. DEFINE k == <<row.f, row.p>>
<1>2. a \in File /\ k \in Key  BY <1>0 DEF Key
<1>7. /\ request' \in [Request -> RequestRow] /\ \A q \in Request \ {r} : request'[q] = request[q]
      /\ Own(r)' /\ request'[r].pc \in {"group", "store", "commit", "idle"}
      /\ row.left \ {a} # {} => /\ request'[r].pc = "group" /\ request'[r].f = row.f
                                /\ request'[r].p = row.p /\ request'[r].left = row.left \ {a}
  BY <1>0, <1>1, LeftStep
<1>8. groups' \in [File -> SUBSET Key] /\ \A b \in File : groups[b] \subseteq groups'[b]
  BY <1>0, <1>1, <1>2
<1>9. ASSUME NEW j \in Key, NEW b \in File, j \in groups[b] \/ Registering(j, b)
      PROVE  j \in groups'[b] \/ Registering(j, b)'
  <2>1. CASE j \in groups[b]  BY <1>8, <2>1
  <2>2. CASE Registering(j, b) /\ j = k /\ b = a
    BY <1>0, <1>1, <1>2, <2>2
  <2>3. CASE Registering(j, b) /\ j = k /\ b # a
    <3>1. b \in row.left => Registering(j, b)'
      BY <1>7, <2>3 DEF Registering
    <3>. QED  BY <1>7, <2>3, <3>1, StillRegistering
  <2>4. CASE Registering(j, b) /\ j # k
    BY <1>7, <2>4, StillRegistering
  <2>. QED  BY <1>9, <2>1, <2>2, <2>3, <2>4
<1>10. ASSUME NEW j, Doomed(j)
       PROVE  Doomed(j)'
  <2>1. PICK q \in Request : j \in Unreached(q)  BY <1>10 DEF Doomed
  <2>2. q # r  BY <1>0, <2>1, NotPending DEF IsPending
  <2>3. request'[q] = request[q]  BY <1>7, <2>2
  <2>4. Reach(q)' = Reach(q)  BY <2>3 DEF Reach, IsPending
  <2>5. j \in Unreached(q)'
    BY <1>8, <2>1, <2>4, ReachFiles DEF Unreached
  <2>. QED  BY <2>5 DEF Doomed
<1>11. CacheTracked'
  BY <1>0, <1>9, <1>10, TrackedKept DEF CacheTracked
<1>12. Quiet(r)  BY <1>0, <1>7 DEF Quiet
<1>. QED  BY <1>7, <1>8, <1>11, <1>12

\* A registration that fails excuses the entry.
LEMMA AddFailsStep ==
  ASSUME TypeOK, CacheTracked, \A q \in Request : Own(q), NEW r \in Request, AddToGroupFails(r)
  PROVE  Quiet(r) /\ Own(r)' /\ excused' \subseteq Key /\ CacheTracked'
<1>. DEFINE k == <<request[r].f, request[r].p>>
<1>0. /\ request[r].pc = "group" /\ k \in Key /\ live \subseteq File
      /\ parent' = parent /\ live' = live /\ rows' = rows /\ cached' = cached /\ groups' = groups
      /\ excused \subseteq Key /\ excused' = excused \cup {k}
  BY RowTypes DEF TypeOK, AddToGroupFails, database, Own, Named, Key
<1>1. PICK a \in request[r].left : Next1(r, [request[r] EXCEPT !.left = @ \ {a}])
  BY DEF AddToGroupFails
<1>2. Quiet(r) /\ Own(r)'  BY <1>0, <1>1, LeftStep DEF Quiet
<1>3. ASSUME NEW j \in Key, j \notin excused'
      PROVE  (cached[j] = None \/ Tracked(j) \/ Doomed(j))'
  <2>1. j # k /\ j \notin excused  BY <1>0, <1>3
  <2>2. \A b \in File : Registering(j, b) => Registering(j, b)'
    BY <1>2, <2>1, StillRegistering DEF Quiet
  <2>3. Doomed(j) => Doomed(j)'  BY <1>0, <1>2, NotPending, StillDoomed DEF Quiet, IsPending
  <2>. QED  BY <1>0, <2>1, <2>2, <2>3, TrackedKept DEF CacheTracked
<1>. QED  BY <1>0, <1>2, <1>3 DEF CacheTracked

-----------------------------------------------------------------------------
(* Requests that begin, and invalidations. *)

\* A row of which nothing but its file is used.
LEMMA PlainOwn ==
  ASSUME NEW r \in Request, NEW row, request'[r] = row, row.op # "update",
         row.pc \in {"idle", "commit", "insert", "descend", "drop"},
         row.pc \in {"commit", "insert", "descend"} => row.f \in File
  PROVE  Own(r)'
BY DEF Own, Named, Looking, Real, Granted

\* A request begins with what the cache tells it, and changes no lookup.
LEMMA BeginStep ==
  ASSUME TypeOK, CacheTracked, NEW r \in Request, Begin(r)
  PROVE  \/ /\ Quiet(r) /\ Own(r)' /\ request[r].pc = "idle"
            /\ UNCHANGED <<pool, cached, groups, died, excused, world>> /\ writes' \in {writes, writes + 1}
            /\ writes' = writes + 1 => writes < MaxWrites
         \/ \E grants \in SUBSET {"bob"}, hidden \in BOOLEAN : UpdatePool(r, grants, hidden)
<1>0. live \subseteq File  BY DEF TypeOK
<1>1. ASSUME NEW f \in File, fileInfo(r, f) \/ listChildren(r, f)
      PROVE  /\ Quiet(r) /\ Own(r)' /\ request[r].pc = "idle"
             /\ UNCHANGED <<pool, cached, groups, died, excused, world>> /\ writes' = writes
  <2>1. \E op \in {"info", "children"}, files \in SUBSET File : Resolve(r, op, files, "read", Idle)
    <3>1. {f} \in SUBSET File /\ {g \in live : parent[g] = f} \in SUBSET File  BY <1>0
    <3>. QED  BY <1>1, <3>1 DEF fileInfo, listChildren
  <2>2. "read" \in Permission  BY DEF Permission
  <2>3. parent' = parent /\ live' = live /\ rows' = rows
    BY <1>1 DEF fileInfo, listChildren, database
  <2>4. Own(r)' /\ Quiet(r)  BY <2>1, <2>2, <2>3, Resolves, Idles DEF Quiet
  <2>. QED  BY <1>1, <2>4 DEF fileInfo, listChildren, MayRead, MayStart, database
<1>2. ASSUME NEW files \in SUBSET File, listFilesMetadata(r, files)
      PROVE  /\ Quiet(r) /\ Own(r)' /\ request[r].pc = "idle"
             /\ UNCHANGED <<pool, cached, groups, died, excused, world>> /\ writes' = writes
  <2>1. Resolve(r, "meta", files, "read", Idle)  BY <1>2 DEF listFilesMetadata
  <2>2. "read" \in Permission  BY DEF Permission
  <2>3. parent' = parent /\ live' = live /\ rows' = rows  BY <1>2 DEF listFilesMetadata, database
  <2>4. Own(r)' /\ Quiet(r)  BY <2>1, <2>2, <2>3, Resolves, Idles DEF Quiet
  <2>. QED  BY <1>2, <2>4 DEF listFilesMetadata, MayRead, MayStart, database
<1>3. ASSUME NEW f \in File, NEW by \in {"owner", "bob"}, NEW items \in world.items,
             updateFilePermissions(r, f, by, items)
      PROVE  /\ Quiet(r) /\ Own(r)' /\ request[r].pc = "idle"
             /\ UNCHANGED <<pool, cached, groups, died, excused, world>>
             /\ writes' = writes + 1 /\ writes < MaxWrites
  <2>. DEFINE row == [Idle EXCEPT !.op = "update", !.p = "manage", !.by = by, !.f = f, !.items = items]
  <2>1. items \in SUBSET Row
    <3>1. world \in World  BY WorldsTyped DEF TypeOK
    <3>. QED  BY <3>1 DEF World
  <2>2. row \in RequestRow /\ [row EXCEPT !.pc = "commit"] \in RequestRow
    <3>1. by \in Viewer /\ "manage" \in Permission /\ "update" \in Op  BY DEF Viewer, Permission, Op
    <3>. QED  BY <2>1, <3>1, Idles DEF RequestRow
  <2>3. /\ row.op = "update" /\ row.p = "manage" /\ row.by = by /\ row.f = f /\ row.raced = 0
        /\ \A g \in File : row.chain[g] = {}
    BY Idles DEF RequestRow
  <2>4. parent' = parent /\ live' = live /\ rows' = rows  BY <1>3 DEF updateFilePermissions, database
  <2>5. IF by = "owner" THEN Set(r, [row EXCEPT !.pc = "commit"]) ELSE Resolve(r, "update", {f}, "manage", row)
    BY <1>3 DEF updateFilePermissions
  <2>6. Quiet(r) /\ Own(r)'
    <3>1. CASE by = "owner"
      <4>. DEFINE next == [row EXCEPT !.pc = "commit"]
      <4>1. next.pc = "commit" /\ next.op = "update" /\ next.p = "manage" /\ next.by = "owner" /\ next.f = f
        BY <2>2, <2>3, <3>1 DEF RequestRow
      <4>2. Set(r, next) /\ next \in RequestRow  BY <2>2, <2>5, <3>1
      <4>. HIDE DEF next
      <4>3. Quiet(r) /\ request'[r] = next  BY <2>4, <4>2, SetRow DEF Quiet
      <4>. QED  BY <4>1, <4>3 DEF Own, Named, Looking, Real, Granted
    <3>2. CASE by # "owner"
      <4>1. {f} \in SUBSET File /\ "manage" \in Permission  BY DEF Permission
      <4>2. Resolve(r, "update", {f}, "manage", row)  BY <2>5, <3>2
      <4>. HIDE DEF row
      <4>. QED  BY <2>2, <2>3, <2>4, <3>2, <4>1, <4>2, Resolves DEF Quiet
    <3>. QED  BY <3>1, <3>2
  <2>. QED  BY <1>3, <2>6 DEF updateFilePermissions, BeginWrite, MayStart, database
<1>4. ASSUME NEW f \in File, NEW dst \in File \cup {None}, NEW op \in Op \ {"update", "pool"},
             BeginOther(r, op, f, dst)
      PROVE  /\ Quiet(r) /\ Own(r)' /\ request[r].pc = "idle"
             /\ UNCHANGED <<pool, cached, groups, died, excused, world>>
             /\ writes' = writes + 1 /\ writes < MaxWrites
  <2>. DEFINE pc   == IF op = "purgeCache" THEN "drop" ELSE "commit"
              todo == IF op = "delete" THEN Descendants(f) ELSE IF op = "purgeCache" THEN {f} ELSE {}
              next == [Idle EXCEPT !.op = op, !.f = f, !.dst = dst, !.pc = pc, !.todo = todo]
  <2>1. pc \in {"drop", "commit"} /\ todo \in SUBSET File  BY DEF Descendants
  <2>2. Set(r, next)  BY <1>4 DEF BeginOther
  <2>. HIDE DEF pc, todo
  <2>3. next \in RequestRow  BY <2>1, Idles DEF RequestRow
  <2>4. next.op = op /\ next.pc = pc /\ next.f = f  BY Idles DEF RequestRow
  <2>. HIDE DEF next
  <2>5. parent' = parent /\ live' = live /\ rows' = rows  BY <1>4 DEF BeginOther, database
  <2>6. Quiet(r) /\ request'[r] = next  BY <2>2, <2>3, <2>5, SetRow DEF Quiet
  <2>7. Own(r)'  BY <2>1, <2>4, <2>6, PlainOwn
  <2>. QED  BY <1>4, <2>6, <2>7 DEF BeginOther, BeginWrite, MayStart, database
<1>5. writes \in Nat  BY MaxWritesNatural DEF TypeOK
<1>6. CASE \E f \in File : fileInfo(r, f) \/ listChildren(r, f)
  BY <1>1, <1>5, <1>6
<1>7. CASE \E files \in SUBSET File : listFilesMetadata(r, files)
  BY <1>2, <1>5, <1>7
<1>8. CASE \E f \in File, by \in {"owner", "bob"}, items \in world.items : updateFilePermissions(r, f, by, items)
  BY <1>3, <1>8
<1>9. CASE \E f \in File, dst \in File \cup {None}, op \in Op \ {"update", "pool"} : BeginOther(r, op, f, dst)
  BY <1>4, <1>9
<1>. QED  BY <1>6, <1>7, <1>8, <1>9 DEF Begin

\* The lookups that an update is going to drop are keys of the cache.
LEMMA UnreachedTyped ==
  ASSUME TypeOK, NEW q \in Request, Own(q)
  PROVE  Unreached(q) \subseteq Key
BY ReachFiles DEF Unreached, TypeOK

\* The request of an invalidation goes on, whether it was made or not.
LEMMA DropRow ==
  ASSUME TypeOK, NEW r \in Request, Own(r), request[r].pc = "drop", NEW f \in request[r].todo,
         Set(r, IF request[r].todo = {f} THEN Idle ELSE [request[r] EXCEPT !.todo = @ \ {f}]),
         parent' = parent, live' = live, rows' = rows
  PROVE  /\ Quiet(r) /\ Own(r)'
         /\ \/ request'[r] = Idle /\ request[r].todo = {f}
            \/ request'[r].pc = "drop" /\ request'[r].todo = request[r].todo \ {f}
<1>. DEFINE row  == request[r]
            next == IF row.todo = {f} THEN Idle ELSE [row EXCEPT !.todo = row.todo \ {f}]
<1>0. row \in RequestRow /\ row.todo \in SUBSET File  BY RowTypes DEF TypeOK
<1>2. next \in RequestRow
  BY <1>0, Idles DEF RequestRow
<1>3. \/ next = Idle /\ row.todo = {f}
      \/ next.pc = "drop" /\ next.todo = row.todo \ {f} /\ next.op = row.op /\ next.f = row.f /\ next.p = row.p
  BY <1>0 DEF RequestRow
<1>4. Set(r, next)  OBVIOUS
<1>. HIDE DEF next
<1>5. Quiet(r) /\ request'[r] = next  BY <1>0, <1>2, <1>4, SetRow DEF Quiet
<1>6. Own(r)'
  <2>1. CASE next = Idle  BY <1>5, <2>1, IdleOwn
  <2>2. CASE next.pc = "drop" /\ next.op = row.op /\ next.f = row.f /\ next.p = row.p
    BY <1>0, <1>5, <2>2 DEF Own, Named, Looking, Real, Granted
  <2>. QED  BY <1>3, <2>1, <2>2
<1>. QED  BY <1>3, <1>5, <1>6

\* What an update is going to invalidate, after one of its groups.
LEMMA StillReached ==
  ASSUME NEW r \in Request, NEW q \in Request, NEW f, NEW a \in Reach(q) \ {f}, Quiet(r),
         request[r].pc = "drop",
         \/ request'[r] = Idle /\ request[r].todo = {f}
         \/ request'[r].pc = "drop" /\ request'[r].todo = request[r].todo \ {f}
  PROVE  a \in Reach(q)'
<1>1. CASE q # r
  <2>1. request'[q] = request[q]  BY <1>1 DEF Quiet
  <2>2. Reach(q)' = Reach(q)  BY <2>1 DEF Reach, IsPending
  <2>. QED  BY <2>2
<1>2. CASE q = r
  <2>1. a \in request[r].todo \ {f}  BY <1>2 DEF Reach
  <2>2. request'[r].pc = "drop" /\ request'[r].todo = request[r].todo \ {f}  BY <2>1
  <2>. QED  BY <1>2, <2>1, <2>2 DEF Reach
<1>. QED  BY <1>1, <1>2

\* An invalidation drops what is in the group, so nothing loses its tracking.
LEMMA DropStep ==
  ASSUME TypeOK, CacheTracked, \A q \in Request : Own(q), NEW r \in Request, Drop(r)
  PROVE  /\ Quiet(r) /\ Own(r)' /\ groups' \in [File -> SUBSET Key] /\ excused' \subseteq Key
         /\ cached' \in [Key -> Lookup \cup {None}] /\ CacheTracked'
<1>. DEFINE row == request[r]
<1>0. /\ row \in RequestRow /\ row.pc = "drop" /\ row.todo \in SUBSET File /\ live \subseteq File
      /\ parent' = parent /\ live' = live /\ rows' = rows
      /\ groups \in [File -> SUBSET Key] /\ cached \in [Key -> Lookup \cup {None}] /\ excused \subseteq Key
  BY RowTypes DEF TypeOK, Drop, database
<1>1. PICK f \in row.todo :
        /\ InvalidateFilePermissionCache(f)
        /\ Set(r, IF row.todo = {f} THEN Idle ELSE [row EXCEPT !.todo = @ \ {f}])
  BY DEF Drop
<1>5. /\ Quiet(r) /\ Own(r)'
      /\ \/ request'[r] = Idle /\ row.todo = {f}
         \/ request'[r].pc = "drop" /\ request'[r].todo = row.todo \ {f}
  BY <1>0, <1>1, DropRow
<1>7. f \in File /\ f \in row.todo  BY <1>0
<1>8. /\ groups' = [groups EXCEPT ![f] = {}] /\ excused' = excused \ groups[f]
      /\ cached' = [k \in Key |-> IF k \in groups[f] THEN None ELSE cached[k]]
  BY <1>1 DEF InvalidateFilePermissionCache
<1>9. groups' \in [File -> SUBSET Key] /\ cached' \in [Key -> Lookup \cup {None}] /\ excused' \subseteq Key
  BY <1>0, <1>7, <1>8
<1>10. ASSUME NEW j \in Key, j \notin excused'
       PROVE  (cached[j] = None \/ Tracked(j) \/ Doomed(j))'
  <2>1. CASE j \in groups[f]  BY <1>8, <2>1
  <2>2. CASE j \notin groups[f]
    <3>1. cached'[j] = cached[j] /\ j \notin excused  BY <1>8, <1>10, <2>2
    <3>2. \A a \in File : j \in groups[a] => j \in groups'[a]  BY <1>0, <1>7, <1>8, <2>2
    <3>3. \A a \in File : Registering(j, a) => Registering(j, a)'
      BY <1>0, <1>5, StillRegistering DEF Quiet
    <3>4. ASSUME Doomed(j) PROVE Doomed(j)'
      <4>1. PICK q \in Request : j \in Unreached(q)  BY <3>4 DEF Doomed
      <4>2. PICK a \in Reach(q) : j \in groups[a]  BY <4>1 DEF Unreached
      <4>3. a \in File /\ a # f /\ j \in groups'[a]  BY <2>2, <3>2, <4>2, ReachFiles
      <4>4. a \in Reach(q)'  BY <1>0, <1>5, <4>2, <4>3, StillReached
      <4>5. j \in Unreached(q)'  BY <4>3, <4>4 DEF Unreached
      <4>. QED  BY <4>5 DEF Doomed
    <3>. QED  BY <1>0, <3>1, <3>2, <3>3, <3>4, TrackedKept DEF CacheTracked
  <2>. QED  BY <2>1, <2>2
<1>11. CacheTracked'  BY <1>10 DEF CacheTracked
<1>. QED  BY <1>5, <1>9, <1>11

\* An invalidation that fails excuses what it would have dropped.
LEMMA DropFailsStep ==
  ASSUME TypeOK, CacheTracked, \A q \in Request : Own(q), NEW r \in Request, DropFails(r)
  PROVE  Quiet(r) /\ Own(r)' /\ excused' \subseteq Key /\ CacheTracked'
<1>0. /\ request[r].pc = "drop" /\ request[r].todo \subseteq File /\ live \subseteq File
      /\ parent' = parent /\ live' = live /\ rows' = rows /\ cached' = cached /\ groups' = groups
      /\ excused \subseteq Key /\ groups \in [File -> SUBSET Key]
  BY RowTypes DEF TypeOK, DropFails, database
<1>1. PICK f \in request[r].todo :
        /\ excused' = excused \cup groups[f]
        /\ Set(r, IF request[r].todo = {f} THEN Idle ELSE [request[r] EXCEPT !.todo = @ \ {f}])
  BY DEF DropFails
<1>2. /\ Quiet(r) /\ Own(r)'
      /\ \/ request'[r] = Idle /\ request[r].todo = {f}
         \/ request'[r].pc = "drop" /\ request'[r].todo = request[r].todo \ {f}
  BY <1>0, <1>1, DropRow
<1>3. excused' \subseteq Key  BY <1>0, <1>1
<1>4. ASSUME NEW j \in Key, j \notin excused'
      PROVE  (cached[j] = None \/ Tracked(j) \/ Doomed(j))'
  <2>1. j \notin groups[f] /\ j \notin excused  BY <1>1, <1>4
  <2>2. \A b \in File : Registering(j, b) => Registering(j, b)'
    BY <1>0, <1>2, StillRegistering DEF Quiet
  <2>3. ASSUME Doomed(j) PROVE Doomed(j)'
    <3>1. PICK q \in Request : j \in Unreached(q)  BY <2>3 DEF Doomed
    <3>2. PICK a \in Reach(q) : j \in groups[a]  BY <3>1 DEF Unreached
    <3>3. a # f  BY <2>1, <3>2
    <3>4. a \in Reach(q)'  BY <1>0, <1>2, <3>2, <3>3, StillReached
    <3>5. j \in Unreached(q)'  BY <1>0, <3>2, <3>4 DEF Unreached
    <3>. QED  BY <3>5 DEF Doomed
  <2>. QED  BY <1>0, <2>1, <2>2, <2>3, TrackedKept DEF CacheTracked
<1>. QED  BY <1>2, <1>3, <1>4 DEF CacheTracked

\* Invalidating all that lies below a file includes the file itself.
LEMMA DescendStep ==
  ASSUME TypeOK, CacheTracked, \A q \in Request : Own(q), NEW r \in Request, LoadDescendants(r)
  PROVE  Quiet(r) /\ Own(r)' /\ CacheTracked'
<1>. DEFINE next == [Idle EXCEPT !.pc = "drop", !.todo = Descendants(request[r].f)]
<1>0. /\ request[r].pc = "descend" /\ request[r].f \in File /\ live \subseteq File
      /\ parent' = parent /\ live' = live /\ rows' = rows /\ cached' = cached /\ groups' = groups
      /\ excused' = excused
  BY DEF LoadDescendants, database, Own, Named, TypeOK
<1>1. Descendants(request[r].f) \in SUBSET File  BY DEF Descendants
<1>2. next \in RequestRow /\ next.pc = "drop" /\ next.op = "info" /\ next.todo = Descendants(request[r].f)
  BY <1>1, Idles DEF RequestRow
<1>3. Set(r, next)  BY DEF LoadDescendants
<1>. HIDE DEF next
<1>4. Quiet(r) /\ request'[r] = next  BY <1>0, <1>2, <1>3, SetRow DEF Quiet
<1>5. Own(r)'  BY <1>2, <1>4, PlainOwn
<1>6. Reach(r) \subseteq Reach(r)'
  <2>1. Reach(r) = {request[r].f}  BY <1>0 DEF Reach, IsPending
  <2>2. Reach(r)' = Descendants(request[r].f)  BY <1>2, <1>4 DEF Reach
  <2>. QED  BY <1>0, <2>1, <2>2, Self
<1>7. \A j : Doomed(j) => Doomed(j)'
  <2>1. \A j : j \in Unreached(r) => j \in Unreached(r)'  BY <1>0, <1>6 DEF Unreached
  <2>. QED  BY <1>0, <1>4, <2>1, StillDoomed DEF Doomed, Quiet
<1>8. \A j, a : Registering(j, a) => Registering(j, a)'
  BY <1>0, <1>4, StillRegistering DEF Quiet
<1>9. CacheTracked'
  BY <1>0, <1>7, <1>8, TrackedKept DEF CacheTracked
<1>. QED  BY <1>4, <1>5, <1>9

\* A process dies, or an invalidation fails.
LEMMA LossStep ==
  ASSUME TypeOK, CacheTracked, \A q \in Request : Own(q), NEW r \in Request, LoadDescendantsFails(r) \/ Die(r)
  PROVE  Quiet(r) /\ Own(r)' /\ excused' \subseteq Key /\ CacheTracked'
<1>0. /\ live \subseteq File
      /\ parent' = parent /\ live' = live /\ rows' = rows /\ cached' = cached /\ groups' = groups
      /\ Set(r, Idle)
      /\ excused \cup Unreached(r) \subseteq excused'
      /\ excused' \subseteq excused \cup Unreached(r) \cup
                            (IF request[r].pc = "group" THEN {<<request[r].f, request[r].p>>} ELSE {})
      /\ request[r].pc = "group" => <<request[r].f, request[r].p>> \in excused'
  BY DEF LoadDescendantsFails, Die, database, TypeOK
<1>1. Quiet(r) /\ request'[r] = Idle  BY <1>0, Idles, SetRow DEF Quiet
<1>2. Own(r)'  BY <1>1, IdleOwn
<1>3. excused' \subseteq Key
  <2>1. request[r].pc = "group" => <<request[r].f, request[r].p>> \in Key
    BY RowTypes DEF Own, Named, TypeOK, Key
  <2>. QED  BY <1>0, <2>1, UnreachedTyped DEF TypeOK
<1>4. ASSUME NEW j \in Key, j \notin excused'
      PROVE  (cached[j] = None \/ Tracked(j) \/ Doomed(j))'
  <2>1. j \notin Unreached(r) /\ j \notin excused /\ ~(request[r].pc = "group" /\ <<request[r].f, request[r].p>> = j)
    BY <1>0, <1>4
  <2>2. Doomed(j) => Doomed(j)'  BY <1>0, <1>1, <2>1, StillDoomed DEF Quiet
  <2>3. \A a \in File : Registering(j, a) => Registering(j, a)'
    BY <1>1, <2>1, StillRegistering DEF Quiet
  <2>. QED  BY <1>0, <2>1, <2>2, <2>3, TrackedKept DEF CacheTracked
<1>. QED  BY <1>1, <1>2, <1>3, <1>4 DEF CacheTracked

\* An entry that expires leaves its keys in the groups, which does no harm.
LEMMA ExpireStep ==
  ASSUME TypeOK, CacheTracked, NEW k \in Key, Expire(k)
  PROVE  /\ cached' \in [Key -> Lookup \cup {None}] /\ excused' \subseteq Key /\ CacheTracked'
         /\ parent' = parent /\ live' = live /\ rows' = rows /\ request' = request
<1>0. /\ live \subseteq File /\ cached \in [Key -> Lookup \cup {None}] /\ excused \subseteq Key
      /\ parent' = parent /\ live' = live /\ rows' = rows /\ groups' = groups /\ request' = request
      /\ cached' = [cached EXCEPT ![k] = None] /\ excused' = excused \ {k}
  BY DEF Expire, database, TypeOK
<1>1. ASSUME NEW j \in Key, j \notin excused'
      PROVE  (cached[j] = None \/ Tracked(j) \/ Doomed(j))'
  <2>1. CASE j = k  BY <1>0, <2>1
  <2>2. CASE j # k
    <3>1. \A a : Registering(j, a)' = Registering(j, a)  BY <1>0 DEF Registering
    <3>2. Doomed(j)' = Doomed(j)  BY <1>0 DEF Doomed, Unreached, Reach, IsPending
    <3>3. j \notin excused /\ cached'[j] = cached[j]  BY <1>0, <1>1, <2>2
    <3>. QED  BY <1>0, <3>1, <3>2, <3>3, TrackedKept DEF CacheTracked
  <2>. QED  BY <2>1, <2>2
<1>. QED  BY <1>0, <1>1 DEF CacheTracked

-----------------------------------------------------------------------------
(* Updates that are committed. *)

\* An update changes the tree or the rows in some places, which it is going
\* to invalidate, and the lookups under way learn of it.
Commits(r, places) ==
  /\ live' \subseteq live /\ live \ places \subseteq live'
  /\ \A g : g \notin places => parent'[g] = parent[g] /\ rows'[g] = rows[g]
  /\ rows' = rows \/ (parent' = parent /\ live' = live /\ \E x : places = {x})
  /\ cached' = cached /\ groups' = groups
  /\ places \subseteq Reach(r)' /\ Reach(r) \subseteq Reach(r)'
  /\ request[r].pc # "group" /\ Committed(r, request'[r])

\* What a lookup under way becomes.
Shaken(q) ==
  [request[q] EXCEPT
     !.raced = IF @ = 2 THEN 2 ELSE @ + 1,
     !.real = [f \in File |-> IF request[q].real[f] = {} THEN {}
                              ELSE request[q].real[f] \cup {TruthIn(parent', live', rows', f, request[q].p)}]]

\* A request that looks something up is shaken by an update, others are not.
LEMMA CommitRow ==
  ASSUME TypeOK, NEW r \in Request, NEW places, Commits(r, places), NEW q \in Request \ {r}
  PROVE  \/ /\ request[q].pc \notin {"source", "rows", "chain", "store", "group", "commit"}
            /\ request'[q] = request[q]
         \/ request'[q] = Shaken(q)
BY DEF Commits, Committed, Shaken

\* Its fields, of which only what was true in the meantime and the number of
\* updates change.
LEMMA ShakenRow ==
  ASSUME TypeOK, NEW q \in Request, live' \subseteq live
  PROVE  LET row == request[q]
         IN  /\ Shaken(q) \in RequestRow
             /\ Shaken(q).pc = row.pc /\ Shaken(q).op = row.op /\ Shaken(q).p = row.p /\ Shaken(q).f = row.f
             /\ Shaken(q).by = row.by /\ Shaken(q).todo = row.todo /\ Shaken(q).left = row.left
             /\ Shaken(q).found = row.found /\ Shaken(q).chain = row.chain
             /\ Shaken(q).raced # 0 /\ (Shaken(q).raced <= 1 => row.raced = 0)
             /\ \A f \in File : row.real[f] # {} =>
                  Shaken(q).real[f] = row.real[f] \cup {TruthIn(parent', live', rows', f, row.p)}
<1>. DEFINE row   == request[q]
            raced == IF row.raced = 2 THEN 2 ELSE row.raced + 1
            real  == [f \in File |-> IF row.real[f] = {} THEN {}
                                     ELSE row.real[f] \cup {TruthIn(parent', live', rows', f, row.p)}]
            next  == [row EXCEPT !.raced = raced, !.real = real]
<1>1. row \in RequestRow /\ live' \subseteq File  BY DEF TypeOK
<1>2. row.raced \in 0 .. 2 /\ row.real \in [File -> SUBSET Lookup]  BY <1>1, RowTypes
<1>3. raced \in 0 .. 2 /\ raced # 0 /\ (raced <= 1 => row.raced = 0)  BY <1>2
<1>4. \A f : TruthIn(parent', live', rows', f, row.p) \in Lookup  BY <1>1, TruthType
<1>5. real \in [File -> SUBSET Lookup]  BY <1>2, <1>4
<1>6. \A f \in File : row.real[f] # {} => real[f] = row.real[f] \cup {TruthIn(parent', live', rows', f, row.p)}
  OBVIOUS
<1>7. Shaken(q) = next  BY <1>1 DEF Shaken, RequestRow
<1>. HIDE DEF raced, real
<1>. QED  BY <1>1, <1>3, <1>5, <1>6, <1>7 DEF RequestRow

\* A lookup that has read the place of its rows reads rows that were granted
\* there, before the update or after it.
LEMMA ShakenReal ==
  ASSUME TypeOK, NEW r \in Request, NEW places, Commits(r, places), NEW q \in Request \ {r},
         Own(q), request[q].pc = "rows", request[q].raced = 0,
         NEW f \in request[q].todo, request[q].found[f].has,
         GrantedIn(rows', request[q].found[f].source, request[q].p) # {}
  PROVE  LET row == request[q]
         IN  /\ row.real[f] # {}
             /\ [has |-> TRUE, source |-> row.found[f].source, to |-> GrantedIn(rows', row.found[f].source, row.p)]
                  \in row.real[f] \cup {TruthIn(parent', live', rows', f, row.p)}
<1>. DEFINE row == request[q]
            A   == AncestorsIn(parent, live, f)
<1>s. PICK s : s = row.found[f].source  OBVIOUS
<1>p. PICK p : p = row.p  OBVIOUS
<1>1. /\ s = SourceIn(parent, live, rows, f, p) /\ s # None
      /\ Truth(f, p) \in row.real[f]
  <2>1. 0 <= 1  OBVIOUS
  <2>. QED  BY <1>s, <1>p, <2>1 DEF Own, Looking, Real
<1>2. s \in Granting(parent, live, rows, f, p)  BY <1>1, SourceType
<1>3. Truth(f, p) = [has |-> TRUE, source |-> s, to |-> GrantedIn(rows, s, p)]
  BY <1>1 DEF Truth, TruthIn
<1>4. CASE rows'[s] = rows[s]
  <2>1. GrantedIn(rows', s, p) = GrantedIn(rows, s, p)  BY <1>4 DEF GrantedIn
  <2>. QED  BY <1>s, <1>p, <1>1, <1>3, <2>1
<1>5. CASE rows'[s] # rows[s]
  <2>1. /\ parent' = parent /\ live' = live
        /\ \A g : g # s => rows'[g] = rows[g]
    BY <1>5 DEF Commits
  <2>2. GrantedIn(rows, s, p) # {} /\ GrantedIn(rows', s, p) # {}
    BY <1>s, <1>p, <1>2 DEF Granting
  <2>3. \A g : g # s => GrantedIn(rows', g, p) = GrantedIn(rows, g, p)  BY <2>1 DEF GrantedIn
  <2>4. Granting(parent', live', rows', f, p) = Granting(parent, live, rows, f, p)
    BY <2>1, <2>2, <2>3 DEF Granting
  <2>5. A \subseteq live  BY AncestorsClosed
  <2>6. SourceIn(parent', live', rows', f, p) = s  BY <1>1, <2>1, <2>4, <2>5, SourceSame
  <2>7. TruthIn(parent', live', rows', f, p) = [has |-> TRUE, source |-> s, to |-> GrantedIn(rows', s, p)]
    BY <1>1, <2>6 DEF TruthIn
  <2>. QED  BY <1>s, <1>p, <1>1, <2>7
<1>. QED  BY <1>4, <1>5

\* What is known of the other requests survives an update.
LEMMA CommitOwn ==
  ASSUME TypeOK, NEW r \in Request, NEW places, Commits(r, places), NEW q \in Request \ {r}, Own(q)
  PROVE  request'[q] \in RequestRow /\ Own(q)'
<1>1. live' \subseteq live /\ request[q] \in RequestRow  BY DEF Commits, TypeOK
<1>2. CASE /\ request[q].pc \notin {"source", "rows", "chain", "store", "group", "commit"}
           /\ request'[q] = request[q]
  BY <1>1, <1>2 DEF Own, Named, Looking, Real, Granted
<1>3. CASE request'[q] = Shaken(q)
  <2>0. PICK s : s = Shaken(q)  OBVIOUS
  <2>1. LET row == request[q]
        IN  /\ s \in RequestRow
            /\ s.pc = row.pc /\ s.op = row.op /\ s.p = row.p /\ s.f = row.f
            /\ s.by = row.by /\ s.todo = row.todo /\ s.left = row.left
            /\ s.found = row.found /\ s.chain = row.chain
            /\ s.raced # 0 /\ (s.raced <= 1 => row.raced = 0)
            /\ \A f \in File : row.real[f] # {} =>
                  s.real[f] = row.real[f] \cup {TruthIn(parent', live', rows', f, row.p)}
    BY <1>1, <2>0, ShakenRow
  <2>2. request'[q] = s  BY <1>3, <2>0
  <2>3. Named(q)'  BY <2>1, <2>2 DEF Own, Named
  <2>4. Looking(q)'  BY <2>1, <2>2 DEF Own, Looking
  <2>5. Real(q)'
    <3>. SUFFICES ASSUME s.pc = "rows", s.raced <= 1, NEW f \in s.todo, s.found[f].has,
                         GrantedIn(rows', s.found[f].source, s.p) # {}
                  PROVE  [has |-> TRUE, source |-> s.found[f].source,
                          to |-> GrantedIn(rows', s.found[f].source, s.p)] \in s.real[f]
      BY <2>1, <2>2 DEF Real
    <3>1. f \in File  BY <2>1, RowTypes
    <3>. QED  BY <2>1, <3>1, ShakenReal
  <2>6. Granted(q)'  BY <2>1, <2>2 DEF Own, Granted, CanAccessFile
  <2>. QED  BY <2>1, <2>2, <2>3, <2>4, <2>5, <2>6 DEF Own
<1>. QED  BY <1>2, <1>3, CommitRow

\* A lookup in the cache survives an update unchanged, or it is in the group of
\* a place that changed and is going to be dropped, or it is excused.
LEMMA CommitTracked ==
  ASSUME TypeOK, CacheTracked, \A q \in Request : Own(q), NEW r \in Request, NEW places, Commits(r, places)
  PROVE  CacheTracked' /\ excused' \subseteq Key
<1>0. /\ live \subseteq File /\ cached' = cached /\ groups' = groups
      /\ live' \subseteq live /\ live \ places \subseteq live'
      /\ \A g : g \notin places => parent'[g] = parent[g] /\ rows'[g] = rows[g]
      /\ places \subseteq Reach(r)' /\ Reach(r) \subseteq Reach(r)' /\ request[r].pc # "group"
      /\ excused' = excused \cup {<<request[q].f, request[q].p>> :
                                     q \in {q \in Request \ {r} : request[q].pc = "group"}}
  BY DEF Commits, Committed, TypeOK
<1>1. ASSUME NEW q \in Request \ {r}
      PROVE  /\ request'[q].pc = request[q].pc /\ request'[q].f = request[q].f
             /\ request'[q].p = request[q].p /\ request'[q].left = request[q].left
             /\ request'[q].todo = request[q].todo
  BY <1>0, CommitRow, ShakenRow
<1>2. \A j, a : Registering(j, a) => Registering(j, a)'
  BY <1>0, <1>1 DEF Registering
<1>3. \A q \in Request : Reach(q) \subseteq Reach(q)'
  BY <1>0, <1>1 DEF Reach, IsPending
<1>4. \A j : Doomed(j) => Doomed(j)'
  BY <1>0, <1>3 DEF Doomed, Unreached
<1>5. \A q \in Request : request[q].pc = "group" => <<request[q].f, request[q].p>> \in Key
  <2>. SUFFICES ASSUME NEW q \in Request, request[q].pc = "group"
                PROVE  <<request[q].f, request[q].p>> \in Key
    OBVIOUS
  <2>1. request[q].f \in File  BY DEF Own, Named
  <2>2. request[q].p \in Permission  BY RowTypes DEF TypeOK
  <2>. QED  BY <2>1, <2>2 DEF Key
<1>6. excused' \subseteq Key  BY <1>0, <1>5 DEF TypeOK
<1>7. ASSUME NEW k \in Key, k \notin excused', cached[k] # None, Tracked(k), ~Doomed(k)'
      PROVE  Tracked(k)'
  <2>1. k \notin excused /\ \A a : ~Registering(k, a)
    BY <1>0, <1>7 DEF Registering
  <2>2. Fresh(k) /\ \A a \in Ancestors(k[1]) : k \in groups[a]
    BY <1>7, <2>1 DEF Tracked
  <2>3. Ancestors(k[1]) \cap places = {}
    <3>. SUFFICES ASSUME NEW a \in Ancestors(k[1]), a \in places PROVE FALSE
      OBVIOUS
    <3>1. a \in Reach(r)' /\ k \in groups'[a]  BY <1>0, <2>2
    <3>2. k \in Unreached(r)'  BY <3>1 DEF Unreached
    <3>. QED  BY <1>7, <3>2 DEF Doomed
  <2>4. Ancestors(k[1]) \subseteq live'
    <3>1. Ancestors(k[1]) \subseteq live  BY AncestorsClosed DEF Ancestors
    <3>. QED  BY <1>0, <2>3, <3>1
  <2>5. \A g \in Ancestors(k[1]) : parent'[g] = parent[g] /\ rows'[g] = rows[g]
    BY <1>0, <2>3
  <2>6. Ancestors(k[1])' = Ancestors(k[1])  BY <1>0, <2>4, <2>5, AncestorsSame DEF Ancestors
  <2>7. Truth(k[1], k[2])' = Truth(k[1], k[2])  BY <1>0, <2>4, <2>5, TruthSame DEF Ancestors, Truth
  <2>. QED  BY <1>0, <2>2, <2>6, <2>7 DEF Tracked, Fresh
<1>8. CacheTracked'
  <2>. SUFFICES ASSUME NEW k \in Key, k \notin excused'
                PROVE  (cached[k] = None \/ Tracked(k) \/ Doomed(k))'
    BY DEF CacheTracked
  <2>1. cached[k] = None \/ Tracked(k) \/ Doomed(k)  BY <1>0 DEF CacheTracked
  <2>. QED  BY <1>0, <1>4, <1>7, <2>1
<1>. QED  BY <1>6, <1>8

\* The request that committed an update goes on to invalidate it, and all
\* that the invariant says is kept.
LEMMA CommitRest ==
  ASSUME TypeOK, CacheTracked, \A q \in Request : Own(q), NEW r \in Request, NEW row \in RequestRow,
         Committed(r, row), NEW places, Commits(r, places),
         row.op # "update", row.pc \in {"idle", "insert", "descend", "drop"},
         row.pc \in {"insert", "descend"} => row.f \in File,
         parent' \in [File -> File \cup {None}], live' \subseteq File, rows' \in [File -> SUBSET Row],
         UNCHANGED <<pool, writes, died, world>>
  PROVE  TypeOK' /\ CacheTracked' /\ \A q \in Request : Own(q)'
<1>1. request'[r] = row  BY DEF Committed
<1>2. Own(r)'  BY <1>1, PlainOwn
<1>3. \A q \in Request \ {r} : request'[q] \in RequestRow /\ Own(q)'  BY CommitOwn
<1>4. request' \in [Request -> RequestRow]
  <2>1. \A q \in Request : request'[q] \in RequestRow  BY <1>1, <1>3
  <2>2. DOMAIN request' = Request /\ request' = [q \in Request |-> request'[q]]  BY DEF Committed
  <2>. QED  BY <2>1, <2>2
<1>5. CacheTracked' /\ excused' \subseteq Key  BY CommitTracked
<1>6. cached' = cached /\ groups' = groups  BY DEF Commits
<1>7. TypeOK'  BY <1>4, <1>5, <1>6 DEF TypeOK
<1>. QED  BY <1>2, <1>3, <1>5, <1>7

\* The rows of one file change ...
LEMMA RowsChange ==
  ASSUME TypeOK, CacheTracked, \A q \in Request : Own(q), NEW r \in Request, NEW row \in RequestRow,
         Committed(r, row), NEW f \in File, NEW set \in SUBSET Row, rows' = [rows EXCEPT ![f] = set],
         row.op # "update",
         \/ row.pc = "insert" /\ row.f = f
         \/ row.pc = "drop" /\ row.todo = {f},
         request[r].f = f, request[r].pc \in {"commit", "insert"},
         UNCHANGED <<parent, live, pool, cached, groups, writes, died, world>>
  PROVE  TypeOK' /\ CacheTracked' /\ \A q \in Request : Own(q)'
<1>1. request'[r] = row  BY DEF Committed
<1>2. Reach(r)' = {f} /\ Reach(r) \subseteq {f}  BY <1>1 DEF Reach, IsPending
<1>3. \A g : g \notin {f} => parent'[g] = parent[g] /\ rows'[g] = rows[g]
  <2>1. rows \in [File -> SUBSET Row]  BY DEF TypeOK
  <2>. QED  BY <2>1
<1>4. \E x : {f} = {x}  OBVIOUS
<1>5. Commits(r, {f})  BY <1>1, <1>2, <1>3, <1>4 DEF Commits
<1>6. rows' \in [File -> SUBSET Row]  BY DEF TypeOK
<1>. QED  BY <1>5, <1>6, CommitRest DEF TypeOK

\* ... or some places in the tree.
LEMMA TreeChange ==
  ASSUME TypeOK, CacheTracked, \A q \in Request : Own(q), NEW r \in Request, NEW row \in RequestRow,
         Committed(r, row), NEW places \in SUBSET File, live' \subseteq live, live \ places \subseteq live',
         parent' \in [File -> File \cup {None}], \A g : g \notin places => parent'[g] = parent[g],
         row.op # "update",
         \/ row.pc = "descend" /\ places = {row.f}
         \/ row.pc = "drop" /\ row.todo = places,
         request[r].pc = "commit",
         UNCHANGED <<rows, pool, cached, groups, writes, died, world>>
  PROVE  TypeOK' /\ CacheTracked' /\ \A q \in Request : Own(q)'
<1>1. request'[r] = row  BY DEF Committed
<1>2. Reach(r)' = places /\ Reach(r) = {}  BY <1>1 DEF Reach, IsPending
<1>3. Commits(r, places)  BY <1>1, <1>2 DEF Commits
<1>. QED  BY <1>3, CommitRest DEF TypeOK

\* Every update of the database keeps the invariant.
LEMMA CommitStep ==
  ASSUME TypeOK, CacheTracked, \A q \in Request : Own(q), NEW r \in Request,
         UpdateFilePermissions(r) \/ SetFilePublicDelete(r) \/ InsertRow(r) \/ Move(r) \/ DeleteFile(r)
  PROVE  TypeOK' /\ CacheTracked' /\ \A q \in Request : Own(q)'
<1>. DEFINE row == request[r]
            f   == row.f
<1>1. /\ row \in RequestRow /\ row.todo \in SUBSET File /\ row.items \in SUBSET Row /\ row.dst \in File \cup {None}
      /\ rows \in [File -> SUBSET Row] /\ parent \in [File -> File \cup {None}] /\ live \subseteq File
  BY RowTypes DEF TypeOK
<1>2. f \in File /\ row.pc \in {"commit", "insert"}
  BY DEF UpdateFilePermissions, SetFilePublicDelete, InsertRow, Move, DeleteFile, Own, Named
<1>3. ASSUME NEW todo \in SUBSET File
      PROVE  LET next == [Idle EXCEPT !.pc = "drop", !.todo = todo]
             IN  next \in RequestRow /\ next.pc = "drop" /\ next.todo = todo /\ next.op = "info"
  BY Idles DEF RequestRow
<1>4. CASE UpdateFilePermissions(r)
  <2>. DEFINE next == [Idle EXCEPT !.pc = "drop", !.todo = {f}]
  <2>1. next \in RequestRow /\ next.pc = "drop" /\ next.todo = {f} /\ next.op = "info"  BY <1>2, <1>3
  <2>2. Committed(r, next) /\ rows' = [rows EXCEPT ![f] = row.items]  BY <1>4 DEF UpdateFilePermissions
  <2>3. UNCHANGED <<parent, live, pool, cached, groups, writes, died, world>>  BY <1>4 DEF UpdateFilePermissions
  <2>. HIDE DEF next
  <2>. QED  BY <1>1, <1>2, <2>1, <2>2, <2>3, RowsChange
<1>5. CASE SetFilePublicDelete(r)
  <2>. DEFINE next == [row EXCEPT !.pc = "insert"]
              set  == {x \in rows[f] : x[1] # "read"}
  <2>1. next \in RequestRow /\ next.pc = "insert" /\ next.f = f /\ next.op = "publish"
    BY <1>1, <1>5 DEF RequestRow, SetFilePublicDelete
  <2>2. Committed(r, next) /\ rows' = [rows EXCEPT ![f] = set]  BY <1>5 DEF SetFilePublicDelete
  <2>3. UNCHANGED <<parent, live, pool, cached, groups, writes, died, world>>  BY <1>5 DEF SetFilePublicDelete
  <2>4. set \in SUBSET Row  BY <1>1, <1>2
  <2>. HIDE DEF next, set
  <2>. QED  BY <1>1, <1>2, <2>1, <2>2, <2>3, <2>4, RowsChange
<1>6. CASE InsertRow(r)
  <2>. DEFINE next == [Idle EXCEPT !.pc = "drop", !.todo = {f}]
              set  == rows[f] \cup {<<"read", IF row.pc = "insert" THEN "public" ELSE "private">>}
  <2>1. next \in RequestRow /\ next.pc = "drop" /\ next.todo = {f} /\ next.op = "info"  BY <1>2, <1>3
  <2>2. Committed(r, next) /\ rows' = [rows EXCEPT ![f] = set]  BY <1>6 DEF InsertRow
  <2>3. UNCHANGED <<parent, live, pool, cached, groups, writes, died, world>>  BY <1>6 DEF InsertRow
  <2>4. set \in SUBSET Row  BY <1>1, <1>2 DEF Row, Permission, Subject
  <2>. HIDE DEF next, set
  <2>. QED  BY <1>1, <1>2, <2>1, <2>2, <2>3, <2>4, RowsChange
<1>7. CASE Move(r)
  <2>. DEFINE next == IF row.op = "move" THEN [row EXCEPT !.pc = "descend"]
                      ELSE [Idle EXCEPT !.pc = "drop", !.todo = {f}]
  <2>1. /\ next \in RequestRow /\ next.op # "update"
        /\ \/ next.pc = "descend" /\ {f} = {next.f}
           \/ next.pc = "drop" /\ next.todo = {f}
    <3>1. CASE row.op = "move"  BY <1>1, <3>1 DEF RequestRow
    <3>2. CASE row.op # "move"  BY <1>2, <1>3, <3>2
    <3>. QED  BY <3>1, <3>2
  <2>2. Committed(r, next) /\ parent' = [parent EXCEPT ![f] = row.dst] /\ row.pc = "commit"  BY <1>7 DEF Move
  <2>3. UNCHANGED <<live, rows, pool, cached, groups, writes, died, world>>  BY <1>7 DEF Move
  <2>4. parent' \in [File -> File \cup {None}] /\ \A g : g \notin {f} => parent'[g] = parent[g]
    BY <1>1, <1>2, <2>2
  <2>5. {f} \in SUBSET File /\ live' \subseteq live /\ live \ {f} \subseteq live'  BY <1>2, <2>3
  <2>. HIDE DEF next
  <2>. QED  BY <2>1, <2>2, <2>3, <2>4, <2>5, TreeChange
<1>8. CASE DeleteFile(r)
  <2>. DEFINE next == [Idle EXCEPT !.pc = "drop", !.todo = row.todo]
  <2>1. next \in RequestRow /\ next.pc = "drop" /\ next.todo = row.todo /\ next.op = "info"  BY <1>1, <1>3
  <2>2. Committed(r, next) /\ live' = live \ row.todo /\ row.pc = "commit"  BY <1>8 DEF DeleteFile
  <2>3. UNCHANGED <<parent, rows, pool, cached, groups, writes, died, world>>  BY <1>8 DEF DeleteFile
  <2>4. live' \subseteq live /\ live \ row.todo \subseteq live'  BY <2>2
  <2>5. parent' \in [File -> File \cup {None}] /\ \A g : g \notin row.todo => parent'[g] = parent[g]
    BY <1>1, <2>3
  <2>. HIDE DEF next
  <2>. QED  BY <1>1, <2>1, <2>2, <2>3, <2>4, <2>5, TreeChange
<1>. QED  BY <1>4, <1>5, <1>6, <1>7, <1>8

-----------------------------------------------------------------------------
(* The invariant. *)

\* What is shown of a file and of a pool is what the checks decide.
LEMMA Shown ==
  ASSUME live \subseteq File
  PROVE  HiddenIsDenied /\ ListedPoolsUsable
<1>1. HiddenIsDenied
  <2>. SUFFICES ASSUME NEW f \in live, ~permissionStatus(Truth(f, "read")), NEW v \in Viewer \ {"owner"}
                PROVE  ~CanAccessFile(v, Truth(f, "read"), "read")
    BY DEF HiddenIsDenied
  <2>1. v \in {"bob", "anonymous"}  BY DEF Viewer
  <2>2. Truth(f, "read").to \subseteq Subject /\ "anonymous" \notin Subject
    BY TruthType DEF Truth, Lookup, Subject
  <2>. QED  BY <2>1, <2>2 DEF permissionStatus, CanAccessFile
<1>2. ListedPoolsUsable
  BY DEF ListedPoolsUsable, poolVisibleTo, CanUsePool
<1>. QED  BY <1>1, <1>2

\* It holds at the start ...
LEMMA Start ==
  ASSUME Init
  PROVE  IInv
<1>2. world \in World  BY WorldsTyped DEF Init
<1>3. /\ parent \in [File -> File \cup {None}] /\ live \subseteq File /\ rows \in [File -> SUBSET Row] /\ pool \in Pool
      /\ cached \in [Key -> Lookup \cup {None}] /\ groups \in [File -> SUBSET Key]
      /\ request \in [Request -> RequestRow]
  BY <1>2, Idles DEF Init, World
<1>4. TypeOK
  <2>1. writes \in 0 .. MaxWrites  BY MaxWritesNatural DEF Init
  <2>2. excused \subseteq Key /\ died \in BOOLEAN /\ world \in Worlds  BY DEF Init
  <2>. QED  BY <1>3, <2>1, <2>2 DEF TypeOK
<1>5. CacheTracked  BY DEF Init, CacheTracked
<1>6. ASSUME NEW q \in Request
      PROVE  Own(q)
  <2>1. request[q] = Idle  BY DEF Init
  <2>. QED  BY <2>1, Idles DEF Own, Named, Looking, Real, Granted
<1>. QED  BY <1>3, <1>4, <1>5, <1>6, Shown DEF IInv, Own

\* A step that leaves the tree and the other requests alone.
LEMMA QuietStep ==
  ASSUME TypeOK, \A q \in Request : Own(q), NEW r \in Request, Quiet(r), Own(r)', CacheTracked',
         cached' \in [Key -> Lookup \cup {None}], groups' \in [File -> SUBSET Key], excused' \subseteq Key,
         pool' = pool, writes' \in 0 .. MaxWrites, died' \in BOOLEAN, world' = world
  PROVE  TypeOK' /\ CacheTracked' /\ \A q \in Request : Own(q)'
<1>1. TypeOK'  BY DEF TypeOK, Quiet
<1>2. \A q \in Request \ {r} : Own(q)'  BY OwnKept DEF Quiet
<1>. QED  BY <1>1, <1>2

\* UpdatePool changes no lookup.
LEMMA PoolStep ==
  ASSUME TypeOK, CacheTracked, \A q \in Request : Own(q), NEW r \in Request,
         NEW grants \in SUBSET {"bob"}, NEW hidden \in BOOLEAN, UpdatePool(r, grants, hidden)
  PROVE  TypeOK' /\ CacheTracked' /\ \A q \in Request : Own(q)'
<1>1. /\ UNCHANGED <<parent, live, rows, cached, groups, request, died, excused, world>>
      /\ pool' = [pool EXCEPT !.grants = grants, !.hidden = hidden]
      /\ writes < MaxWrites /\ writes' = writes + 1
  BY DEF UpdatePool, BeginWrite
<1>2. pool' \in Pool  BY <1>1 DEF TypeOK, Pool
<1>3. writes' \in 0 .. MaxWrites  BY <1>1, MaxWritesNatural DEF TypeOK
<1>4. TypeOK'  BY <1>1, <1>2, <1>3 DEF TypeOK
<1>5. CacheTracked'
  BY <1>1 DEF CacheTracked, Tracked, Fresh, Doomed, Registering, Unreached, Reach, IsPending, Ancestors, Truth
<1>6. \A q \in Request : Own(q)'  BY <1>1, OwnKept
<1>. QED  BY <1>4, <1>5, <1>6

\* ... and every step keeps it.
LEMMA StepKeeps ==
  ASSUME IInv, [Next]_vars
  PROVE  IInv'
<1>. DEFINE Kept == TypeOK' /\ CacheTracked' /\ \A q \in Request : Own(q)'
<1>1. TypeOK /\ CacheTracked /\ \A q \in Request : Own(q)  BY DEF IInv, Own
<1>2. /\ cached \in [Key -> Lookup \cup {None}] /\ groups \in [File -> SUBSET Key] /\ excused \subseteq Key
      /\ writes \in 0 .. MaxWrites /\ died \in BOOLEAN
  BY <1>1 DEF TypeOK
<1>3. ASSUME NEW r \in Request, Begin(r) PROVE Kept
  <2>1. CASE \E grants \in SUBSET {"bob"}, hidden \in BOOLEAN : UpdatePool(r, grants, hidden)
    BY <1>1, <2>1, PoolStep
  <2>2. CASE /\ Quiet(r) /\ Own(r)' /\ request[r].pc = "idle"
             /\ UNCHANGED <<pool, cached, groups, died, excused, world>> /\ writes' \in {writes, writes + 1}
             /\ writes' = writes + 1 => writes < MaxWrites
    <3>1. writes' \in 0 .. MaxWrites  BY <1>2, <2>2, MaxWritesNatural
    <3>2. CacheTracked'  BY <1>1, <2>2, TrackedQuiet DEF IsPending
    <3>. QED  BY <1>1, <1>2, <2>2, <3>1, <3>2, QuietStep
  <2>. QED  BY <1>1, <1>3, <2>1, <2>2, BeginStep
<1>4. ASSUME NEW r \in Request, LoadSource(r) \/ LoadRows(r) \/ LoadChain(r) \/ LoadChainFails(r) PROVE Kept
  <2>1. /\ UNCHANGED <<pool, cached, groups, writes, died, excused, world>>
        /\ ~IsPending(r) /\ request[r].pc # "group"
    BY <1>4 DEF LoadSource, LoadRows, LoadChain, LoadChainFails, IsPending, database
  <2>2. Quiet(r) /\ Own(r)'  BY <1>1, <1>4, SourceStep, RowsStep, ChainStep
  <2>3. CacheTracked'  BY <1>1, <2>1, <2>2, TrackedQuiet
  <2>. QED  BY <1>1, <1>2, <2>1, <2>2, <2>3, QuietStep
<1>5. ASSUME NEW r \in Request, Store(r) PROVE Kept
  <2>1. UNCHANGED <<pool, groups, writes, died, world>>  BY <1>5 DEF Store, database
  <2>. QED  BY <1>1, <1>2, <1>5, <2>1, StoreStep, QuietStep
<1>6. ASSUME NEW r \in Request, AddToGroup(r) PROVE Kept
  <2>1. UNCHANGED <<pool, cached, writes, died, excused, world>>  BY <1>6 DEF AddToGroup, database
  <2>. QED  BY <1>1, <1>2, <1>6, <2>1, AddStep, QuietStep
<1>a. ASSUME NEW r \in Request, StoreFails(r) PROVE Kept
  <2>1. UNCHANGED <<pool, cached, groups, writes, died, excused, world>>  BY <1>a DEF StoreFails, database
  <2>. QED  BY <1>1, <1>2, <1>a, <2>1, StoreFailsStep, QuietStep
<1>b. ASSUME NEW r \in Request, AddToGroupFails(r) \/ DropFails(r) PROVE Kept
  <2>1. UNCHANGED <<pool, cached, groups, writes, died, world>>
    BY <1>b DEF AddToGroupFails, DropFails, database
  <2>. QED  BY <1>1, <1>2, <1>b, <2>1, AddFailsStep, DropFailsStep, QuietStep
<1>7. ASSUME NEW r \in Request, LoadDescendants(r) PROVE Kept
  <2>1. UNCHANGED <<pool, cached, groups, writes, died, excused, world>>  BY <1>7 DEF LoadDescendants, database
  <2>. QED  BY <1>1, <1>2, <1>7, <2>1, DescendStep, QuietStep
<1>8. ASSUME NEW r \in Request, LoadDescendantsFails(r) \/ Die(r) PROVE Kept
  <2>1. UNCHANGED <<pool, cached, groups, writes, world>> /\ died' \in BOOLEAN
    BY <1>2, <1>8 DEF LoadDescendantsFails, Die, database
  <2>. QED  BY <1>1, <1>2, <1>8, <2>1, LossStep, QuietStep
<1>9. ASSUME NEW r \in Request, Drop(r) PROVE Kept
  <2>1. UNCHANGED <<pool, writes, died, world>>  BY <1>9 DEF Drop, database
  <2>. QED  BY <1>1, <1>2, <1>9, <2>1, DropStep, QuietStep
<1>10. ASSUME NEW r \in Request,
              UpdateFilePermissions(r) \/ SetFilePublicDelete(r) \/ InsertRow(r) \/ Move(r) \/ DeleteFile(r)
       PROVE  Kept
  BY <1>1, <1>10, CommitStep
<1>11. ASSUME NEW k \in Key, Expire(k) PROVE Kept
  <2>1. UNCHANGED <<pool, groups, writes, died, world>>  BY <1>11 DEF Expire, database
  <2>2. /\ cached' \in [Key -> Lookup \cup {None}] /\ excused' \subseteq Key /\ CacheTracked'
        /\ parent' = parent /\ live' = live /\ rows' = rows /\ request' = request
    BY <1>1, <1>11, ExpireStep
  <2>3. TypeOK'  BY <1>1, <2>1, <2>2 DEF TypeOK
  <2>. QED  BY <1>1, <2>2, <2>3, OwnKept
<1>12. ASSUME UNCHANGED vars PROVE Kept
  <2>1. TypeOK'  BY <1>1, <1>12 DEF TypeOK, vars
  <2>2. CacheTracked'
    BY <1>1, <1>12 DEF vars, CacheTracked, Tracked, Fresh, Doomed, Registering, Unreached, Reach, IsPending, Ancestors, Truth
  <2>3. \A q \in Request : Own(q)'
    <3>1. parent' = parent /\ live' = live /\ rows' = rows /\ request' = request  BY <1>12 DEF vars
    <3>. QED  BY <1>1, <3>1, OwnKept
  <2>. QED  BY <2>1, <2>2, <2>3
<1>13. ASSUME NEW r \in Request, Work(r) PROVE Kept
  <2>. HIDE DEF Kept
  <2>. QED  BY <1>4, <1>5, <1>6, <1>a, <1>b, <1>7, <1>8, <1>9, <1>10, <1>13 DEF Work
<1>14. Kept
  <2>. HIDE DEF Kept
  <2>. QED  BY <1>3, <1>8, <1>11, <1>12, <1>13 DEF Next
<1>15. (live \subseteq File)'  BY <1>14 DEF TypeOK
<1>16. HiddenIsDenied' /\ ListedPoolsUsable'
  <2>1. (live \subseteq File => HiddenIsDenied /\ ListedPoolsUsable)'  BY Shown, PTL
  <2>. QED  BY <1>15, <2>1
<1>. QED  BY <1>14, <1>16 DEF IInv, Own

-----------------------------------------------------------------------------
(* The properties. *)

\* In every state that can be reached what the model's variables hold is of
\* its type, what is listed is what may be read or used, and the cache and
\* the requests under way are as the invariant says.
THEOREM Invariance == Spec => []IInv
<1>1. Init => IInv  BY Start
<1>2. IInv /\ [Next]_vars => IInv'  BY StepKeeps
<1>. QED  BY <1>1, <1>2, PTL DEF Spec

\* Once an update has invalidated its groups, no lookup that it changed is
\* left in the cache.
THEOREM Freshness == Spec => []CacheIsFresh
<1>1. IInv => CacheIsFresh
  <2>. SUFFICES ASSUME IInv, ~Pending, NEW k \in Key \ excused
                PROVE  Fresh(k)
    BY DEF CacheIsFresh
  <2>1. CacheTracked  BY DEF IInv
  <2>. QED  BY <2>1, HitIsTrue DEF Fresh
<1>. QED  BY <1>1, Invariance, PTL

\* The rows that a lookup found were together in the database at some moment
\* of the lookup, and who manages a file by a grant still has it when the new
\* rows are written.
THEOREM GrantsAreKept == Spec => GrantsHold
<1>. DEFINE Found(r) ==
              (request[r].pc = "rows" /\ request'[r].pc = "chain" /\ request[r].raced <= 1) =>
                \A f \in request[r].todo :
                  request'[r].found[f].to # {} => request'[r].found[f] \in request[r].real[f]
            Managed(r) ==
              (/\ request[r].pc = "commit" /\ request[r].op = "update" /\ request[r].by # "owner"
               /\ rows' # rows /\ request'[r].pc = "drop"
               /\ request[r].raced = 0 /\ ~request[r].loose)
                => request[r].by \in Truth(request[r].f, "manage").to
                   \/ "public" \in Truth(request[r].f, "manage").to
<1>1. ASSUME IInv, NEW r \in Request
      PROVE  Managed(r)
  <2>. SUFFICES ASSUME request[r].pc = "commit", request[r].op = "update", request[r].by # "owner",
                       request[r].raced = 0, ~request[r].loose
                PROVE  request[r].by \in Truth(request[r].f, "manage").to
                       \/ "public" \in Truth(request[r].f, "manage").to
    OBVIOUS
  <2>1. /\ request[r].found[request[r].f] = Truth(request[r].f, "manage")
        /\ CanAccessFile(request[r].by, request[r].found[request[r].f], "manage")
    <3>1. Granted(r)  BY <1>1 DEF IInv
    <3>. QED  BY <3>1 DEF Granted
  <2>. QED  BY <2>1 DEF CanAccessFile
<1>2. ASSUME IInv, [Next]_vars, NEW r \in Request, request[r].pc = "rows", request'[r].pc = "chain"
      PROVE  LoadRows(r)
  <2>0. TypeOK /\ CacheTracked /\ \A q \in Request : Own(q)  BY <1>2 DEF IInv, Own
  <2>1. request'[r].pc # request[r].pc  BY <1>2
  <2>2. ASSUME NEW q \in Request, q # r, Begin(q) \/ Work(q) \/ Die(q)
        PROVE  FALSE
    <3>1. ASSUME Quiet(q) PROVE FALSE
      BY <2>1, <2>2, <3>1 DEF Quiet
    <3>2. ASSUME NEW row, Committed(q, row), live' \subseteq live PROVE FALSE
      <4>1. request'[r] = request[r] \/ request'[r] = Shaken(r)
        BY <2>2, <3>2 DEF Committed, Shaken
      <4>. QED  BY <2>0, <2>1, <3>2, <4>1, ShakenRow
    <3>3. CASE Begin(q)
      <4>1. Quiet(q) \/ request' = request
        BY <2>0, <3>3, BeginStep DEF UpdatePool
      <4>. QED  BY <2>1, <3>1, <4>1
    <3>4. CASE LoadSource(q) \/ LoadRows(q) \/ LoadChain(q) \/ LoadChainFails(q) \/ Store(q) \/ AddToGroup(q)
      BY <2>0, <3>1, <3>4, SourceStep, RowsStep, ChainStep, StoreStep, AddStep
    <3>5. CASE LoadDescendants(q) \/ LoadDescendantsFails(q) \/ Die(q) \/ Drop(q)
      BY <2>0, <3>1, <3>5, DescendStep, LossStep, DropStep
    <3>7. CASE StoreFails(q) \/ AddToGroupFails(q) \/ DropFails(q)
      BY <2>0, <3>1, <3>7, StoreFailsStep, AddFailsStep, DropFailsStep
    <3>6. CASE UpdateFilePermissions(q) \/ SetFilePublicDelete(q) \/ InsertRow(q) \/ Move(q) \/ DeleteFile(q)
      <4>1. live' \subseteq live
        BY <3>6 DEF UpdateFilePermissions, SetFilePublicDelete, InsertRow, Move, DeleteFile
      <4>2. \E row : Committed(q, row)
        BY <3>6 DEF UpdateFilePermissions, SetFilePublicDelete, InsertRow, Move, DeleteFile
      <4>. QED  BY <3>2, <4>1, <4>2
    <3>. QED  BY <2>2, <3>3, <3>4, <3>5, <3>6, <3>7 DEF Work
  <2>3. ASSUME Begin(r) PROVE FALSE
    <3>1. request[r].pc = "idle" \/ request' = request
      BY <2>0, <2>3, BeginStep DEF UpdatePool
    <3>. QED  BY <1>2, <3>1
  <2>4. ASSUME Die(r) PROVE FALSE
    <3>1. request'[r] = Idle  BY <2>0, <2>4, SetRow, Idles DEF Die
    <3>. QED  BY <1>2, <3>1, Idles
  <2>5. ASSUME Work(r) PROVE LoadRows(r)
    BY <1>2, <2>5 DEF Work, LoadSource, LoadChain, LoadChainFails, Store, StoreFails, AddToGroup,
       AddToGroupFails, UpdateFilePermissions, SetFilePublicDelete, InsertRow, Move, LoadDescendants,
       LoadDescendantsFails, DeleteFile, Drop, DropFails
  <2>6. ASSUME NEW k \in Key, Expire(k) PROVE FALSE
    BY <1>2, <2>6 DEF Expire
  <2>7. ASSUME UNCHANGED vars PROVE FALSE
    BY <1>2, <2>7 DEF vars
  <2>. QED  BY <1>2, <2>2, <2>3, <2>4, <2>5, <2>6, <2>7 DEF Next
<1>3. ASSUME IInv, [Next]_vars, NEW r \in Request
      PROVE  Found(r)
  <2>1. TypeOK /\ Own(r)  BY <1>3 DEF IInv, Own
  <2>. QED  BY <1>2, <1>3, <2>1, RowsStep
<1>4. IInv /\ [Next]_vars => [\A r \in Request : Found(r)]_vars
  BY <1>3
<1>5. IInv /\ [Next]_vars => [\A r \in Request : Managed(r)]_vars
  BY <1>1
<1>6. Spec => [][\A r \in Request : Found(r)]_vars
  <2>. HIDE DEF Found, Managed
  <2>. QED  BY <1>4, Invariance, PTL DEF Spec
<1>7. Spec => [][\A r \in Request : Managed(r)]_vars
  <2>. HIDE DEF Found, Managed
  <2>. QED  BY <1>5, Invariance, PTL DEF Spec
<1>. QED  BY <1>6, <1>7 DEF GrantsHold, GrantsWereReal, ManagersOnly
==============================================================================
