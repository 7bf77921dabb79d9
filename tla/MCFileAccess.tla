---------------------------- MODULE MCFileAccess ----------------------------
(* Small instances of FileAccess for TLC. *)
EXTENDS FileAccess, TLC

CONSTANTS d, e, f, q1, q2

Rows(onD, onE, onF) == [g \in File |-> IF g = d THEN onD ELSE IF g = e THEN onE ELSE onF]

Secret == {<<"read", "private">>}
Open   == {<<"read", "public">>}
Shared == {<<"read", "bob">>, <<"manage", "bob">>}

OwnPool    == [owned |-> TRUE, hidden |-> FALSE, usable |-> FALSE, grants |-> {}]
SharedPool == [OwnPool EXCEPT !.owned = FALSE]

\* f in d, e next to them; q1 looks up, q2 updates.
Tree(onD, onE, onF, aPool, ops, items, shown, changed, asked, mode) ==
  [parent |-> [g \in File |-> IF g = f THEN d ELSE None], rows |-> Rows(onD, onE, onF),
   pool |-> aPool, ops |-> ops, items |-> items, folders |-> {None, e},
   readers |-> {q1}, writers |-> {q2}, shown |-> shown, changed |-> changed,
   asked |-> asked, mode |-> mode]

\* Listings next to updates of the folder and moves.
Listing == {Tree(Secret, Open, {}, OwnPool, {"update", "move"}, {{}, Shared}, {d}, {d, f}, {"children"}, {"overlap"}),
            Tree({}, Shared, {}, SharedPool, {"grpcMove", "delete"}, {}, {f}, {f, d}, {"info"}, {"overlap", "faults"})}
\* Managers by grant, whose grant is taken away.
Managing == {[Tree(Shared, Secret, {}, OwnPool, {"update"}, {{}, Secret}, {}, {f, d}, {}, {"overlap"})
                EXCEPT !.writers = Request],
             Tree(Shared, Secret, {}, OwnPool, {"update", "move", "purgeCache"}, {{}}, {d, f}, {d}, {"meta"}, {"crash"})}
\* Publishing from other services.
Publishing == {Tree(Secret, {}, Shared, SharedPool, {"publish", "unpublish"}, {}, {f}, {d, f}, {"info"}, {"overlap", "crash"}),
               Tree(Secret, {}, {}, OwnPool, {"move"}, {}, {f, d}, {f}, {"meta"}, {"overlap", "faults"})}
Pools == {Tree({}, Secret, {}, aPool, {"pool"}, {}, {}, {}, {}, {}) :
            aPool \in [owned : BOOLEAN, hidden : {FALSE}, usable : BOOLEAN, grants : {{}}]}

Lost == {Tree({}, {}, {}, OwnPool, {"move", "update"}, {Secret}, {f}, {e, f}, {"info"}, {"overlap", "faults"})}
AllWorlds == UNION {Listing, Managing, Publishing, Pools, Lost}
=============================================================================
