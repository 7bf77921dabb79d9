--------------------------- MODULE MCContentEdit ---------------------------
(* Small instances of ContentEdit for TLC. *)
EXTENDS ContentEdit, TLC

CONSTANTS n1, n2, f1, f2, f3, c1, c2

\* Deployments: what each client sends, the files there are, what may happen.
Deployment(one, two, named, paths, mode) ==
  [kinds |-> [c \in Client |-> IF c = c1 THEN one ELSE two],
   named |-> named, paths |-> paths, mode |-> mode]

None3    == [f \in File |-> None]
One      == [None3 EXCEPT ![f1] = n1]
Two      == [One EXCEPT ![f2] = n2]

Steady == {"serial", "steady"}

\* WebDAV clients: names.
Naming ==
  {Deployment({"put", "delete"}, {"put", "lock"}, s, {n1}, Steady \cup {"calm"}) : s \in {None3, One}}
    \cup {Deployment({"put"}, {"mkcol", "move"}, s, {n1, n2}, {"calm", "oneShot"}) : s \in {One, Two}}
\* Editors that lock what they edit.
Editing ==
  {Deployment({"wopiLock", "relock", "save", "unlock"}, {"lock", "patch", "restPut", "unlock"},
              One, {n1}, Steady \cup {"strict", "calm"}),
   Deployment({"wopiLock", "patch", "unlock"}, {"put"}, One, {n1}, Steady \cup {"strict", "calm"})}
\* Locks that overlap or time out, tokens in an If header, processes that die.
Failing ==
  {Deployment({"lock", "putIf", "refresh"}, {"wopiLock", "relock", "unlock"}, s, {n1},
              {"expire"} \cup m) : s \in {None3, One}, m \in {{}, {"serial"}}}
    \cup {Deployment({"put"}, {"wopiLock", "patch"}, One, {n1}, Steady \cup {"strict", "crash"})}
\* Uploads that replace bytes, next to readers.
Replacing ==
  {Deployment({"fast", "get"}, {"restPut"}, Two, {n1}, m) : m \in {{}, {"shared"}}}
\* A rehash queue that takes more than one pass, or holds what nobody needs.
Settling ==
  {Deployment({"restPut", "put"}, {"save", "delete"}, Two, {n1, n2}, {"calm", "oneShot"} \cup m) :
     m \in {{}, {"backlog"}}}

AllWorlds == UNION {Naming, Editing, Failing, Replacing, Settling}

\* A WebDAV lock and a Collabora session on one path.
Unifying  == {Deployment({"lock"}, {"wopiLock"}, None3, {n1}, Steady \cup {"strict", "calm"})}
\* Two LOCK requests at the same time.
Colliding == {Deployment({"lock"}, {"lock"}, One, {n1}, {"calm"})}
=============================================================================
