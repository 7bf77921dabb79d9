-------------------------- MODULE MCChunkedUpload --------------------------
(* Small instances of ChunkedUpload for TLC. *)
EXTENDS ChunkedUpload, TLC

CONSTANTS t1, t2, t3

Deployment(kinds, by, spaces, rate, valve, plan, mode) ==
  [kind  |-> kinds, by |-> by, space |-> spaces,
   size  |-> [t \in Task |-> IF t = t3 THEN 2 ELSE 1],
   rate  |-> [t \in Task |-> rate],
   level |-> [a \in Account |-> IF a = Owner THEN 10 ELSE 30],
   perk  |-> [a \in Account |-> 0], valve |-> [a \in Account |-> valve],
   plan  |-> plan, mode |-> mode]

Three(a, b, c) == [t \in Task |-> IF t = t1 THEN a ELSE IF t = t2 THEN b ELSE c]

\* One upload that nothing limits: no room for the other two.
Single(kind, mode) ==
  Deployment(Three(kind, "form", "stream"), Three(Owner, "other", "other"),
             Three("personal", "org", "org"), 1, 1, 0, mode)

HttpClients == {Single("http", mode) : mode \in
  {{"resend", "cancel"}, {"again"}, {"cancel"}, {"early"}, {"oversize"}, {"idle"}}}
GrpcClients == {Single("grpc", mode) : mode \in
  {{"early", "oversize", "resend"}, {"again", "cancel"}, {"cancel", "crash"}}}
Failing     == {Single(k, mode) : k \in {"http", "grpc"},
                                  mode \in {{"faults"}, {"crash"}, {"faults", "crash"}}}
               \cup {Single("http", {"again", m}) : m \in {"faults", "crash"}}
Racing      == {Single(k, {"overlap", "faults"}) : k \in {"http", "grpc"}}

\* Three uploads that do not all fit.
Sharing ==
  {Deployment(Three("http", "form", "stream"), Three(Owner, b, Owner),
              Three("personal", "drive", "drive"), rate, valve, 0, {"serial"}) :
     b \in {Owner, "other"}, rate \in {1, 2}, valve \in {0, 3}}
\* ... and Valve does not answer.
Unanswered == {w \in Sharing : w.valve[Owner] = 0 /\ w.by[t2] = "other"}

Organized ==
  {Deployment(Three("grpc", "form", k), Three(Owner, "other", Owner),
              Three("org", "org", s), 1, 2, 2, {}) :
     s \in {"org", "personal"}, k \in {"form", "stream"}}

AllWorlds == UNION {Sharing, Organized, HttpClients, GrpcClients, Failing, Racing}
=============================================================================
