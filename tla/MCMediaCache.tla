---------------------------- MODULE MCMediaCache ----------------------------
(* Small instances of MediaCache for TLC. *)
EXTENDS MediaCache, TLC

CONSTANTS original, compressed, v1, v2, q1, q2, q3

Both == {original, compressed}
Of(w) == [variant |-> "original", preset |-> FALSE, width |-> w]
Open(w) == [variant |-> "default", preset |-> FALSE, width |-> w]
Preset == [variant |-> "default", preset |-> TRUE, width |-> None]

Sizes(a, b) == [v \in Version |-> IF v = v1 THEN a ELSE b]

Base == [tier |-> "none", ttl |-> FALSE, limit |-> 1, escalate |-> TRUE, stored |-> Both,
         asks |-> {Of("small"), Open("large")}, size |-> Sizes(1, 1), length |-> Sizes(1, 2),
         clients |-> {q1, q2}, mode |-> {"overlap"}]

\* Places: three requests, two places; sources that are missing, outputs that are too long.
Places == {[Base EXCEPT !.limit = 2, !.stored = st, !.escalate = esc, !.length = Sizes(1, 9),
                        !.asks = {Of("small"), Preset, Open("huge")}, !.clients = Request, !.mode = {"overlap", "faults"}] :
             st \in {Both, {compressed}, {}}, esc \in BOOLEAN}
Memory == {[Base EXCEPT !.tier = "memory", !.ttl = t, !.mode = m, !.asks = {Of("small"), Of("large")}] :
             t \in BOOLEAN, m \in {{"edits", "overlap"}, {"overlap", "crash"}}}
          \cup {[Base EXCEPT !.tier = "memory", !.length = Sizes(1, 4), !.mode = {"edits"}]}
Disk   == {[Base EXCEPT !.tier = "disk", !.ttl = t, !.clients = {q1}, !.mode = m] :
             t \in BOOLEAN, m \in {{"crash"}, {"edits"}}}
          \cup {[Base EXCEPT !.tier = "disk", !.asks = {Of("small")}, !.mode = m] :
                   m \in {{"overlap", "crash"}, {"overlap", "twice"}, {"overlap", "edits"}}}
          \cup {[Base EXCEPT !.tier = "disk", !.mode = {"overlap"}]}
Bucket == {[Base EXCEPT !.tier = "s3", !.mode = m] : m \in {{"overlap", "faults"}, {"edits", "revert"}}}
          \cup {[Base EXCEPT !.tier = "s3", !.asks = {Of("small")}, !.mode = {"edits", "overlap"}]}

AllWorlds == UNION {Places, Memory, Disk, Bucket}
=============================================================================
