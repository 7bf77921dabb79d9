---------------------------- MODULE MCReanalysis ----------------------------
(* Small instances of Reanalysis for TLC. *)
EXTENDS Reanalysis, TLC

CONSTANTS o1, o2, a, b, w1

\* One file or two; the server reads the tags of "server" in each.
Media(running, client, second, server, broken, mode) ==
  [running |-> running,
   client  |-> [o \in Object |-> IF o = o1 THEN client ELSE second],
   sent    |-> [o \in Object |-> IF "odd" \notin mode THEN "v2"
                                 ELSE IF o = o1 THEN "other" ELSE "invalid"],
   server  |-> [o \in Object |-> IF o = o1 \/ second # {} THEN server ELSE {}],
   broken  |-> broken, mode |-> mode \ {"odd"}]

\* Two workers; the server reads a tag the client missed, or none at all.
Queueing ==
  {Media(Worker, {a}, {}, server, {}, {"crash", "faults", "lost", "deletes"}) : server \in {{}, {b}}}
\* One worker and two files: one cannot be analysed, or has no assistance.
Breaking ==
  {Media({w1}, {a}, {b}, {b}, {o2}, {"deletes", "lost"}), Media({w1}, {a}, {b}, {b}, {}, {"crash", "faults"}),
   Media({w1}, {}, {b}, {a}, {o1}, {"faults"}), Media({w1}, {a}, {b}, {b}, {}, {"odd", "faults"})}
\* Administrators repair while the queue runs.
Repairing ==
  {Media({w1}, {a}, {}, {b}, {}, mode \cup {"repair"}) : mode \in {{}, {"overlap"}}}
    \cup {Media({w1}, {a}, {a}, {b}, {o2}, {"repair"})}

AllWorlds == UNION {Queueing, Breaking, Repairing}
=============================================================================
