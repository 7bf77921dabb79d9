-------------------------- MODULE MCPoolMigration --------------------------
(* Small instances of PoolMigration for TLC. *)
EXTENDS PoolMigration, TLC

CONSTANTS f1, f2, k1, k2, pa, pb, pc, t1, t2

Deployment(keys, own, dst, ids, twin, mode) ==
  [pool |-> [f \in File |-> pa],
   own  |-> [f \in File |-> own],
   key  |-> keys,
   src  |-> [t \in Task |-> pa],
   dst  |-> [t \in Task |-> IF t = t1 THEN pb ELSE dst],
   ids  |-> [t \in Task |-> IF t = t1 THEN {} ELSE ids],
   twin |-> twin, mode |-> mode]

Shared   == [f \in File |-> k1]
Distinct == [f \in File |-> IF f = f1 THEN k1 ELSE k2]

\* Two tasks on the same files, workers that die.
Moving ==
  {Deployment(Shared, TRUE, pb, {f2}, {}, {"crash", "faults"})}
\* Workers that stall while their task is given to another.
Stalling ==
  {Deployment(Shared, TRUE, pc, {f1}, {}, {"slow", "deletes"})}
\* Writers between migrations.
Writing ==
  {Deployment(Distinct, FALSE, pb, {f1}, twin, {"calm", "writes"}) : twin \in {{}, {pa, pb}}}

AllWorlds == UNION {Moving, Stalling, Writing}
=============================================================================
