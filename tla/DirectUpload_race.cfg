SPECIFICATION Spec
CONSTANTS
  None = None
  f0 = f0
  Task = {t1}
  File = {f1, f2}
  Part = {p1}
  Req = {r1, r2}
  Canceller = {}
  Sweeper = {s1}
  Worker = {w1}
  Target <- NoTarget
  Multi = {TRUE, FALSE}
  Assist = {TRUE, FALSE}
  Trashable = {}
  Durable = TRUE
  Troubles = {{"faults", "crashes"}}
SYMMETRY Symmetry
INVARIANT OneFilePerTask
INVARIANT SweepSparesCommitted
INVARIANT IInv
PROPERTY ExpiredStaysFailed
CHECK_DEADLOCK FALSE
