SPECIFICATION Spec
CONSTANTS
  None = None
  f0 = f0
  Task = {t1, t2}
  File = {f0}
  Part = {p1}
  Req = {r1, r2}
  Canceller = {}
  Sweeper = {}
  Worker = {w1}
  Target <- SharedTarget
  Multi = {FALSE}
  Assist = {FALSE}
  Trashable = {f0}
  Durable = FALSE
  Troubles = {{"crashes"}}
SYMMETRY Symmetry
INVARIANT CommittedBytesKept
INVARIANT CompletedHasFile
CHECK_DEADLOCK FALSE
