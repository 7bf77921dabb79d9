SPECIFICATION FairSpec
CONSTANTS
  None = None
  f0 = f0
  Task = {t1}
  File = {f1}
  Part = {p1}
  Req = {r1}
  Canceller = {c1}
  Sweeper = {s1}
  Worker = {w1}
  Target <- NoTarget
  Multi = {TRUE, FALSE}
  Assist = {TRUE, FALSE}
  Trashable = {f1}
  Durable = TRUE
  Troubles = {{}, {"faults", "crashes"}}
INVARIANT CompletedTogether
PROPERTY ProcessingEnds
PROPERTY AbandonedUploadsEnd
CHECK_DEADLOCK FALSE
