SPECIFICATION Spec
CONSTANTS
  None = None
  t1 = t1
  t2 = t2
  t3 = t3
  Task = {t1, t2, t3}
  Chunks = 3
  Req = {r1, r2}
  MaxFiles = 3
  Worlds <- Unanswered
INVARIANT DriveHasOwnersQuota
CHECK_DEADLOCK FALSE
