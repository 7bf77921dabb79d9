SPECIFICATION FairSpec
CONSTANTS
  None = None
  d = d
  e = e
  f = f
  q1 = q1
  q2 = q2
  File = {d, e, f}
  Request = {q1, q2}
  MaxWrites = 2
  Worlds <- AllWorlds
INVARIANT IInv
INVARIANT CacheIsFresh
PROPERTY GrantsHold
PROPERTY StaleEnds
CHECK_DEADLOCK FALSE
