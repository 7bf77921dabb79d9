SPECIFICATION FairSpec
CONSTANTS
  None = None
  original = original
  compressed = compressed
  v1 = v1
  v2 = v2
  q1 = q1
  q2 = q2
  q3 = q3
  Original = original
  Compressed = compressed
  Version = {v1, v2}
  Request = {q1, q2, q3}
  MaxAsks = 3
  MaxEdits = 2
  MaxBytes = 3
  MaxOutputBytes = 4
  Inode = {1, 2, 3, 4}
  Worlds <- AllWorlds
INVARIANT IInv
INVARIANT NoPartServed
INVARIANT DerivativesMatch
PROPERTY DiskFits
PROPERTY RequestsEnd
CHECK_DEADLOCK FALSE
