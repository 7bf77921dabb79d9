SPECIFICATION FairSpec
CONSTANTS
  None = None
  n1 = n1
  n2 = n2
  f1 = f1
  f2 = f2
  f3 = f3
  c1 = c1
  c2 = c2
  Name = {n1, n2}
  File = {f1, f2, f3}
  Object = {o1, o2, o3}
  Token = {t1, t2, t3}
  Client = {c1, c2}
  Worker = {w1}
  Batch = 2
  Worlds <- AllWorlds
INVARIANT IInv
INVARIANT OneFilePerName
PROPERTY LocksAreExclusive
PROPERTY NoLostEdit
PROPERTY EditsSettle
CHECK_DEADLOCK FALSE
