SPECIFICATION FairSpec
CONSTANTS
  None = None
  f1 = f1
  f2 = f2
  k1 = k1
  k2 = k2
  pa = pa
  pb = pb
  pc = pc
  t1 = t1
  t2 = t2
  File = {f1, f2}
  Key = {k1, k2}
  Pool = {pa, pb, pc}
  Task = {t1, t2}
  Worker = {w1, w2}
  Writer = {c1}
  Worlds <- AllWorlds
INVARIANT IInv
INVARIANT RowsReadable
INVARIANT WritesSurvive
PROPERTY TasksEnd
CHECK_DEADLOCK FALSE
