SPECIFICATION Spec
CONSTANTS
  None = None
  Root = Root
  p = p
  q = q
  File = {f1, f2, f3}
  Object = {o1, o2}
  Op = {p, q}
  Worker = {w1}
  Selection <- OnesAndPairs
  QueueSize = 2
  Worlds <- AllWorlds
SYMMETRY Symmetry
INVARIANT OneMoverAcyclic
INVARIANT RowsKeepSource
INVARIANT SettledMarks
INVARIANT IInv
CHECK_DEADLOCK FALSE
