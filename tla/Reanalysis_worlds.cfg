SPECIFICATION FairSpec
CONSTANTS
  None = None
  o1 = o1
  o2 = o2
  a = a
  b = b
  w1 = w1
  Object = {o1, o2}
  Tag = {a, b}
  Worker = {w1, w2}
  Admin = {u1, u2}
  Batch = 2
  Worlds <- AllWorlds
INVARIANT IInv
INVARIANT ClearedWasPublished
PROPERTY TagsKept
PROPERTY QueueDrains
CHECK_DEADLOCK FALSE
