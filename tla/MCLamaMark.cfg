SPECIFICATION MCMarkSpec
CONSTANTS
  MaxObjects = 3
  MaxFields = 2
  u = u
  s1 = s1
  sb = sb
  g1 = g1
  x1 = x1
  Unboxed <- MCUnboxed
  Loc <- MCLoc
  StackArea <- MCStackArea
  StackBottom = sb
  GlobalArea <- MCGlobalArea
INVARIANTS
  MarkInvariant
  QueueHoldsEachObjectOnce
  QueueFits
  MarkedExactlyLive
PROPERTIES
  MarkOnlyMarks
  MarkTerminates
CHECK_DEADLOCK FALSE
