SPECIFICATION MCCollectSpec
CONSTANTS
  MaxObjects = 3
  MaxFields = 2
  MINIMUM_HEAP_CAPACITY = 16
  EXTRA_ROOM_HEAP_COEFFICIENT = 2
  u = u
  s1 = s1
  s2 = s2
  sb = sb
  st = st
  gs = gs
  g1 = g1
  x1 = x1
  Unboxed <- MCUnboxed
  Loc <- MCLoc
  StackArea <- MCStackArea
  StackBottom = sb
  StackTop = st
  GlobalStop = gs
  GlobalArea <- MCGlobalArea
  Bases <- MCBases
INVARIANTS
  CompactInvariant
  IteratorMeetsHeaders
  ObjectsSlideDown
  CompactedInOrder
PROPERTIES
  CollectionInvisible
  CollectionTerminates
CHECK_DEADLOCK FALSE
