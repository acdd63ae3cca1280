SPECIFICATION GCSpec
CONSTANTS
  MINIMUM_HEAP_CAPACITY = 5
  INIT_HEAP_SIZE = 5
  FirstBase = 10
  EXTRA_ROOM_HEAP_COEFFICIENT = 2
  MAX_EXTRA_ROOTS_NUMBER = 2
  MaxObjects = 2
  u = u
  s1 = s1
  fill = fill
  globals = globals
  sb = sb
  st = st
  gs = gs
  a1 = a1
  Unboxed <- MCUnboxed
  Loc <- MCLoc
  StackArea <- MCStackArea
  StackBottom = sb
  StackTop = st
  GlobalStop = gs
  GlobalArea <- MCGlobalArea
  Bases <- MCBases
  ProgramLoc <- MCProgramLoc
  ArgLoc <- MCArgLoc
  PermanentRoots <- MCPermanent
  Shapes <- MCShapes
  BoxedZero = u
  Nowhere <- MCNowhere
  Ids <- MCIds
INVARIANTS
  VariablesHoldValues
