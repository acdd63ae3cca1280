SPECIFICATION MCEmitSpec
CONSTANTS
  Offset <- MCOffset
  MainLocals = 1
  FLocals = 0
INVARIANTS
  LocalIndexInBounds
CHECK_DEADLOCK FALSE
