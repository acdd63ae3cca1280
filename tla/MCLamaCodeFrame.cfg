SPECIFICATION CodeSpec
CONSTANTS
  SReg <- MCSReg
  TReg <- MCTReg
  AReg <- MCAReg
  Val <- MCFrameVal
  Shapes <- MCFrameShapes
  Runtimes <- MCRuntimes
  MainLocals = 2
  Globals = 0
  StoredArgs = {0, 3}
  MaxOperands = 4
  MaxResult = 4
  GlobalBase = 100
  StackTop = 60
  MaxFrames = 3
INVARIANTS
  FrameInPlace
  CalleeRestores
  CallsAligned
  LeavesAsFound
  ConventionInvariant
CHECK_DEADLOCK FALSE
