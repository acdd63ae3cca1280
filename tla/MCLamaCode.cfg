SPECIFICATION CodeSpec
CONSTANTS
  SReg <- MCSReg
  TReg <- MCTReg
  AReg <- MCAReg
  Val <- MCVal
  Shapes <- MCShapes
  Runtimes <- MCRuntimes
  MainLocals = 0
  Globals = 1
  StoredArgs = {}
  MaxOperands = 2
  MaxResult = 2
  GlobalBase = 100
  StackTop = 60
  MaxFrames = 2
INVARIANTS
  OperandsInPlace
  ArgumentsInPlace
  LocalsInPlace
  GlobalsInPlace
  ValuesInvariant
CHECK_DEADLOCK FALSE
