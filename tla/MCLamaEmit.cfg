SPECIFICATION MCEmitSpec
CONSTANTS
  Offset <- MCOffset
  MainLocals = 0
  FLocals = 1
INVARIANTS
  EmitInvariant
  HeightsAgree
  LabelsResolved
  EmittedExactlyReachable
PROPERTIES
  EmitTerminates
CHECK_DEADLOCK FALSE
