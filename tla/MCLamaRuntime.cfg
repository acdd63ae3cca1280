SPECIFICATION RuntimeSpec
CONSTANTS
  IntBits = 3
  ImmBits = 6
  CharBits = 2
  MAX_SEXP_TAGLEN = 3
  HASH_DEPTH = 1
  ConsTag = 6
  NoCall = NoCall
  Var = {x, y}
  Outside <- OutsideValue
  Started <- StartedValue
  Argv <- ArgvValue
  External <- ExternalValue
  Absent = 0
  Functions <- FunctionsValue
  Ints <- IntsValue
  Tags <- TagsValue
  MAX_EXTRA_ROOTS_NUMBER = 3
  Ids = {1, 2, 3, 4, 5, 6, 7, 8}
  MaxSize = 3
  MaxSizeAfter = 1
  MadeIds = {1, 2, 3, 4}
  MaxLen = 2
  MaxArgs = 2
SYMMETRY VarSymmetry
CHECK_DEADLOCK FALSE
INVARIANT RootsDisciplined
INVARIANT RootsInvariant
INVARIANT CompareOrders
INVARIANT EqualValuesHashAlike
INVARIANT TagsFaithful
PROPERTY ImplementsRuntimeCalls
