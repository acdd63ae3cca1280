SPECIFICATION ReaderSpec
CONSTANTS
  Instructions <- InstructionsValue
  MaxBody = 2
  PublicLists <- PublicListsValue
  GlobalSizes = {0, 4}
  StringSize = 2
  Cuts = {0, 1, 3}
  IntBits = 5
CHECK_DEADLOCK FALSE
INVARIANT ReadersAgree
