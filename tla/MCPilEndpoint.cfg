CONSTANTS
  Frames = 7
  Offset <- MCOffset
  Window = 2
  Capacity = 5
  ReadSize = 3
  MaxErrors = 3
SPECIFICATION FairSpec
INVARIANTS NeverRefused
PROPERTIES ImplementsExchange
CHECK_DEADLOCK FALSE
