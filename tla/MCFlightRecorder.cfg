CONSTANTS
  Capacities = {0, 1, 2, 3}
  MaxPushes = 7
  MaxFailures = 2
  Empty = Empty
SPECIFICATION RecorderSpec
INVARIANTS GapsAreLosses
PROPERTIES ImplementsQueue
CHECK_DEADLOCK FALSE
