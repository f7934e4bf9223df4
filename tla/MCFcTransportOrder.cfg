\* A link whose latency changes from one step to the next.
CONSTANTS
  NLinks = 2
  NoLink = NoLink
  NoObs = NoObs
  Samples <- MCSamples
  Hysteresis = 1
  PassPlan <- MCPassPlan
  MaxDelay = 2
  Horizon = 8
SPECIFICATION Spec
PROPERTY TickMonotonic
CHECK_DEADLOCK FALSE
