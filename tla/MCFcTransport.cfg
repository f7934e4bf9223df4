CONSTANTS
  NLinks = 2
  NoLink = NoLink
  NoObs = NoObs
  Samples <- MCSamples
  Hysteresis = 1
  PassPlan <- MCPassPlan
  MaxDelay = 2
  Horizon = 8
SPECIFICATION FairSpec
INVARIANTS EachFrameOnce WaitBounded NoBatchLost BestLinkCarries
PROPERTIES RunEnds
CHECK_DEADLOCK FALSE
