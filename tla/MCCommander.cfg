\* Action lists that move the phase and set the regions.
CONSTANTS
  NoState = NoState
  States <- MCStates
  Parent <- MCParent
  Phases <- MCPhases
  Edges <- MCEdges
  Depth <- MCDepth
  StartPhase = "pad"
  Events <- MCEvents
  Bindings <- MCBindings
  TimeEvents = {"liftoff"}
  OnEntry <- MCOnEntry
  OnExit <- MCOnExit
  OnActive <- MCOnActive
  Authority = {"boost"}
  FailsafeBlocks = TRUE
  DegradedTicks = 1
  SafeTicks = 2
  BurstCap = 2
  Snapshots <- MCSnapshots
SPECIFICATION FairSpec
INVARIANTS TypeOK NeverBackward FdirObeyed
PROPERTIES SafeRequestLatched FdirServed
