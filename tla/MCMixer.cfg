\* Stage changes, engine failures and allocator errors.
CONSTANTS
  e1 = e1
  e2 = e2
  e3 = e3
  Engines = {e1, e2}
  Effectors <- MCEffectors
  Gimbals <- MCGimbals
  Surfaces <- MCEffectors
  Phases = {"boost", "coast"}
  NoPhase = NoPhase
  Tables <- MCTables
  MaxEngines = 2
  PseudoControl = FALSE
  AllocatorFails = TRUE
SPECIFICATION FairSpec
INVARIANTS TypeOK OrderedStillNamed
PROPERTIES ShutdownHasReason OnlyAllowedMove SafeServed WithdrawalServed
\* An allocator error ends the run.
CHECK_DEADLOCK FALSE
