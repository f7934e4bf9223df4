\* Two stages whose engines do not fit one command set.
CONSTANTS
  e1 = e1
  e2 = e2
  e3 = e3
  Engines = {e1, e2, e3}
  Effectors <- MCEffectors
  Gimbals <- MCGimbals
  Surfaces <- MCEffectors
  Phases = {"boost", "coast"}
  NoPhase = NoPhase
  Tables <- StageTables
  MaxEngines = 2
  PseudoControl = TRUE
  AllocatorFails = FALSE
SPECIFICATION Spec
PROPERTIES NothingDropped
