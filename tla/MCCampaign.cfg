CONSTANTS
  NSamples = 6
  Campaigns = {"nominal", "dispersed"}
  Values <- MCValues
  Outcome <- MCOutcome
  Reread <- MCReread
  MaxChunk = 4
  MaxFaults = 4
  None = None
SPECIFICATION FairSpec
INVARIANTS ReportHasAll
PROPERTIES ProgressKept ReportComes
