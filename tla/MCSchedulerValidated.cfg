\* An infeasible table stops the FC builder, hence no deadlock check.
\* Only tables that frame packing accepts, and no job errors: nothing starves.
CONSTANTS
  Names = {n1, n2, n3}
  Topics <- MCTopics
  InputTopics <- MCInputs
  OverrunTopic = "overrun"
  TimingTopic = "timing"
  SlipTopic = "slip"
  Offers <- MCOffers
  Fallible = {}
  Observations = {"none"}
  RequireValidation = TRUE
  FrameBudget = 4
  HyperCap = 4
  MaxJobs = 3
  MaxSeq = 2
  TickModulus = 2
SPECIFICATION FairSpec
INVARIANTS FeasibleNeverOverruns
PROPERTIES WakeupServed PeriodicNeverStarves ImplementsCyclic
CHECK_DEADLOCK FALSE
