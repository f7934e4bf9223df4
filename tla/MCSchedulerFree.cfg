\* Any table, validated or not, with job errors and jobs woken by the
\* reports the scheduler itself publishes.
CONSTANTS
  Names = {n1, n2, n3}
  Topics <- MCTopics
  InputTopics <- MCInputs
  OverrunTopic = "overrun"
  TimingTopic = "timing"
  SlipTopic = "slip"
  Offers <- MCFreeOffers
  Fallible = {n2}
  Observations = {"none", "slip"}
  RequireValidation = FALSE
  FrameBudget = 3
  HyperCap = 4
  MaxJobs = 3
  MaxSeq = 2
  TickModulus = 2
SPECIFICATION Spec
INVARIANTS TypeOK OwnPublishesConsumed
PROPERTIES UnservedWakeupKept
