\* A rejected tree builds no machine, hence no deadlock check.
CONSTANTS
  States = {s1, s2, s3, s4}
  NoState = NoState
SPECIFICATION Spec
INVARIANTS AcceptsExactlyForests ConfigurationIsPath ParentsOutlastChildren
PROPERTIES OnlyDifferenceTouched
CHECK_DEADLOCK FALSE
