\* Silence, overruns and conditions that come and go, under each detector.
CONSTANTS
  Sources <- MCSources
  Required = {"imu"}
  Late = {"actuator"}
  SelfReporting = {"actuator"}
  Sensors = {"imu"}
  Reports = {"overrun"}
  DeadReckoning = "dead"
  Conditions = {"saturated"}
  StaleAfter <- MCStaleAfter
  HealthPeriod = 2
  FdirPeriod = 2
  Cycle = 2
  OverrunBurst = 2
  Detectors = {"BurstCounter", "SingleSampleGlrt", "Cusum", "WindowedMeanShiftGlrt"}
  InnovationThreshold = 1
  InnovationBurst = 2
  FailsafeBurst = 2
  CusumDrift = 1
  CusumThreshold = 2
  ScoreCap = 3
  Horizon <- MCHorizon
  Estimates <- MCEstimates
  Installations <- MCInstallations
SPECIFICATION Spec
INVARIANTS TypeOK NoFalseAlarm SilenceFlagged LastingFaultLatched FaultIsolated InnovationNeverLeads
