--------------------------- MODULE MCFaultMonitor ---------------------------
(***************************************************************************)
(* A required sensor, a source that is only stale once it has spoken, the  *)
(* overrun report and a condition, in pairs, under each detector.          *)
(***************************************************************************)
EXTENDS FaultMonitor

MCSources    == {"imu", "actuator"}
MCStaleAfter == [s \in MCSources |-> IF s = "imu" THEN 0 ELSE 1]
MCHorizon    == [s \in MCSources |-> IF s = "imu" THEN 7 ELSE 3]
MCInstallations == {{"imu", "actuator"}, {"imu", "overrun"},
                    {"actuator", "saturated"}}

Estimate(chi2, dead, updated) ==
  [chi2 |-> [s \in Sensors |-> chi2], dead_reckoning |-> dead, updated |-> updated]
MCEstimates ==
  {Estimate(0, FALSE, {}), Estimate(1, TRUE, {"imu"}), Estimate(2, FALSE, {"imu"})}
=============================================================================
