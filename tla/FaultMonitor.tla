---------------------------- MODULE FaultMonitor ----------------------------
(***************************************************************************)
(* The health monitor and the FDIR job (openbmp-fc, health.rs, fdir.rs).   *)
(* Sources (sensors, actuators, watchdog, storage) publish or keep silent, *)
(* the estimator publishes how well the sensors fit its prediction, the    *)
(* scheduler reports overruns and slips.  Health turns that into failsafe  *)
(* flags, FDIR turns flags and statistics into a mask of tripped faults.   *)
(*                                                                         *)
(* One tick is the host's and the earlier jobs' publishes, health if it is *)
(* due, FDIR if it is due.  Both are periodic jobs, usually of a lower     *)
(* rate than what they watch.  A fault bit is named by its source, its     *)
(* report or its condition.                                                *)
(***************************************************************************)
EXTENDS Integers

CONSTANTS
  Sources,
  Required,       \* sources stale from the start: imu, gnss, and baro and mag
                  \* unless the installation declares none
  Late,           \* sources stale only after a first publish: actuator,
                  \* watchdog, storage
  SelfReporting,  \* sources whose samples may say unhealthy
  Sensors,        \* sources with an innovation statistic, of the estimator's
  Reports,        \* OverrunEvent and DeadlineSlipEvent
  DeadReckoning,  \* the estimator's flag, which health hands on as its own
  Conditions,     \* bits FDIR reads from the latest value of other topics
  StaleAfter,     \* HealthParams::*_stale_after_s, in ticks
  HealthPeriod, FdirPeriod,
  Cycle,          \* the tick counter is kept modulo this
  OverrunBurst,   \* HealthParams::overrun_burst_count
  Detectors,      \* the detector families to choose from
  InnovationThreshold, InnovationBurst, FailsafeBurst, CusumDrift, CusumThreshold,
  ScoreCap,       \* where the CUSUM score is cut off
  Horizon,        \* how far the history of a source's silence counts
  Estimates,      \* what the estimator may publish
  Installations   \* the sources, reports and conditions a vehicle may have

Bits == Sources \cup Reports \cup {DeadReckoning} \cup Conditions
DetectorKinds == {"BurstCounter", "SingleSampleGlrt", "Cusum", "WindowedMeanShiftGlrt"}

\* chi2 is the innovation statistic of the tick; updated are the sensors with
\* a whitened innovation in it.
EstimatorStatus ==
  [chi2 : [Sensors -> Nat], dead_reckoning : BOOLEAN, updated : SUBSET Sensors]

ASSUME FaultMonitorAssumption ==
  /\ Required \subseteq Sources /\ Late \subseteq Sources /\ Required \cap Late = {}
  /\ Sources \cap Reports = {} /\ DeadReckoning \notin Sources \cup Reports
  /\ Sensors \subseteq Sources /\ SelfReporting \subseteq Sources
  /\ StaleAfter \in [Sources -> Nat]
  /\ {HealthPeriod, FdirPeriod, Cycle, OverrunBurst, InnovationBurst, FailsafeBurst}
       \subseteq Nat \ {0}
  /\ Cycle % HealthPeriod = 0 /\ Cycle % FdirPeriod = 0
  /\ Detectors \subseteq DetectorKinds
  /\ {InnovationThreshold, CusumThreshold} \subseteq Nat /\ CusumDrift \in Int
  /\ ScoreCap \in Nat /\ ScoreCap > CusumThreshold
  /\ Horizon \in [Sources -> Nat] /\ \A s \in Sources : StaleAfter[s] < Horizon[s]
  /\ Estimates \subseteq EstimatorStatus
  /\ Installations \subseteq SUBSET (Sources \cup Reports \cup Conditions)

VARIABLES
  fitted,     \* the sources, reports and conditions that can show
  detector,   \* FdirParams::detector_kind
  tick,
  pc,         \* which part of the tick is next
  value,      \* latest sample of each source: none, healthy or unhealthy
  unseen,     \* sources that published since health last looked
  known,      \* TopicStaleness::last_seq is not 0
  age,        \* now less TopicStaleness::last_advance_time_s
  reported,   \* reports published since health last looked
  overruns,   \* consecutive_overruns, consecutive_deadline_slips
  estimate,   \* EstimatorStatus on the bus
  conditions, \* Conditions that hold on the bus
  flags,      \* FailsafeFlags on the bus
  innovation_burst, failsafe_burst, score,
  tripped     \* triggered_mask

\* History, read by properties only.
VARIABLES
  silence,    \* ticks since each source really published, from the start
  streak,     \* FDIR runs in a row that read each bit, innovations apart
  faulted     \* bits whose fault was really there at some time

inputs  == <<value, unseen, reported, estimate, conditions>>
tracker == <<known, age, overruns, flags>>
fdir    == <<innovation_burst, failsafe_burst, score, tripped>>
vars    == <<fitted, detector, tick, pc, inputs, tracker, fdir, silence, streak, faulted>>

-----------------------------------------------------------------------------
CountedTo(n, cap) == IF n < cap THEN n + 1 ELSE n

HealthDue == tick % HealthPeriod = 0
FdirDue   == tick % FdirPeriod = 0

Breached(est) == {s \in Sensors : est.chi2[s] > InnovationThreshold}

Dead(est) == IF est.dead_reckoning THEN {DeadReckoning} ELSE {}

Init ==
  /\ fitted \in Installations /\ detector \in Detectors
  /\ tick = 0 /\ pc = "inputs"
  /\ value = [s \in Sources |-> "none"] /\ unseen = {} /\ known = {}
  /\ age = [s \in Sources |-> 0]
  /\ reported = {} /\ overruns = [r \in Reports |-> 0]
  /\ estimate = [chi2 |-> [s \in Sensors |-> 0], dead_reckoning |-> FALSE, updated |-> {}]
  /\ conditions = {} /\ flags = {}
  /\ innovation_burst = 0 /\ failsafe_burst = 0 /\ score = 0 /\ tripped = {}
  /\ silence = [s \in Sources |-> 0]
  /\ streak = [b \in Bits |-> 0] /\ faulted = {}

\* Everything published in this tick before the health job: some sources, well
\* or ill, the scheduler's reports, the estimator's status.
Publishes(healthy, unhealthy, reports, est, conds) ==
  /\ pc = "inputs" /\ pc' = "health"
  /\ LET published == healthy \cup unhealthy
     IN  /\ value' = [s \in Sources |-> IF s \in healthy THEN "healthy"
                                        ELSE IF s \in unhealthy THEN "unhealthy" ELSE value[s]]
         /\ unseen' = unseen \cup published
         /\ silence' = [s \in Sources |-> IF s \in published THEN 0 ELSE silence[s]]
  /\ reported' = reported \cup reports
  /\ estimate' = est /\ conditions' = conds
  /\ faulted' = faulted \cup reports \cup Dead(est) \cup conds \cup unhealthy \cup Breached(est)
                \cup {s \in Sources : silence'[s] > StaleAfter[s]}
  /\ UNCHANGED <<fitted, detector, tick, tracker, fdir, streak>>

-----------------------------------------------------------------------------
(***************************************************************************)
(* The health monitor.                                                     *)
(***************************************************************************)

\* Faulty variant: the age is measured from the first publish.
ObserveFirst == [s \in Sources |-> IF s \in unseen \ known THEN 0 ELSE age[s]]

\* TopicStaleness::observe: the age runs from when health first saw the
\* latest sample, not from the sample itself.
Observe == [s \in Sources |-> IF s \in unseen THEN 0 ELSE age[s]]

\* Faulty variant: every source is given time until its first publish.
StaleOnceKnown(s, ages, seen) == ages[s] > StaleAfter[s] /\ s \in (Required \cup Late) \cap seen

\* is_stale, is_stale_after_first_publish, and the sources that need not be.
Stale(s, ages, seen) ==
  /\ ages[s] > StaleAfter[s]
  /\ s \in Required \/ (s \in Late /\ s \in seen)

\* Faulty variant: the count does not saturate.
CountReportsForever == [r \in Reports |-> IF r \in reported THEN overruns[r] + 1 ELSE 0]

\* Health runs in a row that found a report; a run without one starts over.
CountReports ==
  [r \in Reports |-> IF r \in reported THEN CountedTo(overruns[r], OverrunBurst) ELSE 0]

HealthRuns ==
  /\ pc = "health" /\ HealthDue
  /\ pc' = "fdir"
  /\ age' = Observe
  /\ known' = known \cup unseen
  /\ unseen' = {}
  /\ overruns' = CountReports
  /\ reported' = {}
  /\ flags' = {s \in Sources : Stale(s, age', known') \/ value[s] = "unhealthy"}
              \cup Dead(estimate)
              \cup {r \in Reports : overruns'[r] >= OverrunBurst}
  /\ UNCHANGED <<fitted, detector, tick, value, estimate, conditions, fdir, silence, streak, faulted>>

HealthWaits ==
  /\ pc = "health" /\ ~HealthDue
  /\ pc' = "fdir"
  /\ UNCHANGED <<fitted, detector, tick, inputs, tracker, fdir, silence, streak, faulted>>

-----------------------------------------------------------------------------
(***************************************************************************)
(* FDIR.                                                                   *)
(***************************************************************************)

\* non_innovation_mask and current_mask.
Plain   == flags \cup Dead(estimate) \cup conditions
Current == Plain \cup Breached(estimate)

\* max_chi2 and max_chi2_mask; which of equal sensors is named is left open.
Worst == {s \in Sensors : /\ estimate.chi2[s] > 0
                          /\ \A o \in Sensors : estimate.chi2[o] <= estimate.chi2[s]}
MaxChi2 == IF Worst = {} THEN 0 ELSE estimate.chi2[CHOOSE s \in Worst : TRUE]

\* Faulty variants: the innovation count survives a clean run, and only the
\* first trip latches.
BurstCounterKeeping ==
  /\ innovation_burst' = IF MaxChi2 > InnovationThreshold
                         THEN CountedTo(innovation_burst, InnovationBurst) ELSE innovation_burst
  /\ failsafe_burst' = IF Current # {} THEN CountedTo(failsafe_burst, FailsafeBurst) ELSE 0
  /\ tripped' = IF innovation_burst' >= InnovationBurst \/ failsafe_burst' >= FailsafeBurst
                THEN tripped \cup Current ELSE tripped
  /\ UNCHANGED score

BurstCounterOnce ==
  /\ innovation_burst' = IF MaxChi2 > InnovationThreshold
                         THEN CountedTo(innovation_burst, InnovationBurst) ELSE 0
  /\ failsafe_burst' = IF Current # {} THEN CountedTo(failsafe_burst, FailsafeBurst) ELSE 0
  /\ tripped' = IF tripped = {} /\ (innovation_burst' >= InnovationBurst \/ failsafe_burst' >= FailsafeBurst)
                THEN tripped \cup Current ELSE tripped
  /\ UNCHANGED score

\* One counter for all faults: a run reads as faulty whichever bit it has, and
\* a trip latches the bits of that run.
BurstCounter ==
  /\ innovation_burst' = IF MaxChi2 > InnovationThreshold
                         THEN CountedTo(innovation_burst, InnovationBurst) ELSE 0
  /\ failsafe_burst' = IF Current # {} THEN CountedTo(failsafe_burst, FailsafeBurst) ELSE 0
  /\ tripped' = IF innovation_burst' >= InnovationBurst \/ failsafe_burst' >= FailsafeBurst
                THEN tripped \cup Current ELSE tripped
  /\ UNCHANGED score

\* Faulty variant: the largest statistic is named below the threshold too.
SingleSampleGlrtUnguarded ==
  /\ tripped' = tripped \cup Current \cup Worst
  /\ UNCHANGED <<innovation_burst, failsafe_burst, score>>

SingleSampleGlrt ==
  /\ tripped' = tripped \cup Current
  /\ UNCHANGED <<innovation_burst, failsafe_burst, score>>

\* The sensor with the largest statistic is named with a trip, whether or not
\* its own statistic is what filled the score.
Cusum(worst) ==
  /\ LET sum == score + MaxChi2 - CusumDrift
     IN  score' = IF sum < 0 THEN 0 ELSE IF sum > ScoreCap THEN ScoreCap ELSE sum
  /\ tripped' = IF Current # {} \/ score' > CusumThreshold
                THEN tripped \cup Current \cup worst ELSE tripped
  /\ UNCHANGED <<innovation_burst, failsafe_burst>>

\* The windowed detectors step on the innovations of this tick and may trip.
WindowedMeanShiftGlrt(jumps) ==
  /\ tripped' = tripped \cup Plain \cup jumps
  /\ UNCHANGED <<innovation_burst, failsafe_burst, score>>

EndTick ==
  /\ pc' = "inputs"
  /\ tick' = (tick + 1) % Cycle
  /\ age' = [s \in Sources |-> CountedTo(age[s], StaleAfter[s] + 1)]
  /\ silence' = [s \in Sources |-> CountedTo(silence[s], Horizon[s])]

FdirRuns(worst, jumps) ==
  /\ pc = "fdir" /\ FdirDue
  /\ \/ detector = "BurstCounter" /\ BurstCounter
     \/ detector = "SingleSampleGlrt" /\ SingleSampleGlrt
     \/ detector = "Cusum" /\ Cusum(worst)
     \/ detector = "WindowedMeanShiftGlrt" /\ WindowedMeanShiftGlrt(jumps)
  /\ streak' = [b \in Bits |-> IF b \in Plain THEN CountedTo(streak[b], FailsafeBurst) ELSE 0]
  /\ faulted' = IF detector = "WindowedMeanShiftGlrt" THEN faulted \cup jumps ELSE faulted
  /\ EndTick
  /\ UNCHANGED <<fitted, detector, inputs, known, overruns, flags>>

FdirWaits ==
  /\ pc = "fdir" /\ ~FdirDue
  /\ EndTick
  /\ UNCHANGED <<fitted, detector, inputs, known, overruns, flags, fdir, streak, faulted>>

-----------------------------------------------------------------------------
Inputs ==
  \E healthy \in SUBSET Sources, unhealthy \in SUBSET SelfReporting, reports \in SUBSET Reports,
     est \in Estimates, conds \in SUBSET Conditions :
    /\ healthy \cap unhealthy = {} /\ healthy \cup unhealthy \cup reports \cup conds \subseteq fitted
    /\ Publishes(healthy, unhealthy, reports, est, conds)

Fdir ==
  \E worst \in {{s} : s \in Worst} \cup {{}}, jumps \in SUBSET estimate.updated :
    (worst = {} <=> Worst = {}) /\ FdirRuns(worst, jumps)

Next == Inputs \/ HealthRuns \/ HealthWaits \/ Fdir \/ FdirWaits

Spec == Init /\ [][Next]_vars

-----------------------------------------------------------------------------
(***************************************************************************)
(* Properties.                                                             *)
(***************************************************************************)

\* Every variable keeps its shape and every counter its bound.
TypeOK ==
  /\ fitted \in Installations /\ detector \in Detectors /\ tick \in 0 .. Cycle - 1
  /\ pc \in {"inputs", "health", "fdir"}
  /\ value \in [Sources -> {"none", "healthy", "unhealthy"}]
  /\ unseen \subseteq Sources /\ known \subseteq Sources
  /\ age \in [Sources -> Nat] /\ \A s \in Sources : age[s] <= StaleAfter[s] + 1
  /\ reported \subseteq Reports /\ overruns \in [Reports -> 0 .. OverrunBurst]
  /\ estimate \in EstimatorStatus /\ conditions \subseteq Conditions
  /\ flags \subseteq Bits
  /\ innovation_burst \in 0 .. InnovationBurst /\ failsafe_burst \in 0 .. FailsafeBurst
  /\ score \in 0 .. ScoreCap /\ tripped \subseteq Bits
  /\ silence \in [Sources -> Nat] /\ \A s \in Sources : silence[s] <= Horizon[s]
  /\ streak \in [Bits -> 0 .. FailsafeBurst] /\ faulted \subseteq Bits

HealthJustRan == pc = "fdir" /\ HealthDue

\* Health measures from its own last look, at its own rate, and still never
\* calls a source stale that published a healthy sample within its threshold.
NoFalseAlarm ==
  HealthJustRan =>
    \A s \in Sources \cap flags : value[s] = "unhealthy" \/ silence[s] > StaleAfter[s]

\* A source that fell silent is flagged at most one health period after its
\* threshold, a required one even if it never spoke.
SilenceFlagged ==
  HealthJustRan =>
    \A s \in Required \cup {l \in Late : value[l] # "none"} :
      silence[s] >= StaleAfter[s] + HealthPeriod => s \in flags

\* A fault FDIR read in as many runs in a row as it confirms with is latched,
\* whatever detector is installed and whatever other faults come and go.
LastingFaultLatched == \A b \in Bits : streak[b] >= FailsafeBurst => b \in tripped

\* A latched fault names what really failed at some time.  Not so for Cusum,
\* which may name a sensor that is well for the score another one filled.
FaultIsolated == detector # "Cusum" => tripped \subseteq faulted

\* The innovation counter never leads: a breach is itself a fault of the run,
\* so a larger innovation_burst_count than failsafe_burst_count has no effect.
InnovationNeverLeads ==
  detector = "BurstCounter" /\ failsafe_burst < FailsafeBurst => innovation_burst <= failsafe_burst
=============================================================================
