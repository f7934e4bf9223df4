------------------------- MODULE FaultMonitorProofs -------------------------
(***************************************************************************)
(* Type correctness of the health monitor and FDIR; that neither calls a   *)
(* source stale or latches a fault without one; that a silence is flagged  *)
(* and a lasting fault latched.  For any sources, thresholds, rates and    *)
(* counts.                                                                 *)
(***************************************************************************)
EXTENDS FaultMonitor, TLAPS

\* What a capped count does.
LEMMA CountedToBound ==
  ASSUME NEW n \in Nat, NEW cap \in Nat, n <= cap
  PROVE  /\ CountedTo(n, cap) \in 0 .. cap
         /\ CountedTo(n, cap) >= n
         /\ CountedTo(n, cap) <= n + 1
         /\ n < cap => CountedTo(n, cap) = n + 1
         /\ n = cap => CountedTo(n, cap) = cap
BY DEF CountedTo

\* The largest statistic is a number, and above the threshold only if some
\* sensor breached it.
LEMMA MaxChi2Breach ==
  ASSUME FaultMonitorAssumption, estimate \in EstimatorStatus
  PROVE  /\ MaxChi2 \in Nat
         /\ MaxChi2 > InnovationThreshold => Breached(estimate) # {}
<1>1. estimate.chi2 \in [Sensors -> Nat]
  BY DEF EstimatorStatus
<1>2. CASE Worst = {}
  BY <1>2 DEF MaxChi2, FaultMonitorAssumption
<1>3. CASE Worst # {}
  <2> DEFINE w == CHOOSE s \in Worst : TRUE
  <2>1. w \in Worst
    BY <1>3
  <2>2. w \in Sensors /\ MaxChi2 = estimate.chi2[w]
    BY <2>1, <1>3 DEF Worst, MaxChi2
  <2> QED
    BY <2>2, <1>1 DEF Breached
<1> QED
  BY <1>2, <1>3

-----------------------------------------------------------------------------
\* The names of the bits keep apart what the conjuncts of a step can touch.
LEMMA BitsContain ==
  /\ Sources \subseteq Bits /\ Reports \subseteq Bits /\ Conditions \subseteq Bits
  /\ FaultMonitorAssumption => Sensors \subseteq Bits
  /\ \A est \in EstimatorStatus : Dead(est) \subseteq Bits
BY DEF Bits, Dead, FaultMonitorAssumption

LEMMA InitTypeOK == FaultMonitorAssumption /\ Init => TypeOK
<1> SUFFICES ASSUME FaultMonitorAssumption, Init PROVE TypeOK
  OBVIOUS
<1> USE DEF FaultMonitorAssumption
<1>1. estimate \in EstimatorStatus
  BY DEF Init, EstimatorStatus
<1>2. age \in [Sources -> Nat] /\ \A s \in Sources : age[s] <= StaleAfter[s] + 1
  BY DEF Init
<1>3. silence \in [Sources -> Nat] /\ \A s \in Sources : silence[s] <= Horizon[s]
  BY DEF Init
<1>4. overruns \in [Reports -> 0 .. OverrunBurst]
  BY DEF Init
<1>5. streak \in [Bits -> 0 .. FailsafeBurst]
  BY DEF Init
<1> QED
  BY <1>1, <1>2, <1>3, <1>4, <1>5 DEF Init, TypeOK

LEMMA PublishesTypeOK ==
  ASSUME FaultMonitorAssumption, TypeOK,
         NEW healthy \in SUBSET Sources, NEW unhealthy \in SUBSET Sources,
         NEW reports \in SUBSET Reports, NEW est \in Estimates, NEW conds \in SUBSET Conditions,
         Publishes(healthy, unhealthy, reports, est, conds)
  PROVE  TypeOK'
<1> USE DEF FaultMonitorAssumption
<1>1. value' \in [Sources -> {"none", "healthy", "unhealthy"}]
  BY DEF TypeOK, Publishes
<1>2. unseen' \subseteq Sources /\ reported' \subseteq Reports /\ conditions' \subseteq Conditions
  BY DEF TypeOK, Publishes
<1>3. estimate' \in EstimatorStatus
  BY DEF Publishes
<1>4. silence' \in [Sources -> Nat] /\ \A s \in Sources : silence'[s] <= Horizon[s]
  BY DEF TypeOK, Publishes
<1>5. faulted' \subseteq Bits
  BY BitsContain DEF TypeOK, Publishes, Breached
<1> QED
  BY <1>1, <1>2, <1>3, <1>4, <1>5 DEF TypeOK, Publishes, tracker, fdir

LEMMA HealthTypeOK ==
  ASSUME FaultMonitorAssumption, TypeOK, HealthRuns
  PROVE  TypeOK'
<1> USE DEF FaultMonitorAssumption
<1>1. age' \in [Sources -> Nat] /\ \A s \in Sources : age'[s] <= StaleAfter[s] + 1
  BY DEF TypeOK, HealthRuns, Observe
<1>2. known' \subseteq Sources /\ unseen' \subseteq Sources /\ reported' \subseteq Reports
  BY DEF TypeOK, HealthRuns
<1>3. overruns' \in [Reports -> 0 .. OverrunBurst]
  BY CountedToBound DEF TypeOK, HealthRuns, CountReports
<1>4. flags' \subseteq Bits
  BY BitsContain DEF TypeOK, HealthRuns
<1> QED
  BY <1>1, <1>2, <1>3, <1>4 DEF TypeOK, HealthRuns, fdir

\* The clock's step at the end of a tick.
LEMMA EndTickTypeOK ==
  ASSUME FaultMonitorAssumption, TypeOK, EndTick
  PROVE  /\ tick' \in 0 .. Cycle - 1 /\ pc' = "inputs"
         /\ age' \in [Sources -> Nat] /\ \A s \in Sources : age'[s] <= StaleAfter[s] + 1
         /\ silence' \in [Sources -> Nat] /\ \A s \in Sources : silence'[s] <= Horizon[s]
<1> USE DEF FaultMonitorAssumption
<1>1. tick' \in 0 .. Cycle - 1
  BY DEF TypeOK, EndTick
<1>2. ASSUME NEW s \in Sources
      PROVE  CountedTo(age[s], StaleAfter[s] + 1) \in 0 .. StaleAfter[s] + 1
  <2>1. StaleAfter[s] + 1 \in Nat /\ age[s] \in Nat /\ age[s] <= StaleAfter[s] + 1
    BY DEF TypeOK
  <2> QED
    BY <2>1, CountedToBound
<1>3. \A s \in Sources : CountedTo(silence[s], Horizon[s]) \in 0 .. Horizon[s]
  BY CountedToBound DEF TypeOK
<1> QED
  BY <1>1, <1>2, <1>3 DEF EndTick

\* What every detector does: counters in their bounds, bits only added, and
\* only those it read or named.
LEMMA DetectorStep ==
  ASSUME FaultMonitorAssumption, TypeOK,
         NEW worst \in SUBSET Worst, NEW jumps \in SUBSET estimate.updated,
         FdirRuns(worst, jumps)
  PROVE  /\ innovation_burst' \in 0 .. InnovationBurst
         /\ failsafe_burst' \in 0 .. FailsafeBurst
         /\ score' \in 0 .. ScoreCap
         /\ tripped \subseteq tripped'
         /\ tripped' \subseteq tripped \cup Current \cup worst \cup jumps
         /\ detector # "Cusum" => tripped' \subseteq tripped \cup Current \cup jumps
         /\ detector # "WindowedMeanShiftGlrt" => tripped' \subseteq tripped \cup Current \cup worst
<1> USE DEF FaultMonitorAssumption
<1>0. MaxChi2 \in Nat
  BY MaxChi2Breach DEF TypeOK
<1>1. CASE detector = "BurstCounter" /\ BurstCounter
  <2>1. innovation_burst' \in 0 .. InnovationBurst /\ failsafe_burst' \in 0 .. FailsafeBurst
    BY <1>1, CountedToBound DEF TypeOK, BurstCounter
  <2> QED
    BY <1>1, <2>1 DEF TypeOK, BurstCounter
<1>2. CASE detector = "SingleSampleGlrt" /\ SingleSampleGlrt
  BY <1>2 DEF TypeOK, SingleSampleGlrt
<1>3. CASE detector = "Cusum" /\ Cusum(worst)
  <2>1. score' \in 0 .. ScoreCap
    BY <1>0, <1>3 DEF TypeOK, Cusum
  <2> QED
    BY <1>3, <2>1 DEF TypeOK, Cusum
<1>4. CASE detector = "WindowedMeanShiftGlrt" /\ WindowedMeanShiftGlrt(jumps)
  BY <1>4 DEF TypeOK, WindowedMeanShiftGlrt, Current
<1> QED
  BY <1>1, <1>2, <1>3, <1>4 DEF FdirRuns

LEMMA ReadBits == FaultMonitorAssumption /\ TypeOK => Plain \subseteq Bits /\ Current \subseteq Bits
BY BitsContain DEF TypeOK, Plain, Current, Breached

LEMMA FdirTypeOK ==
  ASSUME FaultMonitorAssumption, TypeOK,
         NEW worst \in SUBSET Worst, NEW jumps \in SUBSET estimate.updated,
         FdirRuns(worst, jumps)
  PROVE  TypeOK'
<1> USE DEF FaultMonitorAssumption
<1>1. /\ innovation_burst' \in 0 .. InnovationBurst
      /\ failsafe_burst' \in 0 .. FailsafeBurst
      /\ score' \in 0 .. ScoreCap
      /\ tripped' \subseteq tripped \cup Current \cup worst \cup jumps
  BY DetectorStep
<1>2. worst \subseteq Bits /\ jumps \subseteq Bits
  BY BitsContain DEF TypeOK, Worst, EstimatorStatus
<1>3. tripped' \subseteq Bits
  BY <1>1, <1>2, ReadBits DEF TypeOK
<1>4. streak' \in [Bits -> 0 .. FailsafeBurst]
  BY CountedToBound DEF TypeOK, FdirRuns
<1>5. faulted' \subseteq Bits
  BY <1>2 DEF TypeOK, FdirRuns
<1>6. EndTick
  BY DEF FdirRuns
<1> QED
  BY <1>1, <1>3, <1>4, <1>5, <1>6, EndTickTypeOK DEF TypeOK, FdirRuns, inputs

\* Every variable keeps its shape and every counter its bound.
LEMMA NextTypeOK == FaultMonitorAssumption /\ TypeOK /\ [Next]_vars => TypeOK'
<1> SUFFICES ASSUME FaultMonitorAssumption, TypeOK, [Next]_vars PROVE TypeOK'
  OBVIOUS
<1>1. CASE Inputs
  BY <1>1, PublishesTypeOK DEF Inputs, FaultMonitorAssumption
<1>2. CASE HealthRuns
  BY <1>2, HealthTypeOK
<1>3. CASE HealthWaits
  BY <1>3 DEF TypeOK, HealthWaits, inputs, tracker, fdir
<1>4. CASE Fdir
  BY <1>4, FdirTypeOK DEF Fdir
<1>5. CASE FdirWaits
  BY <1>5, EndTickTypeOK DEF TypeOK, FdirWaits, inputs, fdir
<1>6. CASE UNCHANGED vars
  BY <1>6 DEF TypeOK, vars, inputs, tracker, fdir
<1> QED
  BY <1>1, <1>2, <1>3, <1>4, <1>5, <1>6 DEF Next

\* Every variable of health monitor and FDIR keeps its type.
THEOREM TypeCorrect == Spec => []TypeOK
<1>1. Init => TypeOK
  BY InitTypeOK, FaultMonitorAssumption
<1>2. TypeOK /\ [Next]_vars => TypeOK'
  BY NextTypeOK, FaultMonitorAssumption
<1> QED
  BY <1>1, <1>2, PTL DEF Spec

-----------------------------------------------------------------------------
(***************************************************************************)
(* Health calls no source stale that published in time.  What health       *)
(* measures from its own last look is never more than the true silence,    *)
(* unless a sample waits to be seen.                                       *)
(***************************************************************************)
AgeInv == \A s \in Sources : s \in unseen \/ age[s] <= silence[s]

LEMMA InitAge == Init => AgeInv
<1> SUFFICES ASSUME Init, NEW s \in Sources PROVE age[s] <= silence[s]
  BY DEF AgeInv
<1>1. age[s] = 0 /\ silence[s] = 0
  BY DEF Init
<1> QED
  BY <1>1

LEMMA EndTickAge ==
  ASSUME FaultMonitorAssumption, TypeOK, AgeInv, EndTick, unseen' = unseen
  PROVE  AgeInv'
<1> SUFFICES ASSUME NEW s \in Sources, s \notin unseen PROVE age'[s] <= silence'[s]
  BY DEF AgeInv
<1>1. /\ StaleAfter[s] + 1 \in Nat /\ Horizon[s] \in Nat /\ StaleAfter[s] + 1 <= Horizon[s]
      /\ age[s] \in Nat /\ age[s] <= StaleAfter[s] + 1
      /\ silence[s] \in Nat /\ silence[s] <= Horizon[s] /\ age[s] <= silence[s]
  BY DEF TypeOK, AgeInv, FaultMonitorAssumption
<1>2. /\ age'[s] = CountedTo(age[s], StaleAfter[s] + 1)
      /\ silence'[s] = CountedTo(silence[s], Horizon[s])
  BY DEF EndTick
<1> QED
  BY <1>1, <1>2 DEF CountedTo

LEMMA AgeStep == FaultMonitorAssumption /\ TypeOK /\ AgeInv /\ [Next]_vars => AgeInv'
<1> SUFFICES ASSUME FaultMonitorAssumption, TypeOK, AgeInv, [Next]_vars PROVE AgeInv'
  OBVIOUS
<1>1. CASE Inputs
  BY <1>1 DEF Inputs, Publishes, AgeInv, TypeOK, tracker
<1>2. CASE HealthRuns
  BY <1>2 DEF HealthRuns, Observe, AgeInv, TypeOK
<1>3. CASE HealthWaits
  BY <1>3 DEF HealthWaits, AgeInv, inputs, tracker
<1>4. CASE Fdir
  <2>1. EndTick /\ unseen' = unseen
    BY <1>4 DEF Fdir, FdirRuns, inputs
  <2> QED
    BY <2>1, EndTickAge
<1>5. CASE FdirWaits
  BY <1>5, EndTickAge DEF FdirWaits, inputs
<1>6. CASE UNCHANGED vars
  BY <1>6 DEF AgeInv, vars, inputs, tracker
<1> QED
  BY <1>1, <1>2, <1>3, <1>4, <1>5, <1>6 DEF Next

LEMMA NoFalseAlarmStep ==
  FaultMonitorAssumption /\ TypeOK /\ AgeInv /\ NoFalseAlarm /\ [Next]_vars => NoFalseAlarm'
<1> SUFFICES ASSUME FaultMonitorAssumption, TypeOK, AgeInv, NoFalseAlarm, [Next]_vars
             PROVE  NoFalseAlarm'
  OBVIOUS
<1>1. CASE HealthRuns
  <2> SUFFICES ASSUME NEW s \in Sources, s \in flags', value[s] # "unhealthy"
               PROVE  silence[s] > StaleAfter[s]
    BY <1>1 DEF HealthRuns, NoFalseAlarm
  <2>1. s \notin Dead(estimate) /\ s \notin Reports
    BY DEF FaultMonitorAssumption, Dead
  <2>2. age'[s] > StaleAfter[s]
    BY <1>1, <2>1 DEF HealthRuns, Stale
  <2>3. age'[s] <= silence[s]
    BY <1>1 DEF HealthRuns, Observe, AgeInv, TypeOK
  <2>4. age'[s] \in Nat /\ silence[s] \in Nat /\ StaleAfter[s] \in Nat
    BY <1>1 DEF HealthRuns, Observe, TypeOK, FaultMonitorAssumption
  <2> QED
    BY <2>2, <2>3, <2>4
<1>2. CASE HealthWaits
  BY <1>2 DEF HealthWaits, NoFalseAlarm, HealthJustRan, HealthDue
<1>3. CASE Inputs
  BY <1>3 DEF Inputs, Publishes, NoFalseAlarm, HealthJustRan
<1>4. CASE Fdir
  BY <1>4 DEF Fdir, FdirRuns, EndTick, NoFalseAlarm, HealthJustRan
<1>5. CASE FdirWaits
  BY <1>5 DEF FdirWaits, EndTick, NoFalseAlarm, HealthJustRan
<1>6. CASE UNCHANGED vars
  BY <1>6 DEF NoFalseAlarm, HealthJustRan, HealthDue, vars, inputs, tracker
<1> QED
  BY <1>1, <1>2, <1>3, <1>4, <1>5, <1>6 DEF Next

\* Health flags no source that spoke within its threshold and was well,
\* whatever its own rate (health.rs, TopicStaleness).
THEOREM NoFalseAlarms == Spec => []NoFalseAlarm
<1>1. Init => TypeOK /\ AgeInv /\ NoFalseAlarm
  <2>1. Init => TypeOK
    BY InitTypeOK, FaultMonitorAssumption
  <2>2. Init => AgeInv /\ NoFalseAlarm
    BY InitAge DEF Init, NoFalseAlarm, HealthJustRan
  <2> QED
    BY <2>1, <2>2
<1>2. TypeOK /\ AgeInv /\ NoFalseAlarm /\ [Next]_vars => (TypeOK /\ AgeInv /\ NoFalseAlarm)'
  BY NextTypeOK, AgeStep, NoFalseAlarmStep, FaultMonitorAssumption
<1> QED
  BY <1>1, <1>2, PTL DEF Spec

-----------------------------------------------------------------------------
(***************************************************************************)
(* Health misses no source that stays silent.  It measures from its own    *)
(* last look, so what it measures lags behind the true silence, but by     *)
(* less than its period: a sample still to be seen came since that look.   *)
(***************************************************************************)
Phase     == tick % HealthPeriod
SinceLook == IF Phase = 0 THEN HealthPeriod - 1 ELSE Phase - 1

Lags(s) == age[s] > StaleAfter[s] \/ silence[s] <= age[s] + HealthPeriod - 1

LagInv ==
  /\ \A s \in Sources : IF s \in unseen THEN silence[s] <= SinceLook ELSE Lags(s)
  /\ HealthJustRan => unseen = {}
  /\ \A s \in Sources : value[s] # "none" => s \in unseen \cup known

\* The phase of the health job when the tick counter steps, or wraps around.
LEMMA PhaseSteps ==
  ASSUME NEW p \in Nat \ {0}, NEW cycle \in Nat \ {0}, cycle % p = 0, NEW t \in 0 .. cycle - 1
  PROVE  ((t + 1) % cycle) % p = IF t % p = p - 1 THEN 0 ELSE (t % p) + 1
<1> DEFINE q == t \div p
           r == t % p
           k == cycle \div p
<1>1. q \in Nat /\ r \in 0 .. p - 1 /\ t = q * p + r /\ k \in Nat /\ cycle = k * p
  BY SMT
<1>2. ASSUME NEW a \in Nat, NEW b \in Nat, NEW c \in 0 .. p - 1, a = b * p + c
      PROVE  a % p = c
  <2> DEFINE d == a \div p
             e == a % p
  <2>1. d \in Nat /\ e \in 0 .. p - 1 /\ a = d * p + e
    BY SMT
  <2> HIDE DEF d, e
  <2>2. (d - b) * p = c - e
    BY <1>2, <2>1, SMT
  <2>3. ~(d - b >= 1)
    <3> SUFFICES ASSUME d - b >= 1 PROVE FALSE
      OBVIOUS
    <3>1. (d - b) * p >= p
      BY <2>1, SMT
    <3> QED
      BY <2>1, <2>2, <3>1
  <2>4. ~(b - d >= 1)
    <3> SUFFICES ASSUME b - d >= 1 PROVE FALSE
      OBVIOUS
    <3>1. (b - d) * p >= p /\ (b - d) * p = e - c
      BY <1>2, <2>1, SMT
    <3> QED
      BY <2>1, <3>1
  <2>5. d = b
    BY <2>1, <2>3, <2>4
  <2>6. e = c
    BY <1>2, <2>1, <2>5
  <2> QED
    BY <2>6 DEF e
<1> HIDE DEF q, r, k
<1>3. CASE t + 1 < cycle
  <2>1. (t + 1) % cycle = t + 1
    BY <1>3, SMT
  <2>2. CASE r = p - 1
    <3>1. t + 1 = (q + 1) * p + 0
      BY <1>1, <2>2, SMT
    <3>2. (t + 1) % p = 0
      BY <1>1, <1>2, <3>1
    <3> QED
      BY <2>1, <2>2, <3>2 DEF r
  <2>3. CASE r # p - 1
    <3>1. t + 1 = q * p + (r + 1) /\ r + 1 \in 0 .. p - 1
      BY <1>1, <2>3, SMT
    <3>2. (t + 1) % p = r + 1
      BY <1>1, <1>2, <3>1
    <3> QED
      BY <2>1, <2>3, <3>2 DEF r
  <2> QED
    BY <2>2, <2>3
<1>4. CASE ~(t + 1 < cycle)
  <2>1. t + 1 = cycle /\ (t + 1) % cycle = 0
    <3>1. t + 1 = cycle
      BY <1>4
    <3>2. cycle % cycle = 0
      BY SMT
    <3> QED
      BY <3>1, <3>2
  <2>2. 0 % p = 0
    BY SMT
  <2>3. r = p - 1
    <3>1. k >= 1
      <4>1. k # 0
        BY <1>1
      <4> QED
        BY <1>1, <4>1
    <3>2. t = (k - 1) * p + (p - 1) /\ k - 1 \in Nat
      BY <1>1, <2>1, <3>1, SMT
    <3>3. t \in Nat /\ p - 1 \in 0 .. p - 1
      BY <1>1
    <3>4. t % p = p - 1
      BY <1>2, <3>2, <3>3
    <3> QED
      BY <3>4 DEF r
  <2> QED
    BY <2>1, <2>2, <2>3 DEF r
<1> QED
  BY <1>3, <1>4

LEMMA InitLag == FaultMonitorAssumption /\ Init => LagInv
<1> SUFFICES ASSUME FaultMonitorAssumption, Init PROVE LagInv
  OBVIOUS
<1>1. HealthPeriod \in Nat \ {0} /\ unseen = {}
  BY DEF FaultMonitorAssumption, Init
<1>2. \A s \in Sources : age[s] = 0 /\ silence[s] = 0 /\ value[s] = "none"
  BY DEF Init
<1> QED
  BY <1>1, <1>2 DEF LagInv, Lags

\* What health does with it.
LEMMA HealthLag ==
  ASSUME FaultMonitorAssumption, TypeOK, LagInv, HealthRuns
  PROVE  LagInv'
<1> USE DEF FaultMonitorAssumption
<1>1. /\ HealthPeriod \in Nat \ {0} /\ tick \in Nat /\ SinceLook = HealthPeriod - 1
      /\ unseen' = {} /\ known' = known \cup unseen /\ UNCHANGED <<tick, value, silence>>
      /\ age' = [s \in Sources |-> IF s \in unseen THEN 0 ELSE age[s]]
  BY DEF TypeOK, HealthRuns, HealthDue, SinceLook, Phase, Observe
<1>2. ASSUME NEW s \in Sources PROVE Lags(s)'
  <2>1. CASE s \in unseen
    <3>1. silence[s] <= HealthPeriod - 1 /\ age'[s] = 0 /\ silence[s] \in Nat
      BY <1>1, <2>1 DEF LagInv, TypeOK
    <3> QED
      BY <1>1, <3>1 DEF Lags
  <2>2. CASE s \notin unseen
    <3>1. Lags(s) /\ age'[s] = age[s]
      BY <1>1, <2>2 DEF LagInv
    <3> QED
      BY <1>1, <3>1 DEF Lags
  <2> QED
    BY <2>1, <2>2
<1>3. \A s \in Sources : value'[s] # "none" => s \in unseen' \cup known'
  BY <1>1 DEF LagInv
<1> QED
  BY <1>1, <1>2, <1>3 DEF LagInv

LEMMA EndTickLag ==
  ASSUME FaultMonitorAssumption, TypeOK, LagInv, pc = "fdir", EndTick,
         UNCHANGED <<unseen, known, value>>
  PROVE  LagInv'
<1> USE DEF FaultMonitorAssumption
<1>1. /\ HealthPeriod \in Nat \ {0} /\ tick \in 0 .. Cycle - 1
      /\ Phase \in 0 .. HealthPeriod - 1
      /\ Phase' = IF Phase = HealthPeriod - 1 THEN 0 ELSE Phase + 1
  <2>1. tick' = (tick + 1) % Cycle /\ tick \in 0 .. Cycle - 1
    BY DEF TypeOK, EndTick
  <2>2. tick % HealthPeriod \in 0 .. HealthPeriod - 1
    BY <2>1, SMT
  <2> QED
    BY <2>1, <2>2, PhaseSteps DEF Phase
<1>2. ASSUME NEW s \in Sources, s \in unseen PROVE silence'[s] <= SinceLook'
  <2>1. Phase # 0
    BY <1>2 DEF LagInv, HealthJustRan, HealthDue, Phase
  <2>2. silence[s] <= Phase - 1 /\ silence[s] \in Nat /\ Horizon[s] \in Nat
    BY <1>2, <2>1 DEF LagInv, SinceLook, TypeOK
  <2>3. silence'[s] <= silence[s] + 1 /\ silence'[s] \in Nat
    BY <2>2 DEF EndTick, CountedTo
  <2> QED
    BY <1>1, <2>1, <2>2, <2>3 DEF SinceLook
<1>3. ASSUME NEW s \in Sources, s \notin unseen PROVE Lags(s)'
  <2>1. /\ Lags(s) /\ StaleAfter[s] \in Nat /\ Horizon[s] \in Nat
        /\ age[s] \in Nat /\ age[s] <= StaleAfter[s] + 1 /\ silence[s] \in Nat
    BY <1>3 DEF LagInv, TypeOK
  <2>2. /\ age'[s] = CountedTo(age[s], StaleAfter[s] + 1)
        /\ silence'[s] = CountedTo(silence[s], Horizon[s])
    BY DEF EndTick
  <2> QED
    BY <1>1, <2>1, <2>2 DEF Lags, CountedTo
<1>4. ~HealthJustRan'
  BY DEF EndTick, HealthJustRan
<1> QED
  BY <1>2, <1>3, <1>4 DEF LagInv

LEMMA LagStep == FaultMonitorAssumption /\ TypeOK /\ LagInv /\ [Next]_vars => LagInv'
<1> SUFFICES ASSUME FaultMonitorAssumption, TypeOK, LagInv, [Next]_vars PROVE LagInv'
  OBVIOUS
<1>1. CASE Inputs
  <2>1. PICK healthy \in SUBSET Sources, unhealthy \in SUBSET SelfReporting,
             reports \in SUBSET Reports, est \in Estimates, conds \in SUBSET Conditions :
               Publishes(healthy, unhealthy, reports, est, conds)
    BY <1>1 DEF Inputs
  <2> DEFINE published == healthy \cup unhealthy
  <2>2. /\ unseen' = unseen \cup published /\ UNCHANGED <<tick, known, age>> /\ pc' = "health"
        /\ silence' = [s \in Sources |-> IF s \in published THEN 0 ELSE silence[s]]
        /\ \A s \in Sources : s \notin published => value'[s] = value[s]
    BY <2>1 DEF Publishes, tracker
  <2> HIDE DEF published
  <2>3. HealthPeriod \in Nat \ {0} /\ Phase \in 0 .. HealthPeriod - 1 /\ SinceLook \in Nat
        /\ SinceLook' = SinceLook
    <3>1. HealthPeriod \in Nat \ {0} /\ tick \in Nat
      BY DEF FaultMonitorAssumption, TypeOK
    <3>2. tick % HealthPeriod \in 0 .. HealthPeriod - 1
      BY <3>1, SMT
    <3> QED
      BY <2>2, <3>1, <3>2 DEF Phase, SinceLook
  <2>4. ASSUME NEW s \in Sources, s \in unseen' PROVE silence'[s] <= SinceLook'
    BY <2>2, <2>3, <2>4 DEF LagInv
  <2>5. ASSUME NEW s \in Sources, s \notin unseen' PROVE Lags(s)'
    BY <2>2, <2>5 DEF LagInv, Lags
  <2>6. \A s \in Sources : value'[s] # "none" => s \in unseen' \cup known'
    BY <2>2 DEF LagInv
  <2> QED
    BY <2>2, <2>4, <2>5, <2>6 DEF LagInv, HealthJustRan
<1>2. CASE HealthRuns
  BY <1>2, HealthLag
<1>3. CASE HealthWaits \/ UNCHANGED vars
  <2>1. UNCHANGED <<tick, unseen, known, age, silence, value>>
        /\ (HealthJustRan' => HealthJustRan)
    BY <1>3 DEF HealthWaits, HealthJustRan, HealthDue, vars, inputs, tracker
  <2> QED
    BY <2>1 DEF LagInv, Lags, SinceLook, Phase
<1>4. CASE Fdir \/ FdirWaits
  BY <1>4, EndTickLag DEF Fdir, FdirRuns, FdirWaits, inputs
<1> QED
  BY <1>1, <1>2, <1>3, <1>4 DEF Next

LEMMA SilenceFlaggedStep ==
  FaultMonitorAssumption /\ TypeOK /\ LagInv /\ SilenceFlagged /\ [Next]_vars => SilenceFlagged'
<1> SUFFICES ASSUME FaultMonitorAssumption, TypeOK, LagInv, SilenceFlagged, [Next]_vars
             PROVE  SilenceFlagged'
  OBVIOUS
<1>1. CASE HealthRuns
  <2> SUFFICES ASSUME NEW s \in Required \cup {l \in Late : value'[l] # "none"},
                      silence'[s] >= StaleAfter[s] + HealthPeriod
               PROVE  s \in flags'
    BY DEF SilenceFlagged
  <2>1. s \in Sources /\ value' = value /\ silence' = silence /\ unseen' = {}
    BY <1>1 DEF HealthRuns, FaultMonitorAssumption
  <2>2. LagInv'
    BY <1>1, HealthLag
  <2>3. age'[s] > StaleAfter[s] \/ silence'[s] <= age'[s] + HealthPeriod - 1
    BY <2>1, <2>2 DEF LagInv, Lags
  <2>4. age'[s] \in Nat /\ silence'[s] \in Nat /\ StaleAfter[s] \in Nat /\ HealthPeriod \in Nat
    BY <1>1, <2>1 DEF HealthRuns, Observe, TypeOK, FaultMonitorAssumption
  <2>5. age'[s] > StaleAfter[s]
    BY <2>3, <2>4
  <2>6. s \in Required \/ (s \in Late /\ s \in known')
    BY <2>1, <2>2 DEF LagInv
  <2> QED
    BY <1>1, <2>1, <2>5, <2>6 DEF HealthRuns, Stale
<1>2. CASE HealthWaits
  BY <1>2 DEF HealthWaits, SilenceFlagged, HealthJustRan, HealthDue
<1>3. CASE Inputs
  BY <1>3 DEF Inputs, Publishes, SilenceFlagged, HealthJustRan
<1>4. CASE Fdir
  BY <1>4 DEF Fdir, FdirRuns, EndTick, SilenceFlagged, HealthJustRan
<1>5. CASE FdirWaits
  BY <1>5 DEF FdirWaits, EndTick, SilenceFlagged, HealthJustRan
<1>6. CASE UNCHANGED vars
  BY <1>6 DEF SilenceFlagged, HealthJustRan, HealthDue, vars, inputs, tracker
<1> QED
  BY <1>1, <1>2, <1>3, <1>4, <1>5, <1>6 DEF Next

\* A source that stays silent is flagged less than one health period after
\* its threshold, whatever the rates (health.rs, TopicStaleness).
THEOREM SilenceAlwaysFlagged == Spec => []SilenceFlagged
<1>1. Init => TypeOK /\ LagInv /\ SilenceFlagged
  <2>1. Init => SilenceFlagged
    BY DEF Init, SilenceFlagged, HealthJustRan
  <2> QED
    BY <2>1, InitTypeOK, InitLag, FaultMonitorAssumption
<1>2. TypeOK /\ LagInv /\ SilenceFlagged /\ [Next]_vars => (TypeOK /\ LagInv /\ SilenceFlagged)'
  BY NextTypeOK, LagStep, SilenceFlaggedStep, FaultMonitorAssumption
<1> QED
  BY <1>1, <1>2, PTL DEF Spec

-----------------------------------------------------------------------------
(***************************************************************************)
(* A latched fault was a fault.  Whatever health and FDIR could read now   *)
(* was there at some time, counts and silences that are still to be turned *)
(* into flags included.                                                    *)
(***************************************************************************)
ReadIsReal ==
  /\ flags \cup Dead(estimate) \cup Breached(estimate) \cup conditions \cup reported \subseteq faulted
  /\ \A r \in Reports : overruns[r] > 0 => r \in faulted
  /\ \A s \in Sources : value[s] = "unhealthy" => s \in faulted
  /\ pc = "health" => \A s \in Sources : silence[s] > StaleAfter[s] => s \in faulted

LEMMA PublishesReal ==
  ASSUME FaultMonitorAssumption, TypeOK, ReadIsReal,
         NEW healthy \in SUBSET Sources, NEW unhealthy \in SUBSET Sources,
         NEW reports \in SUBSET Reports, NEW est \in Estimates, NEW conds \in SUBSET Conditions,
         Publishes(healthy, unhealthy, reports, est, conds)
  PROVE  ReadIsReal' /\ faulted \subseteq faulted'
<1>1. faulted \cup reports \cup Dead(est) \cup conds \cup unhealthy \cup Breached(est) \subseteq faulted'
  BY DEF Publishes
<1>2. estimate' = est /\ conditions' = conds /\ flags' = flags /\ overruns' = overruns
  BY DEF Publishes, tracker
<1>3. Dead(estimate)' = Dead(est) /\ Breached(estimate)' = Breached(est)
  BY <1>2 DEF Dead, Breached
<1>4. reported' \subseteq faulted'
  BY <1>1 DEF Publishes, ReadIsReal
<1>5. \A s \in Sources : value'[s] = "unhealthy" => s \in faulted'
  BY <1>1 DEF Publishes, ReadIsReal, TypeOK
<1>6. \A s \in Sources : silence'[s] > StaleAfter[s] => s \in faulted'
  BY DEF Publishes
<1> QED
  BY <1>1, <1>2, <1>3, <1>4, <1>5, <1>6 DEF ReadIsReal

LEMMA HealthReal ==
  ASSUME FaultMonitorAssumption, TypeOK, AgeInv, ReadIsReal, HealthRuns
  PROVE  ReadIsReal' /\ faulted' = faulted
<1>1. ASSUME NEW r \in Reports, overruns'[r] > 0 PROVE r \in faulted
  BY <1>1 DEF HealthRuns, CountReports, ReadIsReal, TypeOK
<1>2. ASSUME NEW r \in Reports, overruns'[r] >= OverrunBurst PROVE r \in faulted
  <2>1. overruns'[r] \in 0 .. OverrunBurst
    BY HealthTypeOK DEF TypeOK
  <2> QED
    BY <1>1, <1>2, <2>1 DEF FaultMonitorAssumption
<1>3. ASSUME NEW s \in Sources, Stale(s, age', known') PROVE s \in faulted
  <2>1. age'[s] <= silence[s]
    BY DEF HealthRuns, Observe, AgeInv, TypeOK
  <2>2. age'[s] \in Nat /\ silence[s] \in Nat /\ StaleAfter[s] \in Nat
    BY DEF HealthRuns, Observe, TypeOK, FaultMonitorAssumption
  <2>3. silence[s] > StaleAfter[s]
    BY <1>3, <2>1, <2>2 DEF Stale
  <2> QED
    BY <2>3 DEF HealthRuns, ReadIsReal
<1>4. flags' \subseteq faulted
  BY <1>2, <1>3 DEF HealthRuns, ReadIsReal
<1>5. /\ faulted' = faulted /\ estimate' = estimate /\ conditions' = conditions
      /\ value' = value /\ reported' = {} /\ pc' = "fdir"
  BY DEF HealthRuns
<1>6. Dead(estimate)' = Dead(estimate) /\ Breached(estimate)' = Breached(estimate)
  BY <1>5 DEF Dead, Breached
<1> QED
  BY <1>1, <1>4, <1>5, <1>6 DEF ReadIsReal

LEMMA FdirReal ==
  ASSUME FaultMonitorAssumption, TypeOK, ReadIsReal, FaultIsolated,
         NEW worst \in SUBSET Worst, NEW jumps \in SUBSET estimate.updated,
         FdirRuns(worst, jumps)
  PROVE  ReadIsReal' /\ FaultIsolated'
<1>1. faulted \subseteq faulted'
  BY DEF FdirRuns
<1>2. /\ estimate' = estimate /\ conditions' = conditions /\ value' = value
      /\ reported' = reported /\ overruns' = overruns /\ flags' = flags
      /\ detector' = detector /\ pc' = "inputs"
  BY DEF FdirRuns, inputs, EndTick
<1>3. Dead(estimate)' = Dead(estimate) /\ Breached(estimate)' = Breached(estimate)
  BY <1>2 DEF Dead, Breached
<1>4. ReadIsReal'
  BY <1>1, <1>2, <1>3 DEF ReadIsReal
<1>5. Current \subseteq faulted
  BY DEF Current, Plain, ReadIsReal
<1>6. CASE detector = "WindowedMeanShiftGlrt"
  <2>1. tripped' \subseteq tripped \cup Current \cup jumps
    BY <1>6, DetectorStep
  <2>2. jumps \subseteq faulted'
    BY <1>6 DEF FdirRuns
  <2> QED
    BY <1>1, <1>2, <1>4, <1>5, <1>6, <2>1, <2>2 DEF FaultIsolated
<1>7. CASE detector # "WindowedMeanShiftGlrt"
  <2>1. detector # "Cusum" => tripped' \subseteq tripped \cup Current
    BY <1>7 DEF FdirRuns, BurstCounter, SingleSampleGlrt
  <2> QED
    BY <1>1, <1>2, <1>4, <1>5, <2>1 DEF FaultIsolated
<1> QED
  BY <1>6, <1>7

LEMMA RealStep ==
  FaultMonitorAssumption /\ TypeOK /\ AgeInv /\ ReadIsReal /\ FaultIsolated /\ [Next]_vars
    => ReadIsReal' /\ FaultIsolated'
<1> SUFFICES ASSUME FaultMonitorAssumption, TypeOK, AgeInv, ReadIsReal, FaultIsolated, [Next]_vars
             PROVE  ReadIsReal' /\ FaultIsolated'
  OBVIOUS
<1>1. CASE Inputs
  <2>1. ReadIsReal' /\ faulted \subseteq faulted'
    BY <1>1, PublishesReal DEF Inputs, FaultMonitorAssumption
  <2>2. detector' = detector /\ tripped' = tripped
    BY <1>1 DEF Inputs, Publishes, fdir
  <2> QED
    BY <2>1, <2>2 DEF FaultIsolated
<1>2. CASE HealthRuns
  <2>1. detector' = detector /\ tripped' = tripped
    BY <1>2 DEF HealthRuns, fdir
  <2> QED
    BY <1>2, <2>1, HealthReal DEF FaultIsolated
<1>3. CASE HealthWaits
  BY <1>3 DEF HealthWaits, ReadIsReal, FaultIsolated, Dead, Breached, inputs, tracker, fdir
<1>4. CASE Fdir
  BY <1>4, FdirReal DEF Fdir
<1>5. CASE FdirWaits
  BY <1>5 DEF FdirWaits, EndTick, ReadIsReal, FaultIsolated, Dead, Breached, inputs, tracker, fdir
<1>6. CASE UNCHANGED vars
  BY <1>6 DEF ReadIsReal, FaultIsolated, Dead, Breached, vars, inputs, tracker, fdir
<1> QED
  BY <1>1, <1>2, <1>3, <1>4, <1>5, <1>6 DEF Next

LEMMA InitReal == FaultMonitorAssumption /\ Init => ReadIsReal /\ FaultIsolated
BY DEF FaultMonitorAssumption, Init, ReadIsReal, FaultIsolated, Dead, Breached

\* No detector but Cusum latches a fault nobody ever had: not for a topic seen
\* late, a count left over, or a flag of an earlier health run (fdir.rs,
\* FdirJob::run; health.rs, HealthMonitor::run).
THEOREM FaultsAreIsolated == Spec => []FaultIsolated
<1>1. Init => TypeOK /\ AgeInv /\ ReadIsReal /\ FaultIsolated
  <2>1. Init => AgeInv
    BY InitAge
  <2> QED
    BY <2>1, InitTypeOK, InitReal, FaultMonitorAssumption
<1>2. TypeOK /\ AgeInv /\ ReadIsReal /\ FaultIsolated /\ [Next]_vars
        => (TypeOK /\ AgeInv /\ ReadIsReal /\ FaultIsolated)'
  BY NextTypeOK, AgeStep, RealStep, FaultMonitorAssumption
<1> QED
  BY <1>1, <1>2, PTL DEF Spec

-----------------------------------------------------------------------------
(***************************************************************************)
(* A lasting fault is latched.  The shared counter of BurstCounter has     *)
(* counted at least as far as any single bit has lasted, and further than  *)
(* the innovations, whose breach is a fault of the run too.                *)
(***************************************************************************)
SharedCountLeads == detector = "BurstCounter" => \A b \in Bits : streak[b] <= failsafe_burst

Latching == SharedCountLeads /\ LastingFaultLatched /\ InnovationNeverLeads

LEMMA BurstCounterLatches ==
  ASSUME FaultMonitorAssumption, TypeOK, Latching,
         NEW worst \in SUBSET Worst, NEW jumps \in SUBSET estimate.updated,
         FdirRuns(worst, jumps), detector = "BurstCounter"
  PROVE  Latching'
<1> USE DEF FaultMonitorAssumption
<1>1. BurstCounter /\ detector' = detector
  BY DEF FdirRuns
<1>2. failsafe_burst' = IF Current # {} THEN CountedTo(failsafe_burst, FailsafeBurst) ELSE 0
  BY <1>1 DEF BurstCounter
<1>3. /\ failsafe_burst \in Nat /\ failsafe_burst <= FailsafeBurst
      /\ innovation_burst \in Nat /\ innovation_burst <= InnovationBurst
      /\ \A b \in Bits : streak[b] \in Nat /\ streak[b] <= failsafe_burst
  BY DEF TypeOK, Latching, SharedCountLeads
<1>4. ASSUME NEW b \in Bits, b \in Plain
      PROVE  streak'[b] <= failsafe_burst' /\ b \in Current
  <2>1. failsafe_burst' = CountedTo(failsafe_burst, FailsafeBurst) /\ b \in Current
    BY <1>2, <1>4 DEF Current
  <2>2. streak'[b] = CountedTo(streak[b], FailsafeBurst)
    BY <1>4 DEF FdirRuns
  <2> QED
    BY <1>3, <2>1, <2>2 DEF CountedTo
<1>5. ASSUME NEW b \in Bits, b \notin Plain
      PROVE  streak'[b] = 0
  BY <1>5 DEF FdirRuns
<1>6. failsafe_burst' \in Nat
  <2>1. failsafe_burst' \in 0 .. FailsafeBurst
    BY DetectorStep
  <2> QED
    BY <2>1
<1>7. SharedCountLeads'
  BY <1>1, <1>4, <1>5, <1>6 DEF SharedCountLeads
<1>8. LastingFaultLatched'
  <2> SUFFICES ASSUME NEW b \in Bits, streak'[b] >= FailsafeBurst PROVE b \in tripped'
    BY DEF LastingFaultLatched
  <2>1. b \in Plain
    BY <1>5
  <2>2. streak'[b] \in Nat
    <3>1. streak' \in [Bits -> 0 .. FailsafeBurst]
      BY FdirTypeOK DEF TypeOK
    <3> QED
      BY <3>1
  <2>3. failsafe_burst' >= FailsafeBurst
    BY <1>4, <1>6, <2>1, <2>2
  <2> QED
    BY <1>1, <1>4, <2>1, <2>3 DEF BurstCounter
<1>9. InnovationNeverLeads'
  <2> SUFFICES ASSUME failsafe_burst' < FailsafeBurst PROVE innovation_burst' <= failsafe_burst'
    BY DEF InnovationNeverLeads
  <2>1. CASE MaxChi2 > InnovationThreshold
    <3>1. Current # {}
      BY <2>1, MaxChi2Breach DEF TypeOK, Current
    <3>2. failsafe_burst' = CountedTo(failsafe_burst, FailsafeBurst)
      BY <1>2, <3>1
    <3>3. innovation_burst' = CountedTo(innovation_burst, InnovationBurst)
      BY <1>1, <2>1 DEF BurstCounter
    <3>4. failsafe_burst < FailsafeBurst /\ innovation_burst <= failsafe_burst
      BY <1>3, <3>2 DEF CountedTo, Latching, InnovationNeverLeads
    <3> QED
      BY <1>3, <3>2, <3>3, <3>4 DEF CountedTo
  <2>2. CASE ~(MaxChi2 > InnovationThreshold)
    <3>1. innovation_burst' = 0
      BY <1>1, <2>2 DEF BurstCounter
    <3> QED
      BY <1>6, <3>1
  <2> QED
    BY <2>1, <2>2
<1> QED
  BY <1>7, <1>8, <1>9 DEF Latching

\* The other detectors latch what health or a topic reports in the run itself.
LEMMA OthersLatch ==
  ASSUME FaultMonitorAssumption, TypeOK, Latching,
         NEW worst \in SUBSET Worst, NEW jumps \in SUBSET estimate.updated,
         FdirRuns(worst, jumps), detector # "BurstCounter"
  PROVE  Latching'
<1>1. Plain \subseteq tripped' /\ detector' = detector
  BY DEF FdirRuns, SingleSampleGlrt, Cusum, WindowedMeanShiftGlrt, Current
<1>2. ASSUME NEW b \in Bits, streak'[b] >= FailsafeBurst PROVE b \in Plain
  BY <1>2 DEF FdirRuns, FaultMonitorAssumption
<1> QED
  BY <1>1, <1>2 DEF Latching, SharedCountLeads, LastingFaultLatched, InnovationNeverLeads

LEMMA LatchingStep ==
  FaultMonitorAssumption /\ TypeOK /\ Latching /\ [Next]_vars => Latching'
<1> SUFFICES ASSUME FaultMonitorAssumption, TypeOK, Latching, [Next]_vars PROVE Latching'
  OBVIOUS
<1>1. CASE Fdir
  BY <1>1, BurstCounterLatches, OthersLatch DEF Fdir
<1>2. CASE ~Fdir
  <2>1. UNCHANGED <<detector, innovation_burst, failsafe_burst, tripped, streak>>
    BY <1>2 DEF Next, Inputs, Publishes, HealthRuns, HealthWaits, FdirWaits, vars, fdir
  <2> QED
    BY <2>1 DEF Latching, SharedCountLeads, LastingFaultLatched, InnovationNeverLeads
<1> QED
  BY <1>1, <1>2

LEMMA InitLatching == FaultMonitorAssumption /\ Init => Latching
<1> SUFFICES ASSUME FaultMonitorAssumption, Init PROVE Latching
  OBVIOUS
<1>1. /\ \A b \in Bits : streak[b] = 0
      /\ failsafe_burst = 0 /\ innovation_burst = 0 /\ FailsafeBurst \in Nat \ {0}
  BY DEF Init, FaultMonitorAssumption
<1> QED
  BY <1>1 DEF Latching, SharedCountLeads, LastingFaultLatched, InnovationNeverLeads

LEMMA AlwaysLatching == Spec => []Latching
<1>1. Init => TypeOK /\ Latching
  BY InitTypeOK, InitLatching, FaultMonitorAssumption
<1>2. TypeOK /\ Latching /\ [Next]_vars => (TypeOK /\ Latching)'
  BY NextTypeOK, LatchingStep, FaultMonitorAssumption
<1> QED
  BY <1>1, <1>2, PTL DEF Spec

\* A fault read in as many FDIR runs in a row as one confirms with is latched,
\* whichever detector is configured (fdir.rs, FdirJob::run).
THEOREM LastingFaultsLatched == Spec => []LastingFaultLatched
<1>1. Latching => LastingFaultLatched
  BY DEF Latching
<1> QED
  BY <1>1, AlwaysLatching, PTL

\* innovation_burst_count takes no effect beyond failsafe_burst_count: the
\* other counter is always as far or has tripped (fdir.rs, FdirJob::run).
THEOREM InnovationsNeverLead == Spec => []InnovationNeverLeads
<1>1. Latching => InnovationNeverLeads
  BY DEF Latching
<1> QED
  BY <1>1, AlwaysLatching, PTL
=============================================================================
