-------------------------- MODULE SchedulerProofs ---------------------------
(***************************************************************************)
(* Theorems about the cyclic scheduler, for every table, budget and bound: *)
(* type correctness, exact accounting of the frame budget, that a table    *)
(* frame packing accepted never overruns, that no wake-up is lost unserved *)
(* and none is served twice, and that a validated schedule is a cyclic     *)
(* executive.                                                              *)
(***************************************************************************)
EXTENDS Scheduler, FiniteSetTheorems, SequenceTheorems, TLAPS

-----------------------------------------------------------------------------
(***************************************************************************)
(* Arithmetic of the hyperperiod.                                          *)
(***************************************************************************)

\* A remainder is determined by any decomposition with a small enough rest.
LEMMA RemainderUnique ==
  ASSUME NEW p \in Nat \ {0}, NEW a \in Nat, NEW q \in Nat, NEW r \in 0 .. p - 1,
         a = q * p + r
  PROVE  a % p = r
<1> DEFINE d == a \div p
           m == a % p
<1>1. d \in Nat /\ m \in 0 .. p - 1 /\ a = d * p + m
  BY SMT
<1> HIDE DEF d, m
<1>2. (d - q) * p = r - m
  BY <1>1, SMT
<1>3. d - q < 1
  <2> SUFFICES ASSUME d - q >= 1 PROVE FALSE
    BY <1>1, SMT
  <2>1. (d - q) * p >= p
    BY <1>1, SMT
  <2> QED BY <2>1, <1>1, <1>2, SMT
<1>4. d - q > -1
  <2> SUFFICES ASSUME q - d >= 1 PROVE FALSE
    BY <1>1, SMT
  <2>1. (q - d) * p >= p
    BY <1>1, SMT
  <2>2. (q - d) * p = m - r
    BY <1>1, SMT
  <2> QED BY <2>1, <2>2, <1>1, SMT
<1>5. d = q
  BY <1>1, <1>3, <1>4, SMT
<1>6. m = r
  BY <1>1, <1>5, SMT
<1> QED BY <1>6 DEF m

\* Reducing a tick modulo a common multiple of the periods changes no release.
LEMMA ReleaseModuloHyperperiod ==
  ASSUME NEW p \in Nat \ {0}, NEW h \in Nat \ {0}, NEW t \in Nat, h % p = 0
  PROVE  (t % h) % p = t % p
<1> DEFINE k == h \div p
           q == t \div h
           r == t % h
           e == r \div p
           s == r % p
<1>1. k \in Nat /\ h = k * p
  BY SMT
<1>2. q \in Nat /\ r \in Nat /\ t = q * h + r
  BY SMT
<1>3. e \in Nat /\ s \in 0 .. p - 1 /\ r = e * p + s
  BY <1>2, SMT
<1> HIDE DEF k, q, r, e, s
<1>4. t = (q * k + e) * p + s
  BY <1>1, <1>2, <1>3, SMT
<1>5. q * k + e \in Nat
  BY <1>1, <1>2, <1>3, SMT
<1>6. t % p = s
  BY <1>3, <1>4, <1>5, RemainderUnique
<1> QED BY <1>6 DEF r, s

-----------------------------------------------------------------------------
(***************************************************************************)
(* Declared load of a set of jobs.                                         *)
(***************************************************************************)

\* One job's slots are as many as the microseconds of its budget.
LEMMA OneJobSlots ==
  ASSUME NEW i, NEW b \in Nat
  PROVE  IsFiniteSet({i} \X (1 .. b)) /\ Cardinality({i} \X (1 .. b)) = b
<1>1. IsFiniteSet({i}) /\ Cardinality({i}) = 1
  BY FS_Singleton
<1>2. IsFiniteSet(1 .. b) /\ Cardinality(1 .. b) = b
  BY FS_Interval, b > 0 \/ b = 0
<1> DEFINE B == 1 .. b
           P == {i} \X B
<1>3. IsFiniteSet(P) /\ Cardinality(P) = Cardinality({i}) * Cardinality(B)
  <2> HIDE DEF B
  <2> QED BY <1>1, <1>2, FS_Product, Zenon DEF B
<1>4. Cardinality(P) = 1 * b
  <2> HIDE DEF P
  <2> QED BY <1>1, <1>2, <1>3, Zenon
<1>5. 1 * b = b
  OBVIOUS
<1> QED BY <1>3, <1>4, <1>5, Zenon

\* A finite set of jobs has a finite load.
LEMMA LoadFinite ==
  ASSUME NEW js, NEW S, IsFiniteSet(S), \A i \in S : js[i].budget \in Nat
  PROVE  IsFiniteSet(Slots(js, S)) /\ Load(js, S) \in Nat
<1> DEFINE slot(i) == {i} \X (1 .. js[i].budget)
           T == {slot(i) : i \in S}
           f == [i \in S |-> slot(i)]
<1>1. f \in Surjection(S, T)
  BY DEF Surjection
<1>2. IsFiniteSet(T)
  BY <1>1, FS_Surjection
<1>3. \A X \in T : IsFiniteSet(X)
  <2> SUFFICES ASSUME NEW i \in S PROVE IsFiniteSet(slot(i))
    OBVIOUS
  <2>1. js[i].budget \in Nat
    OBVIOUS
  <2> QED BY <2>1, OneJobSlots, Zenon
<1>4. IsFiniteSet(UNION T)
  BY <1>2, <1>3, FS_UNION
<1>5. IsFiniteSet(Slots(js, S))
  BY <1>4 DEF Slots
<1> QED BY <1>5, FS_CardinalityType DEF Load

LEMMA LoadEmpty ==
  ASSUME NEW js
  PROVE  Load(js, {}) = 0
<1>1. Slots(js, {}) = {}
  BY DEF Slots
<1> QED BY <1>1, FS_EmptySet DEF Load

\* The load of a larger set is no smaller.
LEMMA LoadMonotone ==
  ASSUME NEW js, NEW T, IsFiniteSet(T), \A i \in T : js[i].budget \in Nat,
         NEW S \in SUBSET T
  PROVE  Load(js, S) <= Load(js, T)
<1>1. Slots(js, S) \subseteq Slots(js, T)
  BY DEF Slots
<1> QED BY <1>1, LoadFinite, FS_Subset DEF Load

\* Adding a job adds its budget.
LEMMA LoadAdd ==
  ASSUME NEW js, NEW S, IsFiniteSet(S), \A i \in S : js[i].budget \in Nat,
         NEW i, i \notin S, js[i].budget \in Nat
  PROVE  Load(js, S \cup {i}) = Load(js, S) + js[i].budget
<1> DEFINE slot == {i} \X (1 .. js[i].budget)
<1>1. Slots(js, S \cup {i}) = Slots(js, S) \cup slot
  BY DEF Slots
<1>2. Slots(js, S) \cap slot = {}
  BY DEF Slots
<1>3. IsFiniteSet(slot) /\ Cardinality(slot) = js[i].budget
  BY OneJobSlots
<1>4. IsFiniteSet(Slots(js, S)) /\ Cardinality(Slots(js, S)) \in Nat
  BY LoadFinite DEF Load
<1>5. Cardinality(Slots(js, S) \cup slot) = Cardinality(Slots(js, S)) + js[i].budget
  <2>1. Cardinality(Slots(js, S) \cup slot)
          = Cardinality(Slots(js, S)) + Cardinality(slot) - Cardinality(Slots(js, S) \cap slot)
    BY <1>3, <1>4, FS_Union
  <2>2. Cardinality(Slots(js, S) \cap slot) = 0
    BY <1>2, FS_EmptySet
  <2> HIDE DEF slot
  <2> QED BY <2>1, <2>2, <1>3, <1>4
<1> QED BY <1>1, <1>5 DEF Load

-----------------------------------------------------------------------------
(***************************************************************************)
(* Type correctness.                                                       *)
(***************************************************************************)

LEMMA TypeInit == Init => TypeOK
<1> USE TableAssumption, SchedulerAssumption
<1> SUFFICES ASSUME Init PROVE TypeOK
  OBVIOUS
<1> USE DEF Init
<1>1. <<>> \in Seq(JobRecords) /\ <<>> \in Seq(Names) /\ <<>> \in Seq(Nat)
  BY EmptySeq
<1>2. \A i \in DOMAIN jobs : Acceptable(jobs[i])
  OBVIOUS
<1>3. seq \in [Topics -> 0 .. MaxSeq]
  OBVIOUS
<1> QED BY <1>1, <1>2, <1>3 DEF TypeOK

LEMMA TypeStep == TypeOK /\ [Next]_vars => TypeOK'
<1> USE TableAssumption, SchedulerAssumption
<1> SUFFICES ASSUME TypeOK, [Next]_vars PROVE TypeOK'
  OBVIOUS
<1> USE DEF TypeOK
<1>1. \A T : \A s \in [Topics -> 0 .. MaxSeq] : Publish(s, T) \in [Topics -> 0 .. MaxSeq]
  BY DEF Publish
<1>2. NextTick => tick' \in Nat
  BY DEF NextTick
<1>3. ASSUME NEW name \in Names, NEW job \in Offers, Register(name, job)
      PROVE  TypeOK'
  <2>1. job \in JobRecords
    OBVIOUS
  <2>2. /\ jobs' \in Seq(JobRecords) /\ names' \in Seq(Names) /\ lastSeen' \in Seq(Nat)
        /\ Len(names') = Len(jobs') /\ Len(lastSeen') = Len(jobs')
        /\ DOMAIN jobs \subseteq DOMAIN jobs'
    BY <1>3, <2>1 DEF Register
  <2>3. \A i \in DOMAIN jobs' : Acceptable(jobs'[i])
    BY <1>3, <2>1 DEF Register
  <2> QED BY <1>3, <2>2, <2>3 DEF Register, frame
<1>4. CASE Start
  BY <1>4 DEF Start, frame
<1>5. ASSUME NEW inputs \in SUBSET InputTopics, BeginFrame(inputs)
      PROVE  TypeOK'
  BY <1>1, <1>5 DEF BeginFrame
<1>6. ASSUME NEW i \in DOMAIN jobs, NotDue(i)
      PROVE  TypeOK'
  BY <1>6 DEF NotDue
<1>7. ASSUME NEW i \in DOMAIN jobs, Overrun(i)
      PROVE  TypeOK'
  BY <1>1, <1>7 DEF Overrun, IsNext
<1>8. ASSUME NEW i \in DOMAIN jobs, NEW published \in SUBSET jobs[i].publishes,
             NEW observed \in Observations, RunJob(i, published, observed)
      PROVE  TypeOK'
  <2>1. seq' \in [Topics -> 0 .. MaxSeq]
    BY <1>1, <1>8 DEF RunJob
  <2>2. lastSeen' \in Seq(Nat) /\ Len(lastSeen') = Len(jobs)
    <3>1. CASE IsTopic(jobs[i])
      <4> DEFINE after == Publish(seq, published)
      <4>1. after[jobs[i].trigger.topic] \in Nat
        <5>1. jobs[i] \in JobRecords
          BY ElementOfSeq
        <5>2. jobs[i].trigger.topic \in Topics
          BY <3>1, <5>1 DEF IsTopic, JobRecords, Triggers
        <5> QED BY <1>1, <5>2
      <4>2. lastSeen' = [lastSeen EXCEPT ![i] = after[jobs[i].trigger.topic]]
        BY <1>8, <3>1 DEF RunJob
      <4> HIDE DEF after
      <4> QED BY <4>1, <4>2, ExceptSeq
    <3>2. CASE ~IsTopic(jobs[i])
      BY <1>8, <3>2 DEF RunJob
    <3> QED BY <3>1, <3>2
  <2>3. remaining' \in Nat
    <3>1. jobs[i] \in JobRecords
      BY ElementOfSeq
    <3>2. jobs[i].budget \in Nat
      BY <3>1 DEF JobRecords
    <3> QED BY <1>8, <3>2 DEF RunJob, Fits
  <2> QED BY <1>8, <2>1, <2>2, <2>3 DEF RunJob, IsNext
<1>9. ASSUME NEW i \in DOMAIN jobs, NEW published \in SUBSET jobs[i].publishes,
             JobFails(i, published)
      PROVE  TypeOK'
  BY <1>1, <1>2, <1>9 DEF JobFails
<1>10. CASE EndFrame
  BY <1>2, <1>10 DEF EndFrame, frame
<1>11. CASE UNCHANGED vars
  BY <1>11 DEF vars, frame
<1> QED
  BY <1>3, <1>4, <1>5, <1>6, <1>7, <1>8, <1>9, <1>10, <1>11
     DEF Next, BeginAny, Evaluate, RunAny, FailAny

\* The scheduler's state keeps its shape whatever is registered, published or
\* fails (register_inner, dispatch_with_timing_observer, Bus::publish).
THEOREM TypeCorrect == Spec => []TypeOK
BY TypeInit, TypeStep, PTL DEF Spec

-----------------------------------------------------------------------------
(***************************************************************************)
(* Budget accounting and the absence of overruns.  FeasibleNeverOverruns   *)
(* is not inductive: that a due job still fits follows from the exact      *)
(* account of the budget and from what ran being part of the frame's       *)
(* packed demand.                                                          *)
(***************************************************************************)
FrameInv ==
  /\ TypeOK
  /\ mode = "register" => ran = {} /\ skipped = {} /\ ~validated
  /\ mode = "dispatch" => ran \subseteq Demand(jobs, tick)
  /\ BudgetAccounting
  /\ validated => Feasible(jobs)
  /\ FeasibleNeverOverruns

\* Sets of registered jobs are finite and their budgets are numbers.
LEMMA JobSets ==
  ASSUME TypeOK, NEW S \in SUBSET DOMAIN jobs
  PROVE  IsFiniteSet(S) /\ \A i \in S : jobs[i].budget \in Nat
<1>1. DOMAIN jobs = 1 .. Len(jobs) /\ Len(jobs) \in Nat
  BY DEF TypeOK
<1>2. IsFiniteSet(1 .. Len(jobs))
  BY <1>1, FS_Interval
<1>3. IsFiniteSet(S)
  BY <1>1, <1>2, FS_Subset
<1>4. \A i \in DOMAIN jobs : jobs[i] \in JobRecords
  BY <1>1, ElementOfSeq DEF TypeOK
<1> QED BY <1>3, <1>4 DEF JobRecords

\* A job that is due belongs to the demand packed into the tick.
LEMMA DueInDemand ==
  ASSUME TypeOK, NEW i \in DOMAIN jobs, Due(i)
  PROVE  i \in Demand(jobs, tick)
BY DEF Due, Demand

\* Packing one hyperperiod packs every tick.
LEMMA FeasibleEveryTick ==
  ASSUME TypeOK, Feasible(jobs)
  PROVE  Load(jobs, Demand(jobs, tick)) <= FrameBudget
<1>1. PICK h \in 1 .. HyperCap :
        /\ \A p \in Periods(jobs) : h % p = 0
        /\ \A t \in 0 .. h - 1 : Load(jobs, Demand(jobs, t)) <= FrameBudget
  BY DEF Feasible, IsHyperperiod, CommonMultiples
<1>2. h \in Nat \ {0}
  BY TableAssumption
<1>3. tick % h \in 0 .. h - 1 /\ tick \in Nat
  BY <1>2 DEF TypeOK
<1>4. \A i \in DOMAIN jobs :
        ~IsTopic(jobs[i]) => (PeriodicDue(jobs[i], tick % h) <=> PeriodicDue(jobs[i], tick))
  <2> SUFFICES ASSUME NEW i \in DOMAIN jobs, ~IsTopic(jobs[i])
               PROVE  PeriodicDue(jobs[i], tick % h) <=> PeriodicDue(jobs[i], tick)
    OBVIOUS
  <2>1. jobs[i] \in JobRecords /\ Acceptable(jobs[i])
    BY ElementOfSeq DEF TypeOK
  <2>2. IsPeriodic(jobs[i])
    BY <2>1 DEF JobRecords, Triggers, IsTopic, IsPeriodic
  <2>3. jobs[i].trigger.period \in Nat \ {0}
    BY <2>1, <2>2 DEF JobRecords, Triggers, IsPeriodic, Acceptable
  <2>4. h % jobs[i].trigger.period = 0
    BY <1>1, <2>2 DEF Periods
  <2> QED BY <1>2, <1>3, <2>3, <2>4, ReleaseModuloHyperperiod DEF PeriodicDue
<1>5. Demand(jobs, tick % h) = Demand(jobs, tick)
  BY <1>4 DEF Demand
<1> QED BY <1>1, <1>3, <1>5

\* In a validated schedule every due job that has not run fits.
LEMMA DueJobFits ==
  ASSUME FrameInv, mode = "dispatch", validated,
         NEW i \in DOMAIN jobs, i \notin ran, Due(i)
  PROVE  Fits(i)
<1> USE DEF FrameInv
<1>1. ran \cup {i} \subseteq Demand(jobs, tick)
  BY DueInDemand
<1>2. Demand(jobs, tick) \subseteq DOMAIN jobs /\ ran \subseteq DOMAIN jobs
  BY DEF Demand, TypeOK
<1>3. IsFiniteSet(Demand(jobs, tick)) /\ \A k \in Demand(jobs, tick) : jobs[k].budget \in Nat
  BY <1>2, JobSets
<1>4. IsFiniteSet(ran) /\ \A k \in ran : jobs[k].budget \in Nat
  BY <1>2, JobSets
<1>5. jobs[i].budget \in Nat
  BY <1>1, <1>3
<1>6. Load(jobs, ran \cup {i}) = Load(jobs, ran) + jobs[i].budget
  BY <1>4, <1>5, LoadAdd
<1>7. Load(jobs, ran \cup {i}) <= Load(jobs, Demand(jobs, tick))
  BY <1>1, <1>3, LoadMonotone
<1>8. Load(jobs, Demand(jobs, tick)) <= FrameBudget
  BY FeasibleEveryTick
<1>9. Load(jobs, ran) \in Nat /\ Load(jobs, Demand(jobs, tick)) \in Nat
  BY <1>3, <1>4, LoadFinite
<1>10. Load(jobs, ran) + remaining = FrameBudget /\ remaining \in Nat /\ FrameBudget \in Nat
  BY TableAssumption DEF BudgetAccounting, TypeOK
<1> QED BY <1>5, <1>6, <1>7, <1>8, <1>9, <1>10 DEF Fits

LEMMA FrameInvInit == Init => FrameInv
<1> SUFFICES ASSUME Init PROVE FrameInv
  OBVIOUS
<1> USE DEF Init
<1>1. TypeOK
  BY TypeInit
<1>2. Load(jobs, ran) = 0
  BY LoadEmpty
<1> QED BY <1>1, <1>2, TableAssumption DEF FrameInv, BudgetAccounting, FeasibleNeverOverruns

LEMMA FrameInvStep == FrameInv /\ [Next]_vars => FrameInv'
<1> SUFFICES ASSUME FrameInv, [Next]_vars PROVE FrameInv'
  OBVIOUS
<1>1. TypeOK /\ TypeOK'
  BY TypeStep DEF FrameInv
<1> USE DEF FrameInv
<1>2. ASSUME NEW name \in Names, NEW job \in Offers, Register(name, job)
      PROVE  FrameInv'
  <2>1. ran' = {} /\ skipped' = {} /\ mode' = "register" /\ ~validated' /\ remaining' = remaining
    BY <1>2 DEF Register, frame
  <2>2. Load(jobs', ran') = 0 /\ Load(jobs, ran) = 0
    BY <1>2, <2>1, LoadEmpty DEF Register
  <2> QED BY <1>1, <2>1, <2>2 DEF BudgetAccounting, FeasibleNeverOverruns
<1>3. CASE Start
  BY <1>1, <1>3 DEF Start, frame, BudgetAccounting, FeasibleNeverOverruns
<1>4. ASSUME NEW inputs \in SUBSET InputTopics, BeginFrame(inputs)
      PROVE  FrameInv'
  <2>1. Load(jobs', ran') = 0 /\ remaining' = FrameBudget /\ ran' = {} /\ skipped' = {}
    BY <1>4, LoadEmpty DEF BeginFrame
  <2>2. jobs' = jobs /\ validated' = validated /\ mode' = "dispatch"
    BY <1>4 DEF BeginFrame
  <2> QED BY <1>1, <2>1, <2>2, TableAssumption DEF BudgetAccounting, FeasibleNeverOverruns
<1>5. ASSUME NEW i \in DOMAIN jobs, NotDue(i)
      PROVE  FrameInv'
  BY <1>1, <1>5 DEF NotDue, BudgetAccounting, FeasibleNeverOverruns
<1>6. ASSUME NEW i \in DOMAIN jobs, Overrun(i)
      PROVE  FrameInv'
  <2>1. i \notin ran /\ mode = "dispatch" /\ Due(i) /\ ~Fits(i)
    BY <1>1, <1>6 DEF Overrun, IsNext, TypeOK
  <2>2. ~validated
    BY <2>1, DueJobFits
  <2> QED BY <1>1, <1>6, <2>2 DEF Overrun, BudgetAccounting, FeasibleNeverOverruns
<1>7. ASSUME NEW i \in DOMAIN jobs, NEW published \in SUBSET jobs[i].publishes,
             NEW observed \in Observations, RunJob(i, published, observed)
      PROVE  FrameInv'
  <2>1. i \notin ran /\ mode = "dispatch" /\ Due(i) /\ Fits(i)
    BY <1>1, <1>7 DEF RunJob, IsNext, TypeOK
  <2>2. /\ ran' = ran \cup {i} /\ remaining' = remaining - jobs[i].budget
        /\ UNCHANGED <<jobs, mode, validated, tick, skipped>>
    BY <1>7 DEF RunJob
  <2>3. ran' \subseteq Demand(jobs, tick)
    BY <1>1, <2>1, <2>2, DueInDemand
  <2>4. Load(jobs, ran') = Load(jobs, ran) + jobs[i].budget
    <3>1. IsFiniteSet(ran) /\ \A k \in ran \cup {i} : jobs[k].budget \in Nat
      <4>1. ran \subseteq DOMAIN jobs /\ ran \cup {i} \subseteq DOMAIN jobs
        BY <1>1 DEF TypeOK
      <4> QED BY <1>1, <4>1, JobSets
    <3> QED BY <2>1, <2>2, <3>1, LoadAdd
  <2>5. Load(jobs, ran') + remaining' = FrameBudget
    <3>1. Load(jobs, ran) \in Nat /\ jobs[i].budget \in Nat /\ remaining \in Nat
      <4>1. ran \subseteq DOMAIN jobs /\ {i} \subseteq DOMAIN jobs /\ remaining \in Nat
        BY <1>1 DEF TypeOK
      <4>2. IsFiniteSet(ran) /\ \A k \in ran : jobs[k].budget \in Nat
        BY <1>1, <4>1, JobSets
      <4>3. jobs[i].budget \in Nat
        BY <1>1, <4>1, JobSets
      <4> QED BY <4>1, <4>2, <4>3, LoadFinite
    <3>2. Load(jobs, ran) + remaining = FrameBudget
      BY DEF BudgetAccounting
    <3> QED BY <2>2, <2>4, <3>1, <3>2
  <2> QED BY <1>1, <2>1, <2>2, <2>3, <2>5 DEF BudgetAccounting, FeasibleNeverOverruns
<1>8. ASSUME NEW i \in DOMAIN jobs, NEW published \in SUBSET jobs[i].publishes,
             JobFails(i, published)
      PROVE  FrameInv'
  BY <1>1, <1>8 DEF JobFails, BudgetAccounting, FeasibleNeverOverruns
<1>9. CASE EndFrame
  BY <1>1, <1>9 DEF EndFrame, frame, BudgetAccounting, FeasibleNeverOverruns
<1>10. CASE UNCHANGED vars
  <2>1. UNCHANGED <<jobs, mode, validated, tick, ran, skipped, remaining>>
    BY <1>10 DEF vars, frame
  <2> QED BY <1>1, <2>1 DEF BudgetAccounting, FeasibleNeverOverruns, Demand
<1> QED
  BY <1>2, <1>3, <1>4, <1>5, <1>6, <1>7, <1>8, <1>9, <1>10
     DEF Next, BeginAny, Evaluate, RunAny, FailAny

\* In every state the work a frame started and what is left of its budget add
\* up to the frame budget (remaining_budget in dispatch_with_timing_observer).
THEOREM BudgetAlwaysAccounted == Spec => []BudgetAccounting
<1>1. FrameInv => BudgetAccounting
  BY DEF FrameInv
<1> QED BY FrameInvInit, FrameInvStep, <1>1, PTL DEF Spec

\* A table accepted by validate_frame_packing never skips a job, for every
\* table, frame budget, tick and pattern of topic updates.
THEOREM NoOverrunWhenFeasible == Spec => []FeasibleNeverOverruns
<1>1. FrameInv => FeasibleNeverOverruns
  BY DEF FrameInv
<1> QED BY FrameInvInit, FrameInvStep, <1>1, PTL DEF Spec

-----------------------------------------------------------------------------
(***************************************************************************)
(* The order of a frame.  Jobs evaluated so far are ahead of those still   *)
(* to evaluate, a due periodic job among them ran or was skipped, and a    *)
(* job that ran is due again only through a job evaluated after it.        *)
(***************************************************************************)
Evaluated == DOMAIN jobs \ todo

OrderInv ==
  /\ mode = "dispatch" =>
       /\ failed = 0
       /\ \A i \in Evaluated, k \in todo : Before(jobs, i, k)
       /\ \A k \in Evaluated :
            IsPeriodic(jobs[k]) /\ PeriodicDue(jobs[k], tick) => k \in ran \cup skipped
  /\ mode # "register" => validated = RequireValidation
  /\ OwnPublishesConsumed

\* Publishing never lowers a counter, and raises only those of its topics.
LEMMA PublishRaises ==
  ASSUME NEW s \in [Topics -> 0 .. MaxSeq], NEW T, NEW t \in Topics
  PROVE  /\ Publish(s, T) \in [Topics -> 0 .. MaxSeq]
         /\ Publish(s, T)[t] >= s[t]
         /\ Publish(s, T)[t] # s[t] => t \in T
BY SchedulerAssumption DEF Publish

\* What a topic-driven job refers to.
LEMMA TriggerTopic ==
  ASSUME TypeOK, NEW i \in DOMAIN jobs
  PROVE  /\ IsTopic(jobs[i]) => jobs[i].trigger.topic \in Topics
         /\ ~IsTopic(jobs[i]) <=> IsPeriodic(jobs[i])
         /\ lastSeen[i] \in Nat /\ jobs[i].priority \in Nat
<1>1. jobs[i] \in JobRecords /\ lastSeen[i] \in Nat
  BY ElementOfSeq DEF TypeOK
<1> QED BY <1>1 DEF JobRecords, Triggers, IsTopic, IsPeriodic

\* A step of job k other than its own run, publishing on the topics T, wakes a
\* job only through T.
LEMMA WokenThrough ==
  ASSUME TypeOK, NEW i \in DOMAIN jobs, NEW T, seq' = Publish(seq, T),
         jobs' = jobs, lastSeen'[i] = lastSeen[i], Pending(i)', ~Pending(i)
  PROVE  jobs[i].trigger.topic \in T
<1>1. IsTopic(jobs[i]) /\ jobs[i].trigger.topic \in Topics
  BY TriggerTopic DEF Pending
<1>2. Publish(seq, T)[jobs[i].trigger.topic] # seq[jobs[i].trigger.topic]
  BY <1>1 DEF Pending
<1> QED BY <1>1, <1>2, PublishRaises DEF TypeOK

\* Taking the next job off leaves the evaluated ones ahead of the rest.
LEMMA NextAhead ==
  ASSUME TypeOK, OrderInv, mode = "dispatch", NEW i \in DOMAIN jobs, IsNext(i)
  PROVE  /\ \A j \in Evaluated \cup {i}, k \in todo \ {i} : Before(jobs, j, k)
         /\ \A j \in Evaluated : Before(jobs, j, i)
         /\ DOMAIN jobs \ (todo \ {i}) = Evaluated \cup {i}
BY DEF OrderInv, IsNext, Evaluated, TypeOK

\* The excuse OwnPublishesConsumed asks for when a job that ran is due again.
Excused(i) ==
  \/ \E k \in Evaluated \cup {failed} :
       /\ k # 0 /\ Before(jobs, i, k)
       /\ jobs[i].trigger.topic \in jobs[k].publishes \cup {OverrunTopic, TimingTopic, SlipTopic}
  \/ jobs[i].trigger.topic \in {TimingTopic, SlipTopic}

LEMMA ConsumedMeansExcused ==
  OwnPublishesConsumed <=> \A i \in ran : Pending(i) => Excused(i)
BY DEF OwnPublishesConsumed, Excused, Evaluated

LEMMA OrderInit == Init => OrderInv
BY DEF Init, OrderInv, OwnPublishesConsumed

LEMMA NotDueKeepsOrder ==
  ASSUME TypeOK, OrderInv, NEW j \in DOMAIN jobs, NotDue(j)
  PROVE  OrderInv'
<1>1. /\ mode = "dispatch" /\ IsNext(j) /\ ~Due(j) /\ todo' = todo \ {j} /\ j \in todo
      /\ UNCHANGED <<jobs, lastSeen, seq, mode, validated, tick, ran, skipped, failed>>
  BY DEF NotDue, IsNext
<1>2. /\ failed = 0 /\ Evaluated' = Evaluated \cup {j}
      /\ \A i \in Evaluated', k \in todo' : Before(jobs, i, k)
  BY <1>1, NextAhead DEF Evaluated, OrderInv
<1>3. \A k \in Evaluated' :
        IsPeriodic(jobs[k]) /\ PeriodicDue(jobs[k], tick) => k \in ran \cup skipped
  BY <1>1, <1>2, TriggerTopic DEF OrderInv, Due
<1>4. \A i \in ran : Pending(i)' => Excused(i)'
  <2> SUFFICES ASSUME NEW i \in ran, Pending(i)' PROVE Excused(i)'
    OBVIOUS
  <2>1. Pending(i)
    BY <1>1 DEF Pending
  <2> QED BY <1>1, <1>2, <2>1, ConsumedMeansExcused DEF Excused, OrderInv
<1>5. OwnPublishesConsumed'
  BY <1>1, <1>4 DEF OwnPublishesConsumed, Excused, Evaluated
<1> QED BY <1>1, <1>2, <1>3, <1>5 DEF OrderInv

LEMMA OverrunKeepsOrder ==
  ASSUME TypeOK, OrderInv, NEW j \in DOMAIN jobs, Overrun(j)
  PROVE  OrderInv'
<1>1. /\ mode = "dispatch" /\ IsNext(j) /\ todo' = todo \ {j} /\ j \in todo
      /\ skipped' = skipped \cup {j} /\ seq' = Publish(seq, {OverrunTopic})
      /\ UNCHANGED <<jobs, lastSeen, mode, validated, tick, ran, failed>>
  BY DEF Overrun, IsNext
<1>2. /\ failed = 0 /\ Evaluated' = Evaluated \cup {j}
      /\ \A i \in Evaluated', k \in todo' : Before(jobs, i, k)
      /\ \A i \in Evaluated : Before(jobs, i, j)
  BY <1>1, NextAhead DEF Evaluated, OrderInv
<1>3. \A k \in Evaluated' :
        IsPeriodic(jobs[k]) /\ PeriodicDue(jobs[k], tick) => k \in ran \cup skipped'
  BY <1>1, <1>2 DEF OrderInv
<1>4. ASSUME NEW i \in ran, Pending(i)' PROVE Excused(i)'
  <2>1. i \in Evaluated /\ i \in DOMAIN jobs
    BY DEF TypeOK, Evaluated
  <2>2. CASE Pending(i)
    BY <1>1, <1>2, <2>2, ConsumedMeansExcused DEF Excused, OrderInv
  <2>3. CASE ~Pending(i)
    <3>1. jobs[i].trigger.topic = OverrunTopic
      BY <1>1, <1>4, <2>1, <2>3, WokenThrough
    <3>2. j # 0 /\ j \in Evaluated' /\ Before(jobs, i, j)
      BY <1>2, <2>1 DEF TypeOK
    <3> QED BY <1>1, <3>1, <3>2 DEF Excused
  <2> QED BY <2>2, <2>3
<1>5. OwnPublishesConsumed'
  BY <1>1, <1>4 DEF OwnPublishesConsumed, Excused, Evaluated
<1> QED BY <1>1, <1>2, <1>3, <1>5 DEF OrderInv

\* The run of job j wakes an evaluated job, itself included, only with an excuse.
LEMMA RunExcuses ==
  ASSUME TypeOK, OrderInv, NEW j \in DOMAIN jobs, NEW published \in SUBSET jobs[j].publishes,
         NEW observed \in Observations, RunJob(j, published, observed),
         NEW i \in Evaluated \cup {j}, i # j /\ Pending(i) => Excused(i), Pending(i)'
  PROVE  Excused(i)'
<1> DEFINE after   == Publish(seq, published)
           reports == TimingReports(observed)
           t       == jobs[i].trigger.topic
<1>1. /\ mode = "dispatch" /\ IsNext(j) /\ todo' = todo \ {j} /\ j \in todo
      /\ seq' = Publish(after, reports)
      /\ lastSeen' = IF IsTopic(jobs[j])
                     THEN [lastSeen EXCEPT ![j] = after[jobs[j].trigger.topic]]
                     ELSE lastSeen
      /\ UNCHANGED <<jobs, mode, failed>>
  BY DEF RunJob, IsNext
<1>2. /\ failed = 0 /\ Evaluated' = Evaluated \cup {j}
      /\ \A k \in Evaluated : Before(jobs, k, j)
  BY <1>1, NextAhead DEF Evaluated, OrderInv
<1>3. after \in [Topics -> 0 .. MaxSeq] /\ reports \subseteq {TimingTopic, SlipTopic}
  BY PublishRaises DEF TypeOK, TimingReports, Publish
<1>4. DOMAIN lastSeen = DOMAIN jobs
  BY DEF TypeOK
<1>5. i \in DOMAIN jobs /\ IsTopic(jobs[i]) /\ t \in Topics
  BY <1>1, TriggerTopic DEF TypeOK, Pending, Evaluated
<1>6. seq'[t] > lastSeen'[i]
  BY <1>1 DEF Pending
<1>7. /\ seq'[t] \in Nat /\ after[t] \in Nat /\ seq[t] \in Nat /\ lastSeen[i] \in Nat
      /\ after[t] # seq[t] => t \in published
      /\ seq'[t] # after[t] => t \in reports
  <2>1. seq \in [Topics -> 0 .. MaxSeq] /\ lastSeen[i] \in Nat
    BY <1>5, TriggerTopic DEF TypeOK
  <2>2. after[t] # seq[t] => t \in published
    BY <1>5, <2>1, PublishRaises
  <2> HIDE DEF after, reports
  <2>3. seq' \in [Topics -> 0 .. MaxSeq] /\ (seq'[t] # after[t] => t \in reports)
    BY <1>1, <1>3, <1>5, PublishRaises
  <2>4. t \in Topics
    BY <1>5
  <2> HIDE DEF t
  <2> QED BY <1>3, <2>1, <2>2, <2>3, <2>4, SchedulerAssumption
<1>8. CASE i = j
  <2>1. lastSeen'[i] = after[t]
    BY <1>1, <1>4, <1>5, <1>8
  <2>2. t \in reports
    <3> HIDE DEF t, after
    <3> QED BY <1>6, <1>7, <2>1
  <2> QED BY <1>1, <1>3, <2>2 DEF Excused
<1>9. CASE i # j
  <2>1. i \in Evaluated /\ lastSeen'[i] = lastSeen[i]
    BY <1>1, <1>4, <1>9
  <2>2. CASE Pending(i)
    BY <1>1, <1>2, <1>9, <2>2 DEF Excused
  <2>3. CASE ~Pending(i)
    <3>1. seq'[t] # seq[t]
      BY <1>5, <1>6, <2>1, <2>3 DEF Pending
    <3>2. t \in published \/ t \in reports
      <4> HIDE DEF t, after
      <4> QED BY <1>7, <3>1
    <3>3. t \in jobs[j].publishes \cup {OverrunTopic, TimingTopic, SlipTopic}
      BY <1>3, <3>2
    <3>4. j # 0 /\ j \in Evaluated' /\ Before(jobs, i, j)
      BY <1>2, <2>1 DEF TypeOK
    <3> QED BY <1>1, <3>3, <3>4 DEF Excused
  <2> QED BY <2>2, <2>3
<1> QED BY <1>8, <1>9

LEMMA RunKeepsOrder ==
  ASSUME TypeOK, OrderInv, NEW j \in DOMAIN jobs, NEW published \in SUBSET jobs[j].publishes,
         NEW observed \in Observations, RunJob(j, published, observed)
  PROVE  OrderInv'
<1>1. /\ mode = "dispatch" /\ IsNext(j) /\ todo' = todo \ {j} /\ j \in todo
      /\ ran' = ran \cup {j}
      /\ UNCHANGED <<jobs, mode, validated, tick, skipped, failed>>
  BY DEF RunJob, IsNext
<1>2. /\ failed = 0 /\ Evaluated' = Evaluated \cup {j}
      /\ \A i \in Evaluated', k \in todo' : Before(jobs, i, k)
  BY <1>1, NextAhead DEF Evaluated, OrderInv
<1>3. \A k \in Evaluated' :
        IsPeriodic(jobs[k]) /\ PeriodicDue(jobs[k], tick) => k \in ran' \cup skipped
  BY <1>1, <1>2 DEF OrderInv
<1>4. ASSUME NEW i \in ran', Pending(i)' PROVE Excused(i)'
  <2>1. i \in Evaluated \cup {j}
    BY <1>1 DEF TypeOK, Evaluated
  <2>2. i # j /\ Pending(i) => Excused(i)
    BY <1>1, ConsumedMeansExcused DEF OrderInv
  <2> QED BY <1>4, <2>1, <2>2, RunExcuses
<1>5. OwnPublishesConsumed'
  BY <1>1, <1>4 DEF OwnPublishesConsumed, Excused, Evaluated
<1> QED BY <1>1, <1>2, <1>3, <1>5 DEF OrderInv

LEMMA FailKeepsOrder ==
  ASSUME TypeOK, OrderInv, NEW j \in DOMAIN jobs, NEW published \in SUBSET jobs[j].publishes,
         JobFails(j, published)
  PROVE  OrderInv'
<1>1. /\ mode = "dispatch" /\ mode' = "idle" /\ IsNext(j) /\ failed = 0 /\ failed' = j
      /\ seq' = Publish(seq, published)
      /\ UNCHANGED <<jobs, lastSeen, validated, todo, ran>>
  BY DEF JobFails, OrderInv
<1>2. \A i \in Evaluated : Before(jobs, i, j)
  BY <1>1, NextAhead
<1>3. ASSUME NEW i \in ran, Pending(i)' PROVE Excused(i)'
  <2>1. i \in Evaluated /\ i \in DOMAIN jobs
    BY DEF TypeOK, Evaluated
  <2>2. CASE Pending(i)
    BY <1>1, <2>2, ConsumedMeansExcused DEF Excused, OrderInv, Evaluated
  <2>3. CASE ~Pending(i)
    <3>1. jobs[i].trigger.topic \in jobs[j].publishes
      BY <1>1, <1>3, <2>1, <2>3, WokenThrough
    <3>2. j # 0 /\ Before(jobs, i, j)
      BY <1>2, <2>1 DEF TypeOK
    <3> QED BY <1>1, <3>1, <3>2 DEF Excused
  <2> QED BY <2>2, <2>3
<1>4. OwnPublishesConsumed'
  BY <1>1, <1>3 DEF OwnPublishesConsumed, Excused, Evaluated
<1> QED BY <1>1, <1>4 DEF OrderInv

LEMMA OrderStep == FrameInv /\ OrderInv /\ [Next]_vars => OrderInv'
<1> SUFFICES ASSUME FrameInv, OrderInv, [Next]_vars PROVE OrderInv'
  OBVIOUS
<1>0. TypeOK
  BY DEF FrameInv
<1>1. ASSUME NEW name \in Names, NEW job \in Offers, Register(name, job)
      PROVE  OrderInv'
  BY <1>1 DEF Register, OrderInv, OwnPublishesConsumed, FrameInv, frame
<1>2. CASE Start
  <2>1. ran' = {} /\ mode' = "idle" /\ validated' = RequireValidation
    BY <1>2 DEF Start, FrameInv, frame
  <2> QED BY <2>1 DEF OrderInv, OwnPublishesConsumed
<1>3. ASSUME NEW inputs \in SUBSET InputTopics, BeginFrame(inputs)
      PROVE  OrderInv'
  BY <1>3 DEF BeginFrame, OrderInv, OwnPublishesConsumed, Evaluated
<1>4. ASSUME NEW i \in DOMAIN jobs, Evaluate(i)
      PROVE  OrderInv'
  BY <1>0, <1>4, NotDueKeepsOrder, OverrunKeepsOrder, RunKeepsOrder, FailKeepsOrder
     DEF Evaluate, RunAny, FailAny
<1>5. CASE EndFrame \/ UNCHANGED vars
  <2>1. /\ UNCHANGED <<jobs, lastSeen, seq, validated, todo, ran, skipped, failed>>
        /\ (mode' = "idle" /\ mode = "dispatch") \/ UNCHANGED <<mode, tick>>
    BY <1>5 DEF EndFrame, vars, frame
  <2>2. OwnPublishesConsumed'
    BY <2>1 DEF OrderInv, OwnPublishesConsumed, Pending
  <2> QED BY <2>1, <2>2 DEF OrderInv, Evaluated
<1> QED BY <1>1, <1>2, <1>3, <1>4, <1>5 DEF Next, BeginAny

LEMMA FrameInvariant == Spec => []FrameInv
BY FrameInvInit, FrameInvStep, PTL DEF Spec

\* What a job publishes on its own trigger topic never wakes it again, whatever
\* other jobs, overrun reports and errors do in the frame (last_seen is read
\* back after the run, dispatch_with_timing_observer).
THEOREM OwnPublishesAlwaysConsumed == Spec => []OwnPublishesConsumed
<1>1. OrderInv => OwnPublishesConsumed
  BY DEF OrderInv
<1> QED BY OrderInit, OrderStep, FrameInvariant, <1>1, PTL DEF Spec

-----------------------------------------------------------------------------
\* In a frame of a validated schedule a job that has had its turn, whether it ran
\* or was not due, waits for the next frame only with an update that came after
\* its turn: from a job dispatched later, or as a report of the scheduler.
WakeupsServedInFrame ==
  validated /\ mode = "dispatch" => \A i \in Evaluated : Pending(i) => Excused(i)

LEMMA NotDueKeepsServed ==
  ASSUME TypeOK, OrderInv, WakeupsServedInFrame, NEW j \in DOMAIN jobs, NotDue(j)
  PROVE  WakeupsServedInFrame'
<1>1. /\ mode = "dispatch" /\ IsNext(j) /\ ~Due(j) /\ todo' = todo \ {j}
      /\ UNCHANGED <<jobs, lastSeen, seq, mode, validated, failed>>
  BY DEF NotDue
<1>2. Evaluated' = Evaluated \cup {j} /\ ~Pending(j)
  BY <1>1, NextAhead DEF Evaluated, Due, Pending
<1> QED BY <1>1, <1>2 DEF WakeupsServedInFrame, Pending, Excused

LEMMA RunKeepsServed ==
  ASSUME TypeOK, OrderInv, WakeupsServedInFrame, NEW j \in DOMAIN jobs,
         NEW published \in SUBSET jobs[j].publishes, NEW observed \in Observations,
         RunJob(j, published, observed)
  PROVE  WakeupsServedInFrame'
<1>1. /\ mode = "dispatch" /\ IsNext(j) /\ todo' = todo \ {j}
      /\ UNCHANGED <<jobs, mode, validated>>
  BY DEF RunJob
<1>2. Evaluated' = Evaluated \cup {j}
  BY <1>1, NextAhead DEF Evaluated
<1>3. ASSUME validated, NEW i \in Evaluated', Pending(i)' PROVE Excused(i)'
  <2>1. i # j /\ Pending(i) => Excused(i)
    BY <1>1, <1>2, <1>3 DEF WakeupsServedInFrame
  <2> QED BY <1>2, <1>3, <2>1, RunExcuses
<1> QED BY <1>1, <1>3 DEF WakeupsServedInFrame

LEMMA ServedStep ==
  FrameInv /\ OrderInv /\ WakeupsServedInFrame /\ [Next]_vars => WakeupsServedInFrame'
<1> SUFFICES ASSUME FrameInv, OrderInv, WakeupsServedInFrame, [Next]_vars
             PROVE  WakeupsServedInFrame'
  OBVIOUS
<1>0. TypeOK
  BY DEF FrameInv
<1>1. ASSUME NEW name \in Names, NEW job \in Offers, Register(name, job)
      PROVE  WakeupsServedInFrame'
  BY <1>1 DEF Register, WakeupsServedInFrame
<1>2. CASE Start
  BY <1>2 DEF Start, WakeupsServedInFrame
<1>3. ASSUME NEW inputs \in SUBSET InputTopics, BeginFrame(inputs)
      PROVE  WakeupsServedInFrame'
  BY <1>3 DEF BeginFrame, WakeupsServedInFrame, Evaluated
<1>4. ASSUME NEW i \in DOMAIN jobs, Evaluate(i)
      PROVE  WakeupsServedInFrame'
  <2>1. CASE NotDue(i)
    BY <1>0, <2>1, NotDueKeepsServed
  <2>2. CASE Overrun(i)
    <3>1. /\ mode = "dispatch" /\ i \notin ran /\ Due(i) /\ ~Fits(i)
          /\ UNCHANGED <<mode, validated>>
      BY <1>0, <2>2 DEF Overrun, IsNext, TypeOK
    <3>2. ~validated
      BY <3>1, DueJobFits
    <3> QED BY <3>1, <3>2 DEF WakeupsServedInFrame
  <2>3. CASE RunAny(i)
    BY <1>0, <2>3, RunKeepsServed DEF RunAny
  <2>4. CASE FailAny(i)
    BY <2>4 DEF FailAny, JobFails, WakeupsServedInFrame
  <2> QED BY <1>4, <2>1, <2>2, <2>3, <2>4 DEF Evaluate
<1>5. CASE EndFrame
  BY <1>5 DEF EndFrame, WakeupsServedInFrame
<1>6. CASE UNCHANGED vars
  BY <1>6 DEF vars, frame, WakeupsServedInFrame, Evaluated, Pending, Excused
<1> QED BY <1>1, <1>2, <1>3, <1>4, <1>5, <1>6 DEF Next, BeginAny

\* No wake-up outlives a frame of a validated schedule unless it came too late for
\* it: the frame bound behind WakeupServed (dispatch_with_timing_observer).
THEOREM WakeupsServedEveryFrame == Spec => []WakeupsServedInFrame
<1>1. Init => WakeupsServedInFrame
  BY DEF Init, WakeupsServedInFrame
<1> QED
  BY <1>1, ServedStep, OrderInit, OrderStep, FrameInvariant, PTL DEF Spec

-----------------------------------------------------------------------------
\* A job's counter moves only when it runs, and bus counters only rise.
LEMMA WakeupStep ==
  ASSUME TypeOK, [Next]_vars, NEW i \in DOMAIN jobs, Pending(i), i \notin ran'
  PROVE  Pending(i)'
<1> DEFINE t == jobs[i].trigger.topic
<1>1. t \in Topics /\ IsTopic(jobs[i]) /\ seq[t] > lastSeen[i]
  BY TriggerTopic DEF Pending
<1>2. seq[t] \in Nat /\ lastSeen[i] \in Nat
  BY <1>1, TriggerTopic DEF TypeOK
<1>3. jobs'[i] = jobs[i] /\ lastSeen'[i] = lastSeen[i]
  <2>1. ASSUME NEW name \in Names, NEW job \in Offers, Register(name, job)
        PROVE  jobs'[i] = jobs[i] /\ lastSeen'[i] = lastSeen[i]
    BY <2>1 DEF Register, TypeOK
  <2>2. ASSUME NEW j \in DOMAIN jobs, NEW published, NEW observed, RunJob(j, published, observed)
        PROVE  jobs'[i] = jobs[i] /\ lastSeen'[i] = lastSeen[i]
    <3>1. i # j
      BY <2>2 DEF RunJob
    <3> QED BY <2>2, <3>1 DEF RunJob, TypeOK
  <2>3. CASE UNCHANGED <<jobs, lastSeen>>
    BY <2>3
  <2> QED BY <2>1, <2>2, <2>3
          DEF Next, Start, BeginAny, BeginFrame, Evaluate, NotDue, Overrun, RunAny, FailAny,
              JobFails, EndFrame, vars
<1>4. seq'[t] \in Nat /\ seq'[t] >= seq[t]
  <2>1. \/ seq' = seq
        \/ \E T : seq' = Publish(seq, T)
        \/ \E T, U : seq' = Publish(Publish(seq, T), U)
    BY DEF Next, Register, Start, BeginAny, BeginFrame, Evaluate, NotDue, Overrun, RunAny,
           RunJob, FailAny, JobFails, EndFrame, vars
  <2>2. CASE seq' = seq
    BY <1>2, <2>2
  <2>3. ASSUME NEW T, seq' = Publish(seq, T)
        PROVE  seq'[t] \in Nat /\ seq'[t] >= seq[t]
    BY <1>1, <1>2, <2>3, PublishRaises DEF TypeOK
  <2>4. ASSUME NEW T, NEW U, seq' = Publish(Publish(seq, T), U)
        PROVE  seq'[t] \in Nat /\ seq'[t] >= seq[t]
    <3> DEFINE mid == Publish(seq, T)
    <3>1. mid \in [Topics -> 0 .. MaxSeq] /\ mid[t] >= seq[t]
      BY <1>1, PublishRaises DEF TypeOK
    <3>2. Publish(mid, U) \in [Topics -> 0 .. MaxSeq] /\ Publish(mid, U)[t] >= mid[t]
      <4> HIDE DEF mid
      <4> QED BY <1>1, <3>1, PublishRaises
    <3>3. mid[t] \in Nat /\ Publish(mid, U)[t] \in Nat
      BY <1>1, <3>1, <3>2
    <3> HIDE DEF mid
    <3> QED BY <1>2, <2>4, <3>1, <3>2, <3>3 DEF mid
  <2> QED BY <2>1, <2>2, <2>3, <2>4
<1> QED BY <1>1, <1>2, <1>3, <1>4 DEF Pending

\* A wake-up is lost in no frame that did not serve it: not to an overrun, not to
\* a job's own error and not to that of an earlier job.
THEOREM WakeupsAreKept == Spec => UnservedWakeupKept
<1>1. TypeOK /\ [Next]_vars =>
        [\A i \in DOMAIN jobs :
           Pending(i) /\ i \notin ran' => Pending(i)']_<<mode, todo, seq, lastSeen>>
  BY WakeupStep
<1> QED BY <1>1, TypeCorrect, PTL DEF Spec, UnservedWakeupKept

-----------------------------------------------------------------------------
(***************************************************************************)
(* A validated schedule is a cyclic executive: the refinement is the       *)
(* identity on jobs, mode, tick and ran, and the bus and the budget are    *)
(* forgotten.                                                              *)
(***************************************************************************)

\* Every due periodic job ahead of the one whose turn it is has run.
LEMMA AheadDone ==
  ASSUME FrameInv, OrderInv, RequireValidation, mode = "dispatch",
         NEW i \in DOMAIN jobs, IsNext(i)
  PROVE  Cyclic!PeriodicDone({k \in DOMAIN jobs : Cyclic!Ahead(k, i)})
<1>1. TypeOK /\ skipped = {}
  BY DEF FrameInv, OrderInv, FeasibleNeverOverruns
<1>2. SUFFICES ASSUME NEW k \in DOMAIN jobs, Cyclic!Ahead(k, i),
                      IsPeriodic(jobs[k]), PeriodicDue(jobs[k], tick)
               PROVE  k \in ran
  BY DEF Cyclic!PeriodicDone, Cyclic!IsPeriodic, Cyclic!PeriodicDue, IsPeriodic, PeriodicDue
<1>3. k \in Nat /\ i \in Nat /\ jobs[k].priority \in Nat /\ jobs[i].priority \in Nat
  BY <1>1, TriggerTopic DEF TypeOK
<1>4. k \notin todo
  BY <1>2, <1>3 DEF IsNext, Before, Cyclic!Ahead
<1> QED BY <1>1, <1>2, <1>4 DEF OrderInv, Evaluated

LEMMA RunIsExecute ==
  ASSUME FrameInv, OrderInv, RequireValidation, NEW i \in DOMAIN jobs,
         NEW published, NEW observed, RunJob(i, published, observed)
  PROVE  Cyclic!Execute(i)
<1>1. /\ TypeOK /\ mode = "dispatch" /\ IsNext(i) /\ Due(i) /\ ran' = ran \cup {i}
      /\ UNCHANGED <<jobs, mode, tick>>
  BY DEF RunJob, FrameInv
<1>2. \A k \in ran : Cyclic!Ahead(k, i)
  <2> SUFFICES ASSUME NEW k \in ran PROVE Cyclic!Ahead(k, i)
    OBVIOUS
  <2>1. k \in DOMAIN jobs /\ Before(jobs, k, i)
    BY <1>1, NextAhead DEF TypeOK, Evaluated
  <2>2. k \in Nat /\ i \in Nat /\ jobs[k].priority \in Nat /\ jobs[i].priority \in Nat
    BY <1>1, <2>1, TriggerTopic DEF TypeOK
  <2> QED BY <2>1, <2>2 DEF Before, Cyclic!Ahead
<1>3. Cyclic!PeriodicDone({k \in DOMAIN jobs : Cyclic!Ahead(k, i)})
  BY <1>1, AheadDone
<1>4. IsPeriodic(jobs[i]) => PeriodicDue(jobs[i], tick)
  BY <1>1, TriggerTopic DEF Due
<1> QED BY <1>1, <1>2, <1>3, <1>4
        DEF Cyclic!Execute, Cyclic!IsPeriodic, Cyclic!PeriodicDue, IsPeriodic, PeriodicDue

LEMMA EndIsClose ==
  ASSUME FrameInv, OrderInv, RequireValidation, EndFrame
  PROVE  Cyclic!Close
<1>1. /\ mode = "dispatch" /\ mode' = "idle" /\ todo = {} /\ NextTick /\ skipped = {}
      /\ UNCHANGED <<jobs, ran>>
  BY DEF EndFrame, frame, FrameInv, OrderInv, FeasibleNeverOverruns
<1>2. Cyclic!PeriodicDone(DOMAIN jobs)
  BY <1>1 DEF Cyclic!PeriodicDone, Cyclic!IsPeriodic, Cyclic!PeriodicDue, IsPeriodic, PeriodicDue,
              OrderInv, Evaluated
<1> QED BY <1>1, <1>2 DEF Cyclic!Close, NextTick

LEMMA FailIsClose ==
  ASSUME FrameInv, OrderInv, RequireValidation, NEW i \in DOMAIN jobs,
         NEW published, JobFails(i, published)
  PROVE  Cyclic!Close
<1>1. /\ mode = "dispatch" /\ mode' = "idle" /\ IsNext(i) /\ NextTick /\ Fallible # {}
      /\ UNCHANGED <<jobs, ran>>
  BY DEF JobFails
<1>2. i \in DOMAIN jobs \ ran
  BY <1>1 DEF FrameInv, TypeOK, IsNext
<1>3. Cyclic!PeriodicDone({k \in DOMAIN jobs : Cyclic!Ahead(k, i)})
  BY <1>1, AheadDone
<1> QED BY <1>1, <1>2, <1>3 DEF Cyclic!Close, NextTick

LEMMA CyclicStep ==
  RequireValidation =>
    (FrameInv /\ OrderInv /\ [Next]_vars => [Cyclic!CyclicNext]_Cyclic!cyclicVars)
<1> SUFFICES ASSUME RequireValidation, FrameInv, OrderInv, [Next]_vars
             PROVE  [Cyclic!CyclicNext]_Cyclic!cyclicVars
  OBVIOUS
<1>1. ASSUME NEW name \in Names, NEW job \in Offers, Register(name, job)
      PROVE  Cyclic!Configure
  BY <1>1 DEF Register, Cyclic!Configure, frame
<1>2. Start => Cyclic!Configure
  BY DEF Start, Cyclic!Configure, frame
<1>3. ASSUME NEW inputs \in SUBSET InputTopics, BeginFrame(inputs)
      PROVE  Cyclic!Open
  BY <1>3 DEF BeginFrame, Cyclic!Open
<1>4. ASSUME NEW i \in DOMAIN jobs, NotDue(i) \/ Overrun(i)
      PROVE  UNCHANGED Cyclic!cyclicVars
  BY <1>4 DEF NotDue, Overrun, Cyclic!cyclicVars
<1>5. ASSUME NEW i \in DOMAIN jobs, RunAny(i)
      PROVE  Cyclic!Execute(i)
  BY <1>5, RunIsExecute DEF RunAny
<1>6. ASSUME NEW i \in DOMAIN jobs, FailAny(i)
      PROVE  Cyclic!Close
  BY <1>6, FailIsClose DEF FailAny
<1>7. EndFrame => Cyclic!Close
  BY EndIsClose
<1>8. CASE UNCHANGED vars
  BY <1>8 DEF vars, frame, Cyclic!cyclicVars
<1> QED
  BY <1>1, <1>2, <1>3, <1>4, <1>5, <1>6, <1>7, <1>8
     DEF Next, BeginAny, Evaluate, Cyclic!CyclicNext

\* A schedule the host validates before it flies is a cyclic executive, whatever
\* the topic updates, reports and errors do: in every frame jobs run in (priority,
\* registration) order, and all periodic jobs due have run when it ends.
THEOREM ValidatedIsCyclic ==
  ASSUME RequireValidation PROVE Spec => ImplementsCyclic
<1>1. Init => Cyclic!CyclicInit
  BY DEF Init, Cyclic!CyclicInit
<1>2. FrameInv /\ OrderInv /\ [Next]_vars => [Cyclic!CyclicNext]_Cyclic!cyclicVars
  BY CyclicStep
<1> QED
  BY <1>1, <1>2, OrderInit, OrderStep, FrameInvariant, PTL
     DEF Spec, ImplementsCyclic, Cyclic!CyclicSpec
=============================================================================
