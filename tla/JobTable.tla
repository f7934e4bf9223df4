------------------------------ MODULE JobTable ------------------------------
(***************************************************************************)
(* The job table of the cyclic scheduler (openbmp-fc, scheduler.rs): what  *)
(* a registered job declares, the order in which a frame evaluates jobs,   *)
(* and the static frame-packing check over one hyperperiod.  A table is a  *)
(* sequence of jobs in registration order; a job is known by its index.    *)
(***************************************************************************)
EXTENDS Integers, FiniteSets, Sequences

CONSTANTS
  Topics,        \* topics registered on the bus
  FrameBudget,   \* Scheduler::frame_budget_us
  HyperCap       \* MAX_FRAME_PACKING_HYPERPERIOD_TICKS

ASSUME TableAssumption == FrameBudget \in Nat /\ HyperCap \in Nat \ {0}

(***************************************************************************)
(* Trigger conditions.                                                     *)
(***************************************************************************)
Periodic(p)     == [kind |-> "periodic", period |-> p]
TopicUpdated(t) == [kind |-> "topic", topic |-> t]

IsPeriodic(job) == job.trigger.kind = "periodic"
IsTopic(job)    == job.trigger.kind = "topic"

Triggers == [kind : {"periodic"}, period : Nat] \cup [kind : {"topic"}, topic : Topics]

\* The declarations a job is registered with; "publishes" is the set of
\* topics its run method may publish on.
JobRecords == [trigger : Triggers, budget : Nat, priority : Nat, publishes : SUBSET Topics]

\* What register_periodic and register_inner accept.
Acceptable(job) ==
  /\ job.budget > 0
  /\ IsPeriodic(job) => job.trigger.period > 0

(***************************************************************************)
(* Dispatch order: (priority, registration index).                         *)
(***************************************************************************)
\* Faulty variant: equal priorities evaluate the latest registration first.
BeforeLatestFirst(js, i, k) ==
  \/ js[i].priority < js[k].priority
  \/ js[i].priority = js[k].priority /\ i > k

Before(js, i, k) ==
  \/ js[i].priority < js[k].priority
  \/ js[i].priority = js[k].priority /\ i < k

(***************************************************************************)
(* Declared load of a set of jobs, counted as a set of microsecond slots:  *)
(* one slot per job and per microsecond of its budget.                     *)
(***************************************************************************)
Slots(js, S) == UNION {{i} \X (1 .. js[i].budget) : i \in S}
Load(js, S)  == Cardinality(Slots(js, S))

\* Faulty variant: the first release is one tick late.
PeriodicDueLate(job, tick) == tick % job.trigger.period = 1

PeriodicDue(job, tick) == tick % job.trigger.period = 0

\* Faulty variant: topic-driven jobs are left out of the packing.
DemandPeriodicOnly(js, tick) ==
  {i \in DOMAIN js : IsPeriodic(js[i]) /\ PeriodicDue(js[i], tick)}

\* Jobs frame packing charges to a tick: a topic-driven job to every tick.
Demand(js, tick) ==
  {i \in DOMAIN js : IsTopic(js[i]) \/ PeriodicDue(js[i], tick)}

\* Common multiples of the registered periods, up to the enumeration cap.
Periods(js)         == {js[i].trigger.period : i \in {k \in DOMAIN js : IsPeriodic(js[k])}}
CommonMultiples(js) == {h \in 1 .. HyperCap : \A p \in Periods(js) : h % p = 0}
IsHyperperiod(js, h) ==
  h \in CommonMultiples(js) /\ \A g \in CommonMultiples(js) : h <= g

\* FramePackingReport::feasible; "complete" is that a hyperperiod exists
\* below the cap.
Feasible(js) ==
  \E h \in 1 .. HyperCap :
    /\ IsHyperperiod(js, h)
    /\ \A tick \in 0 .. h - 1 : Load(js, Demand(js, tick)) <= FrameBudget
=============================================================================
