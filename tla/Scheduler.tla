----------------------------- MODULE Scheduler ------------------------------
(***************************************************************************)
(* The cyclic scheduler and the sequence counters of the bus it reads      *)
(* (openbmp-fc, scheduler.rs, bus.rs, step.rs).  Jobs are registered, the  *)
(* schedule may be validated, then every frame publishes the host's        *)
(* inputs and evaluates each job once in dispatch order.  One dispatch is  *)
(* a loop over the table: each action below is one iteration of it, and    *)
(* no other action can happen between two iterations.                      *)
(***************************************************************************)
EXTENDS JobTable

CONSTANTS
  Names,             \* job names
  InputTopics,       \* topics the host publishes before a dispatch
  OverrunTopic,      \* OverrunEvent
  TimingTopic,       \* TimingBudgetReport
  SlipTopic,         \* DeadlineSlipEvent
  Offers,            \* declarations a host may try to register
  Fallible,          \* names of jobs whose run may return an error
  Observations,      \* what the timing observer may report
  RequireValidation, \* TRUE: the host validates before the first frame
  MaxJobs,           \* MAX_SCHEDULED_JOBS
  MaxSeq,            \* where the sequence counters saturate
  TickModulus        \* the tick counter is kept modulo this

ASSUME SchedulerAssumption ==
  /\ {OverrunTopic, TimingTopic, SlipTopic} \cup InputTopics \subseteq Topics
  /\ Offers \subseteq JobRecords
  /\ Observations \subseteq {"none", "within", "slip"}
  /\ RequireValidation \in BOOLEAN
  /\ MaxJobs \in Nat /\ MaxSeq \in Nat /\ TickModulus \in Nat \ {0}

VARIABLES
  jobs,       \* the registered jobs, in registration order
  names,      \* names[i] is the name of jobs[i]
  lastSeen,   \* ScheduledJob::last_seen
  seq,        \* bus: publishes seen on each topic
  mode,       \* "register", "idle" between frames, "dispatch" within one
  validated,  \* validate_frame_packing returned Ok before the first frame
  tick,
  todo,       \* jobs this dispatch has not evaluated yet
  ran,        \* jobs that ran in this frame
  skipped,    \* jobs skipped in this frame because their budget did not fit
  remaining,  \* remaining_budget
  failed      \* the job whose error ended the last dispatch, 0 if none

frame == <<todo, ran, skipped, remaining, failed>>
vars  == <<jobs, names, lastSeen, seq, mode, validated, tick, frame>>

-----------------------------------------------------------------------------
\* Bus::publish: the counter saturates instead of wrapping.
Publish(s, T) ==
  [t \in Topics |-> IF t \in T /\ s[t] < MaxSeq THEN s[t] + 1 ELSE s[t]]

\* Topics record_actual_us_by_index publishes for an observation.
TimingReports(observed) ==
  {t \in {TimingTopic, SlipTopic} :
     observed = "slip" \/ (observed = "within" /\ t = TimingTopic)}

\* Faulty variant: one update is mistaken for the one already consumed.
DueAfterTwo(i) ==
  IF IsTopic(jobs[i]) THEN seq[jobs[i].trigger.topic] > lastSeen[i] + 1
                      ELSE PeriodicDue(jobs[i], tick)

Due(i) ==
  IF IsTopic(jobs[i]) THEN seq[jobs[i].trigger.topic] > lastSeen[i]
                      ELSE PeriodicDue(jobs[i], tick)

IsNext(i) == i \in todo /\ \A k \in todo \ {i} : Before(jobs, i, k)

\* Faulty variant: compared with the whole frame.
FitsWholeFrame(i) == jobs[i].budget <= FrameBudget

Fits(i) == jobs[i].budget <= remaining

NextTick == tick' = (tick + 1) % TickModulus

-----------------------------------------------------------------------------
Init ==
  /\ jobs = <<>> /\ names = <<>> /\ lastSeen = <<>>
  /\ seq = [t \in Topics |-> 0]
  /\ mode = "register" /\ validated = FALSE /\ tick = 0
  /\ todo = {} /\ ran = {} /\ skipped = {} /\ remaining = FrameBudget /\ failed = 0

\* register_periodic, register_topic_driven: every rejected registration
\* returns an error and leaves the table as it was.
Register(name, job) ==
  /\ mode = "register"
  /\ Acceptable(job)
  /\ name \notin {names[i] : i \in DOMAIN names}
  /\ Len(jobs) < MaxJobs
  /\ jobs' = Append(jobs, job)
  /\ names' = Append(names, name)
  /\ lastSeen' = Append(lastSeen, 0)
  /\ UNCHANGED <<seq, mode, validated, tick, frame>>

\* The host is done registering.  The runner's FC builder goes on only if
\* validate_frame_packing accepts the table.
Start ==
  /\ mode = "register"
  /\ RequireValidation => Feasible(jobs)
  /\ mode' = "idle"
  /\ validated' = RequireValidation
  /\ UNCHANGED <<jobs, names, lastSeen, seq, tick, frame>>

\* fc_step up to the dispatch call: inputs on the bus, then a fresh frame.
BeginFrame(inputs) ==
  /\ mode = "idle"
  /\ seq' = Publish(seq, inputs)
  /\ mode' = "dispatch"
  /\ todo' = DOMAIN jobs
  /\ ran' = {} /\ skipped' = {} /\ remaining' = FrameBudget /\ failed' = 0
  /\ UNCHANGED <<jobs, names, lastSeen, validated, tick>>

NotDue(i) ==
  /\ mode = "dispatch" /\ IsNext(i) /\ ~Due(i)
  /\ todo' = todo \ {i}
  /\ UNCHANGED <<jobs, names, lastSeen, seq, mode, validated, tick,
                 ran, skipped, remaining, failed>>

\* A due job that does not fit is reported and passed over; the loop goes on
\* to jobs of lower priority that may still fit.
Overrun(i) ==
  /\ mode = "dispatch" /\ IsNext(i) /\ Due(i) /\ ~Fits(i)
  /\ todo' = todo \ {i}
  /\ skipped' = skipped \cup {i}
  /\ seq' = Publish(seq, {OverrunTopic})
  /\ UNCHANGED <<jobs, names, lastSeen, mode, validated, tick, ran, remaining, failed>>

\* Faulty variant: last_seen is the sequence from before the job ran.
RunJobSeenBefore(i, published, observed) ==
  /\ mode = "dispatch" /\ IsNext(i) /\ Due(i) /\ Fits(i)
  /\ todo' = todo \ {i}
  /\ ran' = ran \cup {i}
  /\ remaining' = remaining - jobs[i].budget
  /\ seq' = Publish(Publish(seq, published), TimingReports(observed))
  /\ lastSeen' = IF IsTopic(jobs[i])
                 THEN [lastSeen EXCEPT ![i] = seq[jobs[i].trigger.topic]]
                 ELSE lastSeen
  /\ UNCHANGED <<jobs, names, mode, validated, tick, skipped, failed>>

\* The job's own publishes are on the bus before last_seen is read back; the
\* timing reports about it come after.
RunJob(i, published, observed) ==
  /\ mode = "dispatch" /\ IsNext(i) /\ Due(i) /\ Fits(i)
  /\ todo' = todo \ {i}
  /\ ran' = ran \cup {i}
  /\ remaining' = remaining - jobs[i].budget
  /\ LET after == Publish(seq, published)
     IN  /\ seq' = Publish(after, TimingReports(observed))
         /\ lastSeen' = IF IsTopic(jobs[i])
                        THEN [lastSeen EXCEPT ![i] = after[jobs[i].trigger.topic]]
                        ELSE lastSeen
  /\ UNCHANGED <<jobs, names, mode, validated, tick, skipped, failed>>

\* Faulty variant: the update is consumed before the error is looked at.
JobFailsConsumes(i, published) ==
  /\ mode = "dispatch" /\ IsNext(i) /\ Due(i) /\ Fits(i)
  /\ names[i] \in Fallible
  /\ seq' = Publish(seq, published)
  /\ lastSeen' = IF IsTopic(jobs[i])
                 THEN [lastSeen EXCEPT ![i] = seq'[jobs[i].trigger.topic]]
                 ELSE lastSeen
  /\ failed' = i
  /\ mode' = "idle" /\ NextTick
  /\ UNCHANGED <<jobs, names, validated, todo, ran, skipped, remaining>>

\* An error returned by the job leaves dispatch at once: what it published
\* stays published, its last_seen is not advanced, later jobs are not
\* evaluated.  The host may dispatch the next tick.
JobFails(i, published) ==
  /\ mode = "dispatch" /\ IsNext(i) /\ Due(i) /\ Fits(i)
  /\ names[i] \in Fallible
  /\ seq' = Publish(seq, published)
  /\ failed' = i
  /\ mode' = "idle" /\ NextTick
  /\ UNCHANGED <<jobs, names, lastSeen, validated, todo, ran, skipped, remaining>>

EndFrame ==
  /\ mode = "dispatch" /\ todo = {}
  /\ mode' = "idle" /\ NextTick
  /\ UNCHANGED <<jobs, names, lastSeen, seq, validated, frame>>

-----------------------------------------------------------------------------
RunAny(i) == \E published \in SUBSET jobs[i].publishes, observed \in Observations :
               RunJob(i, published, observed)
FailAny(i) == \E published \in SUBSET jobs[i].publishes : JobFails(i, published)
BeginAny   == \E inputs \in SUBSET InputTopics : BeginFrame(inputs)

Evaluate(i) == NotDue(i) \/ Overrun(i) \/ RunAny(i) \/ FailAny(i)

Next ==
  \/ \E name \in Names, job \in Offers : Register(name, job)
  \/ Start
  \/ BeginAny
  \/ \E i \in DOMAIN jobs : Evaluate(i)
  \/ EndFrame

Spec == Init /\ [][Next]_vars

(***************************************************************************)
(* Once flying, the lockstep kernel calls the controller for every tick    *)
(* and a dispatch is a bounded loop: no step of either is put off forever. *)
(***************************************************************************)
Fairness ==
  /\ WF_vars(BeginAny)
  /\ WF_vars(\E i \in DOMAIN jobs : Evaluate(i))
  /\ WF_vars(EndFrame)

FairSpec == Spec /\ Fairness

-----------------------------------------------------------------------------
(***************************************************************************)
(* Properties.                                                             *)
(***************************************************************************)

\* Every variable keeps its shape; a frame's jobs are split between those
\* still to evaluate and those that ran or were skipped.
TypeOK ==
  /\ jobs \in Seq(JobRecords) /\ names \in Seq(Names) /\ lastSeen \in Seq(Nat)
  /\ Len(names) = Len(jobs) /\ Len(lastSeen) = Len(jobs)
  /\ \A i \in DOMAIN jobs : Acceptable(jobs[i])
  /\ seq \in [Topics -> 0 .. MaxSeq]
  /\ mode \in {"register", "idle", "dispatch"}
  /\ validated \in BOOLEAN
  /\ tick \in Nat
  /\ todo \in SUBSET DOMAIN jobs
  /\ ran \in SUBSET (DOMAIN jobs \ todo)
  /\ skipped \in SUBSET (DOMAIN jobs \ (todo \cup ran))
  /\ remaining \in Nat
  /\ failed \in {0} \cup DOMAIN jobs

\* A schedule that validate_frame_packing accepted never skips a job, however
\* topic updates arrive and whatever the tick: checking one hyperperiod with
\* topic-driven jobs charged to every tick covers every frame.
FeasibleNeverOverruns == validated => skipped = {}

\* A frame never starts more declared work than its budget, and accounts for
\* exactly the work it started: skipped jobs are not charged.
BudgetAccounting == Load(jobs, ran) + remaining = FrameBudget

\* Job i has a topic update it has not consumed.
Pending(i) == IsTopic(jobs[i]) /\ seq[jobs[i].trigger.topic] > lastSeen[i]

\* A topic-driven job that ran is due again in the same frame only through a
\* later job, or the timing report about it: what it publishes on its own
\* trigger topic does not wake it again.
OwnPublishesConsumed ==
  \A i \in ran :
    Pending(i) =>
      \/ \E k \in (DOMAIN jobs \ todo) \cup {failed} :
           /\ k # 0 /\ Before(jobs, i, k)
           /\ jobs[i].trigger.topic \in jobs[k].publishes \cup {OverrunTopic, TimingTopic, SlipTopic}
      \/ jobs[i].trigger.topic \in {TimingTopic, SlipTopic}

\* A wake-up outlives a frame that did not serve it: a topic-driven job that
\* was skipped, that failed, or that an earlier job's error cut off, is still
\* due if it was due when the frame began.
UnservedWakeupKept ==
  [][\A i \in DOMAIN jobs :
       Pending(i) /\ i \notin ran' => Pending(i)']_<<mode, todo, seq, lastSeen>>

\* Every topic update reaches its topic-driven job in a validated schedule,
\* whatever the higher-priority jobs do.
WakeupServed ==
  \A i \in 1 .. MaxJobs :
    (validated /\ i \in DOMAIN jobs /\ Pending(i))
      ~> (validated /\ i \in ran)

\* Every periodic job of a validated schedule runs again and again.
PeriodicNeverStarves ==
  \A i \in 1 .. MaxJobs :
    [](validated /\ i \in DOMAIN jobs /\ IsPeriodic(jobs[i]) => <>(i \in ran))

\* A validated schedule is a cyclic executive.
Cyclic == INSTANCE CyclicExecutive WITH MayFail <- Fallible # {}
ImplementsCyclic == Cyclic!CyclicSpec
=============================================================================
