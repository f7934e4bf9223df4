-------------------------- MODULE CyclicExecutive ---------------------------
(***************************************************************************)
(* What the cyclic scheduler promises of a schedule that passed frame      *)
(* packing, with no budget in it: in every frame the jobs that run do so   *)
(* in (priority, registration) order, and a frame that ends normally has   *)
(* run every periodic job whose period divides the tick.  A job's error    *)
(* may cut a frame short, but only after the periodic jobs ahead of it.    *)
(***************************************************************************)
EXTENDS JobTable

CONSTANTS Offers, TickModulus, MayFail

VARIABLES jobs, mode, tick, ran

cyclicVars == <<jobs, mode, tick, ran>>

\* i comes before k, written out: rank by priority, then by registration.
Ahead(i, k) == <<jobs[i].priority, i>> # <<jobs[k].priority, k>> /\
               (jobs[i].priority < jobs[k].priority \/
                (jobs[i].priority = jobs[k].priority /\ i < k))

PeriodicDone(S) ==
  \A k \in S : IsPeriodic(jobs[k]) /\ PeriodicDue(jobs[k], tick) => k \in ran

CyclicInit == jobs = <<>> /\ mode = "register" /\ tick = 0 /\ ran = {}

Configure ==
  /\ mode = "register"
  /\ \/ mode' = "idle" /\ UNCHANGED jobs
     \/ \E job \in Offers : jobs' = Append(jobs, job) /\ UNCHANGED mode
  /\ UNCHANGED <<tick, ran>>

Open ==
  /\ mode = "idle" /\ mode' = "dispatch" /\ ran' = {}
  /\ UNCHANGED <<jobs, tick>>

Execute(i) ==
  /\ mode = "dispatch"
  /\ \A k \in ran : Ahead(k, i)
  /\ PeriodicDone({k \in DOMAIN jobs : Ahead(k, i)})
  /\ IsPeriodic(jobs[i]) => PeriodicDue(jobs[i], tick)
  /\ ran' = ran \cup {i}
  /\ UNCHANGED <<jobs, mode, tick>>

Close ==
  /\ mode = "dispatch"
  /\ \/ PeriodicDone(DOMAIN jobs)
     \/ MayFail /\ \E i \in DOMAIN jobs \ ran : PeriodicDone({k \in DOMAIN jobs : Ahead(k, i)})
  /\ mode' = "idle"
  /\ tick' = (tick + 1) % TickModulus
  /\ UNCHANGED <<jobs, ran>>

CyclicNext == Configure \/ Open \/ (\E i \in DOMAIN jobs : Execute(i)) \/ Close

CyclicSpec == CyclicInit /\ [][CyclicNext]_cyclicVars
=============================================================================
