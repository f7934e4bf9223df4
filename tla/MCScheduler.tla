---------------------------- MODULE MCScheduler -----------------------------
(***************************************************************************)
(* Small schedules for TLC: every table of up to MaxJobs of the offered    *)
(* declarations, registered in every order.                                *)
(***************************************************************************)
EXTENDS Scheduler

Job(trigger, budget, priority, publishes) ==
  [trigger |-> trigger, budget |-> budget, priority |-> priority, publishes |-> publishes]

MCTopics == {"cmd", "est", "overrun", "timing", "slip"}
MCInputs == {"est"}

\* A base-rate publisher, a slower job, three topic-driven ones (one of them
\* republishes its own trigger topic), and two rejected declarations.
MCOffers == {
  Job(Periodic(1), 1, 1, {"cmd"}),
  Job(Periodic(2), 2, 0, {}),
  Job(TopicUpdated("cmd"), 1, 1, {"cmd"}),
  Job(TopicUpdated("est"), 2, 2, {"cmd"}),
  Job(Periodic(0), 1, 0, {}),
  Job(TopicUpdated("est"), 0, 0, {}) }

\* The same, with jobs woken by what the scheduler itself publishes.
MCFreeOffers == MCOffers \cup {
  Job(TopicUpdated("overrun"), 1, 0, {}),
  Job(TopicUpdated("slip"), 1, 1, {}) }
=============================================================================
