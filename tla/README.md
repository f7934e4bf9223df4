# OpenBMP in TLA+

OpenBMP is a launch-vehicle simulator with an onboard flight controller written
in Rust.  Most of its lines are physics.  What can be model-checked is the rest:
the code that decides which job runs when, which phase the mission is in, which
engine may burn, who has seen which message, and what happens when one of the
steps fails.  This directory models that code, part by part; `PROJECT.json`
maps every definition to the lines it stands for.

Contents: [1 Inventory](#1-inventory), [2 Plan](#2-plan),
[3 What is modelled](#3-what-is-modelled), [4 Runs](#4-runs-and-bounds),
[5 Fairness](#5-fairness), [6 Proofs](#6-proofs),
[7 Divergences](#7-where-code-and-documentation-disagree),
[8 Not modelled](#8-what-is-not-modelled).

How to run: `tlc -config MCScheduler*.cfg MCScheduler` and so on, a line per run
of `PROJECT.json`; `tlapm SchedulerProofs.tla` and so on for the proofs.

## 1 Inventory

A run is one process.  The host (`openbmp-runner`) owns the simulation kernel
and calls, once per control tick and in a fixed order: scripted commands, the
flight controller, the racks (engines, effectors, recovery), the physics step.
The flight controller (`openbmp-fc`) is a bus of single-slot topics and a table
of jobs.  The controller may also sit behind a lockstep transport, in another
process or on a target board.

| Component | State it keeps | Operations | Interacts with |
|---|---|---|---|
| Scheduler, bus (`scheduler.rs`, `bus.rs`, `step.rs`) | job table, `last_seen` per job, one value and sequence number per topic, budget of the frame | register, validate packing, dispatch a frame, record timing, publish, read | calls every job; publishes overruns, timing reports and slips that jobs read |
| Mission tree (`openbmp-mission/hsm.rs`) | parent of each state | validate, exit chain, enter chain | used by the commander and by the kernel |
| Commander (`commander.rs`, `events.rs`, `regions.rs`) | phase, regions, armed, in flight, once-events fired, FDIR confirmation counters, scalars of the run before | one run: bindings, transitions with action lists, arming, FDIR, publish | reads failsafe flags, FDIR and estimator status; publishes status to guidance, autopilot, mixer; action batches to the host |
| Health and FDIR (`health.rs`, `fdir.rs`) | age of each topic, burst counters, tripped mask | one run each | read sensors, scheduler reports; written for the commander |
| Mixer (`mixer.rs`) | engines of the last set, `last_seen` of two topics | one run: gate, allocate, safe, order engines | reads commander and autopilot; the host applies its sets |
| Estimators, voter (`estimator*.rs`, `voter.rs`) | filters, lane health, selected lane | predict, update, vote | sensors in, estimates out |
| Autopilot, guidance, allocation | integrators, schedules | one run each | commander status in, commands out |
| Bridge (`openbmp-bridge`, `fc_bridge.rs`) | handshake, packet queues per direction, fault rules, zero-order hold | handshake, step, enqueue, deliver | host on one side, controller on the other |
| PIL endpoint (`openbmp-pil`) | byte buffer, mailbox | ingest, decode, step, answer | serial line, controller |
| Flight recorder (`openbmp-hal`) | bounded queue, cursors, counters | push, flush | storage that may fail |
| Range safety (`openbmp-afts`) | terminate latch, rule counters | evaluate | tracking solutions in, terminate out |
| Kernel (`openbmp-sim`) | tick, bodies, mission state, stop conditions | step, events, separation | run loops |
| Racks (`openbmp-runner`) | engine, effector, recovery, gear state | apply commands, faults | controller commands in, forces out |
| Pacer (`openbmp-rt`), countdown (`openbmp-ground`) | deadlines; none | wait; evaluate a plan | run loops; command line |
| Campaigns (`openbmp-mc`, `openbmp-sil`) | sample results, checkpoint | run, resume, report | run loops |
| Front ends (`openbmp-cli`, `-web`, `-fmi`, telemetry) | sessions, files | parse, serve, export | everything else |

What is hard, and what makes each part correct:

* **Scheduler.** Jobs wake each other inside a frame through topics; a job may
  be skipped, or fail half-way through the table.  Correct: accepted tables never
  overrun, a wakeup is never lost and never invented, nobody starves, what woke a
  job that failed or was skipped is still there in the next frame.
* **Mission tree, commander.** Several events in one tick, action lists that
  move the phase while a transition is under way, two copies of the mission
  state, and four writers of one health region.  Correct: the mission only goes
  forward, entry and exit pair up, a safe request is not masked by whoever writes
  the region next, a confirmed fault is always published.
* **Health and FDIR.** Jobs run slower than their inputs and see them a run
  late; counters run over readings that come and go.  Correct: silence is found
  in bounded time, nothing that speaks is called silent, a lasting fault is
  latched, and no fault is latched without one.
* **Mixer.** Reads and republishes the same topics, jobs that feed it run at
  other rates, the set it publishes has bounded room, and a shutdown is final.
  Correct: what runs may run, what has run can be shut down, no engine is shut
  down for nothing, and a safe request reaches every engine.
* **Bridge, radio link.** Queues whose latency changes every step, a peer that
  answers twice, late or not at all, a link that goes dark.  Correct: no frame is
  lost or applied twice, none waits without end, each answer belongs to its frame,
  a dark link is not kept while another could carry, and the run ends.
* **PIL.** Chunks that end anywhere, fixed buffers, an endpoint that steps its
  controller and then fails to answer.  Correct: every frame is answered, in
  order, and the buffer suffices.
* **Recorder, campaign.** Full queues, failing storage, death and resumption.
  Correct: order is kept, every loss is counted, the checkpoint is the old or the
  new one, a resumed campaign's report has every sample once, under its own index.
* **Range safety.** A latch and counters over solutions that flicker.  Correct:
  terminate latches, and only after its rule held long enough.

`PROJECT.json` lists the hazards one by one at their lines, with the properties
that cover them, and notes for those none covers yet.

## 2 Plan

| Order | Module | Composes | Abstract specification | State |
|---|---|---|---|---|
| 1 | `JobTable`, `Scheduler` | - | `CyclicExecutive` | done, seven theorems |
| 2 | `HsmTree`, `MissionHsm` | - | - | done, four theorems |
| 3 | `Commander` | `HsmTree` | - | done, six theorems |
| 4 | `Mixer` | publishes of commander and autopilot, host | - | done, five theorems |
| 5 | `FaultMonitor` | publishes of sensors, estimator, scheduler | - | done, six theorems |
| 6 | `LinkSelection`, `FcTransport` | link selection, packet queues, exchange, controller in the process or in a child process | - | done, six theorems |
| 7 | `PilEndpoint` | host stream, line, pump, polling loop | `PilExchange` | done, two theorems |
| 8 | `FlightRecorder` | ring and failing storage | `RecordQueue` | done, two theorems |
| 9 | `Campaign` | workers, checkpoint, files, deaths | - | done, four theorems |
| 10 | `SafetyChain` | FaultMonitor, the arming and FDIR half of Commander, Mixer | a controller that safes | planned |
| 11 | `Afts` | rules and latch | - | planned |
| 12 | `SimKernel` | `HsmTree` | compared with `Commander` | planned |

## 3 What is modelled

**`JobTable`** holds what a job declares and the frame-packing test: periodic and
topic-driven triggers, the dispatch order (declared priority, then
registration), the budget demanded at a tick, the hyperperiod, `Feasible`.  It
is the data part of `scheduler.rs`.

**`Scheduler`** is the dispatch loop.  One action is one iteration: `NotDue`,
`Overrun`, `RunJob`, `JobFails`; `BeginFrame` is `fc_step` up to the dispatch,
`Register` and `Start` the set-up.  A job's run is a choice of topics to publish
among those it declares.  `last_seen` is taken *after* the run, as in the code.
Sequence numbers saturate at `MaxSeq` as `Bus::publish` saturates at `u64::MAX`.
The tick is kept modulo a common multiple of the periods, which is all a trigger
can tell of it.

**`CyclicExecutive`** promises what a host needs to know of an accepted table:
in each frame every due periodic job runs exactly once, in priority order,
within the budget, unless an earlier job's error ends the frame.  `Scheduler`
implements it (`ImplementsCyclic`).

**`HsmTree`** defines acceptance of a parent function and the exit and enter
chains of a transition as the code computes them; **`MissionHsm`** runs them,
state by state, on every parent function.

**`Commander`** is one job, cut at its loop iterations: `FireBinding` or
`SkipBinding` for each binding, then `TakeTransition` or `DropTransition` for
each request, with `ExitOne`, `MoveOne`, `EnterOne` and `ActOne` for the work it
unfolds, then `StayActive`, `TryArm`, `EvaluateFdir`, `Publish`.  Nothing else
happens between them, since a dispatch runs one job at a time, but an action
list may change phase and regions in between, and that is what the properties are
about.  A trigger is abstracted to "its condition holds on the current scalars";
firing on a crossing, the memory of the run before, and once-bindings are kept.
`start` and `demand` are history for the properties.

**`Mixer`** is a pass of the host over commander, autopilot, mixer and engines.
Each job may be skipped in a pass, which covers every choice of rates.  `Applies` is
the host, which takes the latest set whether it is new or not.
`ActuatorHalf` and `EngineHalf` are the halves of `Mixer::run`, `MixerFails` the
allocator error between them, which ends the run and which the properties except; a topic is its value and how many publishes the
mixer has not seen.  Which surfaces *move* and which engines *run* is kept, by
how much is not.

**`FaultMonitor`** is a tick of what health and FDIR see: `Publishes` (the host,
the earlier jobs and the scheduler's reports), `HealthRuns` or `HealthWaits`,
`FdirRuns` or `FdirWaits`, the last two with `EndTick`.  The detector and what
the vehicle has fitted are chosen in `Init`, so one run covers all four
detectors.  `Stale` measures from when health saw a sample, as
`TopicStaleness` does, while `silence`, which only properties read, is the true
time since the sample; `streak` and `faulted` are such history too.
`FaultIsolated` excepts the CUSUM detector, whose one score any sensor fills and whose
trip also names the sensor with the largest statistic of the tick, which may be well.
Innovation statistics are small numbers, the CUSUM score is cut off at
`ScoreCap`, whether a windowed detector trips on an innovation is left open, and
the time since the trip, which only the status carries, is left out.

**`LinkSelection`** is which of the declared radio links carries a frame, in each
of the three selection modes, with the hysteresis.  **`FcTransport`** is a run over
it, cut where the host waits: `Send` (the frame, its loss, its latency, its place
in the queue), `NothingDue`, `Abort`, `StepLocal` (a controller in the process) or
`BeginExchange`, `RecvHello`, `RecvAnswer`, `RecvClosed` (one in a child process),
and `Apply`, the rest of the step.  `PeerAnswers` and `PeerExits` are the child
process, external to the code modelled: it may answer as it should, acknowledge
only, answer twice, for another step, with a fault, or exit.  Everything that
changes a packet makes the run fail, which is `Abort`.  A margin is a small
number, a latency whole steps.  `tick`, `given` and `applied` are history.

**`PilEndpoint`** is the host's frame stream (`Send`, `Recv`) and the target's
polling loop: each of `Flush`, `ReadFailed`, `NoStep`, `StepFailed` and `Step` is one
whole poll.  The bytes are one stream and a buffer is a stretch of it, so that a
chunk may end anywhere and overflow is arithmetic.  A write that fails may have
written (`doubt`).  **`PilExchange`** is what the host relies on: answers in order,
each once, all in the end, unless a write was in doubt.

**`FlightRecorder`** is the ring of slots with its head, length, numbering and loss
counter: `Push` under both policies, `Flush`, `FlushRefused`.  **`RecordQueue`** is a
bounded first-in first-out queue that counts its losses; the mapping reads the
queue off the ring.

**`Campaign`** is an invocation of a resumable campaign: `Start` (load, validate,
choose the chunk), `Evaluate` by workers in any order, `Record`, `BeginWrite`,
`EndWrite`, `Rename`, `Finish`; `Die` at any point keeps the two files and nothing
else.  A sample's outcome is a value, its leaf what the checkpoint keeps of it.  The
file is decimal text, and its reader is built without `float_roundtrip`, so a value may
come back changed, and again at the next read: `Start` loads the leaves `AsRead`, and
`Reread` is *any* function on the values.  `Rereads` of a value is all that repeated
reading may make of it.  `ReportHasAll` therefore does not promise the bits of an
uninterrupted run; what it promises is that no sample is missing, doubled, or
under the index or campaign of another (section 7).

## 4 Runs and bounds

| Run | Question | Bounds |
|---|---|---|
| `sched_free` | Any table, job errors, jobs woken by the scheduler's own reports: wakeups kept and not invented | tables of at most 3 of 8 declarations (two of them rejected), budget 3, counters to 2, periods 1 and 2 |
| `sched_validated` | Accepted tables: no overrun, no starvation, wakeups served, refinement of `CyclicExecutive` | the same declarations without the reports, budget 4 |
| `hsm_trees` | Acceptance, exit and enter chains over any sequence of transitions | all 625 parent functions over four states |
| `cmd_run` | Forward motion, safe requests and FDIR when several events fire in a run and action lists set phase and regions | 5 states (one composite), 4 events, 4 bindings, 7 bus snapshots, confirmation after 2 runs |
| `mix_safety` | What may run and move; that safe requests and lost authority reach the engines | 2 engines, 2 surfaces (one a gimbal), 2 phases, 2 tables |
| `fault_monitor` | That silence is flagged and lasting faults are latched in bounded time, and nothing is that did not fail | a required sensor that is stale after a tick without a sample, a self-reporting actuator with one tick more, overruns, one condition, two at a time; health and FDIR every 2 ticks; every burst 2; all four detectors |
| `link_run` | That no frame is lost, doubled or late beyond a bound, no action batch lost, the best link used, and that the run ends | 8 steps, 2 links with 4 looks each (dark, and latencies 0, 1, 2) that change every step, hysteresis 1, every selection mode, either peer |
| `pil_link` | Refinement of `PilExchange`, and that the buffer never overflows | 7 frames of 1 to 4 bytes, 2 under way, reads of 1 to 3 bytes, a buffer of 5, 3 errors |
| `recorder` | Refinement of `RecordQueue`, and that the numbering shows the losses | 0 to 3 slots, both policies, 7 pushes, 2 refusals |
| `campaign` | That the file never loses a sample, and that the report has each once with its own outcome, as read back, and comes | 6 samples, chunks of 1 to 4, 2 campaigns that share the file, 4 deaths; a value that changes the first two times it is read |
| `mix_capacity`, `link_order` | Documented promises the code does not keep, see 7 | as above, 3 engines and room for 2 in `mix_capacity` |

Why the bounds suffice.  *Three jobs*: what goes wrong in a dispatch involves a
job, one before it and one after it.  *Counters to 2*: the code only compares a
sequence with a remembered one, and 2 is a value above "one unseen update"; at
the ceiling the saturating branch is taken too.  *Four tree states*: two branches
and a common ancestor with one more level, or a chain of four, or any cycle.
*Confirmation after 2 runs*: 1 is the degenerate case `Confirm` maps 0 to, 2 the
first with a run that counts and does not act.  *Two engines, two phases*: an
engine of the old phase, one of the new, one of both; tables cover each flag off.
*Eight steps, latency to 2*: a queue fills while the latency falls and drains while
it rises; both happen twice in eight steps, and no packet waits longer than four.
*Frames of 1 to 4 bytes, a buffer of 5*: a frame shorter than a read, one longer, and
two that fill the buffer exactly, so `CapacityAssumption` is tight.  *Seven pushes*:
the head passes the end of a ring of three twice.  *Four deaths*: one at each kind
of point (before the file is touched, in the write, before and after the rename).
*A value that changes twice*: a leaf may be read back more than once, and the chains
found by trying the reader's algorithm on random values were no longer.
The cases of the hazards that name properties are reached: each property has a faulty variant of
a definition, beside the definition it varies, that a run finds.

`sched_validated` and `hsm_trees` switch the deadlock check off because a
rejected table or tree stops the builder; `mix_safety` because an allocator error
ends the run; `link_run` and `pil_link` because runs and sessions are finite,
`recorder` because no pushes are left.

## 5 Fairness

* `Scheduler!FairSpec`: weak fairness of beginning a frame, evaluating the next
  job and ending the frame.  The lockstep kernel calls the controller on every
  tick and a dispatch is a bounded `for` loop.
* `Commander!FairSpec`: weak fairness of beginning a run and of its steps: the
  scheduler runs the commander periodically, and its loops are over finite lists.
* `Mixer!FairSpec`: weak fairness of the pass; strong fairness of `MixerRuns` and
  of the autopilot's publish, which are enabled only at their place of a pass.
  Both are periodic jobs of an accepted table (`PeriodicNeverStarves`), and the
  autopilot publishes whenever it runs in flight.  Nothing is assumed of the
  commander, the script or the faults.
* `FaultMonitor` assumes none: its promises have a time bound and are safety
  properties.
* `FcTransport!FairSpec`: weak fairness of the host, a single thread that only
  waits for the child process, and of the child's answers.  The host has no
  timeout: a child that neither answers nor exits would stop it, and is assumed away.
* `PilEndpoint!FairSpec`: weak fairness of the target's polling loop and of the
  host's reading.  Errors are bounded by `MaxErrors`; nothing obliges the host to send.
* `FlightRecorder!RecorderSpec`: weak fairness of a flush that succeeds; whoever flushes
  does so again, and refusals are bounded by `MaxFailures`.
* `Campaign!FairSpec`: a process runs on while it lives, and somebody invokes a
  campaign again until a report is printed.  Deaths are bounded by `MaxFaults`.

## 6 Proofs

TLAPS proves the following for every value of the constants that satisfies the
named assumptions; TLC evaluates those on the instances.

* **`SchedulerProofs`**.  `TypeCorrect`; `BudgetAlwaysAccounted`: the load of the
  jobs that ran plus what remains is the frame budget, by induction with the type
  invariant.  The lemmas say how `Load`, a sum over a finite set, grows by one job
  and is monotone.  `NoOverrunWhenFeasible`: the strengthening says that in a
  validated frame nothing was skipped and all that ran was in the demand set of
  this tick; the next job is in it too, so its budget is at most the frame's
  less what ran, and it fits.  `OwnPublishesAlwaysConsumed`: while a job of a frame is
  chosen, all that were evaluated are before it in dispatch order (`OrderInv`), so
  whatever wakes a job that ran is later than it; a job that fails is remembered in
  `failed`.  `WakeupsAreKept`: publishing never lowers a sequence number, and only
  the run of a job moves its `lastSeen`.  `ValidatedIsCyclic`: for
  `RequireValidation` each step of the scheduler is a step of `CyclicExecutive` or
  a stutter; that all periodic jobs due have run when the frame ends is
  `NoOverrunWhenFeasible` again, and the order is `OrderInv`.
  `WakeupsServedEveryFrame`: since nothing is skipped and the order is kept, a job
  whose turn has passed is pending only through an update that came later.
* **`HsmProofs`**, for every finite set of states.  A chain is the sequence of a walk up the
  parent function; what usually takes an induction over the walk is proved by
  looking at the first or the last position that breaks it, since sets of naturals have
  least elements.  `ForestsAccepted`: a walk that ends repeats no state, so it is no longer
  than the number of states; of the states of a forest without such a walk one would
  have a parent with one; and from a set without a root no walk ends.  The invariant of a
  transition (`Walk`): the exits still due are the active states that are not
  ancestors of the goal, deepest first; the enters due are the ancestors that are
  not active, topmost first; and the active states are closed under parents.  It is
  established because both chains share exactly what lies above the lowest common
  ancestor.  `ConfigurationAlwaysPath`, `ParentsAlwaysOutlast` and
  `TransitionsAreMinimal` follow from it.
* **`CommanderProofs`**.  `TypeCorrect`; `MissionNeverBackward` from the invariant
  `RunInv`: the phase is the one the run started in or further down, and *every
  move still to be done* (`ItemsPast`) leads further down than the start, which is
  what action lists could break and do not; it rests on `GraphAssumption` (edges
  increase `Depth`), which `MissionPhaseGraph::new` guarantees by rejecting cycles.
  `MissionRegionInSync` holds when no declared action sets the mission region.
  `SafeNeverMasked`: of all that writes regions in a run only an action declared to
  set the health region undoes a safe request.  `FdirAlwaysObeyed` from
  `DemandCounted`: at every point of a run the confirmation counter is at least the
  number of runs in a row that ended armed with FDIR asking for SAFE, and one more
  between the evaluation of FDIR and the publishing; every disarming or
  withdrawal that resets the counter resets that number.
  `RunsAreFinite`: the measure is the stage, the bindings and the transitions ahead, the
  exits, moves and entries on the work and then its length, compared in this order, which is
  well-founded; an exit or entry prefixes actions to the work, and a bijection shows
  that the other items stay as many as they were.
* **`MixerProofs`**.  The invariant is `TypeOK /\ FreshIsWanted /\
  OrderedRemembered`: a fresh demand is the autopilot's last one, and every engine
  ever ordered to run is remembered when all fit one set.  From it `EnginesStayNamed`,
  `NoSpuriousShutdown`, `OnlyAllowedRun`.  `OnlyAllowedSurfacesMove` assumes
  `PseudoControl = FALSE`: with that allocator it is false (section 7).
* **`FaultMonitorProofs`**.  `TypeCorrect`; `NoFalseAlarms` from `AgeInv`: what
  health measures is at most the true silence unless a sample waits to be seen.
  `FaultsAreIsolated` from `ReadIsReal`: all that health or FDIR could turn into a
  bit (flags, counts, samples, estimates, silences) was a fault at some time.
  `LastingFaultsLatched` and `InnovationsNeverLead` from `Latching`: the shared
  counter of `BurstCounter` has counted as far as any one bit has lasted; the other
  detectors latch in the run itself.  `SilenceAlwaysFlagged` from `LagInv`: what health
  measures of a source lags its true silence by less than the health period,
  because a sample is seen by the first health run after it, and one no health run
  has seen yet is younger than the ticks since the last.  The lemma under it is on
  remainders: the phase of the health job steps by one or wraps (`PhaseSteps`).
  Any sources, thresholds, rates and counts.
* **`FcTransportProofs`**.  `WaitIsBounded`: a queue can be served once a step, so the
  bound needs two facts of its content: between steps it holds at most `MaxDelay`
  packets, and once a packet has arrived the steps it has waited since and the
  packets ahead of it are together at most `MaxDelay`.  `BatchesAreRead`;
  `BestLinkAlways`, which needs that a finite set of margins has a greatest one.
  `FramesExactlyOnce`: the counts are read off the places of a frame (seen = sent and
  neither queued nor on the pipe to the child; done = seen, not queued as a command and
  not being answered), and the pipes hold answers to seen frames only, so that a
  second answer of a child never passes for that of a later frame.
  `NeverWaitsInVain`: the same description of the pipes says that a waiting host is owed a
  message; `RunsOnlyAdvance`: the step, then the place in it, only grow.
  Any latencies, links, plans, lengths of run.
* **`PilProofs`**, from `EndpointAssumption` and `CapacityAssumption`.  The invariant:
  answered <= stepped <= sent, what was read lies between the two offsets, and
  without a doubt the answers under way are those between answered and stepped in
  order.  `BufferSuffices`; `AnswersInOrder`, the safety part of the refinement.
* **`StorageProofs`**, about the two parts that write to a storage that may fail.  The
  campaign, from `CampaignAssumption` and `NoneAssumption`, neither of which says
  what reading does to a value: by `CampaignInv` the file and the process hold leaves
  of their own campaign, each with what its own outcome may have become, and no
  sample twice, since the workers have only samples the checkpoint lacks; the temporary
  file may be half written until the rename; and the process holds what was read from
  the file.  Under it are `RereadsClosed`, `ReadIsWhole` (reading keeps all of this and
  loses no index) and `CompleteHasAll` (as many leaves as samples are all samples: an
  injection between finite sets of one size).  `ReportIsComplete`, `FileNeverLoses`.
  `ReportIsExact` is the documented promise of the same bits, with the premise it
  lacks: no value the evaluator returns changes when it is read back.
  `EverySaveGains`: an invocation starts from what the file misses, so its rename leaves
  at least one sample more or a complete checkpoint.

  The recorder, for any capacity: `SlotFacts` says that up to a whole ring
  positions lie in slots of their own and that a start one slot further moves every
  position by one.  With it each ring operation is what it does to the queue read off
  the ring: a push appends, an overwrite drops the first and appends, a pop drops the
  first (`AppendAppends`, `OverwriteEvicts`, `PopTakes`).  `RecorderInv` adds the numbers:
  the queue holds the last ones given, without a gap, what left it has smaller and
  growing ones, and stored, queued and lost records are together those offered.
  `LossesAlwaysShow`; `RecorderIsQueue`, the safety part of `ImplementsQueue`.

Only model-checked: what is temporal under fairness, which the prover does not do.
These are `WakeupServed`, `PeriodicNeverStarves`, `FdirServed`, `SafeServed`,
`WithdrawalServed`, `RunEnds`, `ReportComes` and the liveness halves of `ImplementsExchange`
and `ImplementsQueue`.  For four of them what is left to fairness is small: a
validated frame serves every wake-up that came in time (`WakeupsServedEveryFrame`), the runs
of the commander behind `FdirServed` are finite (`RunsAreFinite`), the host of `RunEnds`
never waits in vain and only advances (`NeverWaitsInVain`, `RunsOnlyAdvance`), and behind
`ReportComes` each invocation that lives gains samples (`EverySaveGains`).

## 7 Where code and documentation disagree

Two have a run of their own, expected to find a violation:

* `mix_capacity` (bug): a command set stops at `MAX_ENGINE_COMMANDS` with the
  engines that lost their authority last, and forgets those that did not fit: they
  are never shut down.  `build_authority` checks each phase alone.
* `link_order`: when the latency drops, a later frame overtakes an earlier one and
  the controller's tick, said to be monotonic (`step.rs:24`), goes back.

Those that one reading shows have none.  With the `dense_inca` allocator the demand
is read from a topic no gate zeroes (`mixer.rs:359`, against `mixer.rs:195`), so
surfaces move in a phase without autopilot authority; `mix_safety` is therefore
checked without that allocator.  `EnterState` in an action list moves the phase without the exit
and entry chains that `events.rs:531` promises (`commander.rs:485`); `on_active` lists
of active ancestors never fire (`commander.rs:465`, against `hsm.rs:83`); and a
transition to a composite state stays there (`commander.rs:420`, against
`mission-graph-architecture.md:330`).  The model of `Commander` does all three as the
code does.

Noted while reading, without a run: `request_safe_state` takes the health region
out of `safed_on_fault`, which `mission-states-vocabulary.md` calls terminal;
`SetRegionState` may set the mission region and make the two published mission
states differ; the phase mask is applied when a new command arrives, not "on every
tick" as `mixer.rs` says.

In health and FDIR: `triggered` of the FDIR status is said to hold while a
detector "is currently flagging" (`msgs/lib.rs:1225`) but is latched, and
`ticks_since_trip` to count from the "most recent trip" but counts from the
first; `fdir_triggered` of the failsafe flags is set by nobody; "consecutive
scheduler overruns" (`health.rs:47`) counts health runs that saw one; and
"consecutive innovation breaches" (`fdir.rs:125`) start over in every run without
a sample, since the estimator clears its statistics each tick (`estimator.rs:864`).

In the endpoint: when the encoding of an answer fails after the controller's step,
the next poll steps the controller again with the same frame; when a write fails
after its bytes went out the answer is sent twice and the host ends the session.

In campaigns: a resumed campaign is said to be finished "without changing a single
output bit" (`docs/parity/12-determinism-realtime-and-compute.md:57`) and to
"produce the same final report bits" (`openbmp-mc/src/lib.rs:3413`).  Two things
break it.  The checkpoint stores a mean that adds the value to zero, so a sample of
−0.0 comes back as 0.0 (`lib.rs:2273`).  And each invocation reads the values with
`serde_json`, whose reader rounds a number exactly only when built with
`float_roundtrip`, which `Cargo.toml:94` does not ask for: 9.204938554384977
is one it reads as 9.204938554384976.  The tests of the promise stay in memory (`lib.rs:4295`)
or take the value 42.0 through the file (`lib.rs:4343`).  How often the reader errs
is arithmetic that the model leaves open, so there is no run for it: `Reread` is a
constant, `ReportHasAll` says what holds whatever it is, and `ReportIsExact` when
the promise is kept.  Nothing is synced to disk before the rename, and
two processes at once would share the temporary file.

## 8 What is not modelled

* Floating-point numerics: physics, filters, control laws, link budgets, samplers.
* Input and output formats, command line, telemetry files, FMI descriptions.
* Percentiles and cumulative counters of the scheduler, which nothing reads back.
* In `Mixer`, the transport: over it the host does not publish effector
  availability, which the model covers by letting `out` stay as it is.
* The PIL mailbox: the host fills it with the target halted, so nothing interleaves.
* Fault rules of the bridge: one that changes a packet ends the run, which is
  `Abort`.  A second rule that undoes the renumbering of the first, and the time
  triggers of rules, are left out.
* A child process that neither answers nor exits, and a loss of power during a
  campaign: the code has no defence to check.
* The components planned above and not yet built.  Range safety, recovery
  sequences, the pacer and the run loops are small state machines around
  numerics; estimators, guidance, trajectory optimisation and physics, most of the
  repository's lines, are numerics and stay out of a model checker's reach.
* Scenario documents, reports, telemetry and the front ends: input and output formats.
