----------------------------- MODULE Commander ------------------------------
(***************************************************************************)
(* The commander job (openbmp-fc, commander.rs): one run evaluates the     *)
(* event bindings in order, applies the transitions they ask for with the  *)
(* exit and entry actions of the state tree, arms the vehicle, follows     *)
(* FDIR with the health region, and publishes.  A run is cut into its      *)
(* loop iterations and calls; nothing else happens between them, because   *)
(* a dispatch runs one job at a time.                                      *)
(***************************************************************************)
EXTENDS HsmTree

CONSTANTS
  Parent,         \* the state tree
  Phases,         \* phases of the MissionPhaseGraph, all declared states
  Edges,          \* its transitions
  Depth,          \* longest-path depth of each phase
  StartPhase,
  Events,         \* event ids
  Bindings,       \* the event bindings, in order
  TimeEvents,     \* events whose trigger is a time
  OnEntry, OnExit, OnActive,  \* actions of each state
  Authority,      \* states that allow an effector or an engine
  FailsafeBlocks, \* CommanderParams::failsafe_blocks_arming
  DegradedTicks,  \* CommanderParams::fdir_degraded_confirm_ticks
  SafeTicks,      \* CommanderParams::fdir_safe_confirm_ticks
  BurstCap,       \* where the confirmation counters saturate
  Snapshots       \* what the other jobs may have published before a run

(***************************************************************************)
(* Mission actions.  Telemetry markers, stop requests and the regions no   *)
(* decision reads (comms, estimator_regime) are one action, Marker.        *)
(***************************************************************************)
HealthStates    == {"nominal", "degraded", "abort_requested", "safed_on_fault"}
RegionStates(r) == IF r = "mission" THEN Phases ELSE HealthStates
Regions         == {"mission", "health"}

EnterState(s)   == [kind |-> "enter", state |-> s]
SetRegion(r, s) == [kind |-> "set", region |-> r, state |-> s]
RaiseAlarm      == [kind |-> "alarm"]   \* RaiseHealthAlarm on health, nonzero code
RequestSafe     == [kind |-> "safe"]
Marker          == [kind |-> "marker"]

Actions == {EnterState(s) : s \in Phases} \cup {RaiseAlarm, RequestSafe, Marker}
           \cup UNION {{SetRegion(r, s) : s \in RegionStates(r)} : r \in Regions}

Inputs == [flags : {"none", "clear", "raised"},
           estimator : {"none", "ready", "notready"},
           fdir : {"none", "clear", "degraded", "safe"},
           climbing : BOOLEAN]

\* The graph has no cycle: there is a depth that every edge increases.
Forward(edges, depth) == \A e \in edges : depth[e.from] < depth[e.to]

\* What MissionPhaseGraph::new accepts: declared phases and events, one edge per
\* phase and event, no cycle.
AcceptedGraph(edges, depth) ==
  /\ edges \subseteq [from : Phases, event : Events, to : Phases]
  /\ \A e, f \in edges : e.from = f.from /\ e.event = f.event => e = f
  /\ Forward(edges, depth)

\* What construction guarantees: the graph and the tree are accepted, every
\* phase is a declared state, bindings have distinct events.
ASSUME GraphAssumption ==
  /\ Phases \subseteq States /\ StartPhase \in Phases
  /\ Parent \in Parents /\ Accepted(Parent)
  /\ Depth \in [Phases -> Nat] /\ AcceptedGraph(Edges, Depth)

ASSUME BindingAssumption ==
  /\ TimeEvents \subseteq Events
  /\ Bindings \in Seq([event : Events, action : Actions, once : BOOLEAN])
  /\ \A i, k \in DOMAIN Bindings : Bindings[i].event = Bindings[k].event => i = k
  /\ {OnEntry, OnExit, OnActive} \subseteq [States -> Seq(Actions)]

ASSUME ParamAssumption ==
  /\ Authority \subseteq States
  /\ FailsafeBlocks \in BOOLEAN
  /\ {DegradedTicks, SafeTicks, BurstCap} \subseteq Nat
  /\ BurstCap > 0 /\ BurstCap >= DegradedTicks /\ BurstCap >= SafeTicks
  /\ Snapshots \subseteq Inputs

VARIABLES
  phase,         \* current_phase
  region,        \* current state of the mission and health regions
  armed, inFlight,
  firedOnce,     \* once bindings that have fired
  degradedBurst, safeBurst,
  seen, level,   \* previous_scalars: whether there are any, and the events
                 \* whose condition they satisfy
  inputs, now,   \* the bus as this run sees it, and the events whose
                 \* condition the current scalars satisfy
  pc,            \* where the run is
  index,         \* next binding
  queue,         \* transitions: fired bindings still to apply
  work,          \* exits, moves, entries and actions still to do
  transitioned,
  status         \* VehicleStatus and MissionStatePublish on the bus

\* History, read by properties only.
VARIABLES
  start,         \* the phase this run started in
  demand         \* runs in a row that ended armed with FDIR asking for SAFE

mission == <<phase, region>>
health  == <<armed, inFlight, degradedBurst, safeBurst>>
run     == <<index, queue, work, transitioned>>
history == <<start, demand>>
vars    == <<mission, health, firedOnce, seen, level, inputs, now, pc, run, status, history>>

-----------------------------------------------------------------------------
ExitChain  == [from \in Phases |-> [to \in Phases |-> exit_chain(Parent, from, to)]]
EnterChain == [from \in Phases |-> [to \in Phases |-> enter_chain(Parent, from, to)]]

HasEdge(from, to) == \E e \in Edges : e.from = from /\ e.to = to
EdgeTargets(from, event) ==
  {e.to : e \in {f \in Edges : f.from = from /\ f.event = event}}

\* The edge of the fired event goes first; failing that, the state its action
\* names, along any edge to it.
Targets(fired) ==
  IF EdgeTargets(phase, fired.event) # {}
  THEN EdgeTargets(phase, fired.event)
  ELSE {s \in {fired.target} : HasEdge(phase, s)}

\* Regions after handle_health_alarm, request_safe_state or SetRegionState.
RegionAfter(action) ==
  IF action.kind \in {"alarm", "safe"}
  THEN [region EXCEPT !["health"] = "abort_requested"]
  ELSE IF action.kind = "set"
       THEN [region EXCEPT ![action.region] = action.state]
       ELSE region

SafeStates    == {"abort_requested", "safed_on_fault"}
SafeRequested == region["health"] \in SafeStates

Exits(chain)   == [i \in DOMAIN chain |-> [op |-> "exit", state |-> chain[i]]]
Entries(chain) == [i \in DOMAIN chain |-> [op |-> "entry", state |-> chain[i]]]
Acts(actions)  == [i \in DOMAIN actions |-> [op |-> "act", action |-> actions[i]]]
Move(to)       == [op |-> "move", state |-> to]

Tripped     == inputs.fdir \in {"degraded", "safe"}
Confirm(n)  == IF n = 0 THEN 1 ELSE n
\* Faulty variant: the counter does not saturate.
CountedForever(n) == n + 1

Counted(n)  == IF n < BurstCap THEN n + 1 ELSE n

-----------------------------------------------------------------------------
\* Commander::new.  The start state's on_entry actions never fire.
Init ==
  /\ phase = StartPhase
  /\ region = [r \in Regions |-> IF r = "mission" THEN StartPhase ELSE "nominal"]
  /\ armed = FALSE /\ inFlight = FALSE
  /\ firedOnce = {} /\ degradedBurst = 0 /\ safeBurst = 0
  /\ seen = FALSE /\ level = {}
  /\ inputs = [flags |-> "none", estimator |-> "none", fdir |-> "none", climbing |-> FALSE]
  /\ now = {}
  /\ pc = "idle" /\ index = 1 /\ queue = <<>> /\ work = <<>> /\ transitioned = FALSE
  /\ status = [phase |-> NoState, mission |-> NoState, armed |-> FALSE,
               inFlight |-> FALSE, safe |-> FALSE]
  /\ start = StartPhase /\ demand = 0

\* A topic that has a value keeps having one, and the FDIR job only ever adds
\* bits to its mask.
FdirRank == [none |-> 0, clear |-> 1, degraded |-> 2, safe |-> 3]
MayFollow(new) ==
  /\ inputs.flags # "none" => new.flags # "none"
  /\ inputs.estimator # "none" => new.estimator # "none"
  /\ FdirRank[new.fdir] >= FdirRank[inputs.fdir]

\* A new tick: the bus as the other jobs left it, and the scalars read from it.
BeginRun(new, scalars) ==
  /\ pc = "idle"
  /\ MayFollow(new)
  /\ level \cap TimeEvents \subseteq scalars
  /\ inputs' = new /\ now' = scalars
  /\ pc' = "bindings"
  /\ index' = 1 /\ queue' = <<>> /\ work' = <<>> /\ transitioned' = FALSE
  /\ start' = phase
  /\ UNCHANGED <<mission, health, firedOnce, seen, level, status, demand>>

\* Every built-in trigger detects a crossing since the previous run.
Fires(b) ==
  /\ ~(b.once /\ b.event \in firedOnce)
  /\ seen /\ b.event \in now \ level

SkipBinding ==
  /\ pc = "bindings" /\ index \in DOMAIN Bindings
  /\ ~Fires(Bindings[index])
  /\ index' = index + 1
  /\ UNCHANGED <<mission, health, firedOnce, seen, level, inputs, now, pc, queue,
                 work, transitioned, status, history>>

FireBinding ==
  /\ pc = "bindings" /\ index \in DOMAIN Bindings
  /\ LET b == Bindings[index]
     IN  /\ Fires(b)
         /\ firedOnce' = IF b.once THEN firedOnce \cup {b.event} ELSE firedOnce
         /\ region' = RegionAfter(b.action)
         /\ queue' = Append(queue,
                       [event |-> b.event,
                        target |-> IF b.action.kind = "enter" THEN b.action.state ELSE NoState])
  /\ index' = index + 1
  /\ UNCHANGED <<phase, health, seen, level, inputs, now, pc, work, transitioned,
                 status, history>>

BindingsDone ==
  /\ pc = "bindings" /\ index \notin DOMAIN Bindings
  /\ pc' = "transitions"
  /\ UNCHANGED <<mission, health, firedOnce, seen, level, inputs, now, run, status, history>>

\* apply_transition: both chains are those of the state left and the target,
\* whatever the exit actions do to current_phase meanwhile.
TakeTransition(to) ==
  /\ pc = "transitions" /\ work = <<>> /\ queue # <<>>
  /\ to \in Targets(Head(queue))
  /\ queue' = Tail(queue)
  /\ work' = Exits(ExitChain[phase][to]) \o <<Move(to)>>
             \o Entries(EnterChain[phase][to])
  /\ transitioned' = TRUE
  /\ UNCHANGED <<mission, health, firedOnce, seen, level, inputs, now, pc, index, status, history>>

\* No edge from the current phase: the request is dropped.
DropTransition ==
  /\ pc = "transitions" /\ work = <<>> /\ queue # <<>>
  /\ Targets(Head(queue)) = {}
  /\ queue' = Tail(queue)
  /\ UNCHANGED <<mission, health, firedOnce, seen, level, inputs, now, pc, index, work,
                 transitioned, status, history>>

\* on_active actions of the current phase, in a run without a transition.
StayActive ==
  /\ pc = "transitions" /\ work = <<>> /\ queue = <<>>
  /\ pc' = "active"
  /\ work' = IF transitioned THEN <<>> ELSE Acts(OnActive[phase])
  /\ UNCHANGED <<mission, health, firedOnce, seen, level, inputs, now, index, queue,
                 transitioned, status, history>>

\* One iteration of fire_hsm_exit_actions, then of fire_hsm_entry_actions.
ExitOne ==
  /\ work # <<>> /\ Head(work).op = "exit"
  /\ work' = Acts(OnExit[Head(work).state]) \o Tail(work)
  /\ UNCHANGED <<mission, health, firedOnce, seen, level, inputs, now, pc, index, queue,
                 transitioned, status, history>>

EnterOne ==
  /\ work # <<>> /\ Head(work).op = "entry"
  /\ work' = Acts(OnEntry[Head(work).state]) \o Tail(work)
  /\ UNCHANGED <<mission, health, firedOnce, seen, level, inputs, now, pc, index, queue,
                 transitioned, status, history>>

\* current_phase and sync_mission_region.
SetPhase(to) ==
  /\ phase' = to
  /\ region' = [region EXCEPT !["mission"] = to]

MoveOne ==
  /\ work # <<>> /\ Head(work).op = "move"
  /\ SetPhase(Head(work).state)
  /\ work' = Tail(work)
  /\ UNCHANGED <<health, firedOnce, seen, level, inputs, now, pc, index, queue,
                 transitioned, status, history>>

\* Faulty variant: EnterState does not ask for an edge.
ActOneUnguarded ==
  /\ work # <<>> /\ Head(work).op = "act"
  /\ LET action == Head(work).action
     IN  IF action.kind = "enter"
         THEN SetPhase(action.state)
         ELSE phase' = phase /\ region' = RegionAfter(action)
  /\ work' = Tail(work)
  /\ UNCHANGED <<health, firedOnce, seen, level, inputs, now, pc, index, queue,
                 transitioned, status, history>>

\* One iteration of apply_hsm_actions.  An EnterState in an action list moves
\* the phase without the exit and entry actions of a transition.
ActOne ==
  /\ work # <<>> /\ Head(work).op = "act"
  /\ LET action == Head(work).action
     IN  IF action.kind = "enter" /\ HasEdge(phase, action.state)
         THEN SetPhase(action.state)
         ELSE phase' = phase /\ region' = RegionAfter(action)
  /\ work' = Tail(work)
  /\ UNCHANGED <<health, firedOnce, seen, level, inputs, now, pc, index, queue,
                 transitioned, status, history>>

\* Faulty variants: a degraded fault masks a safe request, and a strict
\* comparison with the confirmation time.
FollowFdirMasking ==
  /\ degradedBurst' = IF inputs.fdir = "degraded" THEN Counted(degradedBurst) ELSE 0
  /\ safeBurst' = IF inputs.fdir = "safe" THEN Counted(safeBurst) ELSE 0
  /\ region' = IF safeBurst' >= Confirm(SafeTicks)
               THEN [region EXCEPT !["health"] = "abort_requested"]
               ELSE IF degradedBurst' >= Confirm(DegradedTicks)
                    THEN [region EXCEPT !["health"] = "degraded"]
                    ELSE region

FollowFdirStrict ==
  /\ degradedBurst' = IF inputs.fdir = "degraded" THEN Counted(degradedBurst) ELSE 0
  /\ safeBurst' = IF inputs.fdir = "safe" THEN Counted(safeBurst) ELSE 0
  /\ region' = IF safeBurst' > Confirm(SafeTicks)
               THEN [region EXCEPT !["health"] = "abort_requested"]
               ELSE region

\* confirm_fdir_health_request on a tripped mask, and the request it makes.
FollowFdir ==
  /\ degradedBurst' = IF inputs.fdir = "degraded" THEN Counted(degradedBurst) ELSE 0
  /\ safeBurst' = IF inputs.fdir = "safe" THEN Counted(safeBurst) ELSE 0
  /\ region' = IF safeBurst' >= Confirm(SafeTicks)
               THEN [region EXCEPT !["health"] = "abort_requested"]
               ELSE IF degradedBurst' >= Confirm(DegradedTicks) /\ ~SafeRequested
                    THEN [region EXCEPT !["health"] = "degraded"]
                    ELSE region

ResetFdir == degradedBurst' = 0 /\ safeBurst' = 0 /\ region' = region

\* try_arm.
TryArm ==
  /\ pc = "active" /\ work = <<>>
  /\ pc' = "fdir"
  /\ IF \/ armed
        \/ FailsafeBlocks /\ inputs.flags = "raised"
        \/ inputs.estimator = "notready"
     THEN UNCHANGED <<armed, degradedBurst, safeBurst, region>>
     ELSE IF Tripped THEN FollowFdir /\ UNCHANGED armed
                     ELSE ResetFdir /\ armed' = TRUE
  /\ UNCHANGED <<phase, inFlight, firedOnce, seen, level, inputs, now, run, status, history>>

\* Faulty variant: a confirmed fault is acted on once.
EvaluateFdirOnce ==
  /\ pc = "fdir"
  /\ pc' = "publish"
  /\ IF ~armed \/ safeBurst >= Confirm(SafeTicks)
     THEN UNCHANGED <<degradedBurst, safeBurst, region>>
     ELSE IF Tripped THEN FollowFdir ELSE ResetFdir
  /\ UNCHANGED <<phase, armed, inFlight, firedOnce, seen, level, inputs, now, run, status, history>>

\* evaluate_fdir_health_region.
EvaluateFdir ==
  /\ pc = "fdir"
  /\ pc' = "publish"
  /\ IF ~armed THEN UNCHANGED <<degradedBurst, safeBurst, region>>
     ELSE IF Tripped THEN FollowFdir ELSE ResetFdir
  /\ UNCHANGED <<phase, armed, inFlight, firedOnce, seen, level, inputs, now, run, status, history>>

\* evaluate_liftoff, the publishes and previous_scalars.
Publish ==
  /\ pc = "publish"
  /\ pc' = "idle"
  /\ inFlight' = (inFlight \/ (armed /\ (phase \in Authority \/ inputs.climbing)))
  /\ status' = [phase |-> phase, mission |-> region["mission"], armed |-> armed,
                inFlight |-> inFlight', safe |-> SafeRequested]
  /\ seen' = TRUE /\ level' = now
  /\ demand' = IF armed /\ inputs.fdir = "safe"
               THEN IF demand < Confirm(SafeTicks) THEN demand + 1 ELSE demand
               ELSE 0
  /\ UNCHANGED <<mission, armed, degradedBurst, safeBurst, firedOnce, inputs, now, run,
                 start>>

-----------------------------------------------------------------------------
Work  == ExitOne \/ EnterOne \/ MoveOne \/ ActOne
Begin == \E new \in Snapshots, scalars \in SUBSET Events : BeginRun(new, scalars)

Step ==
  \/ SkipBinding \/ FireBinding \/ BindingsDone
  \/ (\E to \in Phases : TakeTransition(to)) \/ DropTransition
  \/ Work
  \/ StayActive \/ TryArm \/ EvaluateFdir \/ Publish

Next == Begin \/ Step

Spec == Init /\ [][Next]_vars

\* The scheduler runs the commander again and again, and a run is a finite
\* loop that nothing interrupts.
FairSpec == Spec /\ WF_vars(Begin) /\ WF_vars(Step)

-----------------------------------------------------------------------------
(***************************************************************************)
(* Properties.                                                             *)
(***************************************************************************)
Items == [op : {"exit", "entry"}, state : States] \cup [op : {"move"}, state : Phases]
         \cup [op : {"act"}, action : Actions]

\* Every variable keeps its shape, and work is only left between the steps
\* that may have some.
TypeOK ==
  /\ phase \in Phases /\ region \in [Regions -> Phases \cup HealthStates]
  /\ \A r \in Regions : region[r] \in RegionStates(r)
  /\ armed \in BOOLEAN /\ inFlight \in BOOLEAN
  /\ firedOnce \in SUBSET Events
  /\ degradedBurst \in 0 .. BurstCap /\ safeBurst \in 0 .. BurstCap
  /\ seen \in BOOLEAN /\ level \in SUBSET Events
  /\ inputs \in Inputs /\ now \in SUBSET Events
  /\ pc \in {"idle", "bindings", "transitions", "active", "fdir", "publish"}
  /\ index \in 1 .. Len(Bindings) + 1
  /\ queue \in Seq([event : Events, target : Phases \cup {NoState}])
  /\ work \in Seq(Items)
  /\ pc \notin {"transitions", "active"} => work = <<>>
  /\ transitioned \in BOOLEAN
  /\ status \in [phase : Phases \cup {NoState}, mission : Phases \cup {NoState},
                 armed : BOOLEAN, inFlight : BOOLEAN, safe : BOOLEAN]
  /\ start \in Phases /\ demand \in Nat

\* Every action some binding or state declares.
Declared ==
  {Bindings[i].action : i \in DOMAIN Bindings}
  \cup UNION {ToSet(OnEntry[s]) \cup ToSet(OnExit[s]) \cup ToSet(OnActive[s]) : s \in States}

\* A mission never goes back: a run leaves the phase where it was or further
\* down the graph, even when several bindings fire in one tick and exit and
\* entry actions move the phase in between.
NeverBackward == pc = "idle" => phase = start \/ Depth[start] < Depth[phase]

\* The mission region mirrors current_phase at every point of a run, unless
\* an action sets that region itself.
MissionRegionMirrorsPhase ==
  (\A s \in Phases : SetRegion("mission", s) \notin Declared) => region["mission"] = phase

\* The action this step runs sets the health region: that of the binding it
\* fires, or that of the item it takes off the work.
SetsHealth ==
  LET sets(action) == action.kind = "set" /\ action.region = "health"
  IN  \/ pc = "bindings" /\ index \in DOMAIN Bindings /\ sets(Bindings[index].action)
      \/ work # <<>> /\ Head(work).op = "act" /\ sets(Head(work).action)

\* A safe request stands until an action takes the health region back: no
\* degraded-only fault, transition, arming or alarm masks it.
SafeRequestLatched == [][SafeRequested /\ ~SafeRequested' => SetsHealth]_vars

\* When FDIR has asked for SAFE through the confirmation time of an armed
\* vehicle, the published status says so, even if an action of the same run
\* set the health region to something else.
FdirObeyed == pc = "idle" /\ demand >= Confirm(SafeTicks) => status.safe

\* FDIR asking for SAFE reaches the published status of an armed vehicle.
FdirServed == (armed /\ inputs.fdir = "safe") ~> status.safe
=============================================================================
