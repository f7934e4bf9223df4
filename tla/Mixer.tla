------------------------------- MODULE Mixer --------------------------------
(***************************************************************************)
(* The mixer job, the last one between the autopilot and the engines and   *)
(* surfaces (openbmp-fc, mixer.rs), with the jobs that feed it and the     *)
(* host that applies what it publishes (openbmp-runner, fc_bridge.rs,      *)
(* engines.rs).  One tick is one pass of the host: script commands and     *)
(* engine availability, commander, autopilot, mixer, then the host applies *)
(* the latest command sets.  A job that is not due is skipped.             *)
(*                                                                         *)
(* Angles and throttles are abstracted: a surface moves or rests, an       *)
(* engine is ordered to run or to shut down.  The order of the engines in  *)
(* a command set is abstracted too: when not all fit, any may be left out. *)
(***************************************************************************)
EXTENDS Naturals, FiniteSets

CONSTANTS
  Engines, Effectors,
  Gimbals,        \* the effectors of an engine, unavailable once it failed
  Surfaces,       \* effectors the channel map or the allocator commands
  Phases, NoPhase,
  Tables,         \* phase-authority tables a scenario may declare
  MaxEngines,     \* MAX_ENGINE_COMMANDS
  PseudoControl,  \* TRUE: the dense_inca allocator is installed
  AllocatorFails  \* TRUE: the allocator may return an error

Authorities == [engines : SUBSET Engines, effectors : SUBSET Effectors,
                autopilot_allowed : BOOLEAN, engines_allowed : BOOLEAN]

ASSUME MixerAssumption ==
  /\ IsFiniteSet(Engines)
  /\ Gimbals \in [Engines -> SUBSET Effectors]
  /\ Surfaces \subseteq Effectors
  /\ NoPhase \notin Phases
  /\ Tables \subseteq [Phases -> Authorities]
  /\ MaxEngines \in Nat
  /\ PseudoControl \in BOOLEAN /\ AllocatorFails \in BOOLEAN

VARIABLES
  table,          \* the phase-authority table
  status,         \* VehicleStatus on the bus; flying is armed and in flight
  out,            \* EffectorAvailability: engines that are unavailable
  actuator,       \* ActuatorCommand on the bus and how many publishes of it
                  \* the mixer has not seen
  demand,         \* EngineDemand, likewise
  lastCommanded,  \* last_commanded_engines
  orders,         \* EngineCommandSet on the bus
  moving,         \* EffectorCommandSet: surfaces commanded to move
  safing,         \* a PropellantSafingCommand is on the bus
  engine,         \* what each engine does
  pc              \* where the host's pass is

\* History, read by properties only.
VARIABLES
  wanted,         \* the engine demand the autopilot published last
  ordered         \* engines the mixer has ever ordered to run

commands == <<actuator, demand, lastCommanded, orders, moving, safing>>
history  == <<wanted, ordered>>
vars     == <<table, status, out, commands, engine, pc, history>>

-----------------------------------------------------------------------------
\* PhaseAuthorityTable::lookup: without a status the permissive default, which
\* lists no effector and no engine.
Default == [engines |-> {}, effectors |-> {}, autopilot_allowed |-> TRUE,
            engines_allowed |-> TRUE]
Authority == IF status.phase \in Phases THEN table[status.phase] ELSE Default

\* What is left of it once unavailable effectors are taken out.
AllowedEffectors == Authority.effectors \ UNION {Gimbals[e] : e \in out}

ActuatorAllowed == status.flying /\ Authority.autopilot_allowed
EngineAllowed   == status.flying /\ Authority.engines_allowed

Available(e) == e \in Authority.engines /\ e \notin out

\* Bus::publish by a job other than the mixer.
Publish(value, topic) == [value |-> value, unseen |-> IF topic.unseen < 2 THEN topic.unseen + 1 ELSE 2]

\* Faulty variant: last_seen is the sequence of the command that was read, so
\* the mixer finds its own publish fresh in its next run.
RepublishUnseen(value) == [value |-> value, unseen |-> 1]

\* The mixer's publish on a topic it reads: last_seen is its own sequence.
Republish(value) == [value |-> value, unseen |-> 0]

Fresh(topic) == topic.unseen > 0

-----------------------------------------------------------------------------
\* build_authority refuses a phase with more engines than a set has room for.
Buildable(t) == \A p \in Phases : Cardinality(t[p].engines) <= MaxEngines

Init ==
  /\ table \in {t \in Tables : Buildable(t)}
  /\ status = [phase |-> NoPhase, flying |-> FALSE, safe |-> FALSE]
  /\ out = {}
  /\ actuator = [value |-> "none", unseen |-> 0]
  /\ demand = [value |-> "none", unseen |-> 0]
  /\ lastCommanded = {} /\ orders = [e \in {} |-> "run"] /\ moving = {} /\ safing = FALSE
  /\ engine = [e \in Engines |-> "idle"]
  /\ pc = "host"
  /\ wanted = "none" /\ ordered = {}

\* apply_commands: a scenario script ignites engines.  Then the host tells the
\* controller which engines have failed; over a transport it does not.
HostBegins(ignited) ==
  /\ pc = "host" /\ pc' = "commander"
  /\ engine' = [e \in Engines |-> IF e \in ignited /\ engine[e] = "idle"
                                  THEN "burning" ELSE engine[e]]
  /\ out' \in {out, {e \in Engines : engine[e] = "failed"}}
  /\ UNCHANGED <<table, status, commands, history>>

\* The commander: arming and flight are for good, the phase is any.
CommanderPublishes(phase, flying, safe) ==
  /\ pc = "commander" /\ pc' = "autopilot"
  /\ status.flying => flying
  /\ status' = [phase |-> phase, flying |-> flying, safe |-> safe]
  /\ UNCHANGED <<table, out, commands, engine, history>>

CommanderSkips ==
  /\ pc = "commander" /\ pc' = "autopilot"
  /\ UNCHANGED <<table, status, out, commands, engine, history>>

\* The autopilot holds still on the ground and shuts down on a safe request.
AutopilotPublishes(deflection) ==
  /\ pc = "autopilot" /\ pc' = "mixer"
  /\ status.flying
  /\ actuator' = Publish(deflection, actuator)
  /\ wanted' = IF status.safe THEN "shutdown" ELSE "run"
  /\ demand' = Publish(wanted', demand)
  /\ UNCHANGED <<table, status, out, lastCommanded, orders, moving, safing, engine, ordered>>

AutopilotSkips ==
  /\ pc = "autopilot" /\ pc' = "mixer"
  /\ UNCHANGED <<table, status, out, commands, engine, history>>

\* gate_actuator_command, channel_allowed.
Gated(value) == IF ActuatorAllowed THEN value ELSE "zero"

\* Faulty variant: the allocator's demand is not gated.
MovedUngated(value) == IF value = "move" THEN Surfaces \cap AllowedEffectors ELSE {}

\* effector_command_set: dense_inca takes its demand from the pseudo-control
\* topic, which nothing gates.
Moved(value) ==
  IF PseudoControl \/ Gated(value) = "move" THEN Surfaces \cap AllowedEffectors ELSE {}

ActuatorHalf ==
  IF Fresh(actuator)
  THEN actuator' = Republish(Gated(actuator.value)) /\ moving' = Moved(actuator.value)
  ELSE UNCHANGED <<actuator, moving>>

\* Faulty variant: engines that lost their authority are forgotten.
NamedAuthorizedOnly(authorized, before) == {authorized}

\* engine_command_set: the engines a set may name.  The loop stops when the
\* set is full.
Named(authorized, before) ==
  IF Cardinality(authorized \cup before) <= MaxEngines
  THEN {authorized \cup before}
  ELSE {s \in SUBSET (authorized \cup before) :
          authorized \subseteq s /\ Cardinality(s) = MaxEngines}

Orders(names, allowed, value) ==
  [e \in names |-> IF allowed /\ Available(e) /\ value = "run" THEN "run" ELSE "shutdown"]

\* Faulty variant: only the engines left running are remembered.
PublishOrdersRunning(allowed, value) ==
  /\ demand' = Republish(value)
  /\ \E names \in Named(Authority.engines, lastCommanded) :
       /\ orders' = Orders(names, allowed, value)
       /\ lastCommanded' = {e \in names : orders'[e] = "run"}
       /\ ordered' = ordered \cup lastCommanded'

PublishOrders(allowed, value) ==
  /\ demand' = Republish(value)
  /\ \E names \in Named(Authority.engines, lastCommanded) :
       /\ orders' = Orders(names, allowed, value)
       /\ lastCommanded' = names
       /\ ordered' = ordered \cup {e \in names : orders'[e] = "run"}

EngineHalf ==
  IF status.safe
  THEN safing' = TRUE /\ PublishOrders(FALSE, "shutdown")
  ELSE /\ UNCHANGED safing
       /\ IF Fresh(demand)
          THEN PublishOrders(EngineAllowed, IF EngineAllowed THEN demand.value ELSE "shutdown")
          ELSE UNCHANGED <<demand, orders, lastCommanded, ordered>>

\* Mixer::run.
MixerRuns ==
  /\ pc = "mixer" /\ pc' = "apply"
  /\ ActuatorHalf /\ EngineHalf
  /\ UNCHANGED <<table, status, out, engine, wanted>>

\* The allocator's error leaves Mixer::run before the engine half, and the
\* frame; the host ends the run.
MixerFails ==
  /\ AllocatorFails
  /\ pc = "mixer" /\ pc' = "failed"
  /\ Fresh(actuator)
  /\ actuator' = Republish(Gated(actuator.value))
  /\ UNCHANGED <<table, status, out, demand, lastCommanded, orders, moving, safing, engine,
                 history>>

MixerSkips ==
  /\ pc = "mixer" /\ pc' = "apply"
  /\ UNCHANGED <<table, status, out, commands, engine, history>>

\* Faulty variant: only engines of the current phase are commanded.
AfterOrderAuthorized(e) ==
  IF engine[e] = "burning" /\ e \in DOMAIN orders /\ orders[e] = "shutdown" /\ Available(e)
  THEN "off" ELSE engine[e]

\* LiquidEngine::apply_command: off and failed are final; a set never ignites.
AfterOrder(e) ==
  IF engine[e] = "burning" /\ e \in DOMAIN orders /\ orders[e] = "shutdown"
  THEN "off" ELSE engine[e]

\* apply_fc_commands on the latest set, new or not, then scheduled faults.
HostApplies(failing) ==
  /\ pc = "apply" /\ pc' = "host"
  /\ engine' = [e \in Engines |-> IF e \in failing THEN "failed" ELSE AfterOrder(e)]
  /\ UNCHANGED <<table, status, out, commands, history>>

-----------------------------------------------------------------------------
Begins    == \E ignited \in SUBSET Engines : HostBegins(ignited)
Commander == CommanderSkips \/ \E p \in Phases, f \in BOOLEAN, s \in BOOLEAN : CommanderPublishes(p, f, s)
Autopilot == \E d \in {"zero", "move"} : AutopilotPublishes(d)
Applies   == \E failing \in SUBSET Engines : HostApplies(failing)

Next ==
  \/ Begins \/ Commander \/ Autopilot \/ AutopilotSkips
  \/ MixerRuns \/ MixerFails \/ MixerSkips \/ Applies

Spec == Init /\ [][Next]_vars

\* The host keeps ticking, and the scheduler keeps running periodic jobs; the
\* autopilot publishes whenever it runs in flight with an attitude estimate.
FairSpec == Spec /\ WF_vars(Next) /\ SF_vars(MixerRuns) /\ SF_vars(Autopilot)

-----------------------------------------------------------------------------
(***************************************************************************)
(* Properties.                                                             *)
(***************************************************************************)
Topic == [value : {"none", "zero", "move", "run", "shutdown"}, unseen : 0 .. 2]

\* Every variable keeps its shape, and the mixer remembers exactly the engines
\* its latest set names.
TypeOK ==
  /\ table \in Tables
  /\ status \in [phase : Phases \cup {NoPhase}, flying : BOOLEAN, safe : BOOLEAN]
  /\ out \subseteq Engines
  /\ actuator \in Topic /\ demand \in Topic
  /\ lastCommanded \subseteq Engines
  /\ orders \in [lastCommanded -> {"run", "shutdown"}]
  /\ moving \subseteq Effectors /\ safing \in BOOLEAN
  /\ engine \in [Engines -> {"idle", "burning", "off", "failed"}]
  /\ pc \in {"host", "commander", "autopilot", "mixer", "apply", "failed"}
  /\ wanted \in {"none", "run", "shutdown"} /\ ordered \subseteq Engines

EnginesFit == Cardinality(Engines) <= MaxEngines

\* An engine the mixer once ordered to run is named in every later set, so
\* that it can still be shut down in a phase that does not list it.
OrderedStillNamed == EnginesFit => ordered \subseteq DOMAIN orders

\* Shutting down is final for an engine, so no set orders it without a reason
\* in the current status, authority and availability or in what the autopilot
\* last asked for: never from an old demand or from the mixer's own publish.
Reason(e) ==
  status.safe \/ ~EngineAllowed \/ e \notin Authority.engines \/ e \in out \/ wanted = "shutdown"

ShutdownHasReason ==
  [][orders' # orders => \A e \in DOMAIN orders' : orders'[e] = "shutdown" => Reason(e)]_vars

\* When the mixer has consumed a demand, no engine is ordered to run that the
\* status, the phase, the availability or a safe request keeps from running.
RunOrdersAllowed ==
  [][Fresh(demand) /\ ~Fresh(demand)' =>
       \A e \in DOMAIN orders' :
         orders'[e] = "run" => EngineAllowed /\ ~status.safe /\ e \in Authority.engines \ out]_vars

\* When the mixer has consumed an actuator command, only surfaces the phase
\* authorizes and that are available move, and none if the phase does not
\* allow the autopilot or the vehicle is not flying.
OnlyAllowedMove ==
  [][Fresh(actuator) /\ ~Fresh(actuator)' /\ pc' = "apply" =>
       moving' \subseteq (IF ActuatorAllowed THEN AllowedEffectors ELSE {})]_vars

\* A safe request shuts down every engine the mixer ever ordered to run, as
\* long as no allocator error ends the run.
SafeServed ==
  \A e \in Engines :
    (status.safe /\ e \in ordered) ~> (engine[e] # "burning" \/ ~status.safe \/ pc = "failed")

\* An engine in flight that loses its authority is shut down, unless the
\* authority comes back or an allocator error ends the run.
WithdrawalServed ==
  \A e \in Engines :
    (status.flying /\ e \in ordered /\ e \notin Authority.engines)
      ~> (engine[e] # "burning" \/ e \in Authority.engines \/ pc = "failed")

(***************************************************************************)
(* What documents and comments of the repository say.                      *)
(***************************************************************************)

\* The command set is a hard capacity, and no command is silently dropped:
\* every engine authorized or commanded before is in the new set.
NothingDropped ==
  [][orders' # orders => Authority.engines \cup lastCommanded \subseteq DOMAIN orders']_vars
=============================================================================
