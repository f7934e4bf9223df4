---------------------------- MODULE MixerProofs ----------------------------
(***************************************************************************)
(* Proofs about the mixer, for every table, set of engines and capacity.   *)
(*                                                                         *)
(* Inv adds to the types what the properties need: a demand the mixer      *)
(* has not seen is the last one the autopilot published, because the       *)
(* mixer's own publishes are never fresh; and while all engines fit one    *)
(* command set, every engine ever ordered to run is still remembered.      *)
(***************************************************************************)
EXTENDS Mixer, FiniteSetTheorems, TLAPS

FreshIsWanted == Fresh(demand) => demand.value = wanted /\ wanted # "none"
OrderedRemembered == EnginesFit => ordered \subseteq lastCommanded
Inv == TypeOK /\ FreshIsWanted /\ OrderedRemembered

-----------------------------------------------------------------------------
\* A command set names engines that are authorized or were commanded before,
\* and all of them when they fit.
LEMMA NamedNames ==
  ASSUME NEW a \in SUBSET Engines, NEW b \in SUBSET Engines, NEW n \in Named(a, b)
  PROVE  n \subseteq Engines /\ (EnginesFit => n = a \cup b)
<1>1. n \subseteq a \cup b BY DEF Named
<1>2. ASSUME EnginesFit PROVE Cardinality(a \cup b) <= MaxEngines
  <2>1. /\ IsFiniteSet(Engines) /\ a \cup b \subseteq Engines
    BY MixerAssumption
  <2>2. /\ IsFiniteSet(a \cup b)
        /\ Cardinality(a \cup b) <= Cardinality(Engines)
    BY <2>1, FS_Subset
  <2>3. Cardinality(a \cup b) \in Nat /\ Cardinality(Engines) \in Nat
    BY <2>1, <2>2, FS_CardinalityType
  <2> QED BY <1>2, <2>2, <2>3, MixerAssumption DEF EnginesFit
<1>3. ASSUME EnginesFit PROVE n = a \cup b
  BY <1>2, <1>3 DEF Named
<1> QED BY <1>1, <1>3

LEMMA AuthorityType ==
  ASSUME TypeOK
  PROVE  /\ Authority \in Authorities
         /\ Authority.engines \subseteq Engines
         /\ Authority.effectors \subseteq Effectors
<1>1. table \in [Phases -> Authorities] BY MixerAssumption DEF TypeOK
<1>2. Authority \in Authorities
  <2>1. CASE status.phase \in Phases BY <1>1, <2>1 DEF Authority
  <2>2. CASE status.phase \notin Phases BY <2>2 DEF Authority, Default, Authorities
  <2> QED BY <2>1, <2>2
<1> QED BY <1>2 DEF Authorities

LEMMA InitInv == Init => Inv
<1> SUFFICES ASSUME Init PROVE Inv OBVIOUS
<1>1. table \in Tables BY DEF Init
<1>2. actuator \in Topic /\ demand \in Topic BY DEF Init, Topic
<1>3. lastCommanded = {} /\ orders \in [lastCommanded -> {"run", "shutdown"}] BY DEF Init
<1>4. engine \in [Engines -> {"idle", "burning", "off", "failed"}] BY DEF Init
<1>5. status \in [phase : Phases \cup {NoPhase}, flying : BOOLEAN, safe : BOOLEAN] BY DEF Init
<1>6. out = {} /\ moving = {} /\ ordered = {} BY DEF Init
<1>7. safing \in BOOLEAN /\ wanted = "none" /\ pc = "host" BY DEF Init
<1>8. TypeOK BY <1>1, <1>2, <1>3, <1>4, <1>5, <1>6, <1>7 DEF TypeOK
<1>9. ~Fresh(demand) BY DEF Init, Fresh
<1> QED BY <1>6, <1>8, <1>9 DEF Inv, FreshIsWanted, OrderedRemembered

\* Publishing on a topic keeps its shape and makes it fresh.
LEMMA PublishType ==
  ASSUME NEW t \in Topic, NEW v \in {"none", "zero", "move", "run", "shutdown"}
  PROVE  Publish(v, t) \in Topic /\ Publish(v, t).value = v
<1>1. t.unseen \in 0 .. 2 BY DEF Topic
<1>2. (IF t.unseen < 2 THEN t.unseen + 1 ELSE 2) \in 0 .. 2 BY <1>1
<1> QED BY <1>2 DEF Publish, Topic

-----------------------------------------------------------------------------
\* The set a run of the mixer publishes keeps the invariant.
LEMMA PublishOrdersKeeps ==
  ASSUME Inv, NEW allowed \in BOOLEAN, NEW value \in {"none", "zero", "move", "run", "shutdown"},
         PublishOrders(allowed, value)
  PROVE  /\ demand' \in Topic /\ ~Fresh(demand)'
         /\ lastCommanded' \subseteq Engines
         /\ orders' \in [lastCommanded' -> {"run", "shutdown"}]
         /\ ordered' \subseteq Engines
         /\ OrderedRemembered'
<1>1. PICK names \in Named(Authority.engines, lastCommanded) :
        /\ orders' = Orders(names, allowed, value)
        /\ lastCommanded' = names
        /\ ordered' = ordered \cup {e \in names : orders'[e] = "run"}
  BY DEF PublishOrders
<1>2. names \subseteq Engines /\ (EnginesFit => names = Authority.engines \cup lastCommanded)
  BY <1>1, NamedNames, AuthorityType DEF Inv, TypeOK
<1>3. demand' \in Topic /\ ~Fresh(demand)'
  BY DEF PublishOrders, Republish, Topic, Fresh
<1>4. orders' \in [lastCommanded' -> {"run", "shutdown"}]
  BY <1>1 DEF Orders
<1>5. ordered' \subseteq Engines
  BY <1>1, <1>2 DEF Inv, TypeOK
<1>6. OrderedRemembered'
  BY <1>1, <1>2 DEF OrderedRemembered, EnginesFit, Inv
<1> QED BY <1>1, <1>2, <1>3, <1>4, <1>5, <1>6

\* The three ways the engine half can go.
LEMMA EngineHalfCases ==
  ASSUME TypeOK, EngineHalf
  PROVE  \/ status.safe /\ PublishOrders(FALSE, "shutdown") /\ safing' = TRUE
         \/ /\ ~status.safe /\ Fresh(demand) /\ safing' = safing
            /\ PublishOrders(EngineAllowed, IF EngineAllowed THEN demand.value ELSE "shutdown")
         \/ /\ ~status.safe /\ ~Fresh(demand)
            /\ UNCHANGED <<demand, orders, lastCommanded, ordered, safing>>
  BY DEF EngineHalf

LEMMA EngineAllowedType == TypeOK => EngineAllowed \in BOOLEAN
<1> SUFFICES ASSUME TypeOK PROVE EngineAllowed \in BOOLEAN OBVIOUS
<1>1. status.flying \in BOOLEAN BY DEF TypeOK
<1>2. Authority.engines_allowed \in BOOLEAN BY AuthorityType DEF Authorities
<1> QED BY <1>1, <1>2 DEF EngineAllowed

LEMMA EngineHalfKeeps ==
  ASSUME Inv, EngineHalf, UNCHANGED wanted
  PROVE  /\ demand' \in Topic /\ FreshIsWanted'
         /\ lastCommanded' \subseteq Engines
         /\ orders' \in [lastCommanded' -> {"run", "shutdown"}]
         /\ ordered' \subseteq Engines
         /\ OrderedRemembered' /\ safing' \in BOOLEAN
<1>0. TypeOK BY DEF Inv
<1>1. CASE status.safe /\ PublishOrders(FALSE, "shutdown") /\ safing' = TRUE
  BY <1>1, PublishOrdersKeeps DEF FreshIsWanted, Fresh
<1>2. CASE /\ ~status.safe /\ Fresh(demand) /\ safing' = safing
           /\ PublishOrders(EngineAllowed, IF EngineAllowed THEN demand.value ELSE "shutdown")
  <2>1. (IF EngineAllowed THEN demand.value ELSE "shutdown")
          \in {"none", "zero", "move", "run", "shutdown"}
    BY <1>0 DEF TypeOK, Topic
  <2>2. EngineAllowed \in BOOLEAN BY <1>0, EngineAllowedType
  <2>3. safing' \in BOOLEAN BY <1>0, <1>2 DEF TypeOK
  <2> QED BY <1>2, <2>1, <2>2, <2>3, PublishOrdersKeeps DEF FreshIsWanted, Fresh
<1>3. CASE /\ ~status.safe /\ ~Fresh(demand)
           /\ UNCHANGED <<demand, orders, lastCommanded, ordered, safing>>
  BY <1>3 DEF Inv, TypeOK, FreshIsWanted, Fresh, OrderedRemembered, EnginesFit
<1> QED BY <1>0, <1>1, <1>2, <1>3, EngineHalfCases

LEMMA GatedType ==
  ASSUME TypeOK
  PROVE  Gated(actuator.value) \in {"none", "zero", "move", "run", "shutdown"}
  BY DEF Gated, TypeOK, Topic

LEMMA ActuatorHalfKeeps ==
  ASSUME TypeOK, ActuatorHalf
  PROVE  actuator' \in Topic /\ moving' \subseteq Effectors
<1>1. Republish(Gated(actuator.value)) \in Topic BY GatedType DEF Republish, Topic
<1>2. AllowedEffectors \subseteq Effectors BY AuthorityType DEF AllowedEffectors
<1>3. Moved(actuator.value) \subseteq Effectors BY <1>2 DEF Moved
<1> QED BY <1>1, <1>3 DEF ActuatorHalf, TypeOK

LEMMA RunKeeps == ASSUME Inv, MixerRuns PROVE Inv'
<1>0. TypeOK BY DEF Inv
<1>1. EngineHalf /\ ActuatorHalf /\ UNCHANGED <<table, status, out, engine, wanted>> /\ pc' = "apply"
  BY DEF MixerRuns
<1>2. actuator' \in Topic /\ moving' \subseteq Effectors BY <1>0, <1>1, ActuatorHalfKeeps
<1>3. /\ demand' \in Topic /\ FreshIsWanted'
      /\ lastCommanded' \subseteq Engines
      /\ orders' \in [lastCommanded' -> {"run", "shutdown"}]
      /\ ordered' \subseteq Engines
      /\ OrderedRemembered' /\ safing' \in BOOLEAN
  BY <1>1, EngineHalfKeeps
<1>4. TypeOK' BY <1>0, <1>1, <1>2, <1>3 DEF TypeOK
<1> QED BY <1>3, <1>4 DEF Inv

-----------------------------------------------------------------------------
LEMMA AutopilotKeeps ==
  ASSUME Inv, NEW d \in {"zero", "move"}, AutopilotPublishes(d) PROVE Inv'
<1>1. wanted' \in {"run", "shutdown"} BY DEF AutopilotPublishes
<1>2. actuator' \in Topic BY PublishType DEF AutopilotPublishes, Inv, TypeOK
<1>3. demand' \in Topic /\ demand'.value = wanted'
  BY <1>1, PublishType DEF AutopilotPublishes, Inv, TypeOK
<1>4. TypeOK' BY <1>1, <1>2, <1>3 DEF AutopilotPublishes, Inv, TypeOK
<1>5. FreshIsWanted' BY <1>1, <1>3 DEF FreshIsWanted
<1>6. OrderedRemembered'
  BY DEF OrderedRemembered, EnginesFit, AutopilotPublishes, Inv
<1> QED BY <1>4, <1>5, <1>6 DEF Inv

\* The steps of the other jobs and of the host leave what Inv relates alone.
LEMMA OthersKeep ==
  ASSUME Inv, UNCHANGED <<table, demand, lastCommanded, orders, moving, safing, history>>,
         status' \in [phase : Phases \cup {NoPhase}, flying : BOOLEAN, safe : BOOLEAN],
         out' \subseteq Engines, actuator' \in Topic,
         engine' \in [Engines -> {"idle", "burning", "off", "failed"}],
         pc' \in {"host", "commander", "autopilot", "mixer", "apply", "failed"}
  PROVE  Inv'
  BY DEF Inv, TypeOK, FreshIsWanted, Fresh, OrderedRemembered, EnginesFit, history

LEMMA NextKeeps == ASSUME Inv, [Next]_vars PROVE Inv'
<1>0. TypeOK BY DEF Inv
<1>1. ASSUME NEW i \in SUBSET Engines, HostBegins(i) PROVE Inv'
  <2>1. engine' \in [Engines -> {"idle", "burning", "off", "failed"}]
    BY <1>0, <1>1 DEF HostBegins, TypeOK
  <2>2. out' \subseteq Engines BY <1>0, <1>1 DEF HostBegins, TypeOK
  <2> QED BY <1>0, <1>1, <2>1, <2>2, OthersKeep DEF HostBegins, TypeOK, commands
<1>2. ASSUME NEW p \in Phases, NEW f \in BOOLEAN, NEW s \in BOOLEAN, CommanderPublishes(p, f, s)
      PROVE Inv'
  BY <1>0, <1>2, OthersKeep DEF CommanderPublishes, TypeOK, commands
<1>3. CASE CommanderSkips
  BY <1>0, <1>3, OthersKeep DEF CommanderSkips, TypeOK, commands
<1>4. CASE AutopilotSkips
  BY <1>0, <1>4, OthersKeep DEF AutopilotSkips, TypeOK, commands
<1>5. CASE MixerFails
  <2>1. actuator' \in Topic BY <1>0, <1>5, GatedType DEF MixerFails, Republish, Topic
  <2> QED BY <1>0, <1>5, <2>1, OthersKeep DEF MixerFails, TypeOK
<1>6. CASE MixerSkips
  BY <1>0, <1>6, OthersKeep DEF MixerSkips, TypeOK, commands
<1>7. ASSUME NEW g \in SUBSET Engines, HostApplies(g) PROVE Inv'
  <2>1. \A e \in Engines : AfterOrder(e) \in {"idle", "burning", "off", "failed"}
    BY <1>0 DEF AfterOrder, TypeOK
  <2>2. engine' \in [Engines -> {"idle", "burning", "off", "failed"}]
    BY <1>7, <2>1 DEF HostApplies
  <2> QED BY <1>0, <1>7, <2>2, OthersKeep DEF HostApplies, TypeOK, commands
<1>8. CASE UNCHANGED vars
  BY <1>0, <1>8, OthersKeep DEF vars, TypeOK, commands
<1> QED
  BY <1>1, <1>2, <1>3, <1>4, <1>5, <1>6, <1>7, <1>8, RunKeeps, AutopilotKeeps
  DEF Next, Begins, Commander, Autopilot, Applies

LEMMA Invariance == Spec => []Inv
<1>1. Inv /\ [Next]_vars => Inv' BY NextKeeps
<1> QED BY InitInv, <1>1, PTL DEF Spec

-----------------------------------------------------------------------------
\* The bus, the mixer's memory and the engines keep their shape, and the mixer
\* remembers exactly the engines its latest set names.
THEOREM TypeCorrect == Spec => []TypeOK
  BY Invariance, PTL DEF Inv

\* As long as all engines fit one command set, an engine once ordered to run
\* is named in every later set.
THEOREM EnginesStayNamed == Spec => []OrderedStillNamed
<1>1. Inv => OrderedStillNamed
  BY DEF Inv, OrderedRemembered, OrderedStillNamed, TypeOK
<1> QED BY <1>1, Invariance, PTL

\* No engine is shut down for a demand that is no longer the autopilot's.
THEOREM NoSpuriousShutdown == Spec => ShutdownHasReason
<1>1. ASSUME Inv, [Next]_vars, orders' # orders, NEW e \in DOMAIN orders', orders'[e] = "shutdown"
      PROVE  Reason(e)
  <2>0. TypeOK BY <1>1 DEF Inv
  <2>1. EngineHalf
    BY <1>1 DEF Next, vars, commands, Begins, HostBegins, Commander, CommanderPublishes,
       CommanderSkips, Autopilot, AutopilotPublishes, AutopilotSkips, MixerRuns, MixerFails,
       MixerSkips, Applies, HostApplies
  <2>2. CASE status.safe BY <2>2 DEF Reason
  <2>3. CASE /\ ~status.safe /\ Fresh(demand)
             /\ PublishOrders(EngineAllowed, IF EngineAllowed THEN demand.value ELSE "shutdown")
    <3>1. CASE ~EngineAllowed BY <3>1 DEF Reason
    <3>2. CASE EngineAllowed
      <4>1. PICK names \in Named(Authority.engines, lastCommanded) :
              orders' = Orders(names, EngineAllowed, demand.value)
        BY <2>3, <3>2 DEF PublishOrders
      <4>2. ~(Available(e) /\ demand.value = "run")
        BY <1>1, <3>2, <4>1 DEF Orders
      <4>3. demand.value = wanted BY <1>1, <2>3 DEF Inv, FreshIsWanted
      <4>4. CASE ~Available(e) BY <4>4 DEF Available, Reason
      <4>5. CASE wanted # "run"
        <5>1. wanted \in {"none", "run", "shutdown"} BY <2>0 DEF TypeOK
        <5>2. wanted # "none"
          BY <1>1, <2>3 DEF Inv, FreshIsWanted
        <5> QED BY <4>5, <5>1, <5>2 DEF Reason
      <4> QED BY <4>2, <4>3, <4>4, <4>5
    <3> QED BY <3>1, <3>2
  <2> QED BY <1>1, <2>0, <2>1, <2>2, <2>3, EngineHalfCases
<1>2. Inv /\ [Next]_vars
        => [orders' # orders => \A e \in DOMAIN orders' : orders'[e] = "shutdown" => Reason(e)]_vars
  BY <1>1
<1> QED BY <1>2, Invariance, PTL DEF Spec, ShutdownHasReason

\* A consumed demand never lets an engine run against the status, the phase,
\* the availability or a safe request.
THEOREM OnlyAllowedRun == Spec => RunOrdersAllowed
<1>1. ASSUME Inv, [Next]_vars, Fresh(demand), ~Fresh(demand)',
             NEW e \in DOMAIN orders', orders'[e] = "run"
      PROVE  EngineAllowed /\ ~status.safe /\ e \in Authority.engines \ out
  <2>0. TypeOK BY <1>1 DEF Inv
  <2>1. CASE MixerRuns
    <3>1. EngineHalf BY <2>1 DEF MixerRuns
    <3>2. PICK allowed \in BOOLEAN, value \in {"none", "zero", "move", "run", "shutdown"} :
            /\ PublishOrders(allowed, value)
            /\ allowed => EngineAllowed /\ ~status.safe
      <4>1. EngineAllowed \in BOOLEAN BY <2>0, EngineAllowedType
      <4>2. (IF EngineAllowed THEN demand.value ELSE "shutdown")
              \in {"none", "zero", "move", "run", "shutdown"}
        BY <2>0 DEF TypeOK, Topic
      <4> QED BY <1>1, <2>0, <3>1, <4>1, <4>2, EngineHalfCases
    <3>3. PICK names \in Named(Authority.engines, lastCommanded) :
            orders' = Orders(names, allowed, value)
      BY <3>2 DEF PublishOrders
    <3> QED BY <1>1, <3>2, <3>3 DEF Orders, Available
  <2>2. ASSUME NEW d \in {"zero", "move"}, AutopilotPublishes(d) PROVE FALSE
    <3>1. demand' = Publish(wanted', demand) BY <2>2 DEF AutopilotPublishes
    <3>2. demand.unseen \in 0 .. 2 BY <2>0 DEF TypeOK, Topic
    <3> QED BY <1>1, <3>1, <3>2 DEF Fresh, Publish
  <2>3. CASE demand' = demand BY <1>1, <2>3 DEF Fresh
  <2> QED
    BY <1>1, <2>1, <2>2, <2>3
    DEF Next, vars, commands, Begins, HostBegins, Commander, CommanderPublishes, CommanderSkips,
        Autopilot, AutopilotSkips, MixerFails, MixerSkips, Applies, HostApplies
<1>2. Inv /\ [Next]_vars
        => [Fresh(demand) /\ ~Fresh(demand)' =>
              \A e \in DOMAIN orders' :
                orders'[e] = "run" => EngineAllowed /\ ~status.safe /\ e \in Authority.engines \ out]_vars
  BY <1>1
<1> QED BY <1>2, Invariance, PTL DEF Spec, RunOrdersAllowed

\* Without the pseudo-control allocator, whose demand nothing gates, a consumed
\* actuator command moves only surfaces the phase authorizes and that are
\* available, and none that the phase or the vehicle's state forbids.
THEOREM OnlyAllowedSurfacesMove ==
  ASSUME PseudoControl = FALSE
  PROVE  Spec => OnlyAllowedMove
<1>1. ASSUME Inv, [Next]_vars, Fresh(actuator), ~Fresh(actuator)', pc' = "apply"
      PROVE  moving' \subseteq (IF ActuatorAllowed THEN AllowedEffectors ELSE {})
  <2>0. TypeOK BY <1>1 DEF Inv
  <2>1. CASE MixerRuns
    <3>1. moving' = Moved(actuator.value) BY <1>1, <2>1 DEF MixerRuns, ActuatorHalf
    <3>2. CASE ActuatorAllowed BY <3>1, <3>2 DEF Moved
    <3>3. CASE ~ActuatorAllowed
      <4>1. Gated(actuator.value) # "move" BY <3>3 DEF Gated
      <4>2. moving' = {} BY <3>1, <4>1 DEF Moved
      <4> QED BY <4>2
    <3> QED BY <3>2, <3>3
  <2>2. CASE ~MixerRuns
    <3>1. actuator' = actuator \/ pc' \in {"mixer", "failed"}
      BY <1>1, <2>2
      DEF Next, vars, commands, Begins, HostBegins, Commander, CommanderPublishes, CommanderSkips,
          Autopilot, AutopilotPublishes, AutopilotSkips, MixerFails, MixerSkips, Applies, HostApplies
    <3> QED BY <1>1, <3>1 DEF Fresh
  <2> QED BY <2>1, <2>2
<1>2. Inv /\ [Next]_vars
        => [Fresh(actuator) /\ ~Fresh(actuator)' /\ pc' = "apply" =>
              moving' \subseteq (IF ActuatorAllowed THEN AllowedEffectors ELSE {})]_vars
  BY <1>1
<1> QED BY <1>2, Invariance, PTL DEF Spec, OnlyAllowedMove
=============================================================================
