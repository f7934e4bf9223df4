-------------------------- MODULE CommanderProofs ---------------------------
(***************************************************************************)
(* Invariants of the commander for every mission graph, state tree, set of *)
(* bindings and confirmation time.  The work a run still has to do is      *)
(* described by the set its items come from: every move on it leads past   *)
(* the phase the run started in, and every action on it is declared.       *)
(***************************************************************************)
EXTENDS Commander, WellFoundedInduction, SequenceTheorems, FiniteSetTheorems, TLAPS

-----------------------------------------------------------------------------
(***************************************************************************)
(* The chains of the mission region's state tree are sequences of states.  *)
(***************************************************************************)

\* Every nonempty set of naturals has a least element.
LEMMA LeastNatural ==
  ASSUME NEW S, S \subseteq Nat, S # {}
  PROVE  \E m \in S : \A n \in S : m <= n
<1>1. PICK m \in S : \A n \in S : <<n, m>> \notin OpToRel(<, Nat)
  BY NatLessThanWellFounded, WFMin
<1>2. \A n \in S : ~(n < m)
  BY <1>1 DEF OpToRel
<1>. QED
  BY <1>2

\* An accepted tree has a parent chain for every state.
LEMMA ChainOfState ==
  ASSUME NEW par, Accepted(par), NEW s \in States
  PROVE  /\ parent_chain(par, s) \in Seq(States)
         /\ IsParentChain(par, parent_chain(par, s), s)
<1>1. parent_chain(par, s) \in Paths /\ IsParentChain(par, parent_chain(par, s), s)
  BY DEF Accepted, parent_chain
<1>2. Paths \subseteq Seq(States)
  BY DEF Paths, BoundedSeq, SeqOf
<1>. QED
  BY <1>1, <1>2

LEMMA MinIsElement ==
  ASSUME NEW S, S \subseteq Nat, S # {}
  PROVE  Min(S) \in S
<1>1. PICK m \in S : \A n \in S : m <= n
  BY LeastNatural
<1>. QED
  BY <1>1 DEF Min

\* Below keeps a prefix of the chain.
LEMMA BelowIsPrefix ==
  ASSUME NEW chain \in Seq(States), NEW s
  PROVE  \E n \in 0 .. Len(chain) : Below(chain, s) = SubSeq(chain, 1, n)
<1>. SUFFICES ASSUME NEW I, I = {i \in 1 .. Len(chain) : chain[i] = s}
             PROVE  \E n \in 0 .. Len(chain) : Below(chain, s) = SubSeq(chain, 1, n)
  OBVIOUS
<1>1. Below(chain, s) = IF I = {} THEN chain
                        ELSE IF Min(I) = 0 THEN chain ELSE SubSeq(chain, 1, Min(I) - 1)
  BY DEF Below, SelectInSeq
<1>2. I \subseteq 1 .. Len(chain)
  OBVIOUS
<1>3. chain = SubSeq(chain, 1, Len(chain)) /\ Len(chain) \in Nat
  BY SubSeqFull, LenProperties
<1>4. CASE I = {}
  BY <1>1, <1>3, <1>4
<1>5. CASE I # {}
  <2>1. Min(I) \in 1 .. Len(chain)
    <3>1. I \subseteq Nat
      BY <1>2
    <3>2. Min(I) \in I
      BY <1>5, <3>1, MinIsElement
    <3>. QED
      BY <1>2, <3>2
  <2>2. PICK k \in 1 .. Len(chain) : k = Min(I)
    BY <2>1
  <2>3. k # 0 /\ k - 1 \in 0 .. Len(chain)
    BY <1>3
  <2>4. Below(chain, s) = SubSeq(chain, 1, k - 1)
    BY <1>1, <1>5, <2>2, <2>3
  <2>. QED
    BY <2>3, <2>4
<1>. QED
  BY <1>4, <1>5

LEMMA BelowType ==
  ASSUME NEW chain \in Seq(States), NEW s
  PROVE  Below(chain, s) \in Seq(States)
<1>1. PICK n \in 0 .. Len(chain) : Below(chain, s) = SubSeq(chain, 1, n)
  BY BelowIsPrefix
<1>. QED
  BY <1>1, SubSeqProperties, ElementOfSeq, LenProperties

\* Both chains of a transition are sequences of states.
LEMMA ChainsType ==
  ASSUME NEW par, Accepted(par), NEW a \in States, NEW b \in States
  PROVE  /\ exit_chain(par, a, b) \in Seq(States)
         /\ enter_chain(par, a, b) \in Seq(States)
<1>1. \A s : Below(parent_chain(par, a), s) \in Seq(States)
  BY ChainOfState, BelowType
<1>2. \A s : Below(parent_chain(par, b), s) \in Seq(States)
  BY ChainOfState, BelowType
<1>3. \A c \in Seq(States) : Reverse(c) \in Seq(States)
  <2>. SUFFICES ASSUME NEW c \in Seq(States) PROVE Reverse(c) \in Seq(States)
    OBVIOUS
  <2>1. \A i \in 1 .. Len(c) : c[(Len(c) - i) + 1] \in States
    BY ElementOfSeq, LenProperties
  <2>. QED
    BY <2>1 DEF Reverse
<1>. QED
  BY <1>1, <1>2, <1>3 DEF exit_chain, enter_chain

-----------------------------------------------------------------------------
Later(st)     == {p \in Phases : Depth[st] < Depth[p]}
ItemsPast(st) == [op : {"exit", "entry"}, state : States] \cup [op : {"move"}, state : Later(st)]
                 \cup [op : {"act"}, action : Declared]

AtOrPast == phase = start \/ phase \in Later(start)

\* What a run keeps, at every point of it.
RunInv ==
  /\ TypeOK
  /\ work \in Seq(ItemsPast(start))
  /\ AtOrPast
  /\ MissionRegionMirrorsPhase

-----------------------------------------------------------------------------
\* Declared actions are mission actions.
LEMMA DeclaredActions == Declared \subseteq Actions
<1>1. \A i \in DOMAIN Bindings : Bindings[i].action \in Actions
  <2>1. Bindings \in Seq([event : Events, action : Actions, once : BOOLEAN])
    BY BindingAssumption
  <2>2. \A i \in DOMAIN Bindings : Bindings[i] \in [event : Events, action : Actions, once : BOOLEAN]
    BY <2>1, ElementOfSeq, LenProperties
  <2>. QED
    BY <2>2
<1>2. \A s \in States : /\ OnEntry[s] \in Seq(Actions)
                        /\ OnExit[s] \in Seq(Actions)
                        /\ OnActive[s] \in Seq(Actions)
  BY BindingAssumption
<1>3. \A l \in Seq(Actions) : ToSet(l) \subseteq Actions
  BY ElementOfSeq, LenProperties DEF ToSet
<1>. QED
  BY <1>1, <1>2, <1>3 DEF Declared

LEMMA ItemsPastType ==
  ASSUME NEW st \in Phases
  PROVE  ItemsPast(st) \subseteq Items
BY DeclaredActions DEF ItemsPast, Items, Later

LEMMA FunctionIsSeq ==
  ASSUME NEW S, NEW n \in Nat, NEW f \in [1 .. n -> S]
  PROVE  f \in Seq(S)
BY SeqDef, Zenon

\* The items of an action list, of an exit chain and of an entry chain.
LEMMA ActsType ==
  ASSUME NEW s \in States, NEW l, l = OnEntry[s] \/ l = OnExit[s] \/ l = OnActive[s]
  PROVE  Acts(l) \in Seq([op : {"act"}, action : Declared])
<1>1. l \in Seq(Actions)
  BY BindingAssumption
<1>2. \A i \in DOMAIN l : l[i] \in Declared
  BY DEF Declared, ToSet
<1>3. DOMAIN l = 1 .. Len(l) /\ Len(l) \in Nat
  BY <1>1, LenProperties
<1>4. Acts(l) \in [1 .. Len(l) -> [op : {"act"}, action : Declared]]
  BY <1>2, <1>3 DEF Acts
<1>. QED
  BY <1>3, <1>4, FunctionIsSeq

LEMMA ChainItemsType ==
  ASSUME NEW chain \in Seq(States)
  PROVE  /\ Exits(chain) \in Seq([op : {"exit", "entry"}, state : States])
         /\ Entries(chain) \in Seq([op : {"exit", "entry"}, state : States])
<1>1. /\ DOMAIN chain = 1 .. Len(chain) /\ Len(chain) \in Nat
      /\ \A i \in 1 .. Len(chain) : chain[i] \in States
  BY LenProperties, ElementOfSeq
<1>2. Exits(chain) \in [1 .. Len(chain) -> [op : {"exit", "entry"}, state : States]]
  BY <1>1 DEF Exits
<1>3. Entries(chain) \in [1 .. Len(chain) -> [op : {"exit", "entry"}, state : States]]
  BY <1>1 DEF Entries
<1>. QED
  BY <1>1, <1>2, <1>3, FunctionIsSeq

LEMMA TransitionWorkType ==
  ASSUME NEW st \in Phases, NEW from \in Phases, NEW to \in Later(st)
  PROVE  Exits(ExitChain[from][to]) \o <<Move(to)>> \o Entries(EnterChain[from][to])
           \in Seq(ItemsPast(st))
<1>. to \in Phases
  BY DEF Later
<1>1. ExitChain[from][to] \in Seq(States) /\ EnterChain[from][to] \in Seq(States)
  BY ChainsType, GraphAssumption DEF ExitChain, EnterChain
<1>2. /\ Exits(ExitChain[from][to]) \in Seq(ItemsPast(st))
      /\ Entries(EnterChain[from][to]) \in Seq(ItemsPast(st))
  <2>1. [op : {"exit", "entry"}, state : States] \subseteq ItemsPast(st)
    BY DEF ItemsPast
  <2>. QED
    BY <1>1, <2>1, ChainItemsType, SeqMonotonic
<1>3. <<Move(to)>> \in Seq(ItemsPast(st))
  <2>1. Move(to) \in ItemsPast(st)
    BY DEF Move, ItemsPast
  <2>. QED
    BY <2>1
<1>. QED
  BY <1>2, <1>3, ConcatProperties

\* Prefixing the actions of a state to what is left of the work.
LEMMA ExpandType ==
  ASSUME NEW st \in Phases, NEW s \in States, NEW rest \in Seq(ItemsPast(st)),
         NEW l, l = OnEntry[s] \/ l = OnExit[s] \/ l = OnActive[s]
  PROVE  /\ Acts(l) \in Seq(ItemsPast(st))
         /\ Acts(l) \o rest \in Seq(ItemsPast(st))
<1>1. [op : {"act"}, action : Declared] \subseteq ItemsPast(st)
  BY DEF ItemsPast
<1>2. Acts(l) \in Seq(ItemsPast(st))
  BY <1>1, ActsType, SeqMonotonic
<1>. QED
  BY <1>2, ConcatProperties

\* The head of the work, by kind.
LEMMA HeadType ==
  ASSUME NEW st \in Phases, NEW w \in Seq(ItemsPast(st)), w # <<>>
  PROVE  /\ Tail(w) \in Seq(ItemsPast(st))
         /\ Head(w).op \in {"exit", "entry"} => Head(w).state \in States
         /\ Head(w).op = "move" => Head(w).state \in Later(st)
         /\ Head(w).op = "act" => Head(w).action \in Declared
<1>1. Head(w) \in ItemsPast(st) /\ Tail(w) \in Seq(ItemsPast(st))
  BY HeadTailProperties
<1>. QED
  BY <1>1 DEF ItemsPast

\* Regions after an action keep their types.
LEMMA RegionAfterType ==
  ASSUME NEW action \in Actions, TypeOK
  PROVE  /\ RegionAfter(action) \in [Regions -> Phases \cup HealthStates]
         /\ \A r \in Regions : RegionAfter(action)[r] \in RegionStates(r)
BY DEF RegionAfter, Actions, TypeOK, Regions, RegionStates, HealthStates,
       EnterState, SetRegion, RaiseAlarm, RequestSafe, Marker

-----------------------------------------------------------------------------
(***************************************************************************)
(* Type correctness, the order of phases and the mission region.           *)
(***************************************************************************)
LEMMA RunInit == Init => RunInv
<1>. SUFFICES ASSUME Init PROVE RunInv
  OBVIOUS
<1>2. Len(Bindings) \in Nat
  BY BindingAssumption, LenProperties
<1>3. StartPhase \in Phases /\ BurstCap \in Nat
  BY GraphAssumption, ParamAssumption
<1>4. /\ region \in [Regions -> Phases \cup HealthStates]
      /\ \A r \in Regions : region[r] \in RegionStates(r)
  BY <1>3 DEF Init, Regions, RegionStates, HealthStates
<1>5. inputs \in Inputs /\ status \in [phase : Phases \cup {NoState},
                 mission : Phases \cup {NoState}, armed : BOOLEAN, inFlight : BOOLEAN,
                 safe : BOOLEAN]
  BY DEF Init, Inputs
<1>6. /\ queue \in Seq([event : Events, target : Phases \cup {NoState}])
      /\ work \in Seq(Items) /\ work \in Seq(ItemsPast(start))
  BY EmptySeq DEF Init
<1>8. /\ firedOnce \in SUBSET Events /\ level \in SUBSET Events /\ now \in SUBSET Events
  BY DEF Init
<1>9. /\ index \in 1 .. Len(Bindings) + 1 /\ demand \in Nat
      /\ degradedBurst \in 0 .. BurstCap /\ safeBurst \in 0 .. BurstCap
  BY <1>2, <1>3 DEF Init
<1>10. /\ phase \in Phases /\ start \in Phases /\ armed \in BOOLEAN /\ inFlight \in BOOLEAN
       /\ seen \in BOOLEAN /\ transitioned \in BOOLEAN /\ pc = "idle" /\ work = <<>>
  BY <1>3 DEF Init
<1>7. TypeOK
  BY <1>4, <1>5, <1>6, <1>8, <1>9, <1>10 DEF TypeOK
<1>. QED
  BY <1>6, <1>7 DEF Init, RunInv, AtOrPast, MissionRegionMirrorsPhase, Regions

LEMMA BeginKeeps ==
  ASSUME RunInv, NEW new \in Snapshots, NEW scalars \in SUBSET Events, BeginRun(new, scalars)
  PROVE  RunInv'
<1>1. new \in Inputs /\ 1 \in 1 .. Len(Bindings) + 1
  BY ParamAssumption, BindingAssumption, LenProperties
<1>2. TypeOK'
  BY <1>1, EmptySeq DEF RunInv, TypeOK, BeginRun, mission, health
<1>. QED
  BY <1>2, EmptySeq
     DEF RunInv, BeginRun, AtOrPast, MissionRegionMirrorsPhase, mission, health

LEMMA SkipKeeps == RunInv /\ SkipBinding => RunInv'
<1>1. \A i \in DOMAIN Bindings : i + 1 \in 1 .. Len(Bindings) + 1
  BY BindingAssumption, LenProperties
<1>. QED
  BY <1>1
     DEF RunInv, TypeOK, SkipBinding, AtOrPast, MissionRegionMirrorsPhase, mission, health, history

LEMMA BindingsDoneKeeps == RunInv /\ BindingsDone => RunInv'
BY DEF RunInv, TypeOK, BindingsDone, AtOrPast, MissionRegionMirrorsPhase, mission, health, run, history

\* Regions after a declared action: typed, and the mission region is left
\* alone unless some action sets it.
LEMMA RegionAfterKeeps ==
  ASSUME NEW action \in Declared, TypeOK, MissionRegionMirrorsPhase
  PROVE  /\ RegionAfter(action) \in [Regions -> Phases \cup HealthStates]
         /\ \A r \in Regions : RegionAfter(action)[r] \in RegionStates(r)
         /\ (\A s \in Phases : SetRegion("mission", s) \notin Declared)
               => RegionAfter(action)["mission"] = phase
<1>1. action \in Actions
  BY DeclaredActions
<1>2. CASE action.kind = "set"
  <2>0. PICK r \in Regions : \E s \in RegionStates(r) : action = SetRegion(r, s)
    BY <1>1, <1>2 DEF Actions, EnterState, RaiseAlarm, RequestSafe, Marker
  <2>1. PICK s \in RegionStates(r) : action = SetRegion(r, s)
    BY <2>0
  <2>2. RegionAfter(action) = [region EXCEPT ![r] = s]
    BY <2>1 DEF RegionAfter, SetRegion
  <2>3. r = "mission" => s \in Phases /\ SetRegion("mission", s) \in Declared
    BY <2>1 DEF RegionStates
  <2>. QED
    BY <2>1, <2>2, <2>3
       DEF TypeOK, Regions, RegionStates, HealthStates, MissionRegionMirrorsPhase
<1>3. CASE action.kind # "set"
  BY <1>3 DEF RegionAfter, TypeOK, Regions, RegionStates, HealthStates, MissionRegionMirrorsPhase
<1>. QED
  BY <1>2, <1>3

LEMMA FireKeeps == RunInv /\ FireBinding => RunInv'
<1>. SUFFICES ASSUME RunInv, FireBinding PROVE RunInv'
  OBVIOUS
<1>. DEFINE b == Bindings[index]
            item == [event |-> b.event,
                     target |-> IF b.action.kind = "enter" THEN b.action.state ELSE NoState]
<1>1. b.event \in Events /\ b.action \in Declared /\ b.action \in Actions
  <2>1. index \in DOMAIN Bindings
    BY DEF FireBinding
  <2>2. Bindings \in Seq([event : Events, action : Actions, once : BOOLEAN])
    BY BindingAssumption
  <2>3. b \in [event : Events, action : Actions, once : BOOLEAN]
    BY <2>1, <2>2, ElementOfSeq, LenProperties
  <2>. QED
    BY <2>1, <2>3 DEF Declared
<1>2. item \in [event : Events, target : Phases \cup {NoState}]
  BY <1>1 DEF Actions, EnterState, SetRegion, RaiseAlarm, RequestSafe, Marker
<1>3. /\ index' \in 1 .. Len(Bindings) + 1 /\ firedOnce' \in SUBSET Events
      /\ region' = RegionAfter(b.action)
      /\ queue' = Append(queue, item)
  BY <1>1, BindingAssumption, LenProperties DEF RunInv, TypeOK, FireBinding
<1>4. queue' \in Seq([event : Events, target : Phases \cup {NoState}])
  BY <1>2, <1>3, AppendProperties DEF RunInv, TypeOK
<1>. HIDE DEF b, item
<1>5. /\ region' \in [Regions -> Phases \cup HealthStates]
      /\ \A r \in Regions : region'[r] \in RegionStates(r)
      /\ (\A s \in Phases : SetRegion("mission", s) \notin Declared) => region'["mission"] = phase
  BY <1>1, <1>3, RegionAfterKeeps DEF RunInv
<1>6. /\ UNCHANGED <<phase, health, seen, level, inputs, now, pc, work, transitioned,
                    status, history>>
  BY DEF FireBinding
<1>. QED
  BY <1>3, <1>4, <1>5, <1>6 DEF RunInv, TypeOK, AtOrPast, MissionRegionMirrorsPhase, health, history

LEMMA DropKeeps == RunInv /\ DropTransition => RunInv'
<1>. SUFFICES ASSUME RunInv, DropTransition PROVE RunInv'
  OBVIOUS
<1>1. queue' \in Seq([event : Events, target : Phases \cup {NoState}])
  BY HeadTailProperties DEF RunInv, TypeOK, DropTransition
<1>. QED
  BY <1>1 DEF RunInv, TypeOK, DropTransition, AtOrPast, MissionRegionMirrorsPhase,
              mission, health, history

LEMMA TakeKeeps ==
  ASSUME RunInv, NEW to \in Phases, TakeTransition(to)
  PROVE  RunInv'
<1>1. HasEdge(phase, to)
  <2>1. \A ev : to \in EdgeTargets(phase, ev) => HasEdge(phase, to)
    BY DEF EdgeTargets, HasEdge
  <2>2. to \in Targets(Head(queue))
    BY DEF TakeTransition
  <2>. QED
    BY <2>1, <2>2 DEF Targets
<1>2. Depth[phase] < Depth[to]
  BY <1>1, GraphAssumption DEF AcceptedGraph, Forward, HasEdge
<1>3. to \in Later(start)
  <2>1. phase \in Phases /\ start \in Phases
    BY DEF RunInv, TypeOK
  <2>2. Depth[start] \in Nat /\ Depth[phase] \in Nat /\ Depth[to] \in Nat
    BY <2>1, GraphAssumption DEF AcceptedGraph, Forward
  <2>. QED
    BY <1>2, <2>1, <2>2 DEF RunInv, AtOrPast, Later
<1>4. work' \in Seq(ItemsPast(start)) /\ work' \in Seq(Items)
  <2>1. work' \in Seq(ItemsPast(start))
    BY <1>3, TransitionWorkType DEF TakeTransition, RunInv, TypeOK
  <2>. QED
    BY <2>1, ItemsPastType, SeqMonotonic DEF RunInv, TypeOK
<1>5. queue' \in Seq([event : Events, target : Phases \cup {NoState}])
  BY HeadTailProperties DEF RunInv, TypeOK, TakeTransition
<1>. QED
  BY <1>4, <1>5
     DEF RunInv, TypeOK, TakeTransition, AtOrPast, MissionRegionMirrorsPhase, mission, health, history

LEMMA StayActiveKeeps == RunInv /\ StayActive => RunInv'
<1>. SUFFICES ASSUME RunInv, StayActive PROVE RunInv'
  OBVIOUS
<1>1. phase \in States /\ start \in Phases
  BY GraphAssumption DEF AcceptedGraph, Forward, RunInv, TypeOK
<1>2. work' \in Seq(ItemsPast(start))
  BY <1>1, ExpandType, EmptySeq DEF StayActive
<1>3. work' \in Seq(Items)
  BY <1>1, <1>2, ItemsPastType, SeqMonotonic
<1>. QED
  BY <1>1, <1>2, <1>3
     DEF RunInv, TypeOK, StayActive, AtOrPast, MissionRegionMirrorsPhase, mission, health, history

LEMMA ExitKeeps == RunInv /\ ExitOne => RunInv'
<1>. SUFFICES ASSUME RunInv, ExitOne PROVE RunInv'
  OBVIOUS
<1>1. start \in Phases
  BY DEF RunInv, TypeOK
<1>2. Head(work).state \in States /\ Tail(work) \in Seq(ItemsPast(start))
  BY <1>1, HeadType DEF RunInv, ExitOne
<1>3. work' \in Seq(ItemsPast(start))
  BY <1>1, <1>2, ExpandType DEF ExitOne
<1>4. work' \in Seq(Items)
  BY <1>1, <1>3, ItemsPastType, SeqMonotonic
<1>. QED
  BY <1>2, <1>3, <1>4
     DEF RunInv, TypeOK, ExitOne, AtOrPast, MissionRegionMirrorsPhase, mission, health, history

LEMMA EnterKeeps == RunInv /\ EnterOne => RunInv'
<1>. SUFFICES ASSUME RunInv, EnterOne PROVE RunInv'
  OBVIOUS
<1>1. start \in Phases
  BY DEF RunInv, TypeOK
<1>2. Head(work).state \in States /\ Tail(work) \in Seq(ItemsPast(start))
  BY <1>1, HeadType DEF RunInv, EnterOne
<1>3. work' \in Seq(ItemsPast(start))
  BY <1>1, <1>2, ExpandType DEF EnterOne
<1>4. work' \in Seq(Items)
  BY <1>1, <1>3, ItemsPastType, SeqMonotonic
<1>. QED
  BY <1>2, <1>3, <1>4
     DEF RunInv, TypeOK, EnterOne, AtOrPast, MissionRegionMirrorsPhase, mission, health, history

\* Setting the phase to one past the start.
LEMMA SetPhaseKeeps ==
  ASSUME TypeOK, NEW to \in Phases, SetPhase(to)
  PROVE  /\ phase' = to /\ region' \in [Regions -> Phases \cup HealthStates]
         /\ \A r \in Regions : region'[r] \in RegionStates(r)
         /\ region'["mission"] = to /\ region'["health"] = region["health"]
BY DEF TypeOK, SetPhase, Regions, RegionStates, HealthStates

LEMMA MoveKeeps == RunInv /\ MoveOne => RunInv'
<1>. SUFFICES ASSUME RunInv, MoveOne PROVE RunInv'
  OBVIOUS
<1>1. start \in Phases
  BY DEF RunInv, TypeOK
<1>2. Head(work).state \in Later(start) /\ Tail(work) \in Seq(ItemsPast(start))
  BY <1>1, HeadType DEF RunInv, MoveOne
<1>3. work' \in Seq(ItemsPast(start)) /\ work' \in Seq(Items)
  BY <1>1, <1>2, ItemsPastType, SeqMonotonic DEF MoveOne
<1>4. /\ phase' \in Later(start) /\ region' \in [Regions -> Phases \cup HealthStates]
      /\ \A r \in Regions : region'[r] \in RegionStates(r)
      /\ region'["mission"] = phase'
  BY <1>2, SetPhaseKeeps DEF RunInv, MoveOne, Later
<1>. QED
  BY <1>3, <1>4
     DEF RunInv, TypeOK, MoveOne, AtOrPast, Later, MissionRegionMirrorsPhase, health, history

LEMMA ActKeeps == RunInv /\ ActOne => RunInv'
<1>. SUFFICES ASSUME RunInv, ActOne PROVE RunInv'
  OBVIOUS
<1>. DEFINE action == Head(work).action
<1>1. start \in Phases /\ phase \in Phases
  BY DEF RunInv, TypeOK
<1>2. action \in Declared /\ Tail(work) \in Seq(ItemsPast(start))
  BY <1>1, HeadType DEF RunInv, ActOne
<1>3. work' \in Seq(ItemsPast(start)) /\ work' \in Seq(Items)
  BY <1>1, <1>2, ItemsPastType, SeqMonotonic DEF ActOne
<1>4. CASE action.kind = "enter" /\ HasEdge(phase, action.state)
  <2>1. action.state \in Phases /\ Depth[phase] < Depth[action.state]
    BY <1>4, GraphAssumption DEF AcceptedGraph, Forward, HasEdge
  <2>2. Depth[start] \in Nat /\ Depth[phase] \in Nat /\ Depth[action.state] \in Nat
    BY <1>1, <2>1, GraphAssumption DEF AcceptedGraph, Forward
  <2>3. action.state \in Later(start)
    BY <2>1, <2>2 DEF RunInv, AtOrPast, Later
  <2>4. SetPhase(action.state)
    BY <1>4 DEF ActOne
  <2>5. /\ phase' \in Later(start) /\ region' \in [Regions -> Phases \cup HealthStates]
        /\ \A r \in Regions : region'[r] \in RegionStates(r)
        /\ region'["mission"] = phase'
    BY <2>1, <2>3, <2>4, SetPhaseKeeps DEF RunInv
  <2>. QED
    BY <1>3, <2>5
       DEF RunInv, TypeOK, ActOne, AtOrPast, Later, MissionRegionMirrorsPhase, health, history
<1>5. CASE ~(action.kind = "enter" /\ HasEdge(phase, action.state))
  <2>1. phase' = phase /\ region' = RegionAfter(action)
    BY <1>5 DEF ActOne
  <2>2. /\ region' \in [Regions -> Phases \cup HealthStates]
        /\ \A r \in Regions : region'[r] \in RegionStates(r)
        /\ (\A s \in Phases : SetRegion("mission", s) \notin Declared) => region'["mission"] = phase
    BY <1>2, <2>1, RegionAfterKeeps DEF RunInv
  <2>. QED
    BY <1>3, <2>1, <2>2
       DEF RunInv, TypeOK, ActOne, AtOrPast, MissionRegionMirrorsPhase, health, history
<1>. QED
  BY <1>4, <1>5

\* Following FDIR and resetting it: only the health region and the two
\* confirmation counters change, and a safe request is kept.
LEMMA FdirKeeps ==
  ASSUME TypeOK, FollowFdir \/ ResetFdir
  PROVE  /\ region' \in [Regions -> Phases \cup HealthStates]
         /\ \A r \in Regions : region'[r] \in RegionStates(r)
         /\ region'["mission"] = region["mission"]
         /\ SafeRequested => SafeRequested'
         /\ degradedBurst' \in 0 .. BurstCap /\ safeBurst' \in 0 .. BurstCap
<1>1. /\ degradedBurst' \in 0 .. BurstCap /\ safeBurst' \in 0 .. BurstCap
  BY ParamAssumption DEF TypeOK, FollowFdir, ResetFdir, Counted
<1>2. \/ region' = region
      \/ region' = [region EXCEPT !["health"] = "abort_requested"]
      \/ ~SafeRequested /\ region' = [region EXCEPT !["health"] = "degraded"]
  BY DEF FollowFdir, ResetFdir
<1>. QED
  BY <1>1, <1>2 DEF TypeOK, Regions, RegionStates, HealthStates, SafeRequested, SafeStates

LEMMA ArmKeeps == RunInv /\ TryArm => RunInv'
<1>. SUFFICES ASSUME RunInv, TryArm PROVE RunInv'
  OBVIOUS
<1>1. FollowFdir \/ ResetFdir \/ UNCHANGED <<degradedBurst, safeBurst, region>>
  BY DEF TryArm
<1>2. armed' \in BOOLEAN
  BY DEF TryArm, RunInv, TypeOK
<1>3. /\ region' \in [Regions -> Phases \cup HealthStates]
      /\ \A r \in Regions : region'[r] \in RegionStates(r)
      /\ region'["mission"] = region["mission"]
      /\ degradedBurst' \in 0 .. BurstCap /\ safeBurst' \in 0 .. BurstCap
  BY <1>1, FdirKeeps DEF RunInv, TypeOK
<1>. QED
  BY <1>2, <1>3
     DEF RunInv, TypeOK, TryArm, AtOrPast, MissionRegionMirrorsPhase, run, history

LEMMA EvaluateFdirKeeps == RunInv /\ EvaluateFdir => RunInv'
<1>. SUFFICES ASSUME RunInv, EvaluateFdir PROVE RunInv'
  OBVIOUS
<1>1. FollowFdir \/ ResetFdir \/ UNCHANGED <<degradedBurst, safeBurst, region>>
  BY DEF EvaluateFdir
<1>2. /\ region' \in [Regions -> Phases \cup HealthStates]
      /\ \A r \in Regions : region'[r] \in RegionStates(r)
      /\ region'["mission"] = region["mission"]
      /\ degradedBurst' \in 0 .. BurstCap /\ safeBurst' \in 0 .. BurstCap
  BY <1>1, FdirKeeps DEF RunInv, TypeOK
<1>. QED
  BY <1>2
     DEF RunInv, TypeOK, EvaluateFdir, AtOrPast, MissionRegionMirrorsPhase, run, history

LEMMA PublishKeeps == RunInv /\ Publish => RunInv'
<1>. SUFFICES ASSUME RunInv, Publish PROVE RunInv'
  OBVIOUS
<1>1. region["mission"] \in Phases
  BY DEF RunInv, TypeOK, Regions, RegionStates
<1>2. inFlight' \in BOOLEAN /\ SafeRequested \in BOOLEAN
  BY DEF Publish, RunInv, TypeOK, SafeRequested
<1>3. status' \in [phase : Phases \cup {NoState}, mission : Phases \cup {NoState},
                   armed : BOOLEAN, inFlight : BOOLEAN, safe : BOOLEAN]
  BY <1>1, <1>2 DEF Publish, RunInv, TypeOK
<1>4. demand' \in Nat /\ level' \in SUBSET Events /\ seen' \in BOOLEAN
  BY DEF Publish, RunInv, TypeOK
<1>. QED
  BY <1>2, <1>3, <1>4
     DEF RunInv, TypeOK, Publish, AtOrPast, MissionRegionMirrorsPhase, mission, run

LEMMA RunStep == RunInv /\ [Next]_vars => RunInv'
<1>1. ASSUME RunInv, Next PROVE RunInv'
  BY <1>1, BeginKeeps, SkipKeeps, FireKeeps, BindingsDoneKeeps, TakeKeeps, DropKeeps,
     StayActiveKeeps, ExitKeeps, EnterKeeps, MoveKeeps, ActKeeps, ArmKeeps,
     EvaluateFdirKeeps, PublishKeeps
     DEF Next, Begin, Step, Work
<1>2. ASSUME RunInv, UNCHANGED vars PROVE RunInv'
  BY <1>2 DEF RunInv, TypeOK, AtOrPast, MissionRegionMirrorsPhase, vars, mission, health, run, history
<1>. QED
  BY <1>1, <1>2

LEMMA RunInvariant == Spec => []RunInv
BY RunInit, RunStep, PTL DEF Spec

\* Every variable of the commander keeps its type.
THEOREM TypeCorrect == Spec => []TypeOK
<1>1. RunInv => TypeOK
  BY DEF RunInv
<1>. QED
  BY <1>1, RunInvariant, PTL

\* However many bindings fire in one tick and whatever the action lists do, a
\* run never leaves the mission in a phase it could have come from.
THEOREM MissionNeverBackward == Spec => []NeverBackward
<1>1. RunInv => NeverBackward
  BY DEF RunInv, AtOrPast, NeverBackward, Later
<1>. QED
  BY <1>1, RunInvariant, PTL

\* The mission region is current_phase at every step of every run, unless an
\* action sets it.
THEOREM MissionRegionInSync == Spec => []MissionRegionMirrorsPhase
<1>1. RunInv => MissionRegionMirrorsPhase
  BY DEF RunInv
<1>. QED
  BY <1>1, RunInvariant, PTL

-----------------------------------------------------------------------------
(***************************************************************************)
(* The steps that may take a safe request back.                            *)
(***************************************************************************)
\* An action takes a safe request back only by setting the health region.
LEMMA ActionKeepsSafe ==
  ASSUME TypeOK, NEW action \in Actions, region' = RegionAfter(action),
         SafeRequested, ~SafeRequested'
  PROVE  action.kind = "set" /\ action.region = "health"
<1>1. CASE action.kind \in {"alarm", "safe"}
  BY <1>1 DEF TypeOK, RegionAfter, SafeRequested, SafeStates, Regions
<1>2. CASE action.kind = "set"
  <2>1. PICK r \in Regions : \E s \in RegionStates(r) : action = SetRegion(r, s)
    BY <1>2 DEF Actions, EnterState, RaiseAlarm, RequestSafe, Marker
  <2>2. action.region = r
    BY <2>1 DEF SetRegion
  <2>3. CASE r = "mission"
    BY <1>2, <2>2, <2>3 DEF TypeOK, RegionAfter, SafeRequested, Regions
  <2>. QED
    BY <1>2, <2>2, <2>3 DEF Regions
<1>3. CASE action.kind \notin {"alarm", "safe", "set"}
  BY <1>3 DEF RegionAfter, SafeRequested
<1>. QED
  BY <1>1, <1>2, <1>3

LEMMA SafeStep ==
  ASSUME RunInv, Next, SafeRequested, ~SafeRequested'
  PROVE  SetsHealth
<1>0. TypeOK
  BY DEF RunInv
<1>1. CASE FireBinding
  <2>1. index \in DOMAIN Bindings /\ pc = "bindings" /\ region' = RegionAfter(Bindings[index].action)
    BY <1>1 DEF FireBinding
  <2>2. Bindings[index].action \in Actions
    BY <2>1, DeclaredActions DEF Declared
  <2>. QED
    BY <1>0, <2>1, <2>2, ActionKeepsSafe DEF SetsHealth
<1>2. CASE ActOne
  <2>1. work # <<>> /\ Head(work).op = "act" /\ Head(work).action \in Actions
    BY <1>0, <1>2, HeadType, DeclaredActions DEF ActOne, RunInv, TypeOK
  <2>2. region' # RegionAfter(Head(work).action) => \E to : SetPhase(to)
    BY <1>2 DEF ActOne
  <2>3. region' = RegionAfter(Head(work).action)
    BY <1>0, <2>2 DEF SetPhase, TypeOK, SafeRequested, Regions
  <2>. QED
    BY <1>0, <2>1, <2>3, ActionKeepsSafe DEF SetsHealth
<1>3. CASE MoveOne
  BY <1>0, <1>3 DEF MoveOne, SetPhase, TypeOK, SafeRequested, Regions
<1>4. CASE TryArm \/ EvaluateFdir
  <2>1. FollowFdir \/ ResetFdir \/ region' = region
    BY <1>4 DEF TryArm, EvaluateFdir
  <2>. QED
    BY <1>0, <2>1, FdirKeeps DEF SafeRequested
<1>5. CASE region' = region
  BY <1>5 DEF SafeRequested
<1>6. \/ FireBinding \/ ActOne \/ MoveOne \/ TryArm \/ EvaluateFdir \/ region' = region
  BY DEF Next, Begin, Step, Work, BeginRun, SkipBinding, BindingsDone, TakeTransition,
         DropTransition, ExitOne, EnterOne, StayActive, Publish, mission
<1>. QED
  BY <1>1, <1>2, <1>3, <1>4, <1>5, <1>6

\* A safe request is never masked: only an action that sets the health region
\* takes it back, in every graph and with every binding table.
THEOREM SafeNeverMasked == Spec => SafeRequestLatched
<1>1. ASSUME RunInv, [Next]_vars
      PROVE  SafeRequested /\ ~SafeRequested' => SetsHealth
  <2>1. CASE Next
    BY <1>1, <2>1, SafeStep
  <2>2. CASE UNCHANGED vars
    BY <2>2 DEF vars, mission, SafeRequested
  <2>. QED
    BY <1>1, <2>1, <2>2
<1>2. RunInv /\ [Next]_vars => [SafeRequested /\ ~SafeRequested' => SetsHealth]_vars
  BY <1>1
<1>. QED
  BY <1>2, RunInvariant, PTL DEF Spec, SafeRequestLatched

-----------------------------------------------------------------------------
(***************************************************************************)
(* FDIR is obeyed.  The confirmation counter is never behind the runs that *)
(* ended armed with FDIR asking for SAFE; between EvaluateFdir and Publish *)
(* it is one ahead, and once it has reached the confirmation time the safe *)
(* state is requested.                                                     *)
(***************************************************************************)
DemandCounted ==
  /\ demand \in 0 .. Confirm(SafeTicks)
  /\ demand > 0 => armed
  /\ pc # "publish" => demand <= safeBurst
  /\ pc = "publish" /\ armed /\ inputs.fdir = "safe" =>
       IF safeBurst < Confirm(SafeTicks) THEN demand < safeBurst ELSE SafeRequested

\* A confirmation takes at least one run, and the counter gets that far.
LEMMA ConfirmBounds == Confirm(SafeTicks) \in 1 .. BurstCap
BY ParamAssumption DEF Confirm

LEMMA EvaluateCounts == RunInv /\ DemandCounted /\ EvaluateFdir => DemandCounted'
<1>. SUFFICES ASSUME RunInv, DemandCounted, EvaluateFdir PROVE DemandCounted'
  OBVIOUS
<1>1. /\ pc = "fdir" /\ pc' = "publish" /\ demand \in Nat /\ demand <= safeBurst
      /\ safeBurst \in 0 .. BurstCap /\ (demand > 0 => armed)
      /\ UNCHANGED <<armed, inputs, demand>>
  BY DEF EvaluateFdir, RunInv, TypeOK, DemandCounted, history
<1>2. ASSUME armed, inputs.fdir = "safe"
      PROVE  IF safeBurst' < Confirm(SafeTicks) THEN demand < safeBurst' ELSE SafeRequested'
  <2>1. FollowFdir
    BY <1>2 DEF EvaluateFdir, Tripped
  <2>2. safeBurst' = Counted(safeBurst)
    BY <1>2, <2>1 DEF FollowFdir
  <2>3. CASE safeBurst' < Confirm(SafeTicks)
    BY <1>1, <2>2, <2>3, ConfirmBounds, ParamAssumption DEF Counted
  <2>4. CASE ~(safeBurst' < Confirm(SafeTicks))
    <3>1. safeBurst' >= Confirm(SafeTicks)
      BY <1>1, <2>2, <2>4, ConfirmBounds, ParamAssumption DEF Counted
    <3>2. region' = [region EXCEPT !["health"] = "abort_requested"]
      BY <2>1, <3>1 DEF FollowFdir
    <3>3. SafeRequested'
      BY <3>2 DEF SafeRequested, SafeStates, RunInv, TypeOK, Regions
    <3>. QED
      BY <2>4, <3>3
  <2>. QED
    BY <2>3, <2>4
<1>. QED
  BY <1>1, <1>2 DEF DemandCounted

LEMMA PublishObeys ==
  RunInv /\ DemandCounted /\ Publish => DemandCounted' /\ FdirObeyed'
<1>. SUFFICES ASSUME RunInv, DemandCounted, Publish PROVE DemandCounted' /\ FdirObeyed'
  OBVIOUS
<1>1. /\ pc = "publish" /\ pc' = "idle" /\ safeBurst \in 0 .. BurstCap
      /\ demand \in 0 .. Confirm(SafeTicks)
      /\ UNCHANGED <<armed, safeBurst>> /\ status'.safe = SafeRequested
  BY DEF Publish, RunInv, TypeOK, DemandCounted
<1>2. CASE armed /\ inputs.fdir = "safe"
  <2>1. demand' = IF demand < Confirm(SafeTicks) THEN demand + 1 ELSE demand
    BY <1>2 DEF Publish
  <2>2. IF safeBurst < Confirm(SafeTicks) THEN demand < safeBurst ELSE SafeRequested
    BY <1>1, <1>2 DEF DemandCounted
  <2>3. /\ demand' \in 0 .. Confirm(SafeTicks) /\ demand' <= safeBurst
        /\ demand' >= Confirm(SafeTicks) => SafeRequested
    BY <1>1, <2>1, <2>2, ConfirmBounds, ParamAssumption
  <2>. QED
    BY <1>1, <1>2, <2>3 DEF DemandCounted, FdirObeyed
<1>3. CASE ~(armed /\ inputs.fdir = "safe")
  <2>1. demand' = 0
    BY <1>3 DEF Publish
  <2>. QED
    BY <1>1, <2>1, ConfirmBounds DEF DemandCounted, FdirObeyed
<1>. QED
  BY <1>2, <1>3

LEMMA DemandStep == RunInv /\ DemandCounted /\ FdirObeyed /\ [Next]_vars => DemandCounted' /\ FdirObeyed'
<1>. SUFFICES ASSUME RunInv, DemandCounted, FdirObeyed, [Next]_vars
             PROVE  DemandCounted' /\ FdirObeyed'
  OBVIOUS
<1>1. CASE EvaluateFdir
  BY <1>1, EvaluateCounts DEF EvaluateFdir, FdirObeyed
<1>2. CASE Publish
  BY <1>2, PublishObeys
<1>3. CASE TryArm
  <2>1. /\ pc = "active" /\ pc' = "fdir" /\ demand' = demand /\ (armed => armed')
        /\ armed => safeBurst' = safeBurst
    BY <1>3 DEF TryArm, history
  <2>2. safeBurst' \in 0 .. BurstCap
    BY <1>3, FdirKeeps DEF TryArm, RunInv, TypeOK
  <2>. QED
    BY <2>1, <2>2 DEF DemandCounted, FdirObeyed
<1>4. CASE Begin
  BY <1>4 DEF Begin, BeginRun, DemandCounted, FdirObeyed, health
<1>5. CASE \/ SkipBinding \/ FireBinding \/ BindingsDone
           \/ (\E to \in Phases : TakeTransition(to)) \/ DropTransition \/ StayActive
  <2>1. /\ UNCHANGED <<demand, armed, safeBurst>> /\ pc \in {"bindings", "transitions"}
        /\ pc' \in {"bindings", "transitions", "active"}
    BY <1>5 DEF SkipBinding, FireBinding, BindingsDone, TakeTransition, DropTransition,
                StayActive, health, history
  <2>. QED
    BY <2>1 DEF DemandCounted, FdirObeyed
<1>6. CASE Work
  <2>1. UNCHANGED <<demand, armed, safeBurst, pc, status>> /\ work # <<>>
    BY <1>6 DEF Work, ExitOne, EnterOne, MoveOne, ActOne, health, history
  <2>2. pc \in {"transitions", "active"}
    BY <2>1 DEF RunInv, TypeOK
  <2>. QED
    BY <2>1, <2>2 DEF DemandCounted, FdirObeyed
<1>7. CASE UNCHANGED vars
  BY <1>7 DEF vars, mission, health, history, DemandCounted, FdirObeyed, SafeRequested
<1>. QED
  BY <1>1, <1>2, <1>3, <1>4, <1>5, <1>6, <1>7 DEF Next, Step

\* A SAFE request of FDIR that lasts the confirmation time of an armed vehicle is
\* in the published status of that same run, for every confirmation time, graph
\* and action list (confirm_fdir_health_request, evaluate_fdir_health_region).
THEOREM FdirAlwaysObeyed == Spec => []FdirObeyed
<1>1. Init => DemandCounted /\ FdirObeyed
  BY ConfirmBounds DEF Init, DemandCounted, FdirObeyed
<1>. QED
  BY <1>1, DemandStep, RunInvariant, PTL DEF Spec

-----------------------------------------------------------------------------
(***************************************************************************)
(* A run is finite.  What a run still has to do is the stage it is in, the *)
(* bindings and the transitions ahead of it, the exits, moves and entries  *)
(* on the work, and the work itself: compared in this order, every step    *)
(* leaves less of it.                                                      *)
(***************************************************************************)
ChainedIn(w) == {i \in DOMAIN w : w[i].op # "act"}

StagesLeft == [idle |-> 0, publish |-> 1, fdir |-> 2, active |-> 3, transitions |-> 4,
               bindings |-> 5]

Left == [k \in 1 .. 5 |-> CASE k = 1 -> StagesLeft[pc]
                            [] k = 2 -> Len(Bindings) + 1 - index
                            [] k = 3 -> Len(queue)
                            [] k = 4 -> Cardinality(ChainedIn(work))
                            [] k = 5 -> Len(work)]

Shorter == LexProductOrdering(OpToRel(<, Nat), Nat, 5)

LEMMA ChainedFinite ==
  ASSUME NEW w \in Seq(Items)
  PROVE  IsFiniteSet(ChainedIn(w)) /\ Cardinality(ChainedIn(w)) \in Nat
<1>1. DOMAIN w = 1 .. Len(w) /\ Len(w) \in Int
  BY LenProperties
<1>2. IsFiniteSet(1 .. Len(w))
  BY <1>1, FS_Interval
<1>3. ChainedIn(w) \in SUBSET (1 .. Len(w))
  BY <1>1 DEF ChainedIn
<1>. QED
  BY <1>2, <1>3, FS_Subset, FS_CardinalityType

\* Actions put in the place of the first item leave the other exits, moves and
\* entries as they were.
LEMMA ChainedAfterHead ==
  ASSUME NEW w \in Seq(Items), w # <<>>, NEW a \in Seq(Items),
         \A i \in 1 .. Len(a) : a[i].op = "act"
  PROVE  Cardinality(ChainedIn(a \o Tail(w)))
           = IF Head(w).op = "act" THEN Cardinality(ChainedIn(w))
                                   ELSE Cardinality(ChainedIn(w)) - 1
<1>. DEFINE v    == a \o Tail(w)
            rest == ChainedIn(w) \ {1}
            moved == [i \in rest |-> i - 1 + Len(a)]
<1>1. PICK n \in Nat : n = Len(w)
  BY LenProperties
<1>2. PICK m \in Nat : m = Len(a)
  BY LenProperties
<1>3. /\ n > 0 /\ w[1] = Head(w) /\ DOMAIN w = 1 .. n
      /\ Tail(w) \in Seq(Items) /\ Len(Tail(w)) = n - 1
      /\ \A i \in 1 .. n - 1 : Tail(w)[i] = w[i + 1]
  BY <1>1, HeadTailProperties, LenProperties, EmptySeq
<1>4. /\ v \in Seq(Items) /\ Len(v) = m + (n - 1)
      /\ \A i \in 1 .. m + (n - 1) : v[i] = IF i <= m THEN a[i] ELSE Tail(w)[i - m]
  <2>. DEFINE rst == Tail(w)
  <2>1. rst \in Seq(Items) /\ Len(rst) = n - 1
    BY <1>3
  <2>. HIDE DEF rst
  <2>2. /\ a \o rst \in Seq(Items) /\ Len(a \o rst) = Len(a) + Len(rst)
        /\ \A i \in 1 .. Len(a) + Len(rst) :
              (a \o rst)[i] = IF i <= Len(a) THEN a[i] ELSE rst[i - Len(a)]
    BY <2>1, ConcatProperties
  <2>. QED
    BY <1>2, <2>1, <2>2 DEF rst
<1>5. DOMAIN v = 1 .. m + (n - 1)
  BY <1>4, LenProperties
<1>6. \A i \in rest : i \in 2 .. n /\ w[i].op # "act"
  BY <1>3 DEF ChainedIn
<1>7. \A i \in rest : moved[i] \in ChainedIn(v)
  <2>. SUFFICES ASSUME NEW i \in rest PROVE moved[i] \in ChainedIn(v)
    OBVIOUS
  <2>1. i \in 2 .. n /\ w[i].op # "act"
    BY <1>6
  <2>2. moved[i] = i - 1 + m
    BY <1>2
  <2>3. PICK j \in 1 .. n - 1 : i = j + 1
    BY <2>1
  <2>4. j + m \in 1 .. m + (n - 1) /\ ~(j + m <= m) /\ (j + m) - m = j /\ moved[i] = j + m
    BY <2>2, <2>3
  <2>5. v[j + m] = w[i]
    BY <1>3, <1>4, <2>3, <2>4
  <2>. QED
    BY <1>5, <2>1, <2>4, <2>5 DEF ChainedIn
<1>8. moved \in [rest -> ChainedIn(v)]
  BY <1>7
<1>9. \A i, k \in rest : i # k => moved[i] # moved[k]
  BY <1>2, <1>6
<1>10. \A k \in ChainedIn(v) : \E i \in rest : moved[i] = k
  <2>. SUFFICES ASSUME NEW k \in ChainedIn(v) PROVE \E i \in rest : moved[i] = k
    OBVIOUS
  <2>1. k \in 1 .. m + (n - 1) /\ v[k].op # "act"
    BY <1>5 DEF ChainedIn
  <2>2. ~(k <= m)
    BY <1>2, <1>4, <2>1
  <2>3. PICK j \in 1 .. n - 1 : k = j + m
    BY <2>1, <2>2
  <2>4. k - m = j /\ j + 1 \in 1 .. n /\ j + 1 # 1 /\ (j + 1) - 1 + m = k
    BY <2>3
  <2>5. v[k] = w[j + 1]
    BY <1>3, <1>4, <2>1, <2>2, <2>4
  <2>6. j + 1 \in rest
    BY <1>3, <2>1, <2>4, <2>5 DEF ChainedIn
  <2>7. moved[j + 1] = k
    BY <1>2, <2>4, <2>6
  <2>. QED
    BY <2>6, <2>7
<1>11. ExistsBijection(rest, ChainedIn(v))
  <2>1. moved \in Injection(rest, ChainedIn(v))
    BY <1>8, <1>9 DEF Injection, IsInjective
  <2>2. moved \in Surjection(rest, ChainedIn(v))
    BY <1>8, <1>10 DEF Surjection
  <2>. QED
    BY <2>1, <2>2 DEF ExistsBijection, Bijection
<1>12. /\ IsFiniteSet(rest)
       /\ Cardinality(rest) = IF 1 \in ChainedIn(w) THEN Cardinality(ChainedIn(w)) - 1
                                                    ELSE Cardinality(ChainedIn(w))
  BY ChainedFinite, FS_RemoveElement
<1>13. 1 \in ChainedIn(w) <=> Head(w).op # "act"
  BY <1>3 DEF ChainedIn
<1>. QED
  BY <1>11, <1>12, <1>13, FS_Bijection

\* What a run still has to do is five naturals, and the first that differs
\* decides.
LeftMeasured ==
  /\ Left \in [1 .. 5 -> Nat]
  /\ Left[1] = StagesLeft[pc] /\ Left[2] = Len(Bindings) + 1 - index
  /\ Left[3] = Len(queue) /\ Left[4] = Cardinality(ChainedIn(work))
  /\ Left[5] = Len(work)

LEMMA LeftParts == RunInv => LeftMeasured
<1>. SUFFICES ASSUME RunInv PROVE LeftMeasured
  OBVIOUS
<1>1. StagesLeft[pc] \in Nat
  BY DEF RunInv, TypeOK, StagesLeft
<1>2. Len(Bindings) + 1 - index \in Nat
  <2>1. index \in 1 .. Len(Bindings) + 1 /\ Len(Bindings) \in Nat
    BY BindingAssumption, LenProperties DEF RunInv, TypeOK
  <2>. QED
    BY <2>1
<1>3. Len(queue) \in Nat /\ Len(work) \in Nat /\ Cardinality(ChainedIn(work)) \in Nat
  BY ChainedFinite, LenProperties DEF RunInv, TypeOK
<1>4. Left = [k \in 1 .. 5 |-> Left[k]]
  BY DEF Left
<1>5. /\ Left[1] = StagesLeft[pc] /\ Left[2] = Len(Bindings) + 1 - index
      /\ Left[3] = Len(queue) /\ Left[4] = Cardinality(ChainedIn(work))
      /\ Left[5] = Len(work)
  BY DEF Left
<1>6. \A k \in 1 .. 5 : k = 1 \/ k = 2 \/ k = 3 \/ k = 4 \/ k = 5
  OBVIOUS
<1>7. \A k \in 1 .. 5 : Left[k] \in Nat
  BY <1>1, <1>2, <1>3, <1>5, <1>6
<1>. QED
  BY <1>4, <1>5, <1>7 DEF LeftMeasured

LEMMA LeftPartsAfter == RunInv' => LeftMeasured'
BY LeftParts, PTL

LEMMA FirstDecides ==
  ASSUME NEW f \in [1 .. 5 -> Nat], NEW g \in [1 .. 5 -> Nat],
         NEW j \in 1 .. 5, \A i \in 1 .. j - 1 : f[i] = g[i], f[j] < g[j]
  PROVE  <<f, g>> \in Shorter
<1>1. <<f[j], g[j]>> \in OpToRel(<, Nat)
  BY DEF OpToRel
<1>. QED
  BY <1>1 DEF Shorter, LexProductOrdering

\* The stage moves on, or within a stage a binding or a transition is done.
LEMMA StagesShorten ==
  ASSUME RunInv, RunInv',
         BindingsDone \/ StayActive \/ TryArm \/ EvaluateFdir \/ Publish
  PROVE  <<Left', Left>> \in Shorter
<1>1. StagesLeft[pc'] < StagesLeft[pc]
  BY DEF BindingsDone, StayActive, TryArm, EvaluateFdir, Publish, StagesLeft
<1>2. /\ Left' \in [1 .. 5 -> Nat] /\ Left \in [1 .. 5 -> Nat]
      /\ Left'[1] = StagesLeft[pc'] /\ Left[1] = StagesLeft[pc]
  BY LeftParts, LeftPartsAfter DEF LeftMeasured, StagesLeft
<1>3. \A i \in 1 .. 1 - 1 : Left'[i] = Left[i]
  OBVIOUS
<1>. QED
  BY <1>1, <1>2, <1>3, FirstDecides

LEMMA BindingsShorten ==
  ASSUME RunInv, RunInv', SkipBinding \/ FireBinding
  PROVE  <<Left', Left>> \in Shorter
<1>1. pc' = pc /\ index' = index + 1 /\ index \in Int
  <2>1. index \in Int
    BY DEF RunInv, TypeOK
  <2>. QED
    BY <2>1 DEF SkipBinding, FireBinding
<1>2. /\ Left' \in [1 .. 5 -> Nat] /\ Left \in [1 .. 5 -> Nat]
      /\ Left'[1] = StagesLeft[pc'] /\ Left[1] = StagesLeft[pc]
      /\ Left'[2] = Len(Bindings) + 1 - index' /\ Left[2] = Len(Bindings) + 1 - index
  BY LeftParts, LeftPartsAfter DEF LeftMeasured, StagesLeft
<1>3. Len(Bindings) \in Nat
  BY BindingAssumption, LenProperties
<1>4. Left'[2] < Left[2]
  BY <1>1, <1>2, <1>3
<1>5. \A i \in 1 .. 2 - 1 : Left'[i] = Left[i]
  <2>1. \A i \in 1 .. 2 - 1 : i = 1
    OBVIOUS
  <2>2. Left'[1] = Left[1]
    BY <1>1, <1>2
  <2>. QED
    BY <2>1, <2>2
<1>. QED
  BY <1>2, <1>4, <1>5, FirstDecides

LEMMA TransitionsShorten ==
  ASSUME RunInv, RunInv', (\E to \in Phases : TakeTransition(to)) \/ DropTransition
  PROVE  <<Left', Left>> \in Shorter
<1>1. /\ pc' = pc /\ index' = index /\ queue # <<>> /\ queue' = Tail(queue)
  BY DEF TakeTransition, DropTransition
<1>2. Len(queue') = Len(queue) - 1 /\ Len(queue) \in Nat
  BY <1>1, HeadTailProperties, LenProperties DEF RunInv, TypeOK
<1>3. /\ Left' \in [1 .. 5 -> Nat] /\ Left \in [1 .. 5 -> Nat]
      /\ Left'[1] = StagesLeft[pc'] /\ Left[1] = StagesLeft[pc]
      /\ Left'[2] = Len(Bindings) + 1 - index' /\ Left[2] = Len(Bindings) + 1 - index
      /\ Left'[3] = Len(queue') /\ Left[3] = Len(queue)
  BY LeftParts, LeftPartsAfter DEF LeftMeasured, StagesLeft
<1>4. \A i \in 1 .. 3 - 1 : Left'[i] = Left[i]
  <2>1. \A i \in 1 .. 3 - 1 : i = 1 \/ i = 2
    OBVIOUS
  <2>2. Left'[1] = Left[1] /\ Left'[2] = Left[2]
    BY <1>1, <1>3
  <2>. QED
    BY <2>1, <2>2
<1>5. Left'[3] < Left[3]
  BY <1>2, <1>3
<1>. QED
  BY <1>3, <1>4, <1>5, FirstDecides

\* An exit, a move or an entry is replaced by actions, and an action by
\* nothing.
LEMMA WorkShortens ==
  ASSUME RunInv, RunInv', Work
  PROVE  <<Left', Left>> \in Shorter
<1>1. work \in Seq(Items) /\ work # <<>> /\ work \in Seq(ItemsPast(start)) /\ start \in Phases
  BY DEF RunInv, TypeOK, Work, ExitOne, EnterOne, MoveOne, ActOne
<1>2. pc' = pc /\ index' = index /\ queue' = queue
  BY DEF Work, ExitOne, EnterOne, MoveOne, ActOne
<1>3. Tail(work) \in Seq(Items) /\ Len(Tail(work)) = Len(work) - 1 /\ Len(work) \in Nat
  BY <1>1, HeadTailProperties, LenProperties
<1>4. PICK a \in Seq(Items) :
        /\ \A i \in 1 .. Len(a) : a[i].op = "act"
        /\ work' = a \o Tail(work)
        /\ Head(work).op = "act" => a = <<>>
  <2>1. CASE ExitOne \/ EnterOne
    <3>1. PICK l : /\ l = OnExit[Head(work).state] \/ l = OnEntry[Head(work).state]
                   /\ work' = Acts(l) \o Tail(work)
      BY <2>1 DEF ExitOne, EnterOne
    <3>2. Head(work).op # "act" /\ Head(work).state \in States
      BY <1>1, <2>1, HeadType DEF ExitOne, EnterOne
    <3>3. Acts(l) \in Seq([op : {"act"}, action : Declared])
      BY <3>1, <3>2, ActsType
    <3>4. [op : {"act"}, action : Declared] \subseteq Items
      BY DeclaredActions DEF Items
    <3>5. Acts(l) \in Seq(Items)
      BY <3>3, <3>4, SeqMonotonic
    <3>6. \A i \in 1 .. Len(Acts(l)) : Acts(l)[i].op = "act"
      <4>1. \A i \in 1 .. Len(Acts(l)) : Acts(l)[i] \in [op : {"act"}, action : Declared]
        BY <3>3, ElementOfSeq
      <4>. QED
        BY <4>1
    <3>. QED
      BY <3>1, <3>2, <3>5, <3>6
  <2>2. CASE MoveOne \/ ActOne
    <3>1. work' = Tail(work)
      BY <2>2 DEF MoveOne, ActOne
    <3>2. <<>> \in Seq(Items) /\ <<>> \o Tail(work) = Tail(work) /\ Len(<<>>) = 0
      BY <1>3, ConcatEmptySeq, EmptySeq
    <3>3. \A i \in 1 .. Len(<<>>) : <<>>[i].op = "act"
      BY <3>2
    <3>. QED
      BY <3>1, <3>2, <3>3
  <2>. QED
    BY <2>1, <2>2 DEF Work
<1>5. Cardinality(ChainedIn(work'))
        = IF Head(work).op = "act" THEN Cardinality(ChainedIn(work))
                                   ELSE Cardinality(ChainedIn(work)) - 1
  BY <1>1, <1>4, ChainedAfterHead
<1>6. /\ Left' \in [1 .. 5 -> Nat] /\ Left \in [1 .. 5 -> Nat]
      /\ Left'[1] = StagesLeft[pc'] /\ Left[1] = StagesLeft[pc]
      /\ Left'[2] = Len(Bindings) + 1 - index' /\ Left[2] = Len(Bindings) + 1 - index
      /\ Left'[3] = Len(queue') /\ Left[3] = Len(queue)
      /\ Left'[4] = Cardinality(ChainedIn(work')) /\ Left[4] = Cardinality(ChainedIn(work))
      /\ Left'[5] = Len(work') /\ Left[5] = Len(work)
  BY LeftParts, LeftPartsAfter DEF LeftMeasured, StagesLeft, ChainedIn
<1>7. Left'[1] = Left[1] /\ Left'[2] = Left[2] /\ Left'[3] = Left[3]
  BY <1>2, <1>6
<1>8. CASE Head(work).op # "act"
  <2>1. Left'[4] = Left[4] - 1 /\ Left[4] \in Nat
    BY <1>5, <1>6, <1>8
  <2>2. Left'[4] < Left[4]
    BY <2>1
  <2>3. \A i \in 1 .. 4 - 1 : i = 1 \/ i = 2 \/ i = 3
    OBVIOUS
  <2>4. \A i \in 1 .. 4 - 1 : Left'[i] = Left[i]
    BY <1>7, <2>3
  <2>. QED
    BY <1>6, <2>2, <2>4, FirstDecides
<1>9. CASE Head(work).op = "act"
  <2>1. Left'[4] = Left[4]
    BY <1>5, <1>6, <1>9
  <2>2. work' = Tail(work)
    BY <1>3, <1>4, <1>9, ConcatEmptySeq
  <2>3. Left'[5] < Left[5]
    BY <1>3, <1>6, <2>2
  <2>4. \A i \in 1 .. 5 - 1 : i = 1 \/ i = 2 \/ i = 3 \/ i = 4
    OBVIOUS
  <2>5. \A i \in 1 .. 5 - 1 : Left'[i] = Left[i]
    BY <1>7, <2>1, <2>4
  <2>. QED
    BY <1>6, <2>3, <2>5, FirstDecides
<1>. QED
  BY <1>8, <1>9

LEMMA StepShortens == RunInv /\ [Next]_vars => [Step => <<Left', Left>> \in Shorter]_vars
<1>. SUFFICES ASSUME RunInv, [Next]_vars, Step PROVE <<Left', Left>> \in Shorter
  OBVIOUS
<1>1. RunInv'
  BY RunStep
<1>. QED
  BY <1>1, StagesShorten, BindingsShorten, TransitionsShorten, WorkShortens DEF Step

\* What the fairness of the commander rests on, for every mission graph, state
\* tree and set of bindings: a run is a finite loop.  Every step of a run
\* leaves it less to do, in an order without infinite descent, although
\* exits and entries put their actions on the work.
THEOREM RunsAreFinite ==
  /\ IsWellFoundedOn(Shorter, [1 .. 5 -> Nat])
  /\ Spec => [][Step => <<Left', Left>> \in Shorter]_vars
<1>1. IsWellFoundedOn(Shorter, [1 .. 5 -> Nat])
  BY NatLessThanWellFounded, WFLexProductOrdering DEF Shorter
<1>2. Spec => [][Step => <<Left', Left>> \in Shorter]_vars
  BY RunInvariant, StepShortens, PTL DEF Spec
<1>. QED
  BY <1>1, <1>2
=============================================================================
