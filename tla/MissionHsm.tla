----------------------------- MODULE MissionHsm -----------------------------
(***************************************************************************)
(* Every state tree: construction of a hierarchical state machine from any *)
(* parent function, then the configuration of active states as transitions *)
(* between declared states exit and enter their chains, one state at a     *)
(* time (openbmp-mission, hsm.rs; the walk is fire_hsm_exit_actions and    *)
(* fire_hsm_entry_actions of openbmp-fc, commander.rs).                    *)
(***************************************************************************)
EXTENDS HsmTree

VARIABLES
  par,      \* the declared parent function
  built,    \* "new", then "accepted" or "rejected"
  current,  \* the state the machine is in, or is moving to
  exits,    \* states of the running transition still to exit
  enters,   \* states of the running transition still to enter
  active    \* states entered and not exited

vars == <<par, built, current, exits, enters, active>>

Moving == exits # <<>> \/ enters # <<>>

Init ==
  /\ par \in Parents
  /\ built = "new"
  /\ current \in States
  /\ exits = <<>> /\ enters = <<>> /\ active = {}

\* MissionStateMachine::new, and the initial configuration.
New ==
  /\ built = "new"
  /\ built' = IF Accepted(par) THEN "accepted" ELSE "rejected"
  /\ active' = IF Accepted(par) THEN ToSet(parent_chain(par, current)) ELSE {}
  /\ UNCHANGED <<par, current, exits, enters>>

Transition(b) ==
  /\ built = "accepted" /\ ~Moving
  /\ exits' = exit_chain(par, current, b)
  /\ enters' = enter_chain(par, current, b)
  /\ current' = b
  /\ UNCHANGED <<par, built, active>>

Exit ==
  /\ exits # <<>>
  /\ active' = active \ {Head(exits)}
  /\ exits' = Tail(exits)
  /\ UNCHANGED <<par, built, current, enters>>

Enter ==
  /\ exits = <<>> /\ enters # <<>>
  /\ active' = active \cup {Head(enters)}
  /\ enters' = Tail(enters)
  /\ UNCHANGED <<par, built, current, exits>>

Next == New \/ (\E b \in States : Transition(b)) \/ Exit \/ Enter

Spec == Init /\ [][Next]_vars

-----------------------------------------------------------------------------
(***************************************************************************)
(* Reference definitions, without chains or walks.                         *)
(***************************************************************************)
Closed(S)    == \A s \in S : par[s] \in S \cup {NoState}
Ancestors(s) == {t \in States : \A S \in SUBSET States : s \in S /\ Closed(S) => t \in S}

\* A forest: every nonempty set of states has one whose parent is outside it.
Forest == \A S \in (SUBSET States) \ {{}} : \E s \in S : par[s] \notin S

\* The bounded walk accepts exactly the forests: no tree is too deep for the
\* bound and no cycle slips through it.
AcceptsExactlyForests == built # "new" => (built = "accepted" <=> Forest)

\* Between transitions the active states are the current state and its
\* ancestors, whatever path of transitions led here, including moves to an
\* ancestor, to a descendant and between disjoint trees.
ConfigurationIsPath == built = "accepted" /\ ~Moving => active = Ancestors(current)

\* A state is active only under an active parent: exits run bottom-up and
\* entries top-down.
ParentsOutlastChildren == \A s \in active : par[s] \in active \cup {NoState}

\* A transition touches no more than it must: no step of it exits an ancestor
\* of the state it is moving to, exits an inactive state or enters an active
\* one.
OnlyDifferenceTouched ==
  [][Moving => active' # active /\ Ancestors(current) \cap active \subseteq active']_vars
=============================================================================
