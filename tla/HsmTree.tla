------------------------------ MODULE HsmTree -------------------------------
(***************************************************************************)
(* The state tree of the hierarchical mission state machine                *)
(* (openbmp-mission, hsm.rs): parent chains, lowest common ancestors and   *)
(* the chains of states a transition exits and enters.  A tree is its      *)
(* parent function; NoState stands for "no parent" and "not found".        *)
(***************************************************************************)
EXTENDS Integers, FiniteSets, SequencesExt

CONSTANTS States, NoState

ASSUME TreeAssumption == IsFiniteSet(States) /\ States # {} /\ NoState \notin States

Parents == [States -> States \cup {NoState}]

\* Paths no longer than the number of states, the bound of every walk in the
\* code.  Faulty variant: the bound is one step short.
PathsShort == BoundedSeq(States, Cardinality(States) - 1)
Paths      == BoundedSeq(States, Cardinality(States))

\* c climbs from s to a root of the tree, one parent at a time.
IsParentChain(par, c, s) ==
  /\ c # <<>> /\ c[1] = s
  /\ \A i \in 1 .. Len(c) - 1 : c[i + 1] = par[c[i]]
  /\ par[c[Len(c)]] = NoState

\* MissionStateMachine::new: every walk up must end at a root.
Accepted(par) == \A s \in States : \E c \in Paths : IsParentChain(par, c, s)

parent_chain(par, s) == CHOOSE c \in Paths : IsParentChain(par, c, s)

\* Faulty variant: the topmost shared state instead of the lowest.
lcaTopmost(par, a, b) ==
  LET cb == parent_chain(par, b)
      i  == SelectLastInSeq(cb, LAMBDA s : s \in ToSet(parent_chain(par, a)))
  IN  IF i = 0 THEN NoState ELSE cb[i]

\* The first state of b's chain that is also on a's.
lca(par, a, b) ==
  LET cb == parent_chain(par, b)
      i  == SelectInSeq(cb, LAMBDA s : s \in ToSet(parent_chain(par, a)))
  IN  IF i = 0 THEN NoState ELSE cb[i]

\* The part of a chain below state s; all of it if s is not on the chain.
Below(chain, s) ==
  LET i == SelectInSeq(chain, LAMBDA x : x = s)
  IN  IF i = 0 THEN chain ELSE SubSeq(chain, 1, i - 1)

\* Faulty variant: the source's whole chain exits.
exit_chainToRoot(par, a, b) == IF a = b THEN <<>> ELSE parent_chain(par, a)

exit_chain(par, a, b) ==
  IF a = b THEN <<>> ELSE Below(parent_chain(par, a), lca(par, a, b))

\* Faulty variant: the enter chain is left bottom-up.
enter_chainUnreversed(par, a, b) ==
  IF a = b THEN <<>> ELSE Below(parent_chain(par, b), lca(par, a, b))

enter_chain(par, a, b) ==
  IF a = b THEN <<>> ELSE Reverse(Below(parent_chain(par, b), lca(par, a, b)))
=============================================================================
