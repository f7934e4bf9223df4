--------------------------- MODULE LinkSelection ----------------------------
(***************************************************************************)
(* Which radio link carries the frames between the simulator and the       *)
(* flight controller (openbmp-runner, comm.rs): the first declared link,   *)
(* the usable link with the best margin and a hysteresis, or the link of a *)
(* declared pass plan.  An observation gives every link a sample; a frame  *)
(* sent over a link that is not usable is dropped.                         *)
(***************************************************************************)
EXTENDS Integers

CONSTANTS
  NLinks,      \* number of links; they are numbered in declaration order
  Samples,     \* what a link may look like in an observation
  Hysteresis,  \* bridge_link_hysteresis_db, in units of the margins
  NoLink

Links == 1 .. NLinks

\* usable: visible and not in a blackout.  delay: whole steps of latency.
Sample == [usable : BOOLEAN, margin : Nat, delay : Nat]

ASSUME LinkAssumption ==
  /\ NLinks \in Nat \ {0}
  /\ \A s \in Samples : s.usable \in BOOLEAN /\ s.margin \in Nat /\ s.delay \in Nat
  /\ Hysteresis \in Nat
  /\ NoLink \notin Links

Modes == {"none", "first", "best", "plan"}

Usable(obs) == {l \in Links : obs[l].usable}

\* The first declared of the usable links with the highest margin, if any.
BestMargin(obs) ==
  {l \in Usable(obs) : \A k \in Usable(obs) :
     obs[k].margin < obs[l].margin \/ (obs[k].margin = obs[l].margin /\ l <= k)}

\* Faulty variant: the active link is kept without asking whether it is usable.
RetainedBlindly(obs, active) ==
  /\ Hysteresis > 0 /\ active # NoLink
  /\ \A best \in BestMargin(obs) : obs[best].margin <= obs[active].margin + Hysteresis

\* The active link is kept while it is usable and the best is not better by
\* more than the hysteresis.
Retained(obs, active) ==
  /\ Hysteresis > 0 /\ active \in Usable(obs)
  /\ \A best \in BestMargin(obs) : obs[best].margin <= obs[active].margin + Hysteresis

\* No usable link: the first declared one becomes active, and drops the frame.
SelectBest(obs, active) ==
  IF BestMargin(obs) = {} THEN 1
  ELSE IF Retained(obs, active) THEN active
  ELSE CHOOSE l \in BestMargin(obs) : TRUE

\* The link that carries the frame; NoLink when the plan has none.
Selected(mode, obs, planned, active) ==
  CASE mode = "first" -> 1
    [] mode = "best"  -> SelectBest(obs, active)
    [] mode = "plan"  -> planned

\* active_bridge_link_id afterwards: the first-declared mode does not keep one.
ActiveAfter(mode, obs, planned, active) ==
  IF mode = "first" THEN active ELSE Selected(mode, obs, planned, active)

\* evaluate_packet before the error draw.
Carried(obs, chosen) == chosen # NoLink /\ obs[chosen].usable
=============================================================================
