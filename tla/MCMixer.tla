------------------------------ MODULE MCMixer -------------------------------
(***************************************************************************)
(* Two engines and two surfaces, one of them the gimbal of an engine.  The *)
(* tables cover a stage change, an engine kept over it, a phase without    *)
(* authority and one that allows the autopilot but not the engines.        *)
(***************************************************************************)
EXTENDS Mixer

CONSTANTS e1, e2, e3

MCEffectors == {"fin", "gimbal"}
MCGimbals == [e \in Engines |-> IF e = e1 THEN {"gimbal"} ELSE {}]

May(engines, autopilot, allowed) ==
  [engines |-> engines, effectors |-> {"gimbal"}, autopilot_allowed |-> autopilot,
   engines_allowed |-> allowed]
Table(first, second) == [p \in Phases |-> IF p = "boost" THEN first ELSE second]

MCTables == {Table(May({e1}, TRUE, TRUE), May({e2}, FALSE, TRUE)),
             Table(May({e1, e2}, TRUE, TRUE), May({e1}, TRUE, FALSE))}

\* Two stages that fit one by one and not together.
StageTables == {Table(May({e1, e2}, TRUE, TRUE), May({e3}, TRUE, TRUE))}
=============================================================================
