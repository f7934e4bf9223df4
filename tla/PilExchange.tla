----------------------------- MODULE PilExchange -----------------------------
(***************************************************************************)
(* What the processor-in-the-loop link promises the host: the frames it    *)
(* has sent are answered in their order, each once, and every one in the   *)
(* end.  Only after a write whose outcome the target could not tell may    *)
(* the session break instead.                                              *)
(***************************************************************************)
EXTENDS Naturals

CONSTANTS Frames, Window
VARIABLES sent, answered, doubt, broken

vars == <<sent, answered, doubt, broken>>

Init == sent = 0 /\ answered = 0 /\ doubt = FALSE /\ broken = FALSE

Send ==
  /\ ~broken /\ sent < Frames /\ sent < answered + Window
  /\ sent' = sent + 1
  /\ UNCHANGED <<answered, doubt, broken>>

Answer ==
  /\ ~broken /\ answered < sent
  /\ answered' = answered + 1
  /\ UNCHANGED <<sent, doubt, broken>>

Doubt == doubt' = TRUE /\ UNCHANGED <<sent, answered, broken>>

Break ==
  /\ doubt /\ ~broken /\ answered < sent
  /\ broken' = TRUE
  /\ UNCHANGED <<sent, answered, doubt>>

Next == Send \/ Answer \/ Doubt \/ Break

Safety == Init /\ [][Next]_vars
Spec == Safety /\ WF_vars(Answer \/ Break)
=============================================================================
