---------------------------- MODULE MCMissionHsm ----------------------------
(***************************************************************************)
(* All parent functions over a few states, cyclic ones included.           *)
(***************************************************************************)
EXTENDS MissionHsm
=============================================================================
