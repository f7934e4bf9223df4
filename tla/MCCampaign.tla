----------------------------- MODULE MCCampaign ------------------------------
(***************************************************************************)
(* Six samples of two campaigns; some outcomes are equal, one is a         *)
(* negative zero, and one value comes back one unit in the last place      *)
(* smaller the first two times it is read.                                 *)
(***************************************************************************)
EXTENDS Campaign

MCValues == {"0", "-0", "1.5", "x", "x-1ulp", "x-2ulp"}

MCReread ==
  [v \in Values |-> CASE v = "x" -> "x-1ulp" [] v = "x-1ulp" -> "x-2ulp" [] OTHER -> v]

MCOutcome ==
  [c \in Campaigns |->
     [i \in Samples |-> IF i = 1 THEN "-0" ELSE IF c = "nominal" \/ i = 3 THEN "1.5" ELSE "x"]]
=============================================================================
