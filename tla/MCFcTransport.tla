--------------------------- MODULE MCFcTransport ----------------------------
(***************************************************************************)
(* Two links: dark, near (no latency), far and relayed (two steps).        *)
(***************************************************************************)
EXTENDS FcTransport

S(usable, margin, latency) == [usable |-> usable, margin |-> margin, delay |-> latency]
MCSamples == {S(FALSE, 1, 0), S(TRUE, 0, 0), S(TRUE, 1, 1), S(TRUE, 2, 2)}

MCPassPlan == [s \in Steps |-> IF s % 3 = 2 THEN NoLink ELSE 1 + (s % 2)]
=============================================================================
