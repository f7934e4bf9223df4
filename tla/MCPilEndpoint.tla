---------------------------- MODULE MCPilEndpoint ----------------------------
(***************************************************************************)
(* Seven frames of 3, 1, 2, 3, 2, 1 and 4 bytes, two under way at a time;  *)
(* a read may end inside a frame or take the start of the next.            *)
(***************************************************************************)
EXTENDS PilEndpoint

MCOffset == [n \in 0 .. 7 |-> <<0, 3, 4, 6, 9, 11, 12, 16>>[n + 1]]
=============================================================================
