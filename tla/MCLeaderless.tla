---------------------------- MODULE MCLeaderless ----------------------------
(* Leaderless for TLC: three nodes with a layer each, configured out of order. *)
EXTENDS Leaderless

CONSTANTS r1, r2

Cap(n) == [node |-> n, mem |-> 9, score |-> 1]

MCPromptLens == r1 :> {1, 3} @@ r2 :> {0, 1}

MCCaps == << Cap(2), Cap(3), Cap(1) >>
=============================================================================
