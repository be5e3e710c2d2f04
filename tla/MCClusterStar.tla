--------------------------- MODULE MCClusterStar ---------------------------
(* ClusterStar for TLC: two workers with room for all the layers. *)
EXTENDS ClusterStar

CONSTANTS r1, r2

Cap(n) == [node |-> n, mem |-> 6, score |-> 1]

\* r2 may send an empty prompt.
MCPromptLens == [r \in Requests |-> IF r = r2 THEN {0, 1, 2} ELSE {1, 2}]

\* cfg.workers in the order of node ids, and the other way round.
SortedCaps   == << Cap(1), Cap(2) >>
UnsortedCaps == << Cap(2), Cap(1) >>
=============================================================================
