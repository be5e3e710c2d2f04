----------------------------- MODULE MCBringup -----------------------------
(* Two workers, and a LAN with a worker of another cluster that has the node *)
(* id of one of ours, a worker without an IPv4 address and an Ollama.        *)
EXTENDS Bringup

MCForeign ==
  {[cluster |-> "other", role |-> "worker", node |-> 1, fp |-> << 77, 1 >>, v4 |-> TRUE],
   [cluster |-> "home", role |-> "worker", node |-> 2, fp |-> << 78, 1 >>, v4 |-> FALSE],
   [cluster |-> "none", role |-> "ollama", node |-> 2, fp |-> << 79, 1 >>, v4 |-> TRUE]}

\* Either worker may answer at the address of the other; worker 2 cannot hold the
\* model alone.
MCReaches == [w \in Workers |-> Workers]
MCHosts   == {{1}, {1, 2}}
=============================================================================
