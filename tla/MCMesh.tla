------------------------------- MODULE MCMesh -------------------------------
(* Mesh for TLC: three nodes, listed in another order than that of their ids. *)
EXTENDS Mesh

MCConfig == << 3, 1, 2 >>
=============================================================================
