------------------------------- MODULE Solver -------------------------------
(***************************************************************************)
(* The solver at work: a step solves a chosen instance, and the properties *)
(* compare the answer with the definition it should meet.                  *)
(***************************************************************************)
EXTENDS Partition

CONSTANTS MaxNodes,   \* clusters of 1 .. MaxNodes nodes
          Mems,       \* memory sizes
          Scores,     \* compute scores
          MaxRanges   \* manual ranges, and nodes of a cluster that is given some

ASSUME SolverAssumption ==
  MaxNodes \in Nat /\ MaxRanges \in Nat /\ Mems \subseteq Nat /\ Scores \subseteq Nat \ {0}

VARIABLES caps,       \* the capabilities, in the order they were found
          override,   \* the manual ranges, in configuration order
          auto,       \* agreed_manifest of caps
          manual      \* manual_partition of caps and override

solver == << caps, override, auto, manual >>

Pending == << >>

\* Nodes 1 .. n found in any order, with any memory and score.
InputsOf(n) == {c \in [1 .. n -> [node : 1 .. n, mem : Mems, score : Scores]] :
                  IsInjective([i \in 1 .. n |-> c[i].node])}
Inputs == UNION {InputsOf(n) : n \in 1 .. MaxNodes}

\* Overrides name nodes 1 .. MaxNodes, maybe unknown ones or one twice.
Overrides ==
  UNION {[1 .. n -> [node : 1 .. MaxNodes, start : 0 .. NLayers, end : 0 .. NLayers]] :
         n \in 0 .. MaxRanges}

SolverInit == /\ caps \in Inputs
              /\ override = Pending /\ auto = Pending /\ manual = Pending

Solve == /\ auto = Pending /\ manual = Pending
         /\ auto' = agreed_manifest(caps)
         /\ UNCHANGED << caps, override, manual >>

SolveManual == /\ auto = Pending /\ manual = Pending /\ Len(caps) <= MaxRanges
               /\ override' \in Overrides
               /\ manual' = manual_partition(caps, override')
               /\ UNCHANGED << caps, auto >>

SolverNext == Solve \/ SolveManual
SolverSpec == SolverInit /\ [][SolverNext]_solver

Solved(m) == m # Pending /\ m # Err

-----------------------------------------------------------------------------
\* The reference: every way to cut the layers over the nodes in id order that
\* fits in memory.  The i-th node gets layers cut[i-1] .. cut[i]-1.
Sorted == canonical(caps)
Plans == {cut \in [0 .. Len(caps) -> 0 .. NLayers] :
            /\ cut[0] = 0 /\ cut[Len(caps)] = NLayers
            /\ \A i \in DOMAIN caps :
                 \/ cut[i] = cut[i - 1]
                 \/ /\ cut[i] > cut[i - 1]
                    /\ (cut[i] - cut[i - 1]) * LayerBytes + overhead(i) <= Sorted[i].mem}

\* Node i of plan a is busy with a token, layers / score, for less than 1/1000
\* longer than node j of plan b.
NearlyAsFast(a, i, b, j) ==
  1000 * (a[i] - a[i - 1]) * Sorted[j].score
    < 1000 * (b[j] - b[j - 1]) * Sorted[i].score + Sorted[i].score * Sorted[j].score

(***************************************************************************)
(* PlanOptimal: agreed_manifest fails exactly when the model has no layers *)
(* or no plan fits the memory of the nodes.  Its plan fits, and in no plan *)
(* that fits is every node faster than the slowest of this one by 1/1000   *)
(* or more, in layers / score and not in the rounded costs that            *)
(* auto_partition compares: the minimum it is after (partition.rs:108) up  *)
(* to its unit of cost.                                                    *)
(***************************************************************************)
PlanOptimal ==
  auto # Pending =>
    IF NLayers = 0 \/ Plans = {} THEN auto = Err
    ELSE /\ auto # Err
         /\ \E cut \in Plans :
              /\ \A p \in Plans, i \in DOMAIN caps :
                   \E j \in DOMAIN caps : NearlyAsFast(cut, i, p, j)
              /\ DOMAIN auto = DOMAIN caps
              /\ \A i \in DOMAIN auto : /\ auto[i].node = Sorted[i].node
                                       /\ auto[i].start = cut[i - 1] /\ auto[i].end = cut[i]

(***************************************************************************)
(* AgreementOrderFree: any order in which the same peers are discovered    *)
(* gives the same manifest, so that nodes agree by comparing hashes.       *)
(***************************************************************************)
AgreementOrderFree ==
  auto # Pending =>
    \A p \in Bijection(DOMAIN caps, DOMAIN caps) :
      agreed_manifest([i \in DOMAIN caps |-> caps[p[i]]]) = auto

\* A manifest whose ring goes through every node once, in layer order, and
\* whose layers follow each other from 0 to NLayers.
Ring(m) ==
  /\ pipeline_order(m) = [i \in DOMAIN m |-> m[i].node]
  /\ m[1].hosts_embedding /\ m[1].start = 0
  /\ m[Len(m)].hosts_output /\ m[Len(m)].end = NLayers
  /\ \A i \in 2 .. Len(m) : m[i].start = m[i - 1].end

(***************************************************************************)
(* RingInLayerOrder: following the ring of a derived manifest, or of an    *)
(* accepted manual partition that names each node once, from the embedding *)
(* host to the output host applies layers 0 .. NLayers-1 in order.         *)
(***************************************************************************)
RingInLayerOrder ==
  /\ Solved(auto) => Ring(auto)
  /\ Solved(manual) /\ IsInjective([i \in DOMAIN manual |-> manual[i].node]) => Ring(manual)
=============================================================================
