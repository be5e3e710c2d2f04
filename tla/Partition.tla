----------------------------- MODULE Partition -----------------------------
(***************************************************************************)
(* The layer partition solver of the cluster                               *)
(* (crates/ai-engine-cluster/src/partition.rs): the dynamic program that   *)
(* cuts a model's layers over the nodes, its order-free form               *)
(* agreed_manifest, the validation of a manual partition, and the ring a   *)
(* coordinator follows through a manifest.                                 *)
(*                                                                         *)
(* A capability is [node, mem, score]; node ids are numbers, ordered as    *)
(* the strings of the code are.  Memory is counted in units in which the   *)
(* three costs below are small; compute_score is at least 1, as            *)
(* microbenchmark_compute_score guarantees.                                *)
(***************************************************************************)
EXTENDS Integers, Sequences, FiniteSets, FiniteSetsExt, SequencesExt

CONSTANTS NLayers,           \* n_layers
          LayerBytes,        \* layer_bytes
          EmbedBytes,        \* embed_output_bytes
          OverheadBytes,     \* per_node_overhead
          Err                \* the Err of a Result, the None of an Option

Nobody == 0                  \* Option::None for a neighbour
Ids    == Nat \ {Nobody}     \* node ids

Capability == [node : Ids, mem : Nat, score : Nat \ {0}]

ManualRange == [node : Ids, start : Nat, end : Nat]   \* of a partition_override

NodeAssignment == [node : Ids, start : 0 .. NLayers, end : 0 .. NLayers,
                   hosts_embedding : BOOLEAN, hosts_output : BOOLEAN,
                   previous : Ids \cup {Nobody}, next : Ids \cup {Nobody}]

ASSUME PartitionAssumption ==
  /\ NLayers \in Nat /\ LayerBytes \in Nat \ {0}
  /\ EmbedBytes \in Nat /\ OverheadBytes \in Nat
  /\ Err \notin Nat /\ Err \notin Seq(NodeAssignment)

\* sort_by and sort_by_key are stable: positions are ordered by their keys, and
\* those with equal keys stay in order.
Before(key, i, j) == key[i] < key[j] \/ (key[i] = key[j] /\ i < j)

sorting(D, key) == CHOOSE p \in Bijection(D, D) :
                     \A i, j \in D : i < j => Before(key, p[i], p[j])

sort_by(s, key) == LET p == sorting(DOMAIN s, key) IN [i \in DOMAIN s |-> s[p[i]]]

-----------------------------------------------------------------------------
(* auto_partition. *)

\* Memory the i-th node of the pipeline needs besides its layers.
overhead(i) == IF i = 1 THEN EmbedBytes + OverheadBytes ELSE OverheadBytes

\* How many layers fit on the i-th node.
max_layers(caps, i) ==
  IF caps[i].mem <= overhead(i) THEN 0 ELSE (caps[i].mem - overhead(i)) \div LayerBytes

\* Mutant of stage_cost: divided before it is scaled.
stage_cost_coarse(cap, layers) == (layers \div cap.score) * 1000

\* Scaled and rounded down: what the solver compares.
stage_cost(cap, layers) == (layers * 1000) \div cap.score

\* No cost reaches INF: scores are at least 1.
INF == NLayers * 1000 + 1

Larger(a, b) == IF a >= b THEN a ELSE b

\* The cuts j that leave layers j .. i-1 to the k-th node within its memory.
Reach(caps, k, i) == {j \in 0 .. i : i - j <= max_layers(caps, k)}

\* cost[0]: no layers on no nodes.
first_row == [i \in 0 .. NLayers |-> IF i = 0 THEN 0 ELSE INF]

\* cost[k] from cost[k-1].
next_row(caps, k, row) ==
  [i \in 0 .. NLayers |->
     Min({INF} \cup {Larger(row[j], stage_cost(caps[k], i - j)) : j \in Reach(caps, k, i)})]

\* cost[k][i]: the least largest stage cost of the first i layers on the first
\* k nodes.
cost(caps) ==
  LET row[k \in 0 .. Len(caps)] ==
        IF k = 0 THEN first_row ELSE next_row(caps, k, row[k - 1])
  IN  row

\* back[k][i]: the first cut that attains cost[k][i]; 0 if none does.
back(caps, c, k, i) ==
  LET best == {j \in Reach(caps, k, i) :
                 Larger(c[k - 1][j], stage_cost(caps[k], i - j)) = c[k][i]}
  IN  IF c[k][i] = INF \/ best = {} THEN 0 ELSE Min(best)

\* The cuts recovered by backtracking: node k gets layers cut[k-1] .. cut[k]-1.
cuts(caps, c) ==
  LET n == Len(caps)
      cut[d \in 0 .. n] == IF d = 0 THEN NLayers
                           ELSE back(caps, c, n - d + 1, cut[d - 1])
  IN  [k \in 0 .. n |-> cut[n - k]]

\* Mutant of Assignments: the last link of the ring is missing.
Assignments_unlinked(nodes, ranges) ==
  [i \in DOMAIN nodes |->
     [node |-> nodes[i], start |-> ranges[i][1], end |-> ranges[i][2],
      hosts_embedding |-> i = 1, hosts_output |-> i = Len(nodes),
      previous |-> IF i = 1 THEN Nobody ELSE nodes[i - 1],
      next |-> IF i + 1 >= Len(nodes) THEN Nobody ELSE nodes[i + 1]]]

\* The assignments of a pipeline of nodes with the given layer ranges.
Assignments(nodes, ranges) ==
  [i \in DOMAIN nodes |->
     [node |-> nodes[i], start |-> ranges[i][1], end |-> ranges[i][2],
      hosts_embedding |-> i = 1, hosts_output |-> i = Len(nodes),
      previous |-> IF i = 1 THEN Nobody ELSE nodes[i - 1],
      next |-> IF i = Len(nodes) THEN Nobody ELSE nodes[i + 1]]]

total_cap(caps) ==
  LET sum[k \in 0 .. Len(caps)] == IF k = 0 THEN 0 ELSE sum[k - 1] + max_layers(caps, k)
  IN  sum[Len(caps)]

auto_partition(caps) ==
  LET c == cost(caps) IN
  IF \/ Len(caps) = 0 \/ NLayers = 0
     \/ total_cap(caps) < NLayers
     \/ c[Len(caps)][NLayers] = INF
  THEN Err
  ELSE LET cut == cuts(caps, c) IN
       Assignments([i \in DOMAIN caps |-> caps[i].node],
                   [i \in DOMAIN caps |-> << cut[i - 1], cut[i] >>])

\* Mutant of agreed_manifest: the capabilities are taken as they were found.
agreed_manifest_unsorted(caps) == auto_partition(caps)

\* The capabilities in the order of node ids.
canonical(caps) == sort_by(caps, [i \in DOMAIN caps |-> caps[i].node])

agreed_manifest(caps) == auto_partition(canonical(caps))

-----------------------------------------------------------------------------
(* manual_partition: ranges is a list of [node, start, end]. *)

\* The sorted ranges follow each other from 0 to NLayers and none is empty.
Contiguous(sorted) ==
  /\ \A i \in DOMAIN sorted :
       /\ sorted[i].start = (IF i = 1 THEN 0 ELSE sorted[i - 1].end)
       /\ sorted[i].start < sorted[i].end
  /\ NLayers = IF sorted = << >> THEN 0 ELSE sorted[Len(sorted)].end

\* Each range is for a known node that has the memory for it.
FitsMemory(caps, sorted) ==
  \A i \in DOMAIN sorted :
    \E k \in DOMAIN caps :
      /\ caps[k].node = sorted[i].node
      /\ \A l \in 1 .. (k - 1) : caps[l].node # sorted[i].node
      /\ (sorted[i].end - sorted[i].start) * LayerBytes + overhead(i) <= caps[k].mem

manual_partition(caps, ranges) ==
  LET sorted == sort_by(ranges, [i \in DOMAIN ranges |-> ranges[i].start]) IN
  IF ~Contiguous(sorted) \/ ~FitsMemory(caps, sorted) THEN Err
  ELSE Assignments([i \in DOMAIN sorted |-> sorted[i].node],
                   [i \in DOMAIN sorted |-> << sorted[i].start, sorted[i].end >>])

-----------------------------------------------------------------------------
(* PartitionManifest: a manifest is the sequence of its assignments. *)

Nodes(m) == {m[i].node : i \in DOMAIN m}

\* The first assignment of a node of the manifest.
for_node(m, node) ==
  m[CHOOSE i \in DOMAIN m : m[i].node = node /\ \A j \in 1 .. (i - 1) : m[j].node # node]

\* A turn of the loop of pipeline_order: the ids visited so far, with the next
\* one unless the walk is over; << Err >> for a missing or a cyclic link.
visit(m, order) ==
  IF order = << Err >> THEN << Err >>
  ELSE LET next == for_node(m, order[Len(order)]).next IN
       IF next = Nobody THEN order
       ELSE IF next \notin Nodes(m) \/ next \in Range(order) THEN << Err >>
       ELSE Append(order, next)

\* Follow `next` from the embedding host; Err for a missing or cyclic link or
\* for a chain that does not visit every node.
pipeline_order(m) ==
  LET heads == {i \in DOMAIN m : m[i].hosts_embedding}
      walk[d \in 0 .. Len(m) + 1] ==
        IF d = 0 THEN << m[Min(heads)].node >> ELSE visit(m, walk[d - 1])
      order == walk[Len(m) + 1]
  IN  IF heads = {} THEN Err
      ELSE IF order = << Err >> \/ Len(order) # Len(m) THEN Err ELSE order
=============================================================================
