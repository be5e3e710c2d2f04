-------------------------- MODULE LeaderlessProofs --------------------------
(***************************************************************************)
(* Proofs about Leaderless, for any number of nodes, requests, layers and  *)
(* tokens, and any faults: the KV caches of the serve loops keep in step   *)
(* with the coordinators, a pass over the ring is whole, and an answer     *)
(* implements Generation.  That the ring of the manifest, agreed or        *)
(* configured, visits every node once and in layer order is proved of the  *)
(* solver (PartitionProofs).                                               *)
(***************************************************************************)
EXTENDS Leaderless, PartitionProofs

\* The ring visits no node twice, and its i-th node has the layers cut[i-1] ..
\* cut[i]-1, the first one the embedding and the last one the output.
RingOnce ==
  /\ Order \in Seq(Members) /\ Len(Order) > 0
  /\ \A i, j \in DOMAIN Order : i # j => Order[i] # Order[j]

InLayerOrder(cut) ==
  LET a(i) == for_node(Manifest, Order[i]) IN
  /\ cut[0] = 0 /\ cut[Len(Order)] = NLayers
  /\ a(1).hosts_embedding /\ a(Len(Order)).hosts_output
  /\ \A i \in 1 .. Len(Order) :
       cut[i - 1] <= cut[i] /\ a(i).start = cut[i - 1] /\ a(i).end = cut[i]

Cuts == {cut \in [0 .. Len(Order) -> 0 .. NLayers] : InLayerOrder(cut)}

\* What the activations can have gone through.
Depths == {0, None, NLayers + 1} \cup {for_node(Manifest, p).end : p \in Members}

\* Sessions, whatever the layers and the ring are.
Locals ==
  [pc : {"new", "send", "write", "wait", "done", "error", "cancelled"},
   at : Members \cup {None}, stream : BOOLEAN, max_tokens : TokenLimits \cup {0},
   prompt : Nat, pos : Nat, seq : Nat, hop : Nat \ {0},
   x : Depths, written : BOOLEAN, reply : {"none", "ok", "cut"}, produced : Nat,
   client : {"open", "complete", "failed", "left"}]

LoopTypes ==
  /\ ended \subseteq Loops
  /\ inbox \in [Loops -> Seq(Requests)]
  /\ busy \in [Loops -> Requests \cup {None}]
  /\ cache \in [Members -> [Requests -> 0 .. MaxPos \cup {None}]]

\* A loop is sent the frames of one hop once.
Once(l) ==
  /\ \A k, j \in DOMAIN inbox[l] : k # j => inbox[l][k] # inbox[l][j]
  /\ \A k \in DOMAIN inbox[l] : inbox[l][k] # busy[l]

\* The stream of r is at l, accepted or not.
At(l, r) == busy[l] = r \/ \E k \in DOMAIN inbox[l] : inbox[l][k] = r

\* A session has its stream at the loop of its hop only, until the reply.
Placed(r) ==
  LET s == sess[r] IN
  \A l \in Loops : At(l, r) =>
    /\ s.pc # "new"
    /\ Active(r) => l = Loop(r) /\ (s.pc = "write" \/ (s.pc = "wait" /\ s.reply = "none"))

\* The frames of this pass went through the i-th node.
Passed(r, i) ==
  LET s == sess[r] IN i < s.hop \/ (i = s.hop /\ s.pc = "wait" /\ s.reply = "ok")

\* The loops passed in this pass have its tokens in their caches too.
InStep(r) ==
  Active(r) => \A i \in 1 .. Len(Order) :
    << Order[i], sess[r].at >> \notin ended /\ Layers(Order[i]) # {} =>
      CacheLen(Order[i], r) = IF Passed(r, i) THEN sess[r].pos + sess[r].seq ELSE sess[r].pos

Local(r) ==
  LET s == sess[r] IN
  /\ s.pc = "new" => s = Idle /\ \A n \in Members : cache[n][r] = None
  /\ s.pc = "write" => ~s.written /\ s.reply = "none"
  /\ Active(r) => /\ s.at \in Members /\ s.hop \in 1 .. Len(Order)
                  /\ s.pos + s.seq = s.prompt + s.produced
                  /\ s.produced = 0 \/ s.produced < s.max_tokens
                  /\ s.stream \/ s.client = "open"
  /\ s.pc = "done" /\ s.client = "open" => s.produced >= s.max_tokens

SessInv(r) == Placed(r) /\ InStep(r) /\ Local(r)

Inv ==
  /\ RingOnce
  /\ LoopTypes /\ sess \in [Requests -> Locals]
  /\ \A l \in Loops : Once(l)
  /\ \A r \in Requests : SessInv(r)

\* How far the activations of r are, where the ring cuts the layers at cut; the
\* output makes them NLayers + 1.
Along(cut, r) ==
  LET s == sess[r] IN
  Active(r) => s.x = IF ~Passed(r, s.hop) THEN cut[s.hop - 1]
                     ELSE IF s.hop = Len(Order) THEN NLayers + 1 ELSE cut[s.hop]

-----------------------------------------------------------------------------
(* The ring, its loops and sessions.                                       *)

(* The manifest takes the layers in order, over the nodes of the mesh.     *)
LEMMA PlanOfManifest ==
  \E nodes, ranges : /\ InOrder(nodes, ranges) /\ Manifest = Assignments(nodes, ranges)
                     /\ Members = {nodes[i] : i \in 1 .. Len(nodes)}
  <1>1. CASE Override = None
    <2>1. Caps \in Clusters BY LeaderlessAssumption DEF Clusters
    <2>2. Manifest = agreed_manifest(Caps) /\ agreed_manifest(Caps) # Err
      BY <1>1, LeaderlessAssumption DEF Manifest
    <2> QED BY <2>1, <2>2, AgreedInOrder DEF Members
  <1>2. CASE Override # None
    <2>1. Manifest = manual_partition(Caps, Override) /\ manual_partition(Caps, Override) # Err
      BY <1>2, LeaderlessAssumption DEF Manifest
    <2>2. /\ Override \in Seq(ManualRange)
          /\ {Override[i].node : i \in DOMAIN Override} = Members
          /\ \A i, j \in DOMAIN Override : i # j => Override[i].node # Override[j].node
      BY <1>2, LeaderlessAssumption
    <2>3. Len(Override) > 0
      <3>1. Members # {}
        <4>1. 1 \in DOMAIN Caps BY LeaderlessAssumption
        <4> QED BY <4>1 DEF Members
      <3>2. PICK i : i \in DOMAIN Override BY <2>2, <3>1
      <3>3. Len(Override) \in Nat /\ DOMAIN Override = 1 .. Len(Override) BY <2>2
      <3> QED BY ONLY <3>2, <3>3
    <2>4. PICK nodes, ranges :
            /\ InOrder(nodes, ranges) /\ manual_partition(Caps, Override) = Assignments(nodes, ranges)
            /\ Listed(nodes) = Nodes(Override)
      BY ONLY <2>1, <2>2, <2>3, ManualPlan
    <2>5. Members = {nodes[i] : i \in 1 .. Len(nodes)} BY ONLY <2>2, <2>4 DEF Listed, Nodes
    <2> QED BY ONLY <2>1, <2>4, <2>5
  <1> QED BY <1>1, <1>2

(* The ring goes through the nodes, each once, and takes the activations   *)
(* through the layers in order: what agreed_manifest or manual_partition   *)
(* and pipeline_order make of the configuration.                           *)
LEMMA RingOfManifest == RingOnce /\ \E cut \in Cuts : TRUE
  <1>1. PICK o, ranges : /\ InOrder(o, ranges) /\ Manifest = Assignments(o, ranges)
                         /\ Members = {o[i] : i \in 1 .. Len(o)}
    BY PlanOfManifest
  <1> DEFINE n == Len(o)
             m == Manifest
             cut == [i \in 0 .. n |-> IF i = 0 THEN 0 ELSE ranges[i][2]]
  <1>2. /\ Pipeline(o, ranges) /\ ranges[1][1] = 0 /\ ranges[n][2] = NLayers
        /\ \A i \in 1 .. n : ranges[i][1] <= ranges[i][2]
        /\ \A i \in 2 .. n : ranges[i][1] = ranges[i - 1][2]
    BY <1>1 DEF InOrder
  <1>3. /\ o \in Seq(Members) /\ DOMAIN o = 1 .. n /\ n \in Nat \ {0}
        /\ \A i, j \in DOMAIN o : i # j => o[i] # o[j]
    <2>1. o \in Seq(Ids) /\ n > 0 /\ \A i, j \in 1 .. n : i # j => o[i] # o[j]
      BY <1>2 DEF Pipeline
    <2>2. n \in Nat /\ DOMAIN o = 1 .. n /\ o \in [1 .. n -> Ids] BY <2>1
    <2>3. \A i \in 1 .. n : o[i] \in Members BY <1>1
    <2>4. o \in [1 .. n -> Members] BY <2>2, <2>3
    <2>5. o \in Seq(Members) BY <2>2, <2>4
    <2> QED BY <2>1, <2>2, <2>5
  <1>4. Order = o BY <1>1, <1>2, PipelineOrder DEF Order
  <1>5. \A i \in 1 .. n : for_node(m, o[i]) = m[i] BY <1>1, <1>2, ForNode
  <1>6. \A i \in 1 .. n : /\ m[i].start = ranges[i][1] /\ m[i].end = ranges[i][2]
                          /\ m[i].hosts_embedding <=> i = 1
                          /\ m[i].hosts_output <=> i = n
    <2> DEFINE p == Assignments(o, ranges)
    <2>1. Pipeline(o, ranges) BY <1>2
    <2>2. \A i \in 1 .. n : /\ p[i].start = ranges[i][1] /\ p[i].end = ranges[i][2]
                            /\ p[i].hosts_embedding <=> i = 1
                            /\ p[i].hosts_output <=> i = n
      BY ONLY <2>1, ManifestFields
    <2>3. m = p BY <1>1
    <2> HIDE DEF m, p, n
    <2> QED BY ONLY <2>2, <2>3
  <1>7. \A i \in 1 .. n : ranges[i][1] \in 0 .. NLayers /\ ranges[i][2] \in 0 .. NLayers
    BY <1>2 DEF Pipeline
  <1> HIDE DEF m, n
  <1>8. /\ cut \in [0 .. n -> 0 .. NLayers] /\ cut[0] = 0 /\ cut[n] = NLayers
        /\ \A i \in 1 .. n : cut[i] = ranges[i][2]
    <2>1. 0 \in 0 .. NLayers /\ n \in 0 .. n /\ n # 0 /\ 0 \in 0 .. n
      BY <1>3, PartitionAssumption
    <2>2. \A i \in 0 .. n : i # 0 => i \in 1 .. n BY <1>3
    <2> QED BY <1>2, <1>7, <2>1, <2>2 DEF n
  <1>9. \A i \in 1 .. n : cut[i - 1] = ranges[i][1]
    <2> SUFFICES ASSUME NEW i \in 1 .. n PROVE cut[i - 1] = ranges[i][1] OBVIOUS
    <2>1. CASE i = 1 BY <1>2, <1>8, <2>1
    <2>2. CASE i # 1
      <3>1. i \in 2 .. n /\ i - 1 \in 1 .. n BY <1>3, <2>2
      <3> QED BY <1>2, <1>8, <3>1 DEF n
    <2> QED BY <2>1, <2>2
  <1> HIDE DEF cut
  <1>10. 1 \in 1 .. n /\ n \in 1 .. n BY <1>3
  <1>11. for_node(m, o[1]).hosts_embedding /\ for_node(m, o[n]).hosts_output
    BY <1>5, <1>6, <1>10, Zenon
  <1>12. \A i \in 1 .. n : /\ cut[i - 1] <= cut[i] /\ for_node(m, o[i]).start = cut[i - 1]
                           /\ for_node(m, o[i]).end = cut[i]
    BY <1>2, <1>5, <1>6, <1>8, <1>9 DEF n
  <1>13. cut \in Cuts BY <1>4, <1>8, <1>11, <1>12, Zenon DEF Cuts, InLayerOrder, m, n
  <1>14. RingOnce BY <1>3, <1>4 DEF RingOnce, n
  <1> QED BY <1>13, <1>14

(* Every hop is a node, and no two are the same.                           *)
LEMMA Hops ==
  ASSUME RingOnce
  PROVE  /\ Len(Order) \in Nat \ {0} /\ DOMAIN Order = 1 .. Len(Order)
         /\ \A i \in 1 .. Len(Order) : Order[i] \in Members
         /\ \A i, j \in 1 .. Len(Order) : Order[i] = Order[j] => i = j
  <1>1. Len(Order) \in Nat \ {0} /\ DOMAIN Order = 1 .. Len(Order) BY DEF RingOnce
  <1> QED BY <1>1 DEF RingOnce

(* The constants the types are made of.                                    *)
LEMMA Constants ==
  /\ MaxPos \in Nat /\ TokenLimits \subseteq Nat
  /\ \A r \in Requests : PromptLens[r] \subseteq Nat
  /\ None \notin Requests /\ None \notin Nat /\ Ingress \subseteq Members
  /\ None \notin Members
  <1>1. Members \subseteq Nat
    <2>1. ASSUME NEW i \in DOMAIN Caps PROVE Caps[i].node \in Nat
      <3>1. Caps[i] \in Capability BY LeaderlessAssumption
      <3> QED BY <3>1 DEF Capability, Ids
    <2> QED BY <2>1 DEF Members
  <1> QED BY <1>1, LeaderlessAssumption

(* An idle session has the types of one.                                   *)
LEMMA IdleLocals == Idle \in Locals
  <1>1. 0 \in Depths BY DEF Depths
  <1> QED BY <1>1 DEF Idle, Locals

(* The fields of a session that is over.                                   *)
LEMMA OverFields ==
  ASSUME NEW s \in Locals, NEW how \in {"done", "error", "cancelled"}
  PROVE  /\ Over(s, how) \in Locals /\ Over(s, how).pc = how
         /\ Over(s, how).max_tokens = s.max_tokens /\ Over(s, how).produced = s.produced
         /\ Over(s, how).client = s.client /\ Over(s, how).stream = s.stream
         /\ Over(s, how).hop = 1
  <1> DEFINE t == Over(s, how)
  <1>1. /\ t.pc = how /\ t.at = s.at /\ t.stream = s.stream /\ t.max_tokens = s.max_tokens
        /\ t.produced = s.produced /\ t.client = s.client /\ t.hop = 1
    BY DEF Over, Idle
  <1>2. /\ s.at \in Members \cup {None} /\ s.stream \in BOOLEAN /\ s.produced \in Nat
        /\ s.max_tokens \in TokenLimits \cup {0}
        /\ s.client \in {"open", "complete", "failed", "left"}
    BY DEF Locals
  <1>3. t \in Locals
    <2>1. Idle \in Locals BY IdleLocals
    <2> QED BY ONLY <1>2, <2>1, how \in {"done", "error", "cancelled"} DEF Over, Locals
  <1> QED BY <1>1, <1>3

\* r moves to s, and no other session moves.
Moves(r, s) == s \in Locals /\ sess' = [sess EXCEPT ![r] = s]

(* Moves in terms of each session.                                         *)
LEMMA MovesAlone ==
  ASSUME sess \in [Requests -> Locals], NEW r \in Requests, NEW s, Moves(r, s)
  PROVE  /\ sess' \in [Requests -> Locals] /\ sess'[r] = s
         /\ \A q \in Requests : q # r => sess'[q] = sess[q]
  BY DEF Moves

(* What the invariant says of one session.                                 *)
LEMMA InvSess ==
  ASSUME Inv, NEW r \in Requests
  PROVE  /\ sess \in [Requests -> Locals] /\ sess[r] \in Locals
         /\ Placed(r) /\ InStep(r) /\ Local(r) /\ RingOnce
         /\ sess[r].hop \in Nat \ {0} /\ sess[r].pos \in Nat /\ sess[r].seq \in Nat
         /\ sess[r].produced \in Nat /\ sess[r].prompt \in Nat /\ sess[r].max_tokens \in Nat
  <1>1. sess \in [Requests -> Locals] /\ SessInv(r) /\ RingOnce BY DEF Inv
  <1>2. sess[r] \in Locals BY <1>1
  <1>3. /\ sess[r].hop \in Nat \ {0} /\ sess[r].pos \in Nat /\ sess[r].seq \in Nat
        /\ sess[r].produced \in Nat /\ sess[r].max_tokens \in TokenLimits \cup {0}
        /\ sess[r].prompt \in Nat
    BY <1>2 DEF Locals
  <1>4. TokenLimits \cup {0} \subseteq Nat BY Constants
  <1>5. sess[r].max_tokens \in Nat /\ sess[r].prompt \in Nat BY ONLY <1>3, <1>4
  <1> QED BY <1>1, <1>2, <1>3, <1>5 DEF SessInv

\* What loops do that leaves a session that does not move alone.
Around(q) ==
  /\ ended \subseteq ended'
  /\ \A l \in Loops : At(l, q)' => At(l, q)
  /\ \A n \in Members :
       \/ cache'[n][q] = cache[n][q]
       \/ << n, sess[q].at >> \in ended' /\ cache'[n][q] = None

(* A session that does not move, while loops go on with others or end.     *)
LEMMA SessKept ==
  ASSUME RingOnce, NEW q \in Requests, SessInv(q), sess'[q] = sess[q], Around(q)
  PROVE  SessInv(q)'
  <1>1. Placed(q)' BY DEF SessInv, Placed, Active, Loop, Around
  <1>2. Local(q)' BY DEF SessInv, Local, Active, Around
  <1>3. InStep(q)'
    <2> SUFFICES ASSUME Active(q)', NEW i \in 1 .. Len(Order),
                        << Order[i], sess'[q].at >> \notin ended', Layers(Order[i]) # {}
                 PROVE  CacheLen(Order[i], q)' = (IF Passed(q, i) THEN sess[q].pos + sess[q].seq
                                                                  ELSE sess[q].pos)'
      BY DEF InStep
    <2>1. Order[i] \in Members BY Hops
    <2>2. cache'[Order[i]][q] = cache[Order[i]][q] /\ << Order[i], sess[q].at >> \notin ended
      BY <2>1 DEF Around
    <2>3. CacheLen(Order[i], q) = IF Passed(q, i) THEN sess[q].pos + sess[q].seq ELSE sess[q].pos
      BY <2>2 DEF SessInv, InStep, Active
    <2>4. CacheLen(Order[i], q)' = CacheLen(Order[i], q) BY <2>2 DEF CacheLen
    <2> QED BY <2>3, <2>4 DEF Passed
  <1> QED BY <1>1, <1>2, <1>3 DEF SessInv

-----------------------------------------------------------------------------
(* What the client of a session sees.                                      *)

\* Every step is, for the client of each request, a step of Generation or none.
Steps == \A r \in Requests : Gen(r)!Step

(* A session whose client sees nothing.                                    *)
LEMMA GenStutter ==
  ASSUME NEW r \in Requests, sess'[r].pc = sess[r].pc, sess'[r].client = sess[r].client,
         sess'[r].produced = sess[r].produced, sess'[r].max_tokens = sess[r].max_tokens
  PROVE  Gen(r)!Step
  BY DEF Gen!Step, Gen!vars, Status

(* A session that goes on or ends unseen.                                  *)
LEMMA GenUnseen ==
  ASSUME NEW r \in Requests, sess[r].pc # "new", sess'[r].pc # "new",
         sess'[r].client = sess[r].client,
         sess'[r].produced = sess[r].produced, sess'[r].max_tokens = sess[r].max_tokens
  PROVE  Gen(r)!Step
  BY DEF Gen!Step, Gen!vars, Status

(* The client leaves.                                                      *)
LEMMA GenLeft ==
  ASSUME NEW r \in Requests, sess[r].pc # "new", sess'[r].pc # "new",
         sess[r].client = "open", sess'[r].client = "left"
  PROVE  Gen(r)!Step
  <1>1. Status(sess[r]) = "open" /\ Status(sess'[r]) = "left" BY DEF Status
  <1>2. Gen(r)!Leave BY <1>1 DEF Gen!Leave
  <1> QED BY <1>2 DEF Gen!Step, Gen!Next

(* The answer ends: well, or with an error.                                *)
LEMMA GenEnds ==
  ASSUME NEW r \in Requests, sess[r].pc # "new", sess'[r].pc # "new", sess[r].client = "open",
         sess'[r].produced = sess[r].produced, sess'[r].max_tokens = sess[r].max_tokens,
         \/ sess'[r].client = "failed"
         \/ sess'[r].client = "complete" /\ sess[r].produced >= sess[r].max_tokens
  PROVE  Gen(r)!Step
  <1>1. Status(sess[r]) = "open" /\ Status(sess'[r]) = sess'[r].client BY DEF Status
  <1>2. CASE sess'[r].client = "failed"
    <2>1. Gen(r)!Fail BY <1>1, <1>2 DEF Gen!Fail
    <2> QED BY <2>1 DEF Gen!Step, Gen!Next
  <1>3. CASE sess'[r].client = "complete" /\ sess[r].produced >= sess[r].max_tokens
    <2>1. Gen(r)!Complete BY <1>1, <1>3 DEF Gen!Complete
    <2> QED BY <2>1 DEF Gen!Step, Gen!Next
  <1> QED BY <1>2, <1>3

(* A token is handed to the client.                                        *)
LEMMA GenSamples ==
  ASSUME NEW r \in Requests, sess[r].pc # "new", sess'[r].pc # "new",
         sess[r].produced \in Nat, sess[r].max_tokens \in Nat,
         sess[r].produced = 0 \/ sess[r].produced < sess[r].max_tokens,
         sess[r].client = "open", sess'[r].client = "open",
         sess'[r].produced = sess[r].produced + 1, sess'[r].max_tokens = sess[r].max_tokens
  PROVE  Gen(r)!Step
  <1>1. Status(sess[r]) = "open" /\ Status(sess'[r]) = "open" BY DEF Status
  <1>2. Gen(r)!Sample("tok", TRUE) BY <1>1 DEF Gen!Sample, Gen!Budget
  <1> QED BY <1>2 DEF Gen!Step, Gen!Next

(* A session moves, and the loops do nothing to the others.                *)
LEMMA SessMoves ==
  ASSUME Inv, NEW r \in Requests, NEW s, Moves(r, s), LoopTypes',
         \A l \in Loops : Once(l)', \A q \in Requests : q # r => Around(q),
         SessInv(r)', Gen(r)!Step
  PROVE  Inv' /\ Steps
  <1>1. /\ sess' \in [Requests -> Locals] /\ RingOnce
        /\ \A q \in Requests : q # r => sess'[q] = sess[q]
    BY MovesAlone DEF Inv
  <1>2. ASSUME NEW q \in Requests, q # r PROVE SessInv(q)' /\ Gen(q)!Step
    <2>1. SessInv(q) /\ sess'[q] = sess[q] BY <1>1, <1>2 DEF Inv
    <2>2. SessInv(q)' BY <1>1, <1>2, <2>1, SessKept
    <2> QED BY <2>1, <2>2, GenStutter
  <1>3. \A q \in Requests : SessInv(q)' /\ Gen(q)!Step BY <1>2
  <1> QED BY <1>1, <1>3 DEF Inv, Steps

(* A session moves and no loop does.                                       *)
LEMMA SessMovesAlone ==
  ASSUME Inv, NEW r \in Requests, NEW s, Moves(r, s), SessInv(r)', Gen(r)!Step,
         UNCHANGED << ended, inbox, busy, cache >>
  PROVE  Inv' /\ Steps
  <1>1. LoopTypes' /\ \A l \in Loops : Once(l)' BY DEF Inv, LoopTypes, Once
  <1>2. \A q \in Requests : Around(q) BY DEF Around, At
  <1> QED BY <1>1, <1>2, SessMoves

(* A session is over: little is said of it any more.                       *)
LEMMA SessOver ==
  ASSUME Inv, NEW r \in Requests, NEW s, Moves(r, s), UNCHANGED << ended, inbox, busy, cache >>,
         s.pc \in {"done", "error", "cancelled"},
         s.pc = "done" /\ s.client = "open" => s.produced >= s.max_tokens, Gen(r)!Step
  PROVE  Inv' /\ Steps
  <1>1. sess'[r] = s BY InvSess, MovesAlone
  <1>2. SessInv(r)' BY <1>1 DEF SessInv, Placed, InStep, Local, Active
  <1> QED BY <1>2, SessMovesAlone

-----------------------------------------------------------------------------
(* The steps of a session.                                                 *)

(* A chat begins, or cannot.                                               *)
LEMMA StartStep ==
  ASSUME Inv, NEW r \in Requests, NEW n \in Ingress, NEW stream \in BOOLEAN,
         NEW prompt \in PromptLens[r], NEW limit \in TokenLimits,
         start(r, n, stream, prompt, limit)
  PROVE  Inv' /\ Steps
  <1> DEFINE i == [Idle EXCEPT !.at = n, !.stream = stream, !.max_tokens = limit,
                               !.prompt = prompt, !.seq = prompt]
             s == [i EXCEPT !.pc = "send"]
             e == Over(i, "error")
  <1>1. /\ i \in Locals /\ i.produced = 0 /\ i.max_tokens = limit /\ i.client = "open"
        /\ i.pos = 0 /\ i.hop = 1 /\ i.at = n /\ i.seq = prompt /\ i.prompt = prompt
    <2>1. prompt \in Nat /\ n \in Members BY Constants
    <2> QED BY <2>1, IdleLocals DEF Locals, Idle
  <1>2. /\ sess[r].pc = "new" /\ UNCHANGED << ended, inbox, busy, cache >>
        /\ (Len(Order) >= 2 /\ sess' = [sess EXCEPT ![r] = s]) \/ sess' = [sess EXCEPT ![r] = e]
    BY DEF start
  <1> HIDE DEF i
  <1>3. /\ s \in Locals /\ s.pc = "send" /\ s.pos = 0 /\ s.hop = 1 /\ s.produced = 0
        /\ s.seq = prompt /\ s.prompt = prompt /\ s.max_tokens = limit /\ s.client = "open"
        /\ s.at = n
    BY ONLY <1>1 DEF Locals
  <1>4. /\ e \in Locals /\ e.pc = "error" /\ e.produced = 0 /\ e.max_tokens = limit
        /\ e.client = "open"
    BY <1>1, OverFields
  <1> HIDE DEF s, e
  <1>5. /\ sess[r] = Idle
        /\ \A m \in Members : cache[m][r] = None
        /\ \A l \in Loops : ~At(l, r)
    BY <1>2, InvSess DEF Local, Placed
  <1>6. ASSUME NEW t, sess'[r] = t, t.pc # "new", t.client = "open", t.produced = 0,
               t.max_tokens = limit
        PROVE  Gen(r)!Step
    <2>1. Status(sess[r]) = "idle" /\ Status(t) = "open" BY <1>5, <1>6 DEF Status, Idle
    <2>2. sess[r].produced = 0 /\ sess[r].client = "open" BY <1>5 DEF Idle
    <2>3. Gen(r)!Begin BY <1>6, <2>1, <2>2 DEF Gen!Begin
    <2> QED BY <2>3 DEF Gen!Step, Gen!Next
  <1>7. CASE Len(Order) >= 2 /\ sess' = [sess EXCEPT ![r] = s]
    <2>1. Moves(r, s) /\ sess'[r] = s BY <1>3, <1>7, InvSess DEF Moves
    <2>2. Placed(r)' BY <1>2, <1>5 DEF Placed, At
    <2>3. InStep(r)'
      <3> SUFFICES ASSUME NEW k \in 1 .. Len(Order)
                   PROVE  CacheLen(Order[k], r)' =
                            (IF Passed(r, k) THEN sess[r].pos + sess[r].seq ELSE sess[r].pos)'
        BY DEF InStep
      <3>1. Order[k] \in Members /\ ~(k < 1) BY InvSess, Hops
      <3>2. ~Passed(r, k)' BY <1>3, <2>1, <3>1 DEF Passed
      <3>3. CacheLen(Order[k], r)' = 0 BY <1>2, <1>5, <3>1 DEF CacheLen
      <3> QED BY <1>3, <2>1, <3>2, <3>3
    <2>4. 1 \in 1 .. Len(Order) /\ n \in Members /\ prompt \in Nat
      BY <1>7, InvSess, Hops, Constants
    <2>5. Local(r)' BY <1>3, <2>1, <2>4 DEF Local
    <2>6. SessInv(r)' BY <2>2, <2>3, <2>5 DEF SessInv
    <2> QED BY <1>2, <1>3, <1>6, <2>1, <2>6, SessMovesAlone
  <1>8. CASE sess' = [sess EXCEPT ![r] = e]
    <2>1. Moves(r, e) /\ sess'[r] = e BY <1>4, <1>8, InvSess DEF Moves
    <2>2. Gen(r)!Step BY <1>4, <1>6, <2>1
    <2> QED BY <1>2, <1>4, <2>1, <2>2, SessOver
  <1> QED BY <1>2, <1>7, <1>8

(* The frames of a hop are written.                                        *)
LEMMA FinishHop ==
  ASSUME Inv, NEW r \in Requests, finish_hop(r)
  PROVE  Inv' /\ Steps
  <1> DEFINE s == [sess[r] EXCEPT !.pc = "wait", !.written = TRUE]
  <1>1. /\ s \in Locals /\ s.pc = "wait" /\ s.pos = sess[r].pos /\ s.hop = sess[r].hop
        /\ s.seq = sess[r].seq /\ s.reply = sess[r].reply /\ s.produced = sess[r].produced
        /\ s.max_tokens = sess[r].max_tokens /\ s.client = sess[r].client
        /\ s.stream = sess[r].stream
        /\ s.at = sess[r].at /\ s.prompt = sess[r].prompt
    <2>1. sess[r] \in Locals BY InvSess
    <2>2. s \in Locals BY ONLY <2>1 DEF Locals
    <2> QED BY ONLY <2>1, <2>2 DEF Locals
  <1>2. Moves(r, s) /\ sess[r].pc = "write" /\ UNCHANGED << ended, inbox, busy, cache >>
    BY <1>1 DEF finish_hop, Moves
  <1> HIDE DEF s
  <1>3. sess'[r] = s /\ Active(r) /\ Active(r)' /\ sess[r].reply = "none"
    BY <1>1, <1>2, InvSess, MovesAlone DEF Active, Local
  <1>4. SessInv(r)'
    <2>1. Placed(r)' BY <1>1, <1>2, <1>3, InvSess DEF Placed, At, Loop
    <2>2. InStep(r)' BY <1>1, <1>2, <1>3, InvSess DEF InStep, CacheLen, Passed
    <2>3. sess[r].stream \/ sess[r].client = "open" BY <1>3, InvSess DEF Local
    <2>4. s.stream \/ s.client = "open" BY ONLY <1>1, <2>3
    <2>5. Local(r)' BY <1>1, <1>3, <2>4, InvSess DEF Local
    <2> QED BY <2>1, <2>2, <2>5 DEF SessInv
  <1>5. Gen(r)!Step BY <1>1, <1>2, <1>3, GenUnseen
  <1> QED BY <1>2, <1>4, <1>5, SessMovesAlone

(* The activations come back: on to the next node.                         *)
LEMMA NextHop ==
  ASSUME Inv, NEW r \in Requests, next_hop(r)
  PROVE  Inv' /\ Steps
  <1> DEFINE h == sess[r].hop + 1
             s == [sess[r] EXCEPT !.pc = "send", !.hop = h]
  <1>1. /\ sess[r].pc = "wait" /\ sess[r].reply = "ok" /\ Active(r)
        /\ UNCHANGED << ended, inbox, busy, cache >> /\ sess' = [sess EXCEPT ![r] = s]
    BY DEF next_hop, Active
  <1>2. h \in 1 .. Len(Order) /\ h \in Nat \ {0} BY <1>1, InvSess, Hops DEF next_hop, Local
  <1>3. /\ s \in Locals /\ s.pc = "send" /\ s.pos = sess[r].pos /\ s.hop = h
        /\ s.seq = sess[r].seq /\ s.produced = sess[r].produced
        /\ s.max_tokens = sess[r].max_tokens /\ s.client = sess[r].client
        /\ s.stream = sess[r].stream
        /\ s.at = sess[r].at /\ s.prompt = sess[r].prompt
    <2>1. sess[r] \in Locals BY InvSess
    <2> HIDE DEF h
    <2>2. s \in Locals BY ONLY <1>2, <2>1 DEF Locals
    <2> QED BY ONLY <2>1, <2>2 DEF Locals
  <1>4. Moves(r, s) BY <1>1, <1>3 DEF Moves
  <1> HIDE DEF s
  <1>5. sess'[r] = s /\ Active(r)' BY <1>3, <1>4, InvSess, MovesAlone DEF Active
  <1>6. SessInv(r)'
    <2>1. Placed(r)' BY <1>1, <1>5, InvSess DEF Placed, At
    <2>2. \A i \in 1 .. Len(Order) : Passed(r, i)' <=> Passed(r, i)
      BY <1>1, <1>3, <1>5, InvSess DEF Passed
    <2>3. InStep(r)' BY <1>1, <1>3, <1>5, <2>2, InvSess DEF InStep, CacheLen
    <2>4. Local(r)' BY <1>1, <1>2, <1>3, <1>5, InvSess DEF Local
    <2> QED BY <2>1, <2>3, <2>4 DEF SessInv
  <1>7. Gen(r)!Step BY <1>1, <1>3, <1>5, GenUnseen
  <1> QED BY <1>1, <1>4, <1>6, <1>7, SessMovesAlone

(* The logits come back: a token is sampled and the session goes on or is  *)
(* over.                                                                   *)
LEMMA PassDone ==
  ASSUME Inv, NEW r \in Requests, pass_done(r)
  PROVE  Inv' /\ Steps
  <1> DEFINE c == sess[r]
             n == c.produced + 1
             p == NextPos(c)
             s == [c EXCEPT !.pc = "send", !.produced = @ + 1, !.pos = NextPos(c), !.seq = 1,
                            !.hop = 1, !.x = 0]
  <1>0. Active(r) /\ Local(r) BY InvSess DEF pass_done, Active
  <1>1. /\ c \in Locals /\ c.pc = "wait" /\ c.reply = "ok" /\ c.hop = Len(Order)
        /\ n \in Nat /\ p \in Nat /\ p = c.pos + c.seq /\ p + 1 = c.prompt + n
        /\ UNCHANGED << ended, inbox, busy, cache >>
    <2>1. /\ c.pc = "wait" /\ c.reply = "ok" /\ c.hop = Len(Order)
          /\ UNCHANGED << ended, inbox, busy, cache >>
      BY DEF pass_done
    <2>2. c \in Locals /\ c.produced \in Nat /\ c.prompt \in Nat BY InvSess
    <2>3. p = c.pos + c.seq BY <1>0 DEF Local, NextPos
    <2> QED BY <2>1, <2>2, <2>3 DEF NextPos
  <1>2. s = [c EXCEPT !.pc = "send", !.produced = n, !.pos = p, !.seq = 1, !.hop = 1, !.x = 0]
    BY <1>1 DEF Locals
  <1>3. sess' = [sess EXCEPT ![r] = IF c.client # "open" THEN Over(c, "done")
                                    ELSE IF s.produced >= c.max_tokens THEN Over(s, "done") ELSE s]
    BY DEF pass_done
  <1> HIDE DEF n, p, s
  <1>4. /\ s \in Locals /\ s.pc = "send" /\ s.pos = p /\ s.hop = 1 /\ s.produced = n
        /\ s.max_tokens = c.max_tokens /\ s.client = c.client /\ s.seq = 1
        /\ s.at = c.at /\ s.prompt = c.prompt /\ s.stream = c.stream
    <2>1. 0 \in Depths BY DEF Depths
    <2> HIDE DEF c
    <2>2. s \in Locals
      <3>1. c \in Locals /\ n \in Nat /\ p \in Nat /\ 1 \in Nat \ {0} BY <1>1
      <3> QED BY ONLY <1>2, <2>1, <3>1 DEF Locals
    <2>3. s.pc = "send" /\ s.pos = p /\ s.hop = 1 /\ s.produced = n /\ s.seq = 1
      BY ONLY <1>1, <1>2 DEF Locals
    <2>4. /\ s.max_tokens = c.max_tokens /\ s.client = c.client
          /\ s.at = c.at /\ s.prompt = c.prompt /\ s.stream = c.stream
      BY ONLY <1>1, <1>2 DEF Locals
    <2> QED BY <2>2, <2>3, <2>4
  <1>5. CASE c.client # "open"
    <2> DEFINE e == Over(c, "done")
    <2>1. /\ e \in Locals /\ e.pc = "done" /\ e.produced = c.produced
          /\ e.max_tokens = c.max_tokens /\ e.client = c.client
      BY <1>1, OverFields
    <2>2. Moves(r, e) BY <1>3, <1>5, <2>1 DEF Moves
    <2> HIDE DEF e
    <2>3. sess'[r] = e BY <2>2, InvSess, MovesAlone
    <2>4. Gen(r)!Step BY <1>1, <2>1, <2>3, GenUnseen
    <2> QED BY <1>1, <1>5, <2>1, <2>2, <2>4, SessOver
  <1>6. CASE c.client = "open" /\ n >= c.max_tokens
    <2> DEFINE e == Over(s, "done")
    <2>1. /\ e \in Locals /\ e.pc = "done" /\ e.produced = n
          /\ e.max_tokens = c.max_tokens /\ e.client = c.client
      BY <1>4, OverFields
    <2>2. Moves(r, e) BY <1>3, <1>4, <1>6, <2>1 DEF Moves
    <2> HIDE DEF e
    <2>3. sess'[r] = e BY <2>2, InvSess, MovesAlone
    <2>4. Gen(r)!Step
      BY <1>0, <1>1, <1>6, <2>1, <2>3, InvSess, GenSamples DEF Local, n
    <2> QED BY <1>1, <1>6, <2>1, <2>2, <2>4, SessOver
  <1>7. CASE c.client = "open" /\ ~(n >= c.max_tokens)
    <2>1. Moves(r, s) BY <1>3, <1>4, <1>7 DEF Moves
    <2>2. sess'[r] = s BY <2>1, InvSess, MovesAlone
    <2>3. SessInv(r)'
      <3>1. Placed(r)' BY <1>0, <1>1, <2>2, InvSess DEF Placed, At
      <3>2. 1 \in 1 .. Len(Order) /\ Len(Order) \in Nat BY <1>0, <1>1, InvSess, Hops DEF Local
      <3>3. \A i \in 1 .. Len(Order) : Passed(r, i) /\ ~Passed(r, i)'
        BY <1>1, <1>4, <2>2, <3>2 DEF Passed
      <3>4. InStep(r)' BY <1>0, <1>1, <1>4, <2>2, <3>3, InvSess DEF InStep, CacheLen
      <3>5. n < c.max_tokens BY <1>1, <1>7, InvSess
      <3>6. s.pos + s.seq = s.prompt + s.produced /\ s.at \in Members
        BY <1>0, <1>1, <1>4 DEF Local
      <3>7. Local(r)' BY <1>4, <1>7, <2>2, <3>2, <3>5, <3>6 DEF Local
      <3> QED BY <3>1, <3>4, <3>7 DEF SessInv
    <2>4. Gen(r)!Step
      BY <1>0, <1>1, <1>4, <1>7, <2>2, InvSess, GenSamples DEF Local, n
    <2> QED BY <1>1, <2>1, <2>3, <2>4, SessMovesAlone
  <1> QED BY <1>5, <1>6, <1>7

(* A hop fails, or the client of a whole answer goes away.                 *)
LEMMA EndStep ==
  ASSUME Inv, NEW r \in Requests, hop_fails(r) \/ cancel(r)
  PROVE  Inv' /\ Steps
  <1>1. /\ Active(r) /\ sess[r].pc # "new" /\ sess[r] \in Locals
        /\ UNCHANGED << ended, inbox, busy, cache >>
    BY InvSess DEF hop_fails, cancel, Active
  <1>2. CASE hop_fails(r)
    <2> DEFINE s == Over(sess[r], "error")
    <2>1. /\ s \in Locals /\ s.pc = "error" /\ s.produced = sess[r].produced
          /\ s.max_tokens = sess[r].max_tokens /\ s.client = sess[r].client
      BY <1>1, OverFields
    <2>2. Moves(r, s) BY <1>2, <2>1 DEF hop_fails, Moves
    <2> HIDE DEF s
    <2>3. sess'[r] = s BY <2>2, InvSess, MovesAlone
    <2>4. Gen(r)!Step BY <1>1, <2>1, <2>3, GenUnseen
    <2> QED BY <1>1, <2>1, <2>2, <2>4, SessOver
  <1>3. CASE cancel(r)
    <2> DEFINE o == Over(sess[r], "cancelled")
               s == [o EXCEPT !.client = "left", !.written = sess[r].written,
                              !.seq = sess[r].seq, !.hop = sess[r].hop]
    <2>1. o \in Locals /\ o.pc = "cancelled" BY <1>1, OverFields
    <2>2. Moves(r, s) /\ s.pc = "cancelled" /\ s.client = "left"
      <3>1. sess' = [sess EXCEPT ![r] = s] BY <1>3 DEF cancel
      <3>2. sess[r].written \in BOOLEAN /\ sess[r].seq \in Nat /\ sess[r].hop \in Nat \ {0}
        BY <1>1 DEF Locals
      <3> HIDE DEF o
      <3>3. s \in Locals /\ s.pc = "cancelled" /\ s.client = "left" BY <2>1, <3>2 DEF Locals
      <3> QED BY <3>1, <3>3 DEF Moves
    <2> HIDE DEF s
    <2>3. sess'[r] = s BY <2>2, InvSess, MovesAlone
    <2>4. sess[r].client = "open" BY <1>1, <1>3, InvSess DEF cancel, Local
    <2>5. Gen(r)!Step BY <1>1, <2>2, <2>3, <2>4, GenLeft
    <2> QED BY <1>1, <2>2, <2>5, SessOver
  <1> QED BY <1>2, <1>3

\* The client reads the end of its answer, cannot be given it, or leaves it.
Reads(r) == recv_end(r) \/ decode_fails(r) \/ hang_up(r)

\* What the client sees of s changes, and nothing else of it.
Shows(s, t) ==
  /\ t.pc = s.pc /\ t.at = s.at /\ t.stream = s.stream /\ t.max_tokens = s.max_tokens
  /\ t.prompt = s.prompt /\ t.pos = s.pos /\ t.seq = s.seq /\ t.hop = s.hop /\ t.x = s.x
  /\ t.written = s.written /\ t.reply = s.reply /\ t.produced = s.produced

(* A client moves its own side of the session.                             *)
LEMMA ReadsFields ==
  ASSUME Inv, NEW r \in Requests, Reads(r)
  PROVE  /\ sess' = [sess EXCEPT ![r] = sess'[r]] /\ sess'[r] \in Locals
         /\ UNCHANGED << ended, inbox, busy, cache >>
         /\ Shows(sess[r], sess'[r]) /\ sess[r].pc # "new" /\ sess[r].client = "open"
         /\ \/ sess'[r].client = "left" /\ sess[r].stream
            \/ /\ sess[r].pc \in {"done", "error"} \/ sess[r].stream
               /\ \/ sess'[r].client = "failed"
                  \/ sess'[r].client = "complete" /\ sess[r].produced >= sess[r].max_tokens
  <1> DEFINE s(c) == [sess[r] EXCEPT !.client = c]
  <1>1. sess[r] \in Locals /\ sess \in [Requests -> Locals] /\ Local(r) BY InvSess
  <1>2. ASSUME NEW c \in {"complete", "failed", "left"}, sess' = [sess EXCEPT ![r] = s(c)]
        PROVE  /\ sess' = [sess EXCEPT ![r] = sess'[r]] /\ sess'[r] \in Locals
               /\ Shows(sess[r], sess'[r]) /\ sess'[r].client = c
    <2>1. s(c) \in Locals /\ Shows(sess[r], s(c)) /\ s(c).client = c
      BY ONLY <1>1, c \in {"complete", "failed", "left"} DEF Locals, Shows
    <2> HIDE DEF s
    <2> QED BY <1>1, <1>2, <2>1
  <1>3. CASE recv_end(r)
    <2>1. PICK c \in {"complete", "failed"} :
            c = IF sess[r].pc = "done" THEN "complete" ELSE "failed"
      OBVIOUS
    <2>2. /\ sess' = [sess EXCEPT ![r] = s(c)] /\ UNCHANGED << ended, inbox, busy, cache >>
          /\ sess[r].client = "open" /\ sess[r].pc \in {"done", "error"}
      BY <1>1, <1>3, <2>1 DEF recv_end, Locals
    <2>3. c = "complete" => sess[r].produced >= sess[r].max_tokens BY <1>1, <2>1, <2>2 DEF Local
    <2> HIDE DEF s
    <2> QED BY <1>2, <2>2, <2>3
  <1>4. CASE decode_fails(r)
    <2>1. /\ sess' = [sess EXCEPT ![r] = s("failed")] /\ UNCHANGED << ended, inbox, busy, cache >>
          /\ sess[r].client = "open"
          /\ IF sess[r].stream THEN sess[r].produced > 0 ELSE sess[r].pc = "done"
      BY <1>1, <1>4 DEF decode_fails, Locals
    <2>2. sess[r].pc # "new"
      <3>1. Idle.produced = 0 /\ ~(0 > 0) /\ Idle.pc = "new" /\ ~Idle.stream BY DEF Idle
      <3> QED BY <1>1, <2>1, <3>1 DEF Local
    <2> HIDE DEF s
    <2> QED BY <1>2, <2>1, <2>2
  <1>5. CASE hang_up(r)
    <2>1. /\ sess' = [sess EXCEPT ![r] = s("left")] /\ UNCHANGED << ended, inbox, busy, cache >>
          /\ sess[r].client = "open" /\ sess[r].pc # "new" /\ sess[r].stream
      BY <1>1, <1>5 DEF hang_up, Locals
    <2> HIDE DEF s
    <2> QED BY <1>2, <2>1
  <1> QED BY <1>3, <1>4, <1>5 DEF Reads

(* ... which disturbs nothing.                                             *)
LEMMA ReadsStep ==
  ASSUME Inv, NEW r \in Requests, Reads(r)
  PROVE  Inv' /\ Steps
  <1> DEFINE s == sess'[r]
  <1>1. /\ Moves(r, s) /\ Shows(sess[r], s) /\ UNCHANGED << ended, inbox, busy, cache >>
        /\ sess[r].pc # "new" /\ sess[r].client = "open"
    BY ReadsFields DEF Moves
  <1>2. SessInv(r)'
    <2>1. Placed(r)' BY <1>1, InvSess DEF Placed, At, Active, Loop, Shows
    <2>2. InStep(r)'
      <3>1. InStep(r) /\ Shows(sess[r], s) /\ UNCHANGED << ended, cache >> BY <1>1, InvSess
      <3>2. Active(r)' <=> Active(r) BY ONLY <3>1 DEF Active, Shows
      <3>3. ASSUME NEW i \in 1 .. Len(Order) PROVE Passed(r, i)' <=> Passed(r, i)
        BY ONLY <3>1 DEF Passed, Shows
      <3>4. ASSUME NEW i \in 1 .. Len(Order) PROVE CacheLen(Order[i], r)' = CacheLen(Order[i], r)
        BY ONLY <3>1 DEF CacheLen
      <3> QED BY ONLY <3>1, <3>2, <3>3, <3>4 DEF InStep, Shows
    <2>3. Active(r) => sess[r].stream BY ReadsFields DEF Active
    <2>4. s.client # "open" BY ReadsFields
    <2>5. Local(r)' BY <1>1, <2>3, <2>4, InvSess DEF Local, Active, Shows
    <2> QED BY <2>1, <2>2, <2>5 DEF SessInv
  <1>3. Gen(r)!Step
    <2>1. /\ s.produced = sess[r].produced /\ s.max_tokens = sess[r].max_tokens
          /\ s.pc # "new"
      BY <1>1 DEF Shows
    <2>2. CASE s.client = "left" BY <1>1, <2>1, <2>2, GenLeft
    <2>3. CASE s.client # "left" BY <1>1, <2>1, <2>3, ReadsFields, GenEnds
    <2> QED BY <2>2, <2>3
  <1> QED BY <1>1, <1>2, <1>3, SessMovesAlone

-----------------------------------------------------------------------------
(* The steps of the serve loops.                                           *)

(* No session moves.                                                       *)
LEMMA LoopsMove ==
  ASSUME Inv, UNCHANGED sess, LoopTypes', \A l \in Loops : Once(l)',
         \A q \in Requests : Around(q)
  PROVE  Inv' /\ Steps
  <1>1. ASSUME NEW q \in Requests PROVE SessInv(q)' /\ Gen(q)!Step
    <2>1. SessInv(q) /\ sess'[q] = sess[q] /\ RingOnce BY DEF Inv
    <2>2. SessInv(q)' BY <2>1, SessKept
    <2> QED BY <2>1, <2>2, GenStutter
  <1>2. \A q \in Requests : SessInv(q)' /\ Gen(q)!Step BY <1>1
  <1> QED BY <1>2 DEF Inv, Steps

(* Loops end, with their streams and their caches.                         *)
LEMMA LoopsEnd ==
  ASSUME Inv, NEW ls \in SUBSET Loops, End(ls)
  PROVE  /\ LoopTypes' /\ \A l \in Loops : Once(l)'
         /\ \A q \in Requests : Around(q)
         /\ \A l \in ls, q \in Requests : ~At(l, q)'
  <1>1. LoopTypes BY DEF Inv
  <1>2. LoopTypes'
    <2>1. << >> \in Seq(Requests) OBVIOUS
    <2>2. ended' \subseteq Loops BY <1>1 DEF End, LoopTypes
    <2>3. inbox' \in [Loops -> Seq(Requests)] BY <1>1, <2>1 DEF End, LoopTypes
    <2>4. busy' \in [Loops -> Requests \cup {None}] BY <1>1 DEF End, LoopTypes
    <2>5. cache' \in [Members -> [Requests -> 0 .. MaxPos \cup {None}]]
      BY <1>1 DEF End, LoopTypes
    <2> QED BY <2>2, <2>3, <2>4, <2>5 DEF LoopTypes
  <1>3. \A l \in ls : inbox'[l] = << >> /\ busy'[l] = None BY DEF End
  <1>4. \A l \in Loops : l \notin ls => inbox'[l] = inbox[l] /\ busy'[l] = busy[l] BY DEF End
  <1>5. \A l \in Loops : Once(l)'
    <2> SUFFICES ASSUME NEW l \in Loops PROVE Once(l)' OBVIOUS
    <2>1. CASE l \in ls BY <1>3, <2>1 DEF Once
    <2>2. CASE l \notin ls BY <1>4, <2>2 DEF Inv, Once
    <2> QED BY <2>1, <2>2
  <1>6. \A l \in ls, q \in Requests : ~At(l, q)' BY <1>3, Constants DEF At
  <1>7. ASSUME NEW q \in Requests PROVE Around(q)
    <2>1. \A l \in Loops : At(l, q)' => At(l, q)
      <3> SUFFICES ASSUME NEW l \in Loops, At(l, q)' PROVE At(l, q) OBVIOUS
      <3>1. l \notin ls BY <1>6
      <3> QED BY <1>4, <3>1 DEF At
    <2>2. ASSUME NEW n \in Members
          PROVE  \/ cache'[n][q] = cache[n][q]
                 \/ << n, sess[q].at >> \in ended' /\ cache'[n][q] = None
      BY DEF End
    <2> QED BY <2>1, <2>2 DEF Around, End
  <1> QED BY <1>2, <1>5, <1>6, <1>7

(* A loop ends on a stream that fails, or all loops of a connection do.    *)
LEMMA LoopEnds ==
  ASSUME Inv, UNCHANGED sess, NEW ls \in SUBSET Loops, End(ls)
  PROVE  Inv' /\ Steps
  BY LoopsEnd, LoopsMove

(* A loop panics, which cuts the stream.                                   *)
LEMMA PanicStep ==
  ASSUME Inv, NEW l \in Loops, NEW r \in Requests, panics(l, r)
  PROVE  Inv' /\ Steps
  <1>1. At(l, r) /\ End({l}) /\ sess[r].written BY DEF panics, Serving, At
  <1>2. /\ LoopTypes' /\ \A k \in Loops : Once(k)'
        /\ \A q \in Requests : Around(q) /\ ~At(l, r)'
    BY <1>1, LoopsEnd
  <1> DEFINE s == [sess[r] EXCEPT !.reply = "cut"]
  <1>3. /\ s \in Locals /\ s.pc = sess[r].pc /\ s.pos = sess[r].pos /\ s.hop = sess[r].hop
        /\ s.seq = sess[r].seq /\ s.reply = "cut" /\ s.produced = sess[r].produced
        /\ s.max_tokens = sess[r].max_tokens /\ s.client = sess[r].client
        /\ s.stream = sess[r].stream
        /\ s.at = sess[r].at /\ s.prompt = sess[r].prompt
    BY InvSess DEF Locals
  <1>4. Moves(r, s) BY <1>3 DEF panics, Moves
  <1> HIDE DEF s
  <1>5. sess'[r] = s /\ sess[r].pc # "new" BY <1>1, <1>4, InvSess, MovesAlone DEF Placed
  <1>6. Gen(r)!Step BY <1>3, <1>5, GenStutter
  <1>7. SessInv(r)'
    <2>1. CASE ~Active(r)
      BY <1>3, <1>5, <2>1, InvSess DEF SessInv, Placed, InStep, Local, Active
    <2>2. CASE Active(r)
      <3>1. l = Loop(r) /\ sess[r].pc = "wait" /\ sess[r].reply = "none"
        BY <1>1, <2>2, InvSess DEF Placed, Local
      <3>2. \A k \in Loops : ~At(k, r)' BY <1>2, <2>2, <3>1, InvSess DEF Placed, Around
      <3>3. Placed(r)' BY <3>2 DEF Placed
      <3>4. Local(r)' BY <1>3, <1>5, <2>2, <3>1, InvSess DEF Local, Active
      <3>5. InStep(r)'
        <4> SUFFICES ASSUME NEW i \in 1 .. Len(Order),
                            << Order[i], sess'[r].at >> \notin ended', Layers(Order[i]) # {}
                     PROVE  CacheLen(Order[i], r)' =
                              (IF Passed(r, i) THEN sess[r].pos + sess[r].seq ELSE sess[r].pos)'
          BY DEF InStep
        <4>1. Order[i] \in Members BY InvSess, Hops
        <4>2. /\ cache'[Order[i]][r] = cache[Order[i]][r]
              /\ << Order[i], sess[r].at >> \notin ended
          BY <1>2, <1>3, <1>5, <4>1 DEF Around
        <4>3. CacheLen(Order[i], r) =
                IF Passed(r, i) THEN sess[r].pos + sess[r].seq ELSE sess[r].pos
          BY <2>2, <4>2, InvSess DEF InStep
        <4>4. CacheLen(Order[i], r)' = CacheLen(Order[i], r) BY <4>2 DEF CacheLen
        <4>5. Passed(r, i)' <=> Passed(r, i) BY <1>3, <1>5, <3>1 DEF Passed
        <4> QED BY <1>3, <1>5, <4>3, <4>4, <4>5
      <3> QED BY <3>3, <3>4, <3>5 DEF SessInv
    <2> QED BY <2>1, <2>2
  <1> QED BY <1>2, <1>4, <1>6, <1>7, SessMoves

(* A node crashes with the sessions it coordinates.                        *)
LEMMA CrashStep ==
  ASSUME Inv, NEW n \in Members, crash(n)
  PROVE  Inv' /\ Steps
  <1>1. End({l \in Loops : l[1] = n}) BY DEF crash
  <1>2. /\ LoopTypes' /\ \A k \in Loops : Once(k)'
        /\ \A q \in Requests : Around(q)
    <2> DEFINE ls == {l \in Loops : l[1] = n}
    <2>1. ls \in SUBSET Loops OBVIOUS
    <2> HIDE DEF ls
    <2>2. End(ls) BY <1>1 DEF ls
    <2> QED BY <2>1, <2>2, LoopsEnd
  <1>3. ASSUME NEW q \in Requests PROVE sess'[q] \in Locals /\ SessInv(q)' /\ Gen(q)!Step
    <2> DEFINE t == IF Active(q) THEN [sess[q] EXCEPT !.pc = "error"] ELSE sess[q]
               e == [t EXCEPT !.client = "failed"]
    <2>1. sess'[q] = IF sess[q].at # n THEN sess[q]
                     ELSE IF sess[q].client = "open" THEN e ELSE t
      BY Zenon DEF crash
    <2>2. sess[q] \in Locals /\ Local(q) /\ Placed(q) BY InvSess
    <2>3. /\ t \in Locals /\ t.produced = sess[q].produced /\ t.client = sess[q].client
          /\ t.max_tokens = sess[q].max_tokens /\ t.pc \notin {"send", "write", "wait"}
          /\ t.pc = "new" <=> sess[q].pc = "new"
          /\ t.pc = "done" <=> sess[q].pc = "done"
      BY <2>2 DEF Locals, Active
    <2> HIDE DEF t
    <2>4. /\ e \in Locals /\ e.produced = t.produced /\ e.client = "failed" /\ e.pc = t.pc
          /\ e.max_tokens = t.max_tokens
      BY ONLY <2>3 DEF Locals
    <2> HIDE DEF e
    <2>5. CASE sess[q].at # n
      <3>1. sess'[q] = sess[q] /\ sess[q] \in Locals /\ SessInv(q) /\ RingOnce
        BY <2>1, <2>5, InvSess DEF Inv
      <3>2. SessInv(q)' BY <1>2, <3>1, SessKept
      <3> QED BY <3>1, <3>2, GenStutter
    <2>6. CASE sess[q].at = n
      <3>1. sess[q].pc # "new"
        <4>1. Idle.at = None BY DEF Idle
        <4> QED BY <2>2, <2>6, <4>1, Constants DEF Local
      <3>2. CASE sess[q].client = "open"
        <4>1. SessInv(q)'
          BY <2>1, <2>3, <2>4, <2>6, <3>1, <3>2 DEF SessInv, Placed, InStep, Local, Active
        <4>2. Gen(q)!Step BY <2>1, <2>3, <2>4, <2>6, <3>1, <3>2, GenEnds
        <4> QED BY <2>1, <2>4, <2>6, <3>2, <4>1, <4>2
      <3>3. CASE sess[q].client # "open"
        <4>1. SessInv(q)'
          BY <2>1, <2>3, <2>6, <3>1, <3>3 DEF SessInv, Placed, InStep, Local, Active
        <4>2. Gen(q)!Step BY <2>1, <2>3, <2>6, <3>1, <3>3, GenUnseen
        <4> QED BY <2>1, <2>3, <2>6, <3>3, <4>1, <4>2
      <3> QED BY <3>2, <3>3
    <2> QED BY <2>5, <2>6
  <1>4. sess' \in [Requests -> Locals] BY <1>3 DEF crash
  <1>5. RingOnce BY DEF Inv
  <1> QED BY <1>2, <1>3, <1>4, <1>5 DEF Inv, Steps

(* A loop accepts the stream that was opened first.                        *)
LEMMA AcceptStep ==
  ASSUME Inv, NEW w \in Loops, accept_bi(w)
  PROVE  Inv' /\ Steps
  <1>1. LoopTypes /\ Once(w) BY DEF Inv
  <1> DEFINE b == inbox[w]
  <1>2. /\ b \in Seq(Requests) /\ b # << >> /\ Head(b) = b[1] /\ Head(b) \in Requests
        /\ Tail(b) \in Seq(Requests) /\ Len(Tail(b)) = Len(b) - 1 /\ Len(b) \in Nat \ {0}
        /\ \A k \in 1 .. (Len(b) - 1) : Tail(b)[k] = b[k + 1]
    BY <1>1 DEF LoopTypes, accept_bi
  <1>3. /\ UNCHANGED << ended, cache, sess >>
        /\ busy' = [busy EXCEPT ![w] = Head(b)] /\ inbox' = [inbox EXCEPT ![w] = Tail(b)]
    BY DEF accept_bi
  <1> HIDE DEF b
  <1>4. LoopTypes' BY <1>1, <1>2, <1>3 DEF LoopTypes
  <1>5. /\ \A v \in Loops : v # w => inbox'[v] = inbox[v] /\ busy'[v] = busy[v]
        /\ inbox'[w] = Tail(b) /\ busy'[w] = b[1]
    BY <1>1, <1>2, <1>3 DEF LoopTypes
  <1>6. DOMAIN Tail(b) = 1 .. (Len(b) - 1) /\ DOMAIN b = 1 .. Len(b) BY <1>2
  <1>7. \A k \in DOMAIN Tail(b) : k + 1 \in DOMAIN b /\ k + 1 # 1 /\ Tail(b)[k] = b[k + 1]
    BY <1>2, <1>6
  <1>8. \A k, j \in DOMAIN b : k # j => b[k] # b[j] BY <1>1 DEF Once, b
  <1>9. ASSUME NEW v \in Loops PROVE Once(v)'
    <2>1. CASE v # w BY <1>5, <2>1 DEF Inv, Once
    <2>2. CASE v = w
      <3>1. \A k, j \in DOMAIN Tail(b) : k # j => Tail(b)[k] # Tail(b)[j]
        BY <1>2, <1>6, <1>7, <1>8
      <3>2. \A k \in DOMAIN Tail(b) : Tail(b)[k] # b[1]
        BY <1>2, <1>6, <1>7, <1>8
      <3>3. inbox'[v] = Tail(b) /\ busy'[v] = b[1] BY <1>5, <2>2
      <3> QED BY ONLY <3>1, <3>2, <3>3 DEF Once
    <2> QED BY <2>1, <2>2
  <1>10. ASSUME NEW v \in Loops, NEW q \in Requests, At(v, q)' PROVE At(v, q)
    <2>1. CASE v # w BY <1>5, <1>10, <2>1 DEF At
    <2>2. CASE v = w
      <3>1. b[1] = q \/ \E k \in DOMAIN Tail(b) : Tail(b)[k] = q BY <1>5, <1>10, <2>2 DEF At
      <3>2. \E k \in DOMAIN b : b[k] = q BY <1>2, <1>6, <1>7, <3>1
      <3> QED BY <2>2, <3>2 DEF At, b
    <2> QED BY <2>1, <2>2
  <1>11. \A v \in Loops : Once(v)' BY <1>9
  <1>12. \A q \in Requests : Around(q) BY <1>3, <1>10 DEF Around
  <1> QED BY <1>3, <1>4, <1>11, <1>12, LoopsMove

(* A stream is opened to the loop of the hop, or to one that is over.      *)
LEMMA OpenStep ==
  ASSUME Inv, NEW r \in Requests, open_hop(r)
  PROVE  Inv' /\ Steps
  <1>1. /\ sess[r].pc = "send" /\ Active(r) /\ UNCHANGED << ended, busy, cache >> /\ LoopTypes
    BY DEF open_hop, Active, Inv
  <1>2. PICK w \in Loops : w = Loop(r)
    <2>1. sess[r].hop \in 1 .. Len(Order) /\ sess[r].at \in Members BY <1>1, InvSess DEF Local
    <2>2. Order[sess[r].hop] \in Members BY <2>1, InvSess, Hops
    <2> QED BY <2>1, <2>2 DEF Loop, Loops
  <1>3. \A v \in Loops : ~At(v, r) BY <1>1, InvSess DEF Placed
  <1>4. /\ LoopTypes' /\ \A v \in Loops : Once(v)'
        /\ \A v \in Loops, q \in Requests : At(v, q)' /\ (q # r \/ v # w) => At(v, q)
    <2>1. CASE w \in ended
      <3>1. inbox' = inbox BY <1>2, <2>1 DEF open_hop
      <3> QED BY <1>1, <3>1 DEF Inv, LoopTypes, Once, At
    <2>2. CASE w \notin ended
      <3>1. PICK b : b = inbox[w] OBVIOUS
      <3>2. inbox' = [inbox EXCEPT ![w] = Append(b, r)] BY <1>2, <2>2, <3>1 DEF open_hop
      <3>3. /\ b \in Seq(Requests) /\ Append(b, r) \in Seq(Requests)
            /\ DOMAIN b = 1 .. Len(b) /\ DOMAIN Append(b, r) = 1 .. (Len(b) + 1)
            /\ Len(b) \in Nat /\ \A k \in 1 .. Len(b) : Append(b, r)[k] = b[k]
            /\ Append(b, r)[Len(b) + 1] = r
        BY <1>1, <3>1 DEF LoopTypes
      <3>4. /\ \A v \in Loops : v # w => inbox'[v] = inbox[v]
            /\ inbox'[w] = Append(b, r)
        BY <1>1, <3>2 DEF LoopTypes
      <3>5. LoopTypes' BY <1>1, <3>2, <3>3 DEF LoopTypes
      <3>6. ASSUME NEW v \in Loops PROVE Once(v)'
        <4>1. CASE v # w BY <1>1, <3>4, <4>1 DEF Inv, Once
        <4>2. CASE v = w
          <5>1. /\ \A k, j \in 1 .. Len(b) : k # j => b[k] # b[j]
                /\ \A k \in 1 .. Len(b) : b[k] # busy[w] /\ b[k] # r
                /\ busy[w] # r
            BY <1>3, <3>1, <3>3 DEF Inv, Once, At
          <5>2. \A k, j \in 1 .. (Len(b) + 1) : k # j => Append(b, r)[k] # Append(b, r)[j]
            BY <3>3, <5>1
          <5>3. \A k \in 1 .. (Len(b) + 1) : Append(b, r)[k] # busy[w]
            BY <3>3, <5>1
          <5>4. inbox'[v] = Append(b, r) /\ busy'[v] = busy[w] BY <1>1, <3>4, <4>2
          <5> QED BY ONLY <3>3, <5>2, <5>3, <5>4 DEF Once
        <4> QED BY <4>1, <4>2
      <3>7. ASSUME NEW v \in Loops, NEW q \in Requests, At(v, q)', q # r \/ v # w
            PROVE  At(v, q)
        <4>1. CASE v # w BY <1>1, <3>4, <3>7, <4>1 DEF At
        <4>2. CASE v = w
          <5>1. busy[w] = q \/ \E k \in 1 .. (Len(b) + 1) : Append(b, r)[k] = q
            BY <1>1, <3>3, <3>4, <3>7, <4>2 DEF At
          <5>2. busy[w] = q \/ \E k \in 1 .. Len(b) : b[k] = q BY <3>3, <3>7, <4>2, <5>1
          <5> QED BY <3>1, <3>3, <4>2, <5>2 DEF At
        <4> QED BY <4>1, <4>2
      <3> QED BY <3>5, <3>6, <3>7
    <2> QED BY <2>1, <2>2
  <1> DEFINE s == [sess[r] EXCEPT !.pc = "write", !.written = FALSE, !.reply = "none"]
  <1>5. /\ s \in Locals /\ s.pc = "write" /\ s.pos = sess[r].pos /\ s.hop = sess[r].hop
        /\ s.seq = sess[r].seq /\ s.reply = "none" /\ ~s.written
        /\ s.produced = sess[r].produced /\ s.at = sess[r].at /\ s.prompt = sess[r].prompt
        /\ s.max_tokens = sess[r].max_tokens /\ s.client = sess[r].client
        /\ s.stream = sess[r].stream
    <2>1. sess[r] \in Locals BY InvSess
    <2>2. s \in Locals BY ONLY <2>1 DEF Locals
    <2> QED BY ONLY <2>1, <2>2 DEF Locals
  <1>6. Moves(r, s) BY <1>5 DEF open_hop, Moves
  <1> HIDE DEF s
  <1>7. sess'[r] = s /\ Active(r)' BY <1>5, <1>6, InvSess, MovesAlone DEF Active
  <1>8. SessInv(r)'
    <2>1. w = Loop(r)' BY <1>2, <1>5, <1>7 DEF Loop
    <2>2. Placed(r)' BY <1>3, <1>4, <1>5, <1>7, <2>1 DEF Placed
    <2>3. InStep(r)' BY <1>1, <1>5, <1>7, InvSess DEF InStep, CacheLen, Passed
    <2>4. Local(r)' BY <1>1, <1>5, <1>7, InvSess DEF Local
    <2> QED BY <2>2, <2>3, <2>4 DEF SessInv
  <1>9. Gen(r)!Step BY <1>1, <1>5, <1>7, GenUnseen
  <1>10. \A q \in Requests : q # r => Around(q) BY <1>1, <1>4 DEF Around
  <1> QED BY <1>4, <1>6, <1>8, <1>9, <1>10, SessMoves

(* A frame for a session that is there is answered while it waits.         *)
LEMMA ServedWaits ==
  ASSUME Inv, NEW l \in Loops, NEW r \in Requests, Serving(l, r), sess[r].written, Active(r)
  PROVE  /\ l = Loop(r) /\ sess[r].pc = "wait" /\ sess[r].reply = "none"
         /\ l[1] = Order[sess[r].hop]
  <1>1. At(l, r) BY DEF Serving, At
  <1>2. l = Loop(r) /\ sess[r].pc = "wait" /\ sess[r].reply = "none"
    BY <1>1, InvSess DEF Placed, Local
  <1> QED BY <1>2 DEF Loop

(* What a node makes of the activations.                                   *)
LEMMA AppliedDepth ==
  ASSUME NEW p \in Members, NEW h \in Nat, NEW x \in Depths
  PROVE  Applied(p, h, x) \in Depths
  <1>1. 0 \in Depths /\ None \in Depths /\ NLayers + 1 \in Depths
        /\ for_node(Manifest, p).end \in Depths
    BY DEF Depths
  <1> QED BY <1>1 DEF Applied

(* A loop serves a frame.                                                  *)
LEMMA ServeStep ==
  ASSUME Inv, NEW l \in Loops, NEW r \in Requests, serve(l, r)
  PROVE  Inv' /\ Steps
  <1>0. PICK p \in Members : p = l[1] BY DEF Loops
  <1>1. /\ Serving(l, r) /\ sess[r].written /\ ~Overflows(p, r) /\ LoopTypes
        /\ UNCHANGED << ended, inbox >>
    BY <1>0 DEF serve, Inv
  <1>2. PICK n : n = CacheLen(p, r) + (IF Layers(p) = {} THEN 0 ELSE sess[r].seq) OBVIOUS
  <1>3. cache' = [cache EXCEPT ![p][r] = n] /\ busy' = [busy EXCEPT ![l] = None]
    BY <1>0, <1>2 DEF serve
  <1>4. n \in 0 .. MaxPos
    <2>1. CacheLen(p, r) \in 0 .. MaxPos BY <1>1, Constants DEF CacheLen, LoopTypes
    <2> QED BY <1>1, <1>2, <2>1, InvSess, Constants DEF Overflows
  <1>5. LoopTypes'
    <2>1. cache' \in [Members -> [Requests -> 0 .. MaxPos \cup {None}]]
      BY <1>1, <1>3, <1>4 DEF LoopTypes
    <2>2. busy' \in [Loops -> Requests \cup {None}] BY <1>1, <1>3 DEF LoopTypes
    <2> QED BY <1>1, <2>1, <2>2 DEF LoopTypes
  <1>6. /\ \A v \in Loops : v # l => busy'[v] = busy[v]
        /\ \A m \in Members : m # p => cache'[m] = cache[m]
        /\ busy'[l] = None /\ cache'[p][r] = n
        /\ \A q \in Requests : q # r => cache'[p][q] = cache[p][q]
    BY <1>1, <1>3 DEF LoopTypes
  <1>7. ASSUME NEW v \in Loops PROVE Once(v)'
    <2>1. \A k \in DOMAIN inbox[v] : inbox[v][k] # None BY <1>1, Constants DEF LoopTypes
    <2> QED BY <1>1, <1>6, <2>1 DEF Inv, Once
  <1>8. \A v \in Loops, q \in Requests : At(v, q)' => At(v, q)
    BY <1>1, <1>6, Constants DEF At
  <1>9. \A q \in Requests : q # r => Around(q) BY <1>1, <1>6, <1>8 DEF Around
  <1>10. CASE ~Active(r)
    <2>1. Moves(r, sess[r]) /\ sess' = sess BY <1>10, InvSess DEF serve, Moves
    <2>2. At(l, r) BY <1>1 DEF Serving, At
    <2>3. sess[r].pc # "new" BY <2>2, InvSess DEF Placed
    <2>4. SessInv(r)' BY <1>10, <2>1, <2>3, InvSess DEF SessInv, Placed, InStep, Local, Active
    <2>5. Gen(r)!Step BY <2>1, GenStutter
    <2> QED BY <1>5, <1>7, <1>9, <2>1, <2>4, <2>5, SessMoves
  <1>11. CASE Active(r)
    <2>1. /\ l = Loop(r) /\ sess[r].pc = "wait" /\ sess[r].reply = "none"
          /\ p = Order[sess[r].hop]
      BY <1>0, <1>1, <1>11, ServedWaits
    <2>2. PICK x : x = Applied(p, sess[r].hop, sess[r].x) OBVIOUS
    <2>3. x \in Depths
      <3>1. sess[r].x \in Depths /\ sess[r].hop \in Nat BY InvSess DEF Locals
      <3> QED BY <2>2, <3>1, AppliedDepth
    <2> DEFINE s == [sess[r] EXCEPT !.x = x, !.reply = "ok"]
    <2>4. /\ s \in Locals /\ s.pc = sess[r].pc /\ s.pos = sess[r].pos
          /\ s.hop = sess[r].hop /\ s.seq = sess[r].seq /\ s.reply = "ok"
          /\ s.produced = sess[r].produced /\ s.max_tokens = sess[r].max_tokens
          /\ s.client = sess[r].client /\ s.stream = sess[r].stream /\ s.at = sess[r].at
          /\ s.prompt = sess[r].prompt
      <3>1. sess[r] \in Locals BY InvSess
      <3>2. s \in Locals BY ONLY <2>3, <3>1 DEF Locals
      <3> QED BY ONLY <3>1, <3>2 DEF Locals
    <2>5. sess' = [sess EXCEPT ![r] = s] BY <1>0, <1>11, <2>2, InvSess DEF serve, Answered
    <2> HIDE DEF s
    <2>6. Moves(r, s) BY <2>4, <2>5 DEF Moves
    <2>7. sess'[r] = s BY <2>6, InvSess, MovesAlone
    <2>8. Placed(r)'
      <3>1. ASSUME NEW v \in Loops PROVE ~At(v, r)'
        <4>1. CASE v # l BY <1>8, <1>11, <2>1, <4>1, InvSess DEF Placed
        <4>2. CASE v = l
          <5>1. busy[l] = r BY <1>1 DEF Serving
          <5>2. \A k \in DOMAIN inbox[l] : inbox[l][k] # r BY <5>1 DEF Inv, Once
          <5> QED BY <1>1, <1>6, <4>2, <5>2, Constants DEF At
        <4> QED BY <4>1, <4>2
      <3> QED BY <3>1 DEF Placed
    <2>9. InStep(r)'
      <3> SUFFICES ASSUME NEW i \in 1 .. Len(Order),
                          << Order[i], sess'[r].at >> \notin ended', Layers(Order[i]) # {}
                   PROVE  CacheLen(Order[i], r)' =
                            (IF Passed(r, i) THEN sess[r].pos + sess[r].seq ELSE sess[r].pos)'
        BY DEF InStep
      <3>1. Order[i] \in Members /\ sess[r].hop \in 1 .. Len(Order) /\ Len(Order) \in Nat
        BY <1>11, InvSess, Hops DEF Local
      <3>2. CacheLen(Order[i], r) =
              IF Passed(r, i) THEN sess[r].pos + sess[r].seq ELSE sess[r].pos
        BY <1>1, <1>11, <2>4, <2>7, InvSess DEF InStep
      <3>3. CASE i = sess[r].hop
        <4>1. ~Passed(r, i) /\ Passed(r, i)' BY <2>1, <2>4, <2>7, <3>1, <3>3 DEF Passed
        <4>2. n = sess[r].pos + sess[r].seq BY <1>2, <2>1, <3>2, <3>3, <4>1
        <4>3. CacheLen(Order[i], r)' = n BY <1>4, <1>6, <2>1, <3>3, Constants DEF CacheLen
        <4> QED BY <2>4, <2>7, <4>1, <4>2, <4>3
      <3>4. CASE i # sess[r].hop
        <4>1. Order[i] # p BY <2>1, <3>1, <3>4, InvSess, Hops
        <4>2. CacheLen(Order[i], r)' = CacheLen(Order[i], r) BY <1>6, <3>1, <4>1 DEF CacheLen
        <4>3. Passed(r, i)' <=> Passed(r, i) BY <2>4, <2>7, <3>1, <3>4 DEF Passed
        <4> QED BY <2>4, <2>7, <3>2, <4>2, <4>3
      <3> QED BY <3>3, <3>4
    <2>10. Local(r)' BY <1>11, <2>1, <2>4, <2>7, InvSess DEF Local, Active
    <2>11. SessInv(r)' BY <2>8, <2>9, <2>10 DEF SessInv
    <2>12. Gen(r)!Step BY <2>4, <2>7, GenStutter
    <2> QED BY <1>5, <1>7, <1>9, <2>6, <2>11, <2>12, SessMoves
  <1> QED BY <1>10, <1>11

-----------------------------------------------------------------------------
(* The specification.                                                      *)

(* The invariant holds at first.                                           *)
LEMMA InvInit ==
  ASSUME RingOnce, Init
  PROVE  Inv /\ \A r \in Requests : Gen(r)!Init
  <1>1. LoopTypes
    <2>1. [r \in Requests |-> None] \in [Requests -> 0 .. MaxPos \cup {None}] OBVIOUS
    <2>2. << >> \in Seq(Requests) OBVIOUS
    <2> QED BY <2>1, <2>2 DEF Init, LoopTypes
  <1>2. sess \in [Requests -> Locals] BY IdleLocals DEF Init
  <1>3. \A l \in Loops : Once(l) BY DEF Init, Once
  <1>4. ASSUME NEW r \in Requests PROVE SessInv(r) /\ Gen(r)!Init
    <2>1. /\ sess[r] = Idle /\ \A n \in Members : cache[n][r] = None
          /\ \A l \in Loops : ~At(l, r)
      BY Constants DEF Init, At
    <2>2. Idle.pc = "new" /\ Idle.client = "open" /\ Idle.produced = 0 /\ Idle.max_tokens = 0
      BY DEF Idle
    <2>3. SessInv(r) BY <2>1, <2>2 DEF SessInv, Placed, InStep, Local, Active
    <2>4. Gen(r)!Init BY <2>1, <2>2 DEF Gen!Init, Status
    <2> QED BY <2>3, <2>4
  <1> QED BY <1>1, <1>2, <1>3, <1>4 DEF Inv

(* Every step keeps the invariant and is for each client a step of         *)
(* Generation or none.                                                     *)
LEMMA InvNext ==
  ASSUME Inv, [Next]_vars
  PROVE  Inv' /\ Steps
  <1>1. CASE UNCHANGED vars
    <2>1. UNCHANGED << ended, inbox, busy, cache, sess >> BY <1>1 DEF vars
    <2>2. LoopTypes' /\ \A l \in Loops : Once(l)' BY <2>1 DEF Inv, LoopTypes, Once
    <2>3. \A q \in Requests : Around(q) BY <2>1 DEF Around, At
    <2> QED BY <2>1, <2>2, <2>3, LoopsMove
  <1>2. CASE Clients
    <2> PICK r \in Requests, n \in Ingress, stream \in BOOLEAN, limit \in TokenLimits :
          \E prompt \in PromptLens[r] : start(r, n, stream, prompt, limit)
      BY <1>2 DEF Clients
    <2> QED BY StartStep
  <1>3. CASE \E r \in Requests : Session(r) \/ recv_end(r)
    BY <1>3, OpenStep, FinishHop, EndStep, NextHop, PassDone, ReadsStep DEF Session, Reads
  <1>4. CASE \E l \in Loops : Peer(l)
    <2> PICK l \in Loops : Peer(l) BY <1>4
    <2>1. {l} \in SUBSET Loops OBVIOUS
    <2>2. CASE accept_bi(l) BY <2>2, AcceptStep
    <2>3. ASSUME NEW r \in Requests, read_fails(l, r) PROVE Inv' /\ Steps
      BY <2>1, <2>3, LoopEnds DEF read_fails
    <2>4. ASSUME NEW r \in Requests, panics(l, r) PROVE Inv' /\ Steps
      BY <2>4, PanicStep
    <2>5. ASSUME NEW r \in Requests, serve(l, r) PROVE Inv' /\ Steps
      BY <2>5, ServeStep
    <2> QED BY <2>2, <2>3, <2>4, <2>5 DEF Peer
  <1>5. CASE Faults
    <2>1. ASSUME NEW l \in Loops, NEW r \in Requests, write_fails(l, r) PROVE Inv' /\ Steps
      <3>1. {l} \in SUBSET Loops OBVIOUS
      <3> QED BY <2>1, <3>1, LoopEnds DEF write_fails
    <2>2. ASSUME NEW r \in Requests, decode_fails(r) \/ cancel(r) \/ hang_up(r)
          PROVE  Inv' /\ Steps
      BY <2>2, EndStep, ReadsStep DEF Reads
    <2>3. ASSUME NEW k \in Conns, conn_lost(k) PROVE Inv' /\ Steps
      <3> DEFINE ls == {l \in Loops : {l[1], l[2]} = k}
      <3>1. ls \in SUBSET Loops /\ UNCHANGED sess /\ End(ls) BY <2>3 DEF conn_lost
      <3> HIDE DEF ls
      <3> QED BY <3>1, LoopEnds
    <2>4. ASSUME NEW n \in Members, crash(n) PROVE Inv' /\ Steps BY <2>4, CrashStep
    <2> QED BY <1>5, <2>1, <2>2, <2>3, <2>4 DEF Faults
  <1> QED BY <1>1, <1>2, <1>3, <1>4, <1>5 DEF Next

(* The invariant holds of every behaviour.                                 *)
LEMMA InvAlways == Spec => []Inv
  <1>1. Init => Inv BY InvInit, RingOfManifest
  <1>2. Inv /\ [Next]_vars => Inv' BY InvNext
  <1> QED BY <1>1, <1>2, PTL DEF Spec

(***************************************************************************)
(* LoopCachesInStep: for any number of nodes, coordinators, requests and   *)
(* tokens, a serve loop that is about to serve a frame of a live session   *)
(* has exactly the positions before seq_pos in the request's KV cache,     *)
(* though coordinator and loop count them apart, loops end and lose their  *)
(* caches, and nodes and connections fail at any time.                     *)
(***************************************************************************)
THEOREM LoopCachesInStep == Spec => []CacheInStep
  <1>1. Inv => CacheInStep
    <2> SUFFICES ASSUME Inv, NEW l \in Loops, NEW r \in Requests, Serving(l, r), Active(r),
                        Layers(l[1]) # {}
                 PROVE  CacheLen(l[1], r) = sess[r].pos
      BY DEF CacheInStep
    <2>1. At(l, r) BY DEF Serving, At
    <2>2. /\ l = << Order[sess[r].hop], sess[r].at >> /\ l \notin ended
          /\ sess[r].pc = "write" \/ (sess[r].pc = "wait" /\ sess[r].reply = "none")
          /\ sess[r].hop \in 1 .. Len(Order)
      BY <2>1, InvSess DEF Placed, Serving, Loop, Local
    <2>3. ~Passed(r, sess[r].hop) BY <2>2, InvSess DEF Passed
    <2>4. l[1] = Order[sess[r].hop] BY <2>2
    <2> QED BY <2>2, <2>3, <2>4, InvSess DEF InStep
  <1> QED BY <1>1, InvAlways, PTL

(***************************************************************************)
(* MeshAnswersAreGenerations: every answer of the mesh implements          *)
(* Generation for its client, whichever node coordinates it and whatever   *)
(* loops, connections and nodes are lost on the way.                       *)
(***************************************************************************)
THEOREM MeshAnswersAreGenerations == Spec => ImplementsGeneration
  <1> DEFINE First == \A r \in Requests : Gen(r)!Init
  <1>1. Init => First BY InvInit, RingOfManifest
  <1>2. Inv /\ [Next]_vars => [Steps]_vars BY InvNext
  <1>3. ImplementsGeneration <=> First /\ [][Steps]_vars BY DEF ImplementsGeneration, Steps
  <1> HIDE DEF First
  <1> QED BY <1>1, <1>2, <1>3, InvAlways, PTL DEF Spec

-----------------------------------------------------------------------------
(* The layers.                                                             *)

(* The i-th node takes the activations from one cut to the next, and the   *)
(* last one makes logits of them.                                          *)
LEMMA HopApplies ==
  ASSUME RingOnce, NEW cut \in Cuts, NEW i \in 1 .. Len(Order)
  PROVE  Applied(Order[i], i, cut[i - 1]) =
           IF i = Len(Order) THEN NLayers + 1 ELSE cut[i]
  <1> DEFINE a == for_node(Manifest, Order[i])
             from == IF i = 1 THEN (IF a.hosts_embedding THEN 0 ELSE None) ELSE cut[i - 1]
             to == IF Layers(Order[i]) = {} THEN from
                   ELSE IF from # None /\ from = a.start THEN a.end ELSE None
  <1>0. Len(Order) \in Nat /\ NLayers \in Nat /\ None \notin Nat
    BY Hops, PartitionAssumption, Constants
  <1>1. i - 1 \in 0 .. Len(Order) /\ i \in 0 .. Len(Order) BY <1>0
  <1>2. /\ cut[i - 1] \in Nat /\ cut[i] \in Nat /\ cut[i - 1] <= cut[i]
        /\ a.start = cut[i - 1] /\ a.end = cut[i]
    <2>1. cut[i - 1] \in 0 .. NLayers /\ cut[i] \in 0 .. NLayers BY <1>1 DEF Cuts
    <2> QED BY <1>0, <2>1 DEF Cuts, InLayerOrder
  <1>3. from = cut[i - 1]
    <2>1. CASE i = 1
      <3>1. a.hosts_embedding /\ cut[0] = 0 BY <2>1 DEF Cuts, InLayerOrder
      <3> QED BY <2>1, <3>1
    <2>2. CASE i # 1 BY <2>2
    <2> QED BY <2>1, <2>2
  <1>4. Layers(Order[i]) = cut[i - 1] .. (cut[i] - 1) BY <1>2 DEF Layers
  <1>5. to = cut[i]
    <2> HIDE DEF a, from
    <2>1. CASE cut[i - 1] = cut[i]
      <3>1. Layers(Order[i]) = {} BY <1>2, <1>4, <2>1
      <3> QED BY <1>3, <2>1, <3>1
    <2>2. CASE cut[i - 1] < cut[i]
      <3>1. cut[i - 1] \in Layers(Order[i]) BY <1>2, <1>4, <2>2
      <3>2. cut[i - 1] # None BY <1>0, <1>2
      <3> QED BY <1>2, <1>3, <3>1, <3>2
    <2> QED BY <1>2, <2>1, <2>2
  <1>6. Applied(Order[i], i, cut[i - 1]) =
          IF i < Len(Order) THEN to
          ELSE IF a.hosts_output /\ to = NLayers THEN NLayers + 1 ELSE None
    BY DEF Applied
  <1>7. i = Len(Order) => a.hosts_output /\ cut[i] = NLayers BY DEF Cuts, InLayerOrder
  <1> HIDE DEF a, to
  <1> QED BY <1>0, <1>5, <1>6, <1>7

\* Every live session is as far through the layers as its hop says.
PassInv(cut) == \A r \in Requests : Along(cut, r)

(* A session at the head of the ring.                                      *)
LEMMA AlongHead ==
  ASSUME NEW cut \in Cuts, NEW r \in Requests, sess'[r].hop = 1, sess'[r].x = 0,
         sess'[r].pc # "wait"
  PROVE  Along(cut, r)'
  <1>1. ~Passed(r, 1)' BY DEF Passed
  <1>2. cut[1 - 1] = 0 BY DEF Cuts, InLayerOrder
  <1> QED BY <1>1, <1>2 DEF Along

(* A step of the session itself.                                           *)
LEMMA AlongSession ==
  ASSUME Inv, NEW cut \in Cuts, NEW r \in Requests, Along(cut, r),
         Session(r) \/ cancel(r) \/ Reads(r)
  PROVE  Along(cut, r)'
  <1>1. sess \in [Requests -> Locals] /\ sess[r] \in Locals /\ Local(r) BY InvSess
  <1>2. CASE open_hop(r)
    <2>1. sess'[r] = [sess[r] EXCEPT !.pc = "write", !.written = FALSE, !.reply = "none"]
      BY <1>1, <1>2 DEF open_hop
    <2>2. sess'[r].hop = sess[r].hop /\ sess'[r].x = sess[r].x /\ sess'[r].pc = "write"
      BY ONLY <1>1, <2>1 DEF Locals
    <2> QED BY <1>2, <2>2 DEF Along, Passed, open_hop, Active
  <1>3. CASE finish_hop(r)
    <2>1. sess'[r] = [sess[r] EXCEPT !.pc = "wait", !.written = TRUE]
      BY <1>1, <1>3 DEF finish_hop
    <2>2. sess'[r].hop = sess[r].hop /\ sess'[r].x = sess[r].x
          /\ sess'[r].reply = sess[r].reply
      BY ONLY <1>1, <2>1 DEF Locals
    <2> QED BY <1>1, <1>3, <2>2 DEF Along, Passed, finish_hop, Active, Local
  <1>4. CASE next_hop(r)
    <2>1. PICK h : h = sess[r].hop + 1 OBVIOUS
    <2>2. sess'[r] = [sess[r] EXCEPT !.pc = "send", !.hop = h] BY <1>1, <1>4, <2>1 DEF next_hop
    <2>3. sess'[r].hop = h /\ sess'[r].x = sess[r].x /\ sess'[r].pc = "send"
      BY ONLY <1>1, <2>2 DEF Locals
    <2>4. sess[r].hop \in Nat /\ h \in Nat /\ h - 1 = sess[r].hop /\ sess[r].hop # Len(Order)
      BY <1>4, <2>1, InvSess, Hops DEF next_hop
    <2>5. sess[r].x = cut[sess[r].hop] BY <1>4, <2>4 DEF Along, Passed, next_hop, Active
    <2>6. ~Passed(r, h)' BY <2>3, <2>4 DEF Passed
    <2> QED BY <2>3, <2>4, <2>5, <2>6 DEF Along
  <1>5. CASE pass_done(r)
    <2>1. PICK n : n = sess[r].produced + 1 OBVIOUS
    <2>2. PICK q : q = NextPos(sess[r]) OBVIOUS
    <2>3. PICK s : s = [sess[r] EXCEPT !.pc = "send", !.produced = n, !.pos = q, !.seq = 1,
                                       !.hop = 1, !.x = 0]
      OBVIOUS
    <2>4. s.hop = 1 /\ s.x = 0 /\ s.pc = "send" BY ONLY <1>1, <2>3 DEF Locals
    <2>5. s = [sess[r] EXCEPT !.pc = "send", !.produced = @ + 1, !.pos = NextPos(sess[r]),
                              !.seq = 1, !.hop = 1, !.x = 0]
      BY <1>1, <2>1, <2>2, <2>3 DEF Locals
    <2>6. sess'[r] = s \/ \E e : sess'[r] = Over(e, "done")
      BY <1>1, <1>5, <2>5 DEF pass_done
    <2>7. \A e : Over(e, "done").pc = "done" BY DEF Over, Idle
    <2>8. CASE sess'[r] = s BY <2>4, <2>8, AlongHead
    <2>9. CASE \E e : sess'[r] = Over(e, "done") BY <2>7, <2>9 DEF Along, Active
    <2> QED BY <2>6, <2>8, <2>9
  <1>6. CASE hop_fails(r) \/ cancel(r)
    <2>1. sess'[r].pc \in {"error", "cancelled"}
      <3>1. \A how : Over(sess[r], how).pc = how BY DEF Over, Idle
      <3>2. CASE hop_fails(r) BY <1>1, <3>1, <3>2 DEF hop_fails
      <3>3. CASE cancel(r)
        <4> DEFINE o == Over(sess[r], "cancelled")
        <4>1. sess'[r] = [o EXCEPT !.client = "left", !.written = sess[r].written,
                                   !.seq = sess[r].seq, !.hop = sess[r].hop]
          BY <1>1, <3>3 DEF cancel
        <4>2. o \in Locals /\ o.pc = "cancelled" BY <1>1, OverFields
        <4> HIDE DEF o
        <4> QED BY <4>1, <4>2 DEF Locals
      <3> QED BY <1>6, <3>2, <3>3
    <2> QED BY <2>1 DEF Along, Active
  <1>7. CASE Reads(r)
    <2>1. Shows(sess[r], sess'[r]) BY <1>7, ReadsFields
    <2> QED BY <2>1 DEF Along, Passed, Active, Shows
  <1> QED BY <1>2, <1>3, <1>4, <1>5, <1>6, <1>7 DEF Session

(* A frame of the session is served, or its loop panics.                   *)
LEMMA AlongServe ==
  ASSUME Inv, NEW cut \in Cuts, NEW r \in Requests, Along(cut, r),
         NEW l \in Loops, serve(l, r) \/ panics(l, r)
  PROVE  Along(cut, r)'
  <1>1. sess \in [Requests -> Locals] /\ sess[r] \in Locals /\ RingOnce BY InvSess
  <1>2. CASE ~Active(r)
    <2>1. sess'[r].pc = sess[r].pc
      <3>1. CASE serve(l, r) BY <1>2, <3>1 DEF serve
      <3>2. CASE panics(l, r)
        <4>1. sess'[r] = [sess[r] EXCEPT !.reply = "cut"] BY <1>1, <3>2 DEF panics
        <4> QED BY ONLY <1>1, <4>1 DEF Locals
      <3> QED BY <3>1, <3>2
    <2> QED BY <1>2, <2>1 DEF Along, Active
  <1>3. CASE Active(r)
    <2>1. /\ l[1] = Order[sess[r].hop] /\ sess[r].pc = "wait" /\ sess[r].reply = "none"
          /\ sess[r].hop \in 1 .. Len(Order)
      BY <1>3, ServedWaits, InvSess DEF serve, panics, Local
    <2>2. sess[r].x = cut[sess[r].hop - 1] BY <1>1, <1>3, <2>1, InvSess DEF Along, Passed
    <2>3. CASE serve(l, r)
      <3>1. PICK x : x = Applied(l[1], sess[r].hop, sess[r].x) OBVIOUS
      <3>2. sess'[r] = [sess[r] EXCEPT !.x = x, !.reply = "ok"]
        BY <1>1, <1>3, <2>3, <3>1 DEF serve, Answered
      <3>3. sess'[r].hop = sess[r].hop /\ sess'[r].x = x /\ sess'[r].pc = sess[r].pc
            /\ sess'[r].reply = "ok"
        BY ONLY <1>1, <3>2 DEF Locals
      <3>4. x = IF sess[r].hop = Len(Order) THEN NLayers + 1 ELSE cut[sess[r].hop]
        BY <1>1, <2>1, <2>2, <3>1, HopApplies
      <3>5. Passed(r, sess[r].hop)' BY <2>1, <3>3 DEF Passed
      <3> QED BY <3>3, <3>4, <3>5 DEF Along, Passed
    <2>4. CASE panics(l, r)
      <3>1. sess'[r] = [sess[r] EXCEPT !.reply = "cut"] BY <1>1, <2>4 DEF panics
      <3>2. sess'[r].hop = sess[r].hop /\ sess'[r].x = sess[r].x /\ sess'[r].reply = "cut"
        BY ONLY <1>1, <3>1 DEF Locals
      <3>3. ~Passed(r, sess[r].hop)' BY <2>1, <3>2, InvSess DEF Passed
      <3> QED BY <2>2, <3>2, <3>3 DEF Along, Passed
    <2> QED BY <2>3, <2>4
  <1> QED BY <1>2, <1>3

(* Every step keeps the sessions along the layers.                         *)
LEMMA PassNext ==
  ASSUME Inv, NEW cut \in Cuts, PassInv(cut), [Next]_vars
  PROVE  PassInv(cut)'
  <1> SUFFICES ASSUME NEW r \in Requests PROVE Along(cut, r)' BY DEF PassInv
  <1>1. Along(cut, r) /\ sess \in [Requests -> Locals] /\ sess[r] \in Locals
    BY InvSess DEF PassInv
  <1>2. CASE sess'[r] = sess[r] BY <1>1, <1>2 DEF Along, Active, Passed
  <1>3. CASE UNCHANGED vars BY <1>2, <1>3 DEF vars
  <1>4. CASE Clients
    <2> PICK q \in Requests, n \in Ingress, stream \in BOOLEAN, limit \in TokenLimits :
          \E prompt \in PromptLens[q] : start(q, n, stream, prompt, limit)
      BY <1>4 DEF Clients
    <2> PICK prompt \in PromptLens[q] : start(q, n, stream, prompt, limit) OBVIOUS
    <2>1. CASE q # r BY <1>1, <1>2, <2>1 DEF start
    <2>2. CASE q = r
      <3> DEFINE s == [Idle EXCEPT !.at = n, !.stream = stream, !.max_tokens = limit,
                                   !.prompt = prompt, !.seq = prompt]
                 t == [s EXCEPT !.pc = "send"]
      <3>1. sess'[r] = t \/ sess'[r] = Over(s, "error") BY <1>1, <2>2 DEF start
      <3>2. t.hop = 1 /\ t.x = 0 /\ t.pc = "send" /\ Over(s, "error").pc = "error"
        BY DEF Over, Idle
      <3> HIDE DEF s, t
      <3>3. CASE sess'[r] = t BY <3>2, <3>3, AlongHead
      <3>4. CASE sess'[r] = Over(s, "error") BY <3>2, <3>4 DEF Along, Active
      <3> QED BY <3>1, <3>3, <3>4
    <2> QED BY <2>1, <2>2
  <1>5. ASSUME NEW q \in Requests, Session(q) \/ cancel(q) \/ Reads(q) PROVE Along(cut, r)'
    <2>1. CASE q # r
      BY <1>1, <1>2, <1>5, <2>1, ReadsFields
         DEF Session, open_hop, finish_hop, hop_fails, next_hop, pass_done, cancel
    <2> QED BY <1>1, <1>5, <2>1, AlongSession
  <1>6. ASSUME NEW l \in Loops, NEW q \in Requests, serve(l, q) \/ panics(l, q)
        PROVE  Along(cut, r)'
    <2>1. CASE q # r BY <1>1, <1>2, <1>6, <2>1 DEF serve, panics
    <2> QED BY <1>1, <1>6, <2>1, AlongServe
  <1>7. CASE \E l \in Loops : Peer(l)
    <2> PICK l \in Loops : Peer(l) BY <1>7
    <2>1. CASE accept_bi(l) BY <1>2, <2>1 DEF accept_bi
    <2>2. CASE \E q \in Requests : read_fails(l, q) BY <1>2, <2>2 DEF read_fails
    <2> QED BY <1>6, <2>1, <2>2 DEF Peer
  <1>8. ASSUME NEW n \in Members, crash(n) PROVE Along(cut, r)'
    <2>1. CASE Active(r) /\ sess[r].at = n
      <3>1. sess'[r].pc = "error" BY <1>1, <1>8, <2>1 DEF crash, Locals
      <3> QED BY <3>1 DEF Along, Active
    <2>2. CASE ~Active(r)
      <3>1. sess'[r].pc = sess[r].pc BY <1>1, <1>8, <2>2 DEF crash, Locals
      <3> QED BY <2>2, <3>1 DEF Along, Active
    <2>3. CASE sess[r].at # n BY <1>2, <1>8, <2>3 DEF crash
    <2> QED BY <2>1, <2>2, <2>3
  <1>9. CASE Faults
    <2>1. CASE \E l \in Loops, q \in Requests : write_fails(l, q) BY <1>2, <2>1 DEF write_fails
    <2>2. CASE \E k \in Conns : conn_lost(k) BY <1>2, <2>2 DEF conn_lost
    <2> QED BY <1>5, <1>8, <1>9, <2>1, <2>2 DEF Faults, Reads
  <1>10. CASE \E q \in Requests : Session(q) \/ recv_end(q) BY <1>5, <1>10 DEF Reads
  <1> QED BY <1>3, <1>4, <1>7, <1>9, <1>10 DEF Next

(***************************************************************************)
(* RingPassesAreWhole: each token is sampled from logits whose activations *)
(* went through all layers, once each and in order, for every mesh that    *)
(* has a manifest, configured or derived: the manual partition or the plan *)
(* of the dynamic program, the walk of pipeline_order and the frames of    *)
(* forward_pass fit together.                                              *)
(***************************************************************************)
THEOREM RingPassesAreWhole == Spec => []WholePass
  <1>1. PICK cut \in Cuts : TRUE BY RingOfManifest
  <1>2. Init => PassInv(cut) BY DEF Init, PassInv, Along, Active, Idle
  <1>3. Inv /\ PassInv(cut) /\ [Next]_vars => PassInv(cut)' BY PassNext
  <1>4. PassInv(cut) => WholePass
    BY DEF PassInv, WholePass, Along, Active, Passed
  <1> QED BY <1>2, <1>3, <1>4, InvAlways, PTL DEF Spec

-----------------------------------------------------------------------------
(* The types.                                                              *)

\* What Inv does not say of them.
Shape ==
  /\ up \in [Members -> BOOLEAN] /\ lost \subseteq Conns
  /\ \A r \in Requests : sess[r].hop \in 1 .. Len(Order)

(* A session starts at the first hop, and only next_hop leads on.          *)
LEMMA HopMoves ==
  ASSUME Inv, Shape, [Next]_vars
  PROVE  \A q \in Requests : sess'[q].hop \in 1 .. Len(Order)
  <1>1. sess \in [Requests -> Locals] /\ Len(Order) \in Nat /\ 1 \in 1 .. Len(Order)
    BY Hops DEF Inv
  <1>2. \A q \in Requests : sess[q] \in Locals /\ sess[q].hop \in 1 .. Len(Order)
    BY <1>1 DEF Shape
  <1>3. ASSUME NEW r \in Requests, NEW s, sess' = [sess EXCEPT ![r] = s], s.hop \in 1 .. Len(Order)
        PROVE  \A q \in Requests : sess'[q].hop \in 1 .. Len(Order)
    BY <1>1, <1>2, <1>3
  <1>4. \A q \in Requests : \A how : Over(sess[q], how).hop = 1 BY DEF Over, Idle
  <1>5. ASSUME NEW r \in Requests, NEW n, NEW stream, NEW prompt, NEW limit,
               start(r, n, stream, prompt, limit)
        PROVE  \A q \in Requests : sess'[q].hop \in 1 .. Len(Order)
    <2> DEFINE i == [Idle EXCEPT !.at = n, !.stream = stream, !.max_tokens = limit,
                                 !.prompt = prompt, !.seq = prompt]
               s == [i EXCEPT !.pc = "send"]
               e == Over(i, "error")
    <2>1. sess' = [sess EXCEPT ![r] = s] \/ sess' = [sess EXCEPT ![r] = e] BY <1>5 DEF start
    <2>2. s.hop = 1 /\ e.hop = 1 BY DEF Over, Idle
    <2> HIDE DEF s, e
    <2> QED BY <1>1, <1>3, <2>1, <2>2
  <1>6. ASSUME NEW r \in Requests, Session(r)
        PROVE  \A q \in Requests : sess'[q].hop \in 1 .. Len(Order)
    <2>1. CASE open_hop(r)
      <3>1. PICK s : s = [sess[r] EXCEPT !.pc = "write", !.written = FALSE, !.reply = "none"] OBVIOUS
      <3>2. sess' = [sess EXCEPT ![r] = s] BY <1>1, <1>2, <2>1, <3>1 DEF open_hop, Locals
      <3>3. s.hop = sess[r].hop BY <1>2, <3>1 DEF Locals
      <3> QED BY <1>2, <1>3, <3>2, <3>3
    <2>2. CASE finish_hop(r)
      <3>1. PICK s : s = [sess[r] EXCEPT !.pc = "wait", !.written = TRUE] OBVIOUS
      <3>2. sess' = [sess EXCEPT ![r] = s] BY <1>1, <1>2, <2>2, <3>1 DEF finish_hop, Locals
      <3>3. s.hop = sess[r].hop BY <1>2, <3>1 DEF Locals
      <3> QED BY <1>2, <1>3, <3>2, <3>3
    <2>3. CASE hop_fails(r)
      <3>1. sess' = [sess EXCEPT ![r] = Over(sess[r], "error")] BY <2>3 DEF hop_fails
      <3> QED BY <1>1, <1>3, <1>4, <3>1
    <2>4. CASE next_hop(r)
      <3>1. PICK s : s = [sess[r] EXCEPT !.pc = "send", !.hop = sess[r].hop + 1] OBVIOUS
      <3>2. sess' = [sess EXCEPT ![r] = s] BY <1>1, <1>2, <2>4, <3>1 DEF next_hop, Locals
      <3>3. s.hop = sess[r].hop + 1 BY <1>2, <3>1 DEF Locals
      <3>4. sess[r].hop < Len(Order) BY <1>1, <2>4 DEF next_hop
      <3>5. s.hop \in 1 .. Len(Order) BY <1>1, <1>2, <3>3, <3>4
      <3> QED BY <1>3, <3>2, <3>5
    <2>5. CASE pass_done(r)
      <3> DEFINE next == [sess[r] EXCEPT !.pc = "send", !.produced = @ + 1, !.pos = NextPos(sess[r]),
                                         !.seq = 1, !.hop = 1, !.x = 0]
                 s == IF sess[r].client # "open" THEN Over(sess[r], "done")
                      ELSE IF next.produced >= sess[r].max_tokens THEN Over(next, "done") ELSE next
      <3>1. sess' = [sess EXCEPT ![r] = s] BY <2>5, Zenon DEF pass_done
      <3>2. next.hop = 1 BY <1>2 DEF Locals
      <3> HIDE DEF next
      <3>3. s.hop = 1 BY <3>2 DEF Over, Idle
      <3> HIDE DEF s
      <3> QED BY <1>1, <1>3, <3>1, <3>3
    <2> QED BY <1>6, <2>1, <2>2, <2>3, <2>4, <2>5 DEF Session
  <1>7. ASSUME NEW l \in Loops, NEW r \in Requests, panics(l, r) \/ serve(l, r)
        PROVE  \A q \in Requests : sess'[q].hop \in 1 .. Len(Order)
    <2>1. CASE panics(l, r)
      <3>1. PICK s : s = [sess[r] EXCEPT !.reply = "cut"] OBVIOUS
      <3>2. sess' = [sess EXCEPT ![r] = s] BY <1>1, <1>2, <2>1, <3>1 DEF panics, Locals
      <3>3. s.hop = sess[r].hop BY <1>2, <3>1 DEF Locals
      <3> QED BY <1>2, <1>3, <3>2, <3>3
    <2>2. CASE serve(l, r)
      <3> DEFINE s == IF Active(r) THEN Answered(sess[r], l[1]) ELSE sess[r]
      <3>1. sess' = [sess EXCEPT ![r] = s] BY <2>2, Zenon DEF serve
      <3>2. s.hop = sess[r].hop BY <1>2 DEF Answered, Locals
      <3> HIDE DEF s
      <3> QED BY <1>2, <1>3, <3>1, <3>2
    <2> QED BY <1>7, <2>1, <2>2
  <1>8. ASSUME NEW r \in Requests, cancel(r) \/ Reads(r)
        PROVE  \A q \in Requests : sess'[q].hop \in 1 .. Len(Order)
    <2>1. CASE cancel(r)
      <3> DEFINE o == Over(sess[r], "cancelled")
                 s == [o EXCEPT !.client = "left", !.written = sess[r].written,
                                !.seq = sess[r].seq, !.hop = sess[r].hop]
      <3>1. sess' = [sess EXCEPT ![r] = s] BY <2>1 DEF cancel
      <3>2. o \in Locals BY <1>2, OverFields
      <3> HIDE DEF o
      <3>3. s.hop = sess[r].hop BY <3>2 DEF Locals
      <3> HIDE DEF s
      <3> QED BY <1>2, <1>3, <3>1, <3>3
    <2>2. CASE Reads(r)
      <3>1. sess' = [sess EXCEPT ![r] = sess'[r]] /\ sess'[r].hop = sess[r].hop
        BY <2>2, ReadsFields DEF Shows
      <3> QED BY <1>2, <1>3, <3>1
    <2> QED BY <1>8, <2>1, <2>2
  <1>9. ASSUME NEW n \in Members, crash(n)
        PROVE  \A q \in Requests : sess'[q].hop \in 1 .. Len(Order)
    <2>1. ASSUME NEW q \in Requests PROVE sess'[q].hop = sess[q].hop
      <3> DEFINE t == IF Active(q) THEN [sess[q] EXCEPT !.pc = "error"] ELSE sess[q]
                 e == [t EXCEPT !.client = "failed"]
      <3>1. sess'[q] = IF sess[q].at # n THEN sess[q]
                       ELSE IF sess[q].client = "open" THEN e ELSE t
        BY <1>9, Zenon DEF crash
      <3>2. t \in Locals /\ t.hop = sess[q].hop BY <1>2 DEF Locals
      <3> HIDE DEF t
      <3>3. e.hop = t.hop BY <3>2 DEF Locals
      <3> QED BY <3>1, <3>2, <3>3
    <2> QED BY <1>2, <2>1
  <1>10. ASSUME UNCHANGED sess PROVE \A q \in Requests : sess'[q].hop \in 1 .. Len(Order)
    BY <1>2, <1>10
  <1>11. CASE Faults
    BY <1>8, <1>9, <1>10, <1>11 DEF Faults, Reads, write_fails, conn_lost
  <1>12. CASE \E l \in Loops : Peer(l)
    BY <1>7, <1>10, <1>12 DEF Peer, accept_bi, read_fails
  <1>13. CASE \E r \in Requests : Session(r) \/ recv_end(r) BY <1>6, <1>8, <1>13 DEF Reads
  <1>14. CASE UNCHANGED vars BY <1>10, <1>14 DEF vars
  <1> QED BY <1>5, <1>11, <1>12, <1>13, <1>14 DEF Next, Clients

(* Processes die and connections are lost, of the members.                 *)
LEMMA FaultTypes ==
  ASSUME Shape, [Next]_vars
  PROVE  up' \in [Members -> BOOLEAN] /\ lost' \subseteq Conns
  <1>1. up \in [Members -> BOOLEAN] /\ lost \subseteq Conns BY DEF Shape
  <1>2. CASE UNCHANGED << up, lost >> BY <1>1, <1>2
  <1>3. ASSUME NEW k \in Conns, conn_lost(k)
        PROVE  up' \in [Members -> BOOLEAN] /\ lost' \subseteq Conns
    BY <1>1, <1>3 DEF conn_lost
  <1>4. ASSUME NEW n \in Members, crash(n)
        PROVE  up' \in [Members -> BOOLEAN] /\ lost' \subseteq Conns
    <2>1. << n, n >> \in Loops BY DEF Loops
    <2>2. {n, n} \in Conns BY <2>1 DEF Conns
    <2>3. {n} \in Conns BY <2>2
    <2> QED BY <1>1, <1>4, <2>3 DEF crash
  <1>5. CASE Clients BY <1>2, <1>5 DEF Clients, start
  <1>6. CASE \E r \in Requests : Session(r) \/ recv_end(r)
    BY <1>2, <1>6 DEF Session, open_hop, finish_hop, hop_fails, next_hop, pass_done, recv_end
  <1>7. CASE \E l \in Loops : Peer(l)
    BY <1>2, <1>7 DEF Peer, accept_bi, read_fails, panics, serve
  <1>8. CASE Faults BY <1>2, <1>3, <1>4, <1>8 DEF Faults, write_fails, decode_fails, cancel, hang_up
  <1>9. CASE UNCHANGED vars BY <1>2, <1>9 DEF vars
  <1> QED BY <1>5, <1>6, <1>7, <1>8, <1>9 DEF Next

(* No node has layers the model does not have.                             *)
LEMMA DepthsBounded == Depths \subseteq 0 .. NLayers + 1 \cup {None}
  <1>1. ASSUME NEW p \in Members PROVE for_node(Manifest, p).end \in 0 .. NLayers
    <2>1. PICK o, ranges : /\ InOrder(o, ranges) /\ Manifest = Assignments(o, ranges)
                           /\ Members = {o[i] : i \in 1 .. Len(o)}
      BY PlanOfManifest
    <2> DEFINE m == Assignments(o, ranges)
    <2>2. Pipeline(o, ranges) BY <2>1 DEF InOrder
    <2>3. PICK i \in 1 .. Len(o) : o[i] = p BY <2>1
    <2>4. for_node(m, p) = m[i] BY <2>2, <2>3, ForNode
    <2>5. m[i].end = ranges[i][2] BY <2>2, ManifestFields
    <2>6. ranges[i][2] \in 0 .. NLayers BY <2>2 DEF Pipeline
    <2> HIDE DEF m
    <2>7. Manifest = m BY <2>1 DEF m
    <2> QED BY <2>4, <2>5, <2>6, <2>7
  <1> QED BY <1>1, PartitionAssumption DEF Depths

(***************************************************************************)
(* MeshTypes: the type invariant of the mesh, whatever is lost: a session  *)
(* is never beyond the last hop of the ring, a KV cache never longer than  *)
(* max_position_embeddings, and activations never beyond the last layer.   *)
(***************************************************************************)
THEOREM MeshTypes == Spec => []TypeOK
  <1>1. Init => Shape
    <2> SUFFICES ASSUME Init PROVE Shape OBVIOUS
    <2>1. 1 \in 1 .. Len(Order) BY Hops, RingOfManifest
    <2>2. Idle.hop = 1 BY DEF Idle
    <2> QED BY <2>1, <2>2 DEF Init, Shape
  <1>2. Inv /\ Shape /\ [Next]_vars => Shape' BY HopMoves, FaultTypes DEF Shape
  <1>3. Inv /\ Shape => TypeOK
    <2> SUFFICES ASSUME Inv, Shape PROVE TypeOK OBVIOUS
    <2>1. ASSUME NEW r \in Requests PROVE sess[r] \in Sessions
      <3>1. sess[r] \in Locals /\ sess[r].hop \in 1 .. Len(Order) BY DEF Inv, Shape
      <3>2. \A s \in Locals : s.x \in 0 .. NLayers + 1 \cup {None}
        BY DepthsBounded DEF Locals
      <3> QED BY <3>1, <3>2 DEF Locals, Sessions
    <2>2. sess \in [Requests -> Sessions] BY <2>1 DEF Inv
    <2> QED BY <2>2 DEF TypeOK, Inv, Shape, LoopTypes
  <1> QED BY <1>1, <1>2, <1>3, InvAlways, PTL DEF Spec
=============================================================================
