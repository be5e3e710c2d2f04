------------------------- MODULE ClusterStarProofs -------------------------
(***************************************************************************)
(* Proofs about ClusterStar, for any number of workers, sessions, layers   *)
(* and tokens: the KV caches of the workers keep in step with the leader,  *)
(* a pass whose hops are in layer order is whole, and a session implements *)
(* Generation.  That workers configured in the order of their ids make     *)
(* such hops is proved of the solver (PartitionProofs).                    *)
(***************************************************************************)
EXTENDS ClusterStar, PartitionProofs

\* What the activations can have gone through.
Depths == {0, None} \cup {Max(Layers(w)) + 1 : w \in {v \in Workers : Layers(v) # {}}}

\* Sessions, whatever the layers are.
Locals ==
  [pc : {"new", "send", "write", "wait", "push", "done", "error", "panicked", "cancelled"},
   stream : BOOLEAN, max_tokens : TokenLimits \cup {0}, pos : Nat, seq : Nat,
   hop : 1 .. Len(Caps), x : Depths, written : BOOLEAN, reply : BOOLEAN, produced : Nat,
   unread : 0 .. ChannelCap, client : {"open", "complete", "failed", "cut", "left"}]

StartupTypes ==
  /\ phase \in {"join", "assign", "serve", "failed", "stopped"}
  /\ joined \in 0 .. Len(Caps) /\ assigned \in 0 .. Len(Caps)
  /\ phase = "join" => joined < Len(Caps)
  /\ phase \in {"join", "assign"} => assigned < Len(Caps)

WorkerTypes ==
  /\ worker \in [Workers -> {"accept", "joined", "assigned", "serve", "exited"}]
  /\ fate \in [Workers -> {"alive", "crash", "load", "eof", "read", "write", "overflow",
                      "empty"}]
  /\ inbox \in [Workers -> Seq(Requests)]
  /\ busy \in [Workers -> Requests \cup {None}]
  /\ cache \in [Workers -> [Requests -> 0 .. MaxPos \cup {None}]]

\* A worker is sent the frames of one hop once.
Once(w) ==
  /\ \A k, l \in DOMAIN inbox[w] : k # l => inbox[w][k] # inbox[w][l]
  /\ \A k \in DOMAIN inbox[w] : inbox[w][k] # busy[w]

\* The stream of r is at w, accepted or not.
At(w, r) == busy[w] = r \/ \E k \in DOMAIN inbox[w] : inbox[w][k] = r

\* A session has its stream at the worker of its hop only, until the reply.
Placed(r) ==
  LET s == sess[r] IN
  \A w \in Workers : At(w, r) =>
    /\ s.pc # "new"
    /\ Active(r) => w = Hop(s.hop) /\ (s.pc = "write" \/ (s.pc = "wait" /\ ~s.reply))

\* The frames of this step went through the i-th worker.
Passed(r, i) ==
  LET s == sess[r] IN i < s.hop \/ (i = s.hop /\ s.pc = "wait" /\ s.reply)

\* The workers passed in this step have one step more in their caches.
InStep(r) ==
  Active(r) => \A i \in 1 .. Len(Caps) :
    worker[Hop(i)] # "exited" /\ Layers(Hop(i)) # {} =>
      CacheLen(Hop(i), r) = IF Passed(r, i) THEN sess[r].pos + sess[r].seq ELSE sess[r].pos

Local(r) ==
  LET s == sess[r] IN
  /\ s.pc = "new" => s = Idle /\ \A w \in Workers : cache[w][r] = None
  /\ s.pc = "write" => ~s.written /\ ~s.reply
  /\ s.pc = "push" => s.stream
  /\ Active(r) => s.produced = 0 \/ s.produced < s.max_tokens
  /\ s.pc = "done" /\ s.client = "open" => s.produced >= s.max_tokens
  /\ (Active(r) /\ s.seq = 0) \/ s.pc = "panicked" => 0 \in PromptLens[r]
  /\ ~s.stream => s.unread = 0 /\ (Active(r) => s.client = "open")

SessInv(r) == Placed(r) /\ InStep(r) /\ Local(r)

Inv ==
  /\ StartupTypes /\ WorkerTypes /\ sess \in [Requests -> Locals]
  /\ \A w \in Workers : Once(w)
  /\ \A r \in Requests : SessInv(r)

\* How far the activations of r are, where the hops cut the layers at cut.
Along(cut, r) ==
  LET s == sess[r] IN
  Active(r) => s.x = cut[IF Passed(r, s.hop) THEN s.hop ELSE s.hop - 1]

-----------------------------------------------------------------------------
(* Hops and sessions.                                                      *)

(* Every hop is a worker, every worker one hop.                            *)
LEMMA Hops ==
  /\ Len(Caps) \in Nat \ {0} /\ DOMAIN Caps = 1 .. Len(Caps)
  /\ \A i \in 1 .. Len(Caps) : Hop(i) \in Workers
  /\ \A i, j \in 1 .. Len(Caps) : Hop(i) = Hop(j) => i = j
  <1>1. Len(Caps) \in Nat \ {0} /\ DOMAIN Caps = 1 .. Len(Caps) BY StarAssumption
  <1> QED BY <1>1, StarAssumption DEF Hop, Workers

(* The constants the types are made of.                                    *)
LEMMA Constants ==
  /\ MaxPos \in Nat /\ ChannelCap \in Nat \ {0} /\ TokenLimits \subseteq Nat
  /\ \A r \in Requests : PromptLens[r] \subseteq Nat
  /\ None \notin Requests /\ None \notin Nat
  BY StarAssumption

(* An idle session has the types of one.                                   *)
LEMMA IdleLocals == Idle \in Locals
  <1>1. 1 \in 1 .. Len(Caps) /\ 0 \in Depths /\ 0 \in 0 .. ChannelCap
    BY Hops, Constants DEF Depths
  <1> QED BY <1>1 DEF Idle, Locals

(* The fields of a session that is over.                                   *)
LEMMA OverFields ==
  ASSUME NEW s \in Locals, NEW how \in {"done", "error", "panicked", "cancelled"}
  PROVE  /\ Over(s, how) \in Locals /\ Over(s, how).pc = how
         /\ Over(s, how).max_tokens = s.max_tokens /\ Over(s, how).produced = s.produced
         /\ Over(s, how).stream = s.stream /\ Over(s, how).unread = s.unread
         /\ Over(s, how).client = s.client /\ Over(s, how).x = 0
  <1>1. 1 \in 1 .. Len(Caps) /\ 0 \in Depths BY Hops DEF Depths
  <1> QED BY <1>1 DEF Over, Idle, Locals

\* Where a session is and what its client has got of it is the same.
Same(s, t) ==
  /\ s.pos = t.pos /\ s.seq = t.seq /\ s.hop = t.hop /\ s.produced = t.produced
  /\ s.max_tokens = t.max_tokens /\ s.client = t.client /\ s.stream = t.stream
  /\ s.unread = t.unread

\* r moves to s, and no other session moves.
Moves(r, s) == s \in Locals /\ sess' = [sess EXCEPT ![r] = s]

(* Moves in terms of each session.                                         *)
LEMMA MovesAlone ==
  ASSUME sess \in [Requests -> Locals], NEW r \in Requests, NEW s, Moves(r, s)
  PROVE  /\ sess' \in [Requests -> Locals] /\ sess'[r] = s
         /\ \A q \in Requests : q # r => sess'[q] = sess[q]
  BY DEF Moves

(* A session that does not move, while workers go on with others or end.   *)
LEMMA SessKept ==
  ASSUME NEW q \in Requests, SessInv(q), sess'[q] = sess[q],
         \A w \in Workers : At(w, q)' => At(w, q),
         \A w \in Workers : \/ cache'[w][q] = cache[w][q]
                            \/ worker'[w] = "exited" /\ cache'[w][q] = None,
         \A w \in Workers : worker'[w] # "exited" => worker[w] # "exited"
  PROVE  SessInv(q)'
  <1>1. Placed(q)' BY DEF SessInv, Placed, Active
  <1>2. Local(q)' BY DEF SessInv, Local, Active
  <1>3. InStep(q)'
    <2> SUFFICES ASSUME Active(q)', NEW i \in 1 .. Len(Caps), worker'[Hop(i)] # "exited",
                        Layers(Hop(i)) # {}
                 PROVE  CacheLen(Hop(i), q)' = (IF Passed(q, i) THEN sess[q].pos + sess[q].seq
                                                                ELSE sess[q].pos)'
      BY DEF InStep
    <2>1. Hop(i) \in Workers BY Hops
    <2>2. cache'[Hop(i)][q] = cache[Hop(i)][q] /\ worker[Hop(i)] # "exited" BY <2>1
    <2>3. CacheLen(Hop(i), q) = IF Passed(q, i) THEN sess[q].pos + sess[q].seq ELSE sess[q].pos
      BY <2>2 DEF SessInv, InStep, Active
    <2>4. CacheLen(Hop(i), q)' = CacheLen(Hop(i), q) BY <2>2 DEF CacheLen
    <2> QED BY <2>3, <2>4 DEF Passed
  <1> QED BY <1>1, <1>2, <1>3 DEF SessInv

-----------------------------------------------------------------------------
(* What the client of a session sees.                                      *)

\* Every step is, for the client of each session, a step of Generation or none.
Steps == \A r \in Requests : Gen(r)!Step

(* A session that does not move.                                           *)
LEMMA GenStutter ==
  ASSUME NEW r \in Requests, sess'[r] = sess[r]
  PROVE  Gen(r)!Step
  BY DEF Gen!Step, Gen!vars, Status

(* A session that goes on unseen.                                          *)
LEMMA GenUnseen ==
  ASSUME NEW r \in Requests, sess[r].pc # "new", sess'[r].pc # "new",
         sess'[r].client = sess[r].client,
         sess'[r].produced = sess[r].produced, sess'[r].max_tokens = sess[r].max_tokens
  PROVE  Gen(r)!Step
  BY DEF Gen!Step, Gen!vars, Status

(* The client leaves.                                                      *)
LEMMA GenLeft ==
  ASSUME NEW r \in Requests, sess[r].pc # "new", sess'[r].pc # "new",
         sess[r].client = "open", sess'[r].client = "left"
  PROVE  Gen(r)!Step
  <1>1. Status(sess[r]) = "open" /\ Status(sess'[r]) = "left" BY DEF Status
  <1>2. Gen(r)!Leave BY <1>1 DEF Gen!Leave
  <1> QED BY <1>2 DEF Gen!Step, Gen!Next

(* The answer ends: well, with an error or cut short.                      *)
LEMMA GenEnds ==
  ASSUME NEW r \in Requests, sess[r].pc # "new", sess'[r].pc # "new", sess[r].client = "open",
         sess'[r].produced = sess[r].produced, sess'[r].max_tokens = sess[r].max_tokens,
         \/ sess'[r].client = "failed"
         \/ sess'[r].client = "complete" /\ sess[r].produced >= sess[r].max_tokens
         \/ sess'[r].client = "cut" /\ 0 \in PromptLens[r]
  PROVE  Gen(r)!Step
  <1>1. Status(sess[r]) = "open" /\ Status(sess'[r]) = sess'[r].client BY DEF Status
  <1>2. CASE sess'[r].client = "failed"
    <2>1. Gen(r)!Fail BY <1>1, <1>2 DEF Gen!Fail
    <2> QED BY <2>1 DEF Gen!Step, Gen!Next
  <1>3. CASE sess'[r].client = "complete" /\ sess[r].produced >= sess[r].max_tokens
    <2>1. Gen(r)!Complete BY <1>1, <1>3 DEF Gen!Complete
    <2> QED BY <2>1 DEF Gen!Step, Gen!Next
  <1>4. CASE sess'[r].client = "cut" /\ 0 \in PromptLens[r]
    <2>1. Gen(r)!Cut BY <1>1, <1>4 DEF Gen!Cut
    <2> QED BY <2>1 DEF Gen!Step, Gen!Next
  <1> QED BY <1>2, <1>3, <1>4

(* A token is handed to the client.                                        *)
LEMMA GenSamples ==
  ASSUME NEW r \in Requests, sess[r].pc # "new", sess'[r].pc # "new",
         sess[r].produced \in Nat, sess[r].max_tokens \in Nat,
         sess[r].produced = 0 \/ sess[r].produced < sess[r].max_tokens,
         sess[r].client = "open", sess'[r].client = "open",
         sess'[r].produced = sess[r].produced + 1, sess'[r].max_tokens = sess[r].max_tokens
  PROVE  Gen(r)!Step
  <1>1. Status(sess[r]) = "open" /\ Status(sess'[r]) = "open" BY DEF Status
  <1>2. Gen(r)!Sample("tok", TRUE) BY <1>1 DEF Gen!Sample, Gen!Budget
  <1> QED BY <1>2 DEF Gen!Step, Gen!Next

(* A session moves and no worker does.                                     *)
LEMMA SessMoves ==
  ASSUME Inv, NEW r \in Requests, NEW s, Moves(r, s), UNCHANGED << startup, workers >>,
         SessInv(r)', Gen(r)!Step
  PROVE  Inv' /\ Steps
  <1>1. UNCHANGED << phase, joined, assigned, worker, fate, inbox, busy, cache >>
    BY DEF startup, workers
  <1>2. StartupTypes' /\ WorkerTypes' /\ \A w \in Workers : Once(w)'
    BY <1>1 DEF Inv, StartupTypes, WorkerTypes, Once
  <1>3. /\ sess' \in [Requests -> Locals]
        /\ \A q \in Requests : q # r => sess'[q] = sess[q]
    BY MovesAlone DEF Inv
  <1>4. ASSUME NEW q \in Requests, q # r PROVE SessInv(q)' /\ Gen(q)!Step
    <2>1. SessInv(q) /\ sess'[q] = sess[q] BY <1>3, <1>4 DEF Inv
    <2>2. \A w \in Workers : At(w, q)' => At(w, q) BY <1>1 DEF At
    <2>3. SessInv(q)' BY <1>1, <2>1, <2>2, SessKept
    <2> QED BY <2>1, <2>3, GenStutter
  <1>5. \A q \in Requests : SessInv(q)' /\ Gen(q)!Step BY <1>4
  <1> QED BY <1>2, <1>3, <1>5 DEF Inv, Steps

-----------------------------------------------------------------------------
(* The steps of a session.                                                 *)

(* What the invariant says of one session.                                 *)
LEMMA InvSess ==
  ASSUME Inv, NEW r \in Requests
  PROVE  /\ sess \in [Requests -> Locals] /\ sess[r] \in Locals
         /\ Placed(r) /\ InStep(r) /\ Local(r)
         /\ sess[r].hop \in 1 .. Len(Caps) /\ sess[r].pos \in Nat /\ sess[r].seq \in Nat
         /\ sess[r].produced \in Nat /\ sess[r].max_tokens \in Nat
         /\ sess[r].unread \in 0 .. ChannelCap
  <1>1. sess \in [Requests -> Locals] /\ SessInv(r) BY DEF Inv
  <1>2. sess[r] \in Locals BY <1>1
  <1>3. /\ sess[r].hop \in 1 .. Len(Caps) /\ sess[r].pos \in Nat /\ sess[r].seq \in Nat
        /\ sess[r].produced \in Nat /\ sess[r].max_tokens \in TokenLimits \cup {0}
        /\ sess[r].unread \in 0 .. ChannelCap
    BY <1>2 DEF Locals
  <1>4. TokenLimits \cup {0} \subseteq Nat BY Constants
  <1>5. sess[r].max_tokens \in Nat BY ONLY <1>3, <1>4
  <1> QED BY <1>1, <1>2, <1>3, <1>5 DEF SessInv

(* A session is over: little is said of it any more.                       *)
LEMMA SessOver ==
  ASSUME Inv, NEW r \in Requests, NEW s, Moves(r, s), UNCHANGED << startup, workers >>,
         s.pc \in {"done", "error", "panicked", "cancelled"}, ~s.stream => s.unread = 0,
         s.pc = "done" /\ s.client = "open" => s.produced >= s.max_tokens,
         s.pc = "panicked" => 0 \in PromptLens[r], Gen(r)!Step
  PROVE  Inv' /\ Steps
  <1>1. sess'[r] = s BY InvSess, MovesAlone
  <1>2. SessInv(r)' BY <1>1 DEF SessInv, Placed, InStep, Local, Active
  <1> QED BY <1>2, SessMoves

(* A chat begins, or cannot.                                               *)
LEMMA StartStep ==
  ASSUME Inv, NEW r \in Requests, NEW stream \in BOOLEAN, NEW prompt \in PromptLens[r],
         NEW limit \in TokenLimits, start(r, stream, prompt, limit)
  PROVE  Inv' /\ Steps
  <1> DEFINE i == [Idle EXCEPT !.stream = stream, !.max_tokens = limit]
             s == [i EXCEPT !.pc = "send", !.seq = prompt]
             e == [i EXCEPT !.pc = "error"]
  <1>1. /\ s \in Locals /\ s.pc = "send" /\ s.pos = 0 /\ s.hop = 1 /\ s.produced = 0
        /\ s.seq = prompt /\ s.max_tokens = limit /\ s.client = "open" /\ s.unread = 0
    <2>1. prompt \in Nat BY Constants
    <2> QED BY <2>1, IdleLocals DEF Locals, Idle
  <1>2. /\ e \in Locals /\ e.pc = "error" /\ e.produced = 0 /\ e.max_tokens = limit
        /\ e.client = "open" /\ e.unread = 0
    BY IdleLocals DEF Locals, Idle
  <1>3. /\ sess[r].pc = "new" /\ UNCHANGED << startup, workers >>
        /\ sess' = [sess EXCEPT ![r] = s] \/ sess' = [sess EXCEPT ![r] = e]
    BY DEF start
  <1> HIDE DEF s, e
  <1>4. sess[r] = Idle /\ \A w \in Workers : cache[w][r] = None /\ ~At(w, r)
    BY <1>3, InvSess DEF Local, Placed
  <1>5. UNCHANGED << worker, inbox, busy, cache >> BY <1>3 DEF workers
  <1>6. ASSUME NEW t, sess'[r] = t, t.pc # "new", t.client = "open", t.produced = 0,
               t.max_tokens = limit
        PROVE  Gen(r)!Step
    <2>1. Status(sess[r]) = "idle" /\ Status(t) = "open" BY <1>4, <1>6 DEF Status, Idle
    <2>2. sess[r].produced = 0 /\ sess[r].client = "open" BY <1>4 DEF Idle
    <2>3. Gen(r)!Begin BY <1>6, <2>1, <2>2 DEF Gen!Begin
    <2> QED BY <2>3 DEF Gen!Step, Gen!Next
  <1>7. CASE sess' = [sess EXCEPT ![r] = s]
    <2>1. Moves(r, s) /\ sess'[r] = s BY <1>1, <1>7, InvSess DEF Moves
    <2>2. SessInv(r)'
      <3>1. Placed(r)' BY <1>4, <1>5, <2>1 DEF Placed, At
      <3>2. InStep(r)'
        BY <1>1, <1>4, <1>5, <2>1, Hops DEF InStep, CacheLen, Passed
      <3>3. Local(r)' BY <1>1, <2>1 DEF Local, Active
      <3> QED BY <3>1, <3>2, <3>3 DEF SessInv
    <2> QED BY <1>1, <1>3, <1>6, <2>1, <2>2, SessMoves
  <1>8. CASE sess' = [sess EXCEPT ![r] = e]
    <2>1. Moves(r, e) /\ sess'[r] = e BY <1>2, <1>8, InvSess DEF Moves
    <2>2. Gen(r)!Step BY <1>2, <1>6, <2>1
    <2> QED BY <1>2, <1>3, <2>1, <2>2, SessOver
  <1> QED BY <1>3, <1>7, <1>8

(* The frames of a hop are written.                                        *)
LEMMA FinishHop ==
  ASSUME Inv, NEW r \in Requests, finish_hop(r)
  PROVE  Inv' /\ Steps
  <1> DEFINE s == [sess[r] EXCEPT !.pc = "wait", !.written = TRUE]
  <1>1. s \in Locals /\ s.pc = "wait" /\ Same(s, sess[r]) /\ s.reply = sess[r].reply
    BY InvSess DEF Locals, Same
  <1>2. Moves(r, s) /\ sess[r].pc = "write" /\ UNCHANGED << startup, workers >>
    BY <1>1 DEF finish_hop, Moves
  <1> HIDE DEF s
  <1>3. sess'[r] = s /\ Active(r) /\ Active(r)' /\ ~sess[r].reply
    BY <1>1, <1>2, InvSess, MovesAlone DEF Active, Local
  <1>4. UNCHANGED << worker, inbox, busy, cache >> BY <1>2 DEF workers
  <1>5. SessInv(r)'
    <2>1. Placed(r)' BY <1>1, <1>3, <1>4, InvSess DEF Placed, At, Same
    <2>2. InStep(r)' BY <1>1, <1>2, <1>3, <1>4, InvSess DEF InStep, CacheLen, Passed, Same
    <2>3. Local(r)' BY <1>1, <1>3, InvSess DEF Local, Same
    <2> QED BY <2>1, <2>2, <2>3 DEF SessInv
  <1>6. Gen(r)!Step BY <1>1, <1>2, <1>3, GenUnseen DEF Same
  <1> QED BY <1>2, <1>5, <1>6, SessMoves

(* The reply of a hop that is not the last.                                *)
LEMMA NextHop ==
  ASSUME Inv, NEW r \in Requests, next_hop(r)
  PROVE  Inv' /\ Steps
  <1> DEFINE h == sess[r].hop + 1
             s == [sess[r] EXCEPT !.pc = "send", !.hop = h]
  <1>1. /\ h \in 1 .. Len(Caps) /\ sess[r].pc = "wait" /\ sess[r].reply
        /\ UNCHANGED << startup, workers >> /\ sess' = [sess EXCEPT ![r] = s]
    <2>1. h \in 1 .. Len(Caps) BY InvSess, Hops DEF next_hop
    <2>2. sess' = [sess EXCEPT ![r] = s] BY DEF next_hop
    <2> QED BY <2>1, <2>2 DEF next_hop
  <1>2. /\ s \in Locals /\ s.pc = "send" /\ s.hop = h /\ s.pos = sess[r].pos
        /\ s.seq = sess[r].seq /\ s.produced = sess[r].produced
        /\ s.max_tokens = sess[r].max_tokens /\ s.client = sess[r].client
        /\ s.stream = sess[r].stream /\ s.unread = sess[r].unread
    <2> HIDE DEF h
    <2> QED BY <1>1, InvSess DEF Locals
  <1>3. Moves(r, s) BY <1>1, <1>2 DEF Moves
  <1> HIDE DEF s
  <1>4. sess'[r] = s /\ Active(r) /\ Active(r)'
    BY <1>1, <1>2, <1>3, InvSess, MovesAlone DEF Active
  <1>5. UNCHANGED << worker, inbox, busy, cache >> BY <1>1 DEF workers
  <1>6. SessInv(r)'
    <2>1. Placed(r)' BY <1>1, <1>4, <1>5, InvSess DEF Placed, At
    <2>2. \A i \in 1 .. Len(Caps) : Passed(r, i)' <=> Passed(r, i)
      BY <1>1, <1>2, <1>4, InvSess DEF Passed
    <2>3. InStep(r)' BY <1>2, <1>4, <1>5, <2>2, InvSess DEF InStep, CacheLen
    <2>4. Local(r)' BY <1>2, <1>4, InvSess DEF Local
    <2> QED BY <2>1, <2>3, <2>4 DEF SessInv
  <1>7. Gen(r)!Step BY <1>1, <1>2, <1>4, GenUnseen
  <1> QED BY <1>1, <1>3, <1>6, <1>7, SessMoves

(* A session that handed a token to its client goes on or is over.         *)
LEMMA HandedFields ==
  ASSUME NEW s \in Locals
  PROVE  LET t == Handed(s) IN
         /\ t \in Locals /\ t.produced = s.produced + 1 /\ t.max_tokens = s.max_tokens
         /\ t.client = s.client /\ t.stream = s.stream /\ t.unread = s.unread
         /\ \/ /\ t.pc = "send" /\ t.produced < t.max_tokens
               /\ t.pos = s.pos /\ t.seq = s.seq /\ t.hop = s.hop /\ t.x = s.x
            \/ t.pc = "done" /\ t.produced >= t.max_tokens /\ t.x = 0
  <1> DEFINE n == s.produced + 1
             t == [s EXCEPT !.produced = n]
             a == [t EXCEPT !.pc = "send"]
  <1>1. n \in Nat /\ s.max_tokens \in Nat
    <2>1. s.produced \in Nat /\ s.max_tokens \in TokenLimits \cup {0} BY DEF Locals
    <2>2. TokenLimits \cup {0} \subseteq Nat BY Constants
    <2> QED BY ONLY <2>1, <2>2
  <1>2. /\ t \in Locals /\ t.produced = n /\ t.max_tokens = s.max_tokens
        /\ t.client = s.client /\ t.stream = s.stream /\ t.unread = s.unread
        /\ t.pos = s.pos /\ t.seq = s.seq /\ t.hop = s.hop /\ t.x = s.x
    <2> HIDE DEF n
    <2> QED BY ONLY s \in Locals, <1>1 DEF Locals
  <1> HIDE DEF t
  <1>3. /\ a \in Locals /\ a.pc = "send" /\ a.produced = t.produced
        /\ a.max_tokens = t.max_tokens /\ a.client = t.client /\ a.stream = t.stream
        /\ a.unread = t.unread /\ a.pos = t.pos /\ a.seq = t.seq /\ a.hop = t.hop /\ a.x = t.x
    BY ONLY <1>2 DEF Locals
  <1> HIDE DEF a
  <1>4. Handed(s) = IF t.produced >= t.max_tokens THEN Over(t, "done") ELSE a
    BY DEF Handed, t, a
  <1>5. CASE t.produced >= t.max_tokens BY <1>2, <1>4, <1>5, OverFields
  <1>6. CASE ~(t.produced >= t.max_tokens) BY <1>1, <1>2, <1>3, <1>4, <1>6
  <1> QED BY <1>5, <1>6

(* The last reply: the token is kept for a whole answer, or to be sent.    *)
LEMMA StepDone ==
  ASSUME Inv, NEW r \in Requests, step_done(r)
  PROVE  Inv' /\ Steps
  <1> DEFINE c == sess[r]
             p == c.pos + c.seq
             s == sampled(c)
             u == [s EXCEPT !.pc = "push"]
             t == Handed(s)
  <1>1. /\ c \in Locals /\ c.pc = "wait" /\ c.reply /\ c.hop = Len(Caps)
        /\ p \in Nat /\ UNCHANGED << startup, workers >>
    BY InvSess DEF step_done
  <1>2. s = [c EXCEPT !.pos = p, !.seq = 1, !.hop = 1, !.x = 0]
    BY DEF sampled
  <1> HIDE DEF p, s
  <1>3. /\ s \in Locals /\ s.pos = p /\ s.seq = 1 /\ s.hop = 1 /\ s.produced = c.produced
        /\ s.max_tokens = c.max_tokens /\ s.client = c.client /\ s.stream = c.stream
        /\ s.unread = c.unread
    <2>1. 1 \in 1 .. Len(Caps) /\ 0 \in Depths BY Hops DEF Depths
    <2> QED BY ONLY <1>1, <1>2, <2>1 DEF Locals
  <1>4. Active(r) /\ UNCHANGED << worker, inbox, busy, cache >> BY <1>1 DEF Active, workers
  <1>5. \A i \in 1 .. Len(Caps) : Passed(r, i) BY <1>1 DEF Passed
  <1>6. ASSUME NEW d, Moves(r, d), d.pc \in {"send", "push"}, d.pos = p, d.hop = 1, d.seq = 1,
               d.produced = 0 \/ d.produced < d.max_tokens,
               d.pc = "push" => d.stream, ~d.stream => d.unread = 0 /\ d.client = "open",
               Gen(r)!Step
        PROVE  Inv' /\ Steps
    <2>1. sess'[r] = d BY <1>6, InvSess, MovesAlone
    <2>2. Placed(r)' BY <1>1, <1>4, <2>1, InvSess DEF Placed, At
    <2>3. \A i \in 1 .. Len(Caps) : ~Passed(r, i)' BY <1>6, <2>1 DEF Passed
    <2>4. \A i \in 1 .. Len(Caps) : worker[Hop(i)] # "exited" /\ Layers(Hop(i)) # {} =>
                                      CacheLen(Hop(i), r) = p
      BY <1>4, <1>5, InvSess DEF InStep, p
    <2>6. InStep(r)'
      <3> SUFFICES ASSUME NEW i \in 1 .. Len(Caps), (worker[Hop(i)] # "exited" /\ Layers(Hop(i)) # {})'
                   PROVE  (CacheLen(Hop(i), r) = IF Passed(r, i) THEN sess[r].pos + sess[r].seq
                                                 ELSE sess[r].pos)'
        BY DEF InStep
      <3>1. CacheLen(Hop(i), r) = p /\ CacheLen(Hop(i), r)' = CacheLen(Hop(i), r)
        BY <1>4, <2>4 DEF CacheLen
      <3>2. sess'[r].pos = p /\ ~Passed(r, i)' BY <1>6, <2>1, <2>3
      <3> QED BY Zenon, <3>1, <3>2
    <2>5. Local(r)' BY <1>6, <2>1 DEF Local
    <2> QED BY <1>1, <1>6, <2>2, <2>5, <2>6, SessMoves DEF SessInv
  <1>7. CASE c.stream
    <2>1. /\ u \in Locals /\ u.pc = "push" /\ u.pos = s.pos /\ u.hop = s.hop /\ u.seq = s.seq
          /\ u.produced = s.produced /\ u.max_tokens = s.max_tokens /\ u.client = s.client
          /\ u.stream = s.stream
      BY ONLY <1>3 DEF Locals
    <2>2. Moves(r, u) BY <1>7, <2>1 DEF step_done, Moves, s
    <2> HIDE DEF u
    <2>3. sess'[r] = u BY <2>2, InvSess, MovesAlone
    <2>4. Gen(r)!Step BY <1>1, <1>3, <2>1, <2>3, GenUnseen
    <2> QED BY <1>3, <1>4, <1>6, <1>7, <2>1, <2>2, <2>4, InvSess DEF Local
  <1>8. CASE ~c.stream
    <2>1. /\ t \in Locals /\ t.produced = s.produced + 1 /\ t.max_tokens = s.max_tokens
          /\ t.client = s.client /\ t.stream = s.stream /\ t.unread = s.unread
          /\ \/ /\ t.pc = "send" /\ t.produced < t.max_tokens
                /\ t.pos = s.pos /\ t.seq = s.seq /\ t.hop = s.hop
             \/ t.pc = "done" /\ t.produced >= t.max_tokens
      BY <1>3, HandedFields
    <2>2. Moves(r, t) BY <1>8, <2>1 DEF step_done, Moves, s
    <2> HIDE DEF t
    <2>3. sess'[r] = t BY <2>2, InvSess, MovesAlone
    <2>4. c.unread = 0 /\ c.client = "open" BY <1>4, <1>8, InvSess DEF Local
    <2>5. c.produced = 0 \/ c.produced < c.max_tokens BY <1>4, InvSess DEF Local
    <2>6. Gen(r)!Step BY <1>1, <1>3, <2>1, <2>3, <2>4, <2>5, InvSess, GenSamples
    <2>7. CASE t.pc = "send" BY <1>3, <1>6, <2>1, <2>2, <2>4, <2>6, <2>7
    <2>8. CASE t.pc = "done" BY <1>1, <1>3, <2>1, <2>2, <2>4, <2>6, <2>8, SessOver
    <2> QED BY <2>1, <2>7, <2>8
  <1> QED BY <1>7, <1>8

(* A token is sent only if there is room for it.                           *)
LEMMA PushFits ==
  ASSUME Inv, NEW r \in Requests, push(r)
  PROVE  /\ sess[r].unread + 1 \in 0 .. ChannelCap /\ sess[r].pc = "push"
         /\ sess[r].client = "open" /\ Active(r) /\ UNCHANGED << startup, workers >>
         /\ sess' = [sess EXCEPT ![r] = Handed([sess[r] EXCEPT !.unread = sess[r].unread + 1])]
  <1>1. sess[r].pc = "push" /\ sess[r].client = "open" /\ sess[r].unread < ChannelCap
    BY DEF push
  <1>2. sess[r].unread \in 0 .. ChannelCap /\ ChannelCap \in Nat BY InvSess, Constants
  <1>3. sess[r].unread + 1 \in 0 .. ChannelCap BY ONLY <1>1, <1>2
  <1>4. sess' = [sess EXCEPT ![r] = Handed([sess[r] EXCEPT !.unread = sess[r].unread + 1])]
    BY Zenon, InvSess DEF push
  <1> QED BY <1>1, <1>3, <1>4 DEF push, Active

(* A token goes into the channel.                                          *)
LEMMA PushStep ==
  ASSUME Inv, NEW r \in Requests, push(r)
  PROVE  Inv' /\ Steps
  <1> DEFINE c == sess[r]
             n == c.unread + 1
             s == [c EXCEPT !.unread = n]
             t == Handed(s)
  <1>1. /\ c \in Locals /\ c.pc = "push" /\ c.client = "open" /\ n \in 0 .. ChannelCap
        /\ UNCHANGED << startup, workers >> /\ Active(r) /\ sess' = [sess EXCEPT ![r] = t]
    BY InvSess, PushFits
  <1>2. /\ s \in Locals /\ s.pos = c.pos /\ s.seq = c.seq /\ s.hop = c.hop
        /\ s.produced = c.produced /\ s.max_tokens = c.max_tokens /\ s.client = c.client
        /\ s.stream = c.stream
    <2> HIDE DEF n
    <2> QED BY ONLY <1>1 DEF Locals
  <1> HIDE DEF s
  <1>3. /\ t \in Locals /\ t.produced = s.produced + 1 /\ t.max_tokens = s.max_tokens
        /\ t.client = s.client /\ t.stream = s.stream
        /\ \/ /\ t.pc = "send" /\ t.produced < t.max_tokens
              /\ t.pos = s.pos /\ t.seq = s.seq /\ t.hop = s.hop
           \/ t.pc = "done" /\ t.produced >= t.max_tokens
    BY <1>2, HandedFields
  <1> HIDE DEF t
  <1>4. Moves(r, t) /\ sess'[r] = t BY <1>1, <1>3, InvSess DEF Moves
  <1>5. c.stream BY <1>1, InvSess DEF Local
  <1>6. c.produced = 0 \/ c.produced < c.max_tokens BY <1>1, InvSess DEF Local
  <1>7. Gen(r)!Step BY <1>1, <1>2, <1>3, <1>4, <1>6, InvSess, GenSamples
  <1>8. CASE t.pc = "send"
    <2>1. UNCHANGED << worker, inbox, busy, cache >> BY <1>1 DEF workers
    <2>2. Active(r)' BY <1>4, <1>8 DEF Active
    <2>3. Placed(r)' BY <1>1, <1>4, <2>1, InvSess DEF Placed, At
    <2>4. \A i \in 1 .. Len(Caps) : Passed(r, i)' <=> Passed(r, i)
      BY <1>1, <1>2, <1>3, <1>4, <1>8 DEF Passed
    <2>5. InStep(r)' BY <1>1, <1>2, <1>3, <1>4, <1>8, <2>1, <2>4, InvSess DEF InStep, CacheLen
    <2>6. Local(r)' BY <1>1, <1>2, <1>3, <1>4, <1>5, <1>8, InvSess DEF Local
    <2> QED BY <1>1, <1>4, <1>7, <2>3, <2>5, <2>6, SessMoves DEF SessInv
  <1>9. CASE t.pc = "done" BY <1>1, <1>2, <1>3, <1>4, <1>5, <1>7, <1>9, SessOver
  <1> QED BY <1>3, <1>8, <1>9

(* A session ends with an error, a panic or because nobody listens, or its *)
(* client cancels it.                                                      *)
LEMMA EndStep ==
  ASSUME Inv, NEW r \in Requests, hop_fails(r) \/ panics(r) \/ push_fails(r) \/ cancel(r)
  PROVE  Inv' /\ Steps
  <1>1. Active(r) /\ sess[r] \in Locals /\ UNCHANGED << startup, workers >> /\ sess[r].pc # "new"
    BY InvSess DEF hop_fails, panics, push_fails, cancel, Active
  <1>2. ASSUME NEW how \in {"done", "error", "panicked"},
               sess' = [sess EXCEPT ![r] = Over(sess[r], how)],
               how = "panicked" => 0 \in PromptLens[r], how = "done" => sess[r].client # "open"
        PROVE  Inv' /\ Steps
    <2> DEFINE s == Over(sess[r], how)
    <2>1. /\ s \in Locals /\ s.pc = how /\ s.produced = sess[r].produced
          /\ s.max_tokens = sess[r].max_tokens /\ s.client = sess[r].client
          /\ s.stream = sess[r].stream /\ s.unread = sess[r].unread
      BY <1>1, OverFields
    <2>2. Moves(r, s) BY <1>2, <2>1 DEF Moves
    <2> HIDE DEF s
    <2>3. sess'[r] = s BY <2>2, InvSess, MovesAlone
    <2>4. Gen(r)!Step BY <1>1, <2>1, <2>3, GenUnseen
    <2>5. ~sess[r].stream => sess[r].unread = 0 BY InvSess DEF Local
    <2> QED BY <1>1, <1>2, <2>1, <2>2, <2>4, <2>5, SessOver
  <1>3. CASE hop_fails(r) BY <1>2, <1>3 DEF hop_fails
  <1>4. CASE panics(r)
    <2>1. 0 \in PromptLens[r] BY <1>1, <1>4, InvSess DEF panics, Local
    <2> QED BY <1>2, <1>4, <2>1 DEF panics
  <1>5. CASE push_fails(r) BY <1>2, <1>5 DEF push_fails
  <1>6. CASE cancel(r)
    <2> DEFINE o == Over(sess[r], "cancelled")
               s == [o EXCEPT !.client = "left", !.written = sess[r].written,
                              !.seq = sess[r].seq]
    <2>1. o \in Locals /\ o.pc = "cancelled" /\ o.unread = sess[r].unread BY <1>1, OverFields
    <2>2. Moves(r, s) /\ s.pc = "cancelled" /\ s.client = "left" /\ s.unread = sess[r].unread
      <3>1. sess' = [sess EXCEPT ![r] = s] BY <1>6 DEF cancel
      <3>2. sess[r].written \in BOOLEAN /\ sess[r].seq \in Nat BY <1>1 DEF Locals
      <3> HIDE DEF o
      <3>3. s \in Locals /\ s.pc = "cancelled" /\ s.client = "left" /\ s.unread = o.unread
        BY <2>1, <3>2 DEF Locals
      <3> QED BY <2>1, <3>1, <3>3 DEF Moves
    <2> HIDE DEF s
    <2>3. sess'[r] = s BY <2>2, InvSess, MovesAlone
    <2>4. sess[r].client = "open" /\ sess[r].unread = 0 BY <1>1, <1>6, InvSess DEF cancel, Local
    <2>5. Gen(r)!Step BY <1>1, <2>2, <2>3, <2>4, GenLeft
    <2> QED BY <1>1, <2>2, <2>4, <2>5, SessOver
  <1> QED BY <1>3, <1>4, <1>5, <1>6

\* The client reads, or its answer is over.
Reads(r) == Reader(r) \/ decode_fails(r) \/ hang_up(r)

\* What the client sees of s changes, and nothing else of it.
Shows(s, t) ==
  /\ t.pc = s.pc /\ t.stream = s.stream /\ t.max_tokens = s.max_tokens /\ t.pos = s.pos
  /\ t.seq = s.seq /\ t.hop = s.hop /\ t.x = s.x /\ t.written = s.written /\ t.reply = s.reply
  /\ t.produced = s.produced

(* A client moves its own side of the session.                             *)
LEMMA ReadsFields ==
  ASSUME Inv, NEW r \in Requests, Reads(r)
  PROVE  /\ sess' \in [Requests -> Locals] /\ UNCHANGED << startup, workers >>
         /\ \A q \in Requests : q # r => sess'[q] = sess[q]
         /\ Shows(sess[r], sess'[r]) /\ sess[r].pc # "new" /\ sess[r].client = "open"
         /\ ~sess[r].stream => sess'[r].unread = 0
         /\ \/ sess'[r].client \in {"open", "left"} /\ sess[r].stream
            \/ /\ sess[r].pc \in {"done", "error", "panicked"} \/ sess[r].stream
               /\ \/ sess'[r].client = "failed"
                  \/ sess'[r].client = "complete" /\ sess[r].produced >= sess[r].max_tokens
                  \/ sess'[r].client = "cut" /\ 0 \in PromptLens[r]
  <1> DEFINE s(c, u) == [sess[r] EXCEPT !.client = c, !.unread = u]
  <1>1. /\ sess[r] \in Locals /\ sess \in [Requests -> Locals] /\ Local(r)
        /\ sess[r].unread \in 0 .. ChannelCap
    BY InvSess
  <1>2. ASSUME NEW c \in {"open", "complete", "failed", "cut", "left"}, NEW u \in 0 .. ChannelCap,
               sess' = [sess EXCEPT ![r] = s(c, u)]
        PROVE  /\ sess' \in [Requests -> Locals]
               /\ \A q \in Requests : q # r => sess'[q] = sess[q]
               /\ Shows(sess[r], sess'[r]) /\ sess'[r].client = c /\ sess'[r].unread = u
    <2>1. /\ s(c, u) \in Locals /\ Shows(sess[r], s(c, u)) /\ s(c, u).client = c
          /\ s(c, u).unread = u
      BY ONLY <1>1, c \in {"open", "complete", "failed", "cut", "left"}, u \in 0 .. ChannelCap
         DEF Locals, Shows
    <2> HIDE DEF s
    <2> QED BY <1>1, <1>2, <2>1
  <1>3. sess[r].pc # "new" /\ sess[r].client = "open" /\ UNCHANGED << startup, workers >>
    <2>1. Idle.unread = 0 /\ Idle.pc = "new" BY DEF Idle
    <2>2. sess[r].pc = "new" => sess[r].unread = 0 BY <1>1, <2>1 DEF Local
    <2>3. CASE recv(r) BY <1>1, <2>2, <2>3 DEF recv
    <2>4. CASE recv_end(r) BY <2>4 DEF recv_end
    <2>5. CASE decode_fails(r) BY <1>1, <2>2, <2>5 DEF decode_fails
    <2>6. CASE hang_up(r) BY <2>6 DEF hang_up
    <2> QED BY <2>3, <2>4, <2>5, <2>6 DEF Reads, Reader
  <1>4. CASE recv(r)
    <2>1. PICK u \in 0 .. ChannelCap : u = sess[r].unread - 1
      <3>1. sess[r].unread > 0 BY <1>4 DEF recv
      <3>2. ChannelCap \in Nat BY Constants
      <3>3. sess[r].unread - 1 \in 0 .. ChannelCap BY ONLY <1>1, <3>1, <3>2
      <3> QED BY <3>3
    <2>2. sess' = [sess EXCEPT ![r] = s("open", u)] BY <1>1, <1>3, <1>4, <2>1 DEF recv, Locals
    <2>3. sess[r].stream BY <1>1, <1>4 DEF recv, Local
    <2> HIDE DEF s
    <2> QED BY <1>2, <1>3, <2>2, <2>3
  <1>5. CASE recv_end(r)
    <2>1. PICK c \in {"complete", "failed", "cut"} :
            c = IF sess[r].pc = "done" THEN "complete"
                ELSE IF sess[r].pc = "panicked" /\ sess[r].stream THEN "cut" ELSE "failed"
      OBVIOUS
    <2>2. sess' = [sess EXCEPT ![r] = s(c, sess[r].unread)] /\ sess[r].unread = 0
      BY <1>1, <1>5, <2>1 DEF recv_end, Locals
    <2>3. sess[r].pc \in {"done", "error", "panicked"} BY <1>5 DEF recv_end
    <2>4. /\ c = "complete" => sess[r].produced >= sess[r].max_tokens
          /\ c = "cut" => 0 \in PromptLens[r]
      BY <1>1, <1>3, <2>1 DEF Local
    <2> HIDE DEF s
    <2> QED BY <1>1, <1>2, <1>3, <2>2, <2>3, <2>4
  <1>6. CASE decode_fails(r)
    <2>1. sess' = [sess EXCEPT ![r] = s("failed", 0)] BY <1>1, <1>6 DEF decode_fails, Locals
    <2>2. sess[r].pc = "done" \/ sess[r].stream BY <1>1, <1>6 DEF decode_fails, Local
    <2>3. 0 \in 0 .. ChannelCap BY Constants
    <2> HIDE DEF s
    <2> QED BY <1>2, <1>3, <2>1, <2>2, <2>3
  <1>7. CASE hang_up(r)
    <2>1. sess' = [sess EXCEPT ![r] = s("left", 0)] BY <1>1, <1>7 DEF hang_up, Locals
    <2>2. 0 \in 0 .. ChannelCap BY Constants
    <2> HIDE DEF s
    <2> QED BY <1>2, <1>3, <1>7, <2>1, <2>2 DEF hang_up
  <1> QED BY <1>4, <1>5, <1>6, <1>7 DEF Reads, Reader

(* ... which disturbs nothing.                                             *)
LEMMA ReadsStep ==
  ASSUME Inv, NEW r \in Requests, Reads(r)
  PROVE  Inv' /\ Steps
  <1> DEFINE s == sess'[r]
  <1>1. s \in Locals /\ Shows(sess[r], s) /\ UNCHANGED << startup, workers >> BY ReadsFields
  <1>2. Moves(r, s)
    <2>1. sess' = [sess EXCEPT ![r] = sess'[r]] BY ReadsFields, InvSess
    <2> QED BY <1>1, <2>1 DEF Moves
  <1>3. UNCHANGED << worker, inbox, busy, cache >> BY <1>1 DEF workers
  <1>4. /\ sess[r].pc # "new" /\ sess[r].client = "open" /\ s.pc # "new"
        /\ ~sess[r].stream => s.unread = 0
    BY <1>1, ReadsFields DEF Shows
  <1>5. SessInv(r)'
    <2>1. Placed(r)' BY <1>1, <1>3, InvSess DEF Placed, At, Active, Shows
    <2>2. InStep(r)' BY <1>1, <1>3, InvSess DEF InStep, CacheLen, Passed, Active, Shows
    <2>3. Active(r) /\ ~sess[r].stream => s.client = "open" BY ReadsFields DEF Active
    <2>4. Local(r)' BY <1>1, <1>4, <2>3, InvSess DEF Local, Active, Shows
    <2> QED BY <2>1, <2>2, <2>4 DEF SessInv
  <1>6. Gen(r)!Step
    <2>1. s.produced = sess[r].produced /\ s.max_tokens = sess[r].max_tokens BY <1>1 DEF Shows
    <2>2. CASE s.client = "open" BY <1>4, <2>1, <2>2, GenUnseen
    <2>3. CASE s.client = "left" BY <1>4, <2>3, GenLeft
    <2>4. CASE s.client \notin {"open", "left"} BY <1>4, <2>1, <2>4, ReadsFields, GenEnds
    <2> QED BY <2>2, <2>3, <2>4
  <1> QED BY <1>1, <1>2, <1>5, <1>6, SessMoves

-----------------------------------------------------------------------------
(* The steps of the leader and of the workers.                             *)

(* No session moves.                                                       *)
LEMMA WorkersMove ==
  ASSUME Inv, UNCHANGED sess, StartupTypes', WorkerTypes', \A w \in Workers : Once(w)',
         \A w \in Workers, q \in Requests : At(w, q)' => At(w, q),
         \A w \in Workers, q \in Requests :
           \/ cache'[w][q] = cache[w][q]
           \/ worker'[w] = "exited" /\ cache'[w][q] = None,
         \A w \in Workers : worker'[w] # "exited" => worker[w] # "exited"
  PROVE  Inv' /\ Steps
  <1>1. ASSUME NEW q \in Requests PROVE SessInv(q)' /\ Gen(q)!Step
    <2>1. SessInv(q) /\ sess'[q] = sess[q] BY DEF Inv
    <2>2. SessInv(q)' BY <2>1, SessKept
    <2> QED BY <2>1, <2>2, GenStutter
  <1>2. \A q \in Requests : SessInv(q)' /\ Gen(q)!Step BY <1>1
  <1> QED BY <1>2 DEF Inv, Steps

(* start: workers join, get their ranges and load them, or do not.         *)
LEMMA StartupStep ==
  ASSUME Inv, join \/ assign \/ start_fails \/ \E w \in Workers : load(w)
  PROVE  Inv' /\ Steps
  <1>1. UNCHANGED << fate, inbox, busy, cache, sess >>
    BY DEF join, assign, start_fails, load, workers
  <1>2. StartupTypes
    BY DEF Inv
  <1>3. StartupTypes'
    <2>1. CASE join BY <1>2, <2>1, Hops DEF join, StartupTypes
    <2>2. CASE assign BY <1>2, <2>2, Hops DEF assign, StartupTypes
    <2>3. CASE start_fails BY <1>2, <2>3 DEF start_fails, StartupTypes
    <2>4. CASE \E w \in Workers : load(w) BY <1>2, <2>4 DEF load, startup, StartupTypes
    <2> QED BY <2>1, <2>2, <2>3, <2>4
  <1>4. /\ worker' \in [Workers -> {"accept", "joined", "assigned", "serve", "exited"}]
        /\ \A w \in Workers : worker'[w] # "exited" => worker[w] # "exited"
    <2>0. worker \in [Workers -> {"accept", "joined", "assigned", "serve", "exited"}]
      BY DEF Inv, WorkerTypes
    <2>1. CASE join BY <2>0, <2>1 DEF join
    <2>2. CASE assign BY <2>0, <2>2 DEF assign
    <2>3. CASE start_fails BY <2>0, <2>3 DEF start_fails, workers
    <2>4. CASE \E w \in Workers : load(w) BY <2>0, <2>4 DEF load
    <2> QED BY <2>1, <2>2, <2>3, <2>4
  <1>5. WorkerTypes' /\ \A w \in Workers : Once(w)' BY <1>1, <1>4 DEF Inv, WorkerTypes, Once
  <1>6. \A w \in Workers, q \in Requests : At(w, q)' => At(w, q) BY <1>1 DEF At
  <1> QED BY <1>1, <1>3, <1>4, <1>5, <1>6, WorkersMove

(* A worker ends.                                                          *)
LEMMA ExitStep ==
  ASSUME Inv, NEW w \in Workers, UNCHANGED sess,
         NEW why \in {"crash", "load", "eof", "read", "write", "overflow", "empty"}, Exit(w, why)
  PROVE  Inv' /\ Steps
  <1>1. /\ UNCHANGED << phase, joined, assigned >> /\ StartupTypes' BY DEF Exit, startup, Inv, StartupTypes
  <1>2. WorkerTypes BY DEF Inv
  <1>3. WorkerTypes'
    <2>1. [r \in Requests |-> None] \in [Requests -> 0 .. MaxPos \cup {None}] OBVIOUS
    <2>2. << >> \in Seq(Requests) OBVIOUS
    <2> QED BY <1>2, <2>1, <2>2 DEF Exit, WorkerTypes
  <1>4. \A v \in Workers : v # w => /\ inbox'[v] = inbox[v] /\ busy'[v] = busy[v]
                                    /\ cache'[v] = cache[v] /\ worker'[v] = worker[v]
    BY <1>2 DEF Exit, WorkerTypes
  <1>5. /\ inbox'[w] = << >> /\ busy'[w] = None /\ worker'[w] = "exited"
        /\ \A q \in Requests : cache'[w][q] = None
    BY <1>2 DEF Exit, WorkerTypes
  <1>6. \A v \in Workers : Once(v)'
    BY <1>4, <1>5 DEF Inv, Once
  <1>7. \A v \in Workers, q \in Requests : At(v, q)' => At(v, q)
    BY <1>4, <1>5, Constants DEF At
  <1>8. \A v \in Workers, q \in Requests :
           \/ cache'[v][q] = cache[v][q]
           \/ worker'[v] = "exited" /\ cache'[v][q] = None
    BY <1>4, <1>5
  <1>9. \A v \in Workers : worker'[v] # "exited" => worker[v] # "exited" BY <1>4, <1>5
  <1> QED BY <1>1, <1>3, <1>6, <1>7, <1>8, <1>9, WorkersMove

(* A worker accepts the stream that was opened first.                      *)
LEMMA AcceptStep ==
  ASSUME Inv, NEW w \in Workers, accept_bi(w)
  PROVE  Inv' /\ Steps
  <1>1. WorkerTypes /\ Once(w) BY DEF Inv
  <1> DEFINE b == inbox[w]
  <1>2. /\ b \in Seq(Requests) /\ b # << >> /\ Head(b) = b[1] /\ Head(b) \in Requests
        /\ Tail(b) \in Seq(Requests) /\ Len(Tail(b)) = Len(b) - 1 /\ Len(b) \in Nat \ {0}
        /\ \A k \in 1 .. (Len(b) - 1) : Tail(b)[k] = b[k + 1]
    BY <1>1 DEF WorkerTypes, accept_bi
  <1>3. /\ UNCHANGED << phase, joined, assigned, worker, fate, cache, sess >>
        /\ busy' = [busy EXCEPT ![w] = Head(b)] /\ inbox' = [inbox EXCEPT ![w] = Tail(b)]
    BY DEF accept_bi, startup
  <1> HIDE DEF b
  <1>4. StartupTypes' /\ WorkerTypes'
    BY <1>1, <1>2, <1>3 DEF Inv, StartupTypes, WorkerTypes
  <1>5. /\ \A v \in Workers : v # w => inbox'[v] = inbox[v] /\ busy'[v] = busy[v]
        /\ inbox'[w] = Tail(b) /\ busy'[w] = b[1]
    BY <1>1, <1>2, <1>3 DEF WorkerTypes
  <1>6. DOMAIN Tail(b) = 1 .. (Len(b) - 1) /\ DOMAIN b = 1 .. Len(b) BY <1>2
  <1>7. \A k \in DOMAIN Tail(b) : k + 1 \in DOMAIN b /\ k + 1 # 1 /\ Tail(b)[k] = b[k + 1]
    BY <1>2, <1>6
  <1>8. \A k, l \in DOMAIN b : k # l => b[k] # b[l] BY <1>1 DEF Once, b
  <1>9. ASSUME NEW v \in Workers PROVE Once(v)'
    <2>1. CASE v # w BY <1>5, <2>1 DEF Inv, Once
    <2>2. CASE v = w
      <3>1. \A k, l \in DOMAIN Tail(b) : k # l => Tail(b)[k] # Tail(b)[l]
        BY <1>2, <1>6, <1>7, <1>8
      <3>2. \A k \in DOMAIN Tail(b) : Tail(b)[k] # b[1]
        BY <1>2, <1>6, <1>7, <1>8
      <3>3. inbox'[v] = Tail(b) /\ busy'[v] = b[1] BY <1>5, <2>2
      <3> QED BY ONLY <3>1, <3>2, <3>3 DEF Once
    <2> QED BY <2>1, <2>2
  <1>10. ASSUME NEW v \in Workers, NEW q \in Requests, At(v, q)' PROVE At(v, q)
    <2>1. CASE v # w BY <1>5, <1>10, <2>1 DEF At
    <2>2. CASE v = w
      <3>1. b[1] = q \/ \E k \in DOMAIN Tail(b) : Tail(b)[k] = q BY <1>5, <1>10, <2>2 DEF At
      <3>2. \E k \in DOMAIN b : b[k] = q BY <1>2, <1>6, <1>7, <3>1
      <3> QED BY <2>2, <3>2 DEF At, b
    <2> QED BY <2>1, <2>2
  <1>11. /\ \A v \in Workers : Once(v)'
         /\ \A v \in Workers, q \in Requests : At(v, q)' => At(v, q)
    BY <1>9, <1>10
  <1> QED BY <1>3, <1>4, <1>11, WorkersMove

(* The leader stops and its sessions fail.                                 *)
LEMMA LeaderStops ==
  ASSUME Inv, leader_stops
  PROVE  Inv' /\ Steps
  <1>1. /\ UNCHANGED << joined, assigned, worker, fate, inbox, busy, cache >>
        /\ phase' = "stopped"
    BY DEF leader_stops, workers
  <1>2. StartupTypes' /\ WorkerTypes' /\ \A w \in Workers : Once(w)'
    BY <1>1 DEF Inv, StartupTypes, WorkerTypes, Once
  <1>3. ASSUME NEW q \in Requests PROVE sess'[q] \in Locals /\ SessInv(q)' /\ Gen(q)!Step
    <2> DEFINE t == IF Active(q) THEN [sess[q] EXCEPT !.pc = "error"] ELSE sess[q]
               e == [t EXCEPT !.client = "failed", !.unread = 0]
               over == sess[q].pc # "new" /\ sess[q].client = "open"
    <2>1. sess'[q] = IF over THEN e ELSE t BY Zenon DEF leader_stops
    <2>2. sess[q] \in Locals /\ Local(q) /\ Placed(q) BY InvSess
    <2>3. /\ t \in Locals /\ t.produced = sess[q].produced /\ t.client = sess[q].client
          /\ t.max_tokens = sess[q].max_tokens /\ t.stream = sess[q].stream
          /\ t.unread = sess[q].unread /\ t.pc \notin {"send", "write", "wait", "push"}
          /\ t.pc # "new" <=> sess[q].pc # "new"
          /\ ~Active(q) => t = sess[q]
          /\ Active(q) => t.pc = "error"
      BY <2>2 DEF Locals, Active
    <2> HIDE DEF t
    <2>4. /\ e \in Locals /\ e.produced = t.produced /\ e.client = "failed" /\ e.pc = t.pc
          /\ e.max_tokens = t.max_tokens /\ e.stream = t.stream /\ e.unread = 0
      <3>1. 0 \in 0 .. ChannelCap BY Constants
      <3> QED BY ONLY <2>3, <3>1 DEF Locals
    <2> HIDE DEF e
    <2>5. CASE over
      <3>1. SessInv(q)'
        BY <2>1, <2>2, <2>3, <2>4, <2>5 DEF SessInv, Placed, InStep, Local, Active
      <3>2. Gen(q)!Step BY <2>1, <2>3, <2>4, <2>5, GenEnds
      <3> QED BY <2>1, <2>4, <2>5, <3>1, <3>2
    <2>6. CASE ~over /\ sess[q].pc # "new"
      <3>1. SessInv(q)'
        BY <2>1, <2>2, <2>3, <2>6 DEF SessInv, Placed, InStep, Local, Active
      <3>2. Gen(q)!Step BY <2>1, <2>3, <2>6, GenUnseen
      <3> QED BY <2>1, <2>3, <2>6, <3>1, <3>2
    <2>7. CASE sess[q].pc = "new"
      <3>1. sess'[q] = sess[q] BY <2>1, <2>3, <2>7 DEF Active
      <3>2. \A w \in Workers : At(w, q)' => At(w, q) BY <1>1 DEF At
      <3>3. SessInv(q) BY DEF Inv
      <3>4. SessInv(q)' BY <1>1, <3>1, <3>2, <3>3, SessKept
      <3> QED BY <2>2, <3>1, <3>4, GenStutter
    <2> QED BY <2>5, <2>6, <2>7
  <1>4. sess' \in [Requests -> Locals] BY <1>3 DEF leader_stops
  <1> QED BY <1>2, <1>3, <1>4 DEF Inv, Steps

(* A stream is opened to the worker of the hop.                            *)
LEMMA OpenStep ==
  ASSUME Inv, NEW r \in Requests, open_hop(r)
  PROVE  Inv' /\ Steps
  <1>1. /\ sess[r].pc = "send" /\ Active(r)
        /\ UNCHANGED << phase, joined, assigned, worker, fate, busy, cache >>
    BY DEF open_hop, startup, Active
  <1>2. PICK w \in Workers : w = Hop(sess[r].hop) BY InvSess, Hops
  <1>3. PICK b : b = inbox[w] OBVIOUS
  <1>4. inbox' = [inbox EXCEPT ![w] = Append(b, r)] BY <1>2, <1>3 DEF open_hop
  <1>5. /\ b \in Seq(Requests) /\ Append(b, r) \in Seq(Requests)
        /\ DOMAIN b = 1 .. Len(b) /\ DOMAIN Append(b, r) = 1 .. (Len(b) + 1) /\ Len(b) \in Nat
        /\ \A k \in 1 .. Len(b) : Append(b, r)[k] = b[k]
        /\ Append(b, r)[Len(b) + 1] = r
    BY <1>3 DEF Inv, WorkerTypes
  <1>6. /\ \A v \in Workers : v # w => inbox'[v] = inbox[v]
        /\ inbox'[w] = Append(b, r)
    BY <1>4 DEF Inv, WorkerTypes
  <1>7. StartupTypes' /\ WorkerTypes'
    BY <1>1, <1>4, <1>5 DEF Inv, StartupTypes, WorkerTypes
  <1>8. \A v \in Workers : ~At(v, r) BY <1>1, InvSess DEF Placed
  <1>9. ASSUME NEW v \in Workers PROVE Once(v)'
    <2>1. CASE v # w BY <1>1, <1>6, <2>1 DEF Inv, Once
    <2>2. CASE v = w
      <3>1. /\ \A k, l \in 1 .. Len(b) : k # l => b[k] # b[l]
            /\ \A k \in 1 .. Len(b) : b[k] # busy[w] /\ b[k] # r
            /\ busy[w] # r
        BY <1>3, <1>5, <1>8 DEF Inv, Once, At
      <3>2. \A k, l \in 1 .. (Len(b) + 1) : k # l => Append(b, r)[k] # Append(b, r)[l]
        BY <1>5, <3>1
      <3>3. \A k \in 1 .. (Len(b) + 1) : Append(b, r)[k] # busy[w]
        BY <1>5, <3>1
      <3>4. inbox'[v] = Append(b, r) /\ busy'[v] = busy[w] BY <1>1, <1>6, <2>2
      <3> QED BY ONLY <1>5, <3>2, <3>3, <3>4 DEF Once
    <2> QED BY <2>1, <2>2
  <1>10. ASSUME NEW v \in Workers, NEW q \in Requests, At(v, q)', q # r \/ v # w
         PROVE  At(v, q)
    <2>1. CASE v # w BY <1>1, <1>6, <1>10, <2>1 DEF At
    <2>2. CASE v = w
      <3>1. busy[w] = q \/ \E k \in 1 .. (Len(b) + 1) : Append(b, r)[k] = q
        BY <1>1, <1>5, <1>6, <1>10, <2>2 DEF At
      <3>2. busy[w] = q \/ \E k \in 1 .. Len(b) : b[k] = q BY <1>5, <1>10, <2>2, <3>1
      <3> QED BY <1>3, <1>5, <2>2, <3>2 DEF At
    <2> QED BY <2>1, <2>2
  <1> DEFINE s == [sess[r] EXCEPT !.pc = "write", !.written = FALSE, !.reply = FALSE]
  <1>11. s \in Locals /\ s.pc = "write" /\ ~s.reply /\ ~s.written /\ Same(s, sess[r])
    BY InvSess DEF Locals, Same
  <1>12. Moves(r, s) BY <1>11 DEF open_hop, Moves
  <1> HIDE DEF s
  <1>13. /\ sess' \in [Requests -> Locals] /\ sess'[r] = s
         /\ \A q \in Requests : q # r => sess'[q] = sess[q]
    BY <1>12, InvSess, MovesAlone
  <1>14. SessInv(r)' /\ Gen(r)!Step
    <2>1. Placed(r)' BY <1>2, <1>8, <1>10, <1>11, <1>13 DEF Placed, Same
    <2>2. InStep(r)' BY <1>1, <1>11, <1>13, InvSess DEF InStep, CacheLen, Passed, Same
    <2>3. Local(r)' BY <1>1, <1>11, <1>13, InvSess DEF Local, Active, Same
    <2>4. Gen(r)!Step BY <1>1, <1>11, <1>13, GenUnseen DEF Same
    <2> QED BY <2>1, <2>2, <2>3, <2>4 DEF SessInv
  <1>15. ASSUME NEW q \in Requests, q # r PROVE SessInv(q)' /\ Gen(q)!Step
    <2>1. SessInv(q) /\ sess'[q] = sess[q] BY <1>13, <1>15 DEF Inv
    <2>2. \A v \in Workers : At(v, q)' => At(v, q) BY <1>10, <1>15
    <2>3. SessInv(q)' BY <1>1, <2>1, <2>2, SessKept
    <2> QED BY <2>1, <2>3, GenStutter
  <1>16. \A q \in Requests : SessInv(q)' /\ Gen(q)!Step BY <1>14, <1>15
  <1> QED BY <1>7, <1>9, <1>13, <1>16 DEF Inv, Steps

(* A frame for a session that is there is answered while it waits.         *)
LEMMA ServedWaits ==
  ASSUME Inv, NEW w \in Workers, NEW r \in Requests, Serving(w, r), sess[r].written, Active(r)
  PROVE  w = Hop(sess[r].hop) /\ sess[r].pc = "wait" /\ ~sess[r].reply
  <1>1. At(w, r) BY DEF Serving, At
  <1> QED BY <1>1, InvSess DEF Placed, Local

(* A worker serves a frame.                                                *)
LEMMA ServeStep ==
  ASSUME Inv, NEW w \in Workers, NEW r \in Requests, serve(w, r)
  PROVE  Inv' /\ Steps
  <1>1. /\ Serving(w, r) /\ sess[r].written /\ ~Overflows(w, r) /\ WorkerTypes
        /\ UNCHANGED << phase, joined, assigned, worker, fate, inbox >>
    BY DEF serve, startup, Inv
  <1>2. PICK n : n = CacheLen(w, r) + (IF Layers(w) = {} THEN 0 ELSE sess[r].seq) OBVIOUS
  <1>3. /\ cache' = [cache EXCEPT ![w][r] = n] /\ busy' = [busy EXCEPT ![w] = None]
    BY <1>2 DEF serve
  <1>4. n \in 0 .. MaxPos
    <2>1. CacheLen(w, r) \in 0 .. MaxPos BY <1>1, Constants DEF CacheLen, WorkerTypes
    <2> QED BY <1>1, <1>2, <2>1, InvSess, Constants DEF Overflows
  <1>5. StartupTypes' /\ WorkerTypes'
    <2>1. cache' \in [Workers -> [Requests -> 0 .. MaxPos \cup {None}]]
      BY <1>1, <1>3, <1>4 DEF WorkerTypes
    <2>2. busy' \in [Workers -> Requests \cup {None}] BY <1>1, <1>3 DEF WorkerTypes
    <2> QED BY <1>1, <2>1, <2>2 DEF Inv, StartupTypes, WorkerTypes
  <1>6. /\ \A v \in Workers : v # w => busy'[v] = busy[v] /\ cache'[v] = cache[v]
        /\ busy'[w] = None /\ cache'[w][r] = n
        /\ \A q \in Requests : q # r => cache'[w][q] = cache[w][q]
    BY <1>1, <1>3 DEF WorkerTypes
  <1>7. ASSUME NEW v \in Workers PROVE Once(v)'
    <2>1. \A k \in DOMAIN inbox[v] : inbox[v][k] # None BY <1>1, Constants DEF WorkerTypes
    <2> QED BY <1>1, <1>6, <2>1 DEF Inv, Once
  <1>8. \A v \in Workers, q \in Requests : At(v, q)' => At(v, q)
    BY <1>1, <1>6, Constants DEF At
  <1>9. sess' \in [Requests -> Locals] /\ \A q \in Requests : q # r => sess'[q] = sess[q]
    <2>1. CASE ~Active(r) BY <2>1, InvSess DEF serve
    <2>2. CASE Active(r)
      <3>1. sess[r].x \in Depths /\ sess[r] \in Locals BY InvSess DEF Locals
      <3>2. Applied(w, sess[r].x) \in Depths BY <3>1 DEF Applied, Depths
      <3>3. [sess[r] EXCEPT !.x = Applied(w, sess[r].x), !.reply = TRUE] \in Locals
        BY <3>1, <3>2 DEF Locals
      <3>4. sess' = [sess EXCEPT ![r] = [sess[r] EXCEPT !.x = Applied(w, sess[r].x), !.reply = TRUE]]
        BY <2>2, InvSess DEF serve
      <3> QED BY <3>3, <3>4, InvSess
    <2> QED BY <2>1, <2>2
  <1>10. SessInv(r)' /\ Gen(r)!Step
    <2>1. CASE ~Active(r)
      <3>1. sess'[r] = sess[r] BY <2>1 DEF serve
      <3>2. At(w, r) BY <1>1 DEF Serving, At
      <3>3. sess[r].pc # "new" BY <3>2, InvSess DEF Placed
      <3>4. Local(r)' BY <2>1, <3>1, <3>3, InvSess DEF Local, Active
      <3>5. Placed(r)' /\ InStep(r)' BY <2>1, <3>1, <3>3 DEF Placed, InStep, Active
      <3> QED BY <3>1, <3>4, <3>5, GenStutter DEF SessInv
    <2>2. CASE Active(r)
      <3>1. w = Hop(sess[r].hop) /\ sess[r].pc = "wait" /\ ~sess[r].reply
        BY <1>1, <2>2, ServedWaits
      <3>2. /\ sess'[r].pc = sess[r].pc /\ sess'[r].pos = sess[r].pos
            /\ sess'[r].hop = sess[r].hop /\ sess'[r].seq = sess[r].seq /\ sess'[r].reply
            /\ Same(sess'[r], sess[r])
        <4>1. sess'[r] = [sess[r] EXCEPT !.x = Applied(w, sess[r].x), !.reply = TRUE]
          BY <2>2, InvSess DEF serve
        <4>2. sess[r] \in Locals BY InvSess
        <4> QED BY ONLY <4>1, <4>2 DEF Locals, Same
      <3>3. Placed(r)'
        <4>1. ASSUME NEW v \in Workers PROVE ~At(v, r)'
          <5>1. CASE v # w BY <1>8, <2>2, <3>1, <5>1, InvSess DEF Placed
          <5>2. CASE v = w
            <6>1. busy[w] = r BY <1>1 DEF Serving
            <6>2. \A k \in DOMAIN inbox[w] : inbox[w][k] # r BY <6>1 DEF Inv, Once
            <6> QED BY <1>1, <1>6, <5>2, <6>2, Constants DEF At
          <5> QED BY <5>1, <5>2
        <4> QED BY <4>1 DEF Placed
      <3>4. InStep(r)'
        <4> SUFFICES ASSUME NEW i \in 1 .. Len(Caps), worker'[Hop(i)] # "exited",
                            Layers(Hop(i)) # {}
                     PROVE  CacheLen(Hop(i), r)' =
                              (IF Passed(r, i) THEN sess[r].pos + sess[r].seq ELSE sess[r].pos)'
          BY DEF InStep
        <4>1. Hop(i) \in Workers /\ sess[r].hop \in 1 .. Len(Caps) BY Hops, InvSess
        <4>2. CacheLen(Hop(i), r) =
                IF Passed(r, i) THEN sess[r].pos + sess[r].seq ELSE sess[r].pos
          BY <1>1, <2>2, InvSess DEF InStep
        <4>3. CASE i = sess[r].hop
          <5>1. ~Passed(r, i) /\ Passed(r, i)' BY <3>1, <3>2, <4>1, <4>3 DEF Passed
          <5>2. n = sess[r].pos + sess[r].seq BY <1>2, <3>1, <4>2, <4>3, <5>1
          <5>3. CacheLen(Hop(i), r)' = n
            BY <1>4, <1>6, <3>1, <4>3, Constants DEF CacheLen
          <5> QED BY <3>2, <5>1, <5>2, <5>3
        <4>4. CASE i # sess[r].hop
          <5>1. Hop(i) # w BY <3>1, <4>1, <4>4, Hops
          <5>2. CacheLen(Hop(i), r)' = CacheLen(Hop(i), r) BY <1>6, <4>1, <5>1 DEF CacheLen
          <5>3. Passed(r, i)' <=> Passed(r, i) BY <3>2, <4>1, <4>4 DEF Passed
          <5> QED BY <3>2, <4>2, <5>2, <5>3
        <4> QED BY <4>3, <4>4
      <3>5. Local(r)' BY <2>2, <3>1, <3>2, InvSess DEF Local, Active, Same
      <3>6. Gen(r)!Step BY <3>1, <3>2, GenUnseen DEF Same
      <3> QED BY <3>3, <3>4, <3>5, <3>6 DEF SessInv
    <2> QED BY <2>1, <2>2
  <1>11. ASSUME NEW q \in Requests, q # r PROVE SessInv(q)' /\ Gen(q)!Step
    <2>1. SessInv(q) /\ sess'[q] = sess[q] BY <1>9, <1>11 DEF Inv
    <2>2. \A v \in Workers : cache'[v][q] = cache[v][q] BY <1>6, <1>11
    <2>3. SessInv(q)' BY <1>1, <1>8, <2>1, <2>2, SessKept
    <2> QED BY <2>1, <2>3, GenStutter
  <1>12. \A q \in Requests : SessInv(q)' /\ Gen(q)!Step BY <1>10, <1>11
  <1> QED BY <1>5, <1>7, <1>9, <1>12 DEF Inv, Steps

-----------------------------------------------------------------------------
(* The specification.                                                      *)

(* The invariant holds at first.                                           *)
LEMMA InvInit ==
  ASSUME Init
  PROVE  Inv /\ \A r \in Requests : Gen(r)!Init
  <1>1. StartupTypes BY Hops DEF Init, StartupTypes
  <1>2. WorkerTypes
    <2>1. [r \in Requests |-> None] \in [Requests -> 0 .. MaxPos \cup {None}] OBVIOUS
    <2>2. << >> \in Seq(Requests) OBVIOUS
    <2> QED BY <2>1, <2>2 DEF Init, WorkerTypes
  <1>3. sess \in [Requests -> Locals] BY IdleLocals DEF Init
  <1>4. \A w \in Workers : Once(w) BY DEF Init, Once
  <1>5. ASSUME NEW r \in Requests PROVE SessInv(r) /\ Gen(r)!Init
    <2>1. sess[r] = Idle /\ \A w \in Workers : cache[w][r] = None /\ ~At(w, r)
      BY Constants DEF Init, At
    <2>2. Idle.pc = "new" /\ Idle.client = "open" /\ Idle.unread = 0 /\ Idle.produced = 0 /\ Idle.max_tokens = 0
      BY DEF Idle
    <2>3. SessInv(r) BY <2>1, <2>2 DEF SessInv, Placed, InStep, Local, Active
    <2>4. Gen(r)!Init BY <2>1, <2>2 DEF Gen!Init, Status
    <2> QED BY <2>3, <2>4
  <1> QED BY <1>1, <1>2, <1>3, <1>4, <1>5 DEF Inv

(* Every step keeps the invariant and is for each client a step of         *)
(* Generation or none.                                                     *)
LEMMA InvNext ==
  ASSUME Inv, [Next]_vars
  PROVE  Inv' /\ Steps
  <1>1. CASE UNCHANGED vars
    <2>1. UNCHANGED << phase, joined, assigned, worker, fate, inbox, busy, cache, sess >>
      BY <1>1 DEF vars, startup, workers
    <2>2. StartupTypes' /\ WorkerTypes' /\ \A w \in Workers : Once(w)'
      BY <2>1 DEF Inv, StartupTypes, WorkerTypes, Once
    <2>3. \A w \in Workers, q \in Requests : At(w, q)' => At(w, q) BY <2>1 DEF At
    <2> QED BY <2>1, <2>2, <2>3, WorkersMove
  <1>2. CASE Leader \/ \E w \in Workers : load(w) BY <1>2, StartupStep DEF Leader
  <1>3. CASE Clients
    <2> PICK r \in Requests, stream \in BOOLEAN, limit \in TokenLimits :
          \E prompt \in PromptLens[r] : start(r, stream, prompt, limit)
      BY <1>3 DEF Clients
    <2> QED BY StartStep
  <1>4. CASE \E r \in Requests : Session(r) \/ Reader(r)
    BY <1>4, OpenStep, FinishHop, EndStep, NextHop, StepDone, PushStep, ReadsStep
       DEF Session, Reads
  <1>5. CASE \E w \in Workers : Worker(w) /\ ~load(w)
    <2> PICK w \in Workers : Worker(w) /\ ~load(w) BY <1>5
    <2>1. CASE conn_closed(w) BY <2>1, ExitStep DEF conn_closed
    <2>2. CASE accept_bi(w) BY <2>2, AcceptStep
    <2>3. ASSUME NEW r \in Requests, read_fails(w, r) \/ overflow(w, r) \/ serve(w, r)
          PROVE  Inv' /\ Steps
      BY <2>3, ExitStep, ServeStep DEF read_fails, overflow
    <2> QED BY <2>1, <2>2, <2>3 DEF Worker
  <1>6. CASE Faults
    BY <1>6, ExitStep, EndStep, ReadsStep, LeaderStops
       DEF Faults, crash, load_fails, write_fails, empty_panics, Reads
  <1> QED BY <1>1, <1>2, <1>3, <1>4, <1>5, <1>6 DEF Next

(* The invariant holds of every behaviour.                                 *)
LEMMA InvAlways == Spec => []Inv
  <1>1. Init => Inv BY InvInit
  <1>2. Inv /\ [Next]_vars => Inv' BY InvNext
  <1> QED BY <1>1, <1>2, PTL DEF Spec

(***************************************************************************)
(* CachesInStep: for any number of workers, requests and tokens, a worker  *)
(* that is about to serve a frame of a live session has exactly the        *)
(* positions before seq_pos in the request's KV cache, though leader and   *)
(* worker count them apart and either may fail at any time.                *)
(***************************************************************************)
THEOREM CachesInStep == Spec => []CacheInStep
  <1>1. Inv => CacheInStep
    <2> SUFFICES ASSUME Inv, NEW w \in Workers, NEW r \in Requests, Serving(w, r), Active(r),
                        Layers(w) # {}
                 PROVE  CacheLen(w, r) = sess[r].pos
      BY DEF CacheInStep
    <2>1. At(w, r) BY DEF Serving, At
    <2>2. /\ w = Hop(sess[r].hop) /\ (sess[r].pc = "write" \/ (sess[r].pc = "wait" /\ ~sess[r].reply))
          /\ sess[r].hop \in 1 .. Len(Caps) /\ worker[w] # "exited"
      BY <2>1, InvSess DEF Placed, Serving
    <2>3. ~Passed(r, sess[r].hop) BY <2>2 DEF Passed
    <2> QED BY <2>2, <2>3, InvSess DEF InStep
  <1> QED BY <1>1, InvAlways, PTL

(***************************************************************************)
(* StarAnswersAreGenerations: every session of the cluster implements      *)
(* Generation for its client, whatever workers do: an answer that ends     *)
(* well has its tokens, except for a stream of an empty prompt, whose task *)
(* may panic and cut it short unnoticed.                                   *)
(***************************************************************************)
THEOREM StarAnswersAreGenerations == Spec => ImplementsGeneration
  <1> DEFINE First == \A r \in Requests : Gen(r)!Init
  <1>1. Init => First BY InvInit
  <1>2. Inv /\ [Next]_vars => [Steps]_vars BY InvNext
  <1>3. ImplementsGeneration <=> First /\ [][Steps]_vars BY DEF ImplementsGeneration, Steps
  <1> HIDE DEF First
  <1> QED BY <1>1, <1>2, <1>3, InvAlways, PTL DEF Spec

-----------------------------------------------------------------------------
(* The manifest. *)

(* The workers are a cluster.                                              *)
LEMMA WorkersCluster == Caps \in Clusters
  BY StarAssumption DEF Clusters

(* A worker of a manifest, derived or configured, has its layers within    *)
(* those of the model.                                                     *)
LEMMA RangeWithin ==
  ASSUME Manifest # Err, NEW w, Hosted(w)
  PROVE  for_node(Manifest, w).start \in 0 .. NLayers /\ for_node(Manifest, w).end \in 0 .. NLayers
  <1> DEFINE m == Manifest
  <1>1. \E n \in Nat : /\ DOMAIN m = 1 .. n
                       /\ \A i \in 1 .. n : m[i].start \in 0 .. NLayers /\ m[i].end \in 0 .. NLayers
    <2>1. CASE Override = None
      <3> DEFINE c == canonical(Caps)
                 n == Len(Caps)
      <3>1. m = agreed_manifest(Caps) /\ m # Err BY <2>1 DEF Manifest
      <3>2. c \in Clusters /\ Len(c) = n /\ n > 0
        BY <3>1, WorkersCluster, AgreedPlan, Canonical
      <3>3. PICK cut : Fits(c, cut) /\ m = Planned(c, cut)
        BY <3>1, WorkersCluster, AgreedPlan, Zenon
      <3>4. n \in Nat BY WorkersCluster, ClusterFacts
      <3> HIDE DEF m, c, n
      <3>5. DOMAIN m = 1 .. n /\ \A i \in 1 .. n : m[i].start = cut[i - 1] /\ m[i].end = cut[i]
        BY <3>2, <3>3, PlannedRing
      <3>6. \A i \in 1 .. n : cut[i - 1] \in 0 .. NLayers /\ cut[i] \in 0 .. NLayers
        BY <3>2, <3>3, FitsReach
      <3> QED BY <3>4, <3>5, <3>6
    <2>2. CASE Override # None
      <3>1. m = manual_partition(Caps, Override) /\ m # Err BY <2>2 DEF Manifest
      <3>2. Override \in Seq(ManualRange) BY <2>2, StarAssumption
      <3>3. Len(Override) \in Nat BY <3>2
      <3> HIDE DEF m
      <3> QED BY <3>1, <3>2, <3>3, ManualEnds
    <2> QED BY <2>1, <2>2
  <1>2. w \in Nodes(m) BY DEF Hosted
  <1> HIDE DEF m
  <1>3. PICK n \in Nat : /\ DOMAIN m = 1 .. n
                         /\ \A i \in 1 .. n : m[i].start \in 0 .. NLayers /\ m[i].end \in 0 .. NLayers
    BY <1>1
  <1>4. PICK i \in 1 .. n : for_node(m, w) = m[i] BY <1>2, <1>3, ForNodeFinds
  <1> QED BY <1>3, <1>4 DEF m

\* The i-th connection leads to the layers cut[i-1] .. cut[i]-1: the leader
\* walks the layers in order.  start does not see to it (StarHopOrder).
InLayerOrder(cut) ==
  /\ cut[0] = 0 /\ cut[Len(Caps)] = NLayers
  /\ \A i \in 1 .. Len(Caps) :
       cut[i - 1] <= cut[i] /\ Hosted(Hop(i)) /\ Layers(Hop(i)) = cut[i - 1] .. (cut[i] - 1)

HopsInLayerOrder == \E cut \in [0 .. Len(Caps) -> 0 .. NLayers] : InLayerOrder(cut)

\* cfg.workers lists the workers in the order of their ids.
WorkersSorted == \A i, j \in 1 .. Len(Caps) : i < j => Hop(i) < Hop(j)

(* Then the hops are in the order in which agreed_manifest cuts the layers.*)
LEMMA SortedHops ==
  ASSUME Override = None, WorkersSorted, Manifest # Err
  PROVE  HopsInLayerOrder
  <1> DEFINE c == Caps
             n == Len(Caps)
             m == Manifest
  <1>1. c \in Clusters /\ canonical(c) = c BY WorkersCluster, CanonicalSorted DEF WorkersSorted, Hop
  <1>2. m = agreed_manifest(c) /\ m # Err BY DEF Manifest
  <1>3. n > 0 /\ \E cut : Fits(c, cut) /\ m = Planned(c, cut)
    BY <1>1, <1>2, AgreedPlan
  <1>4. PICK cut : Fits(c, cut) /\ m = Planned(c, cut) BY <1>3
  <1> HIDE DEF m
  <1>5. /\ DOMAIN m = 1 .. n
        /\ \A i \in 1 .. n : /\ m[i].node = c[i].node
                             /\ m[i].start = cut[i - 1] /\ m[i].end = cut[i]
                             /\ for_node(m, c[i].node) = m[i]
    BY <1>1, <1>3, <1>4, PlannedRing
  <1>6. /\ cut \in [0 .. n -> 0 .. NLayers] /\ cut[0] = 0 /\ cut[n] = NLayers
        /\ \A i \in 1 .. n : cut[i - 1] <= cut[i]
    BY <1>4 DEF Fits
  <1>7. ASSUME NEW i \in 1 .. n
        PROVE  Hosted(Hop(i)) /\ Layers(Hop(i)) = cut[i - 1] .. (cut[i] - 1)
    <2>1. Hop(i) = m[i].node /\ for_node(m, Hop(i)) = m[i] BY <1>5 DEF Hop
    <2>2. Hop(i) \in Nodes(m) BY <1>5, <2>1 DEF Nodes
    <2>3. Layers(Hop(i)) = m[i].start .. (m[i].end - 1) BY <2>1 DEF Layers, m
    <2> QED BY <1>5, <2>2, <2>3 DEF Hosted, m
  <1>8. InLayerOrder(cut) BY <1>6, <1>7 DEF InLayerOrder
  <1> QED BY <1>6, <1>8 DEF HopsInLayerOrder

-----------------------------------------------------------------------------
(* The layers, where the hops are in their order.                          *)

Cuts == {cut \in [0 .. Len(Caps) -> 0 .. NLayers] : InLayerOrder(cut)}

(* The least and the greatest of an interval.                              *)
LEMMA MinMaxInterval ==
  ASSUME NEW a \in Nat, NEW b \in Nat, a < b
  PROVE  Min(a .. (b - 1)) = a /\ Max(a .. (b - 1)) + 1 = b
  <1> DEFINE S == a .. (b - 1)
  <1>1. a \in S /\ b - 1 \in S /\ \A y \in S : a <= y /\ y <= b - 1 OBVIOUS
  <1>2. \A x \in S : (\A y \in S : x <= y) => x = a BY <1>1
  <1>3. \A x \in S : (\A y \in S : x >= y) => x = b - 1 BY <1>1
  <1>4. \E x \in S : \A y \in S : x <= y BY <1>1
  <1>5. \E x \in S : \A y \in S : x >= y BY <1>1
  <1> HIDE DEF S
  <1>6. Min(S) \in S /\ \A y \in S : Min(S) <= y BY <1>4 DEF Min
  <1>7. Max(S) \in S /\ \A y \in S : Max(S) >= y BY <1>5 DEF Max
  <1>8. Min(S) = a /\ Max(S) = b - 1 BY <1>2, <1>3, <1>6, <1>7
  <1> QED BY <1>8 DEF S

(* The i-th hop takes the activations from one cut to the next.            *)
LEMMA HopApplies ==
  ASSUME NEW cut \in Cuts, NEW i \in 1 .. Len(Caps)
  PROVE  /\ cut[i - 1] \in 0 .. NLayers /\ cut[i] \in 0 .. NLayers
         /\ Applied(Hop(i), cut[i - 1]) = cut[i]
         /\ Layers(Hop(i)) # {} => Max(Layers(Hop(i))) + 1 = cut[i]
  <1>1. /\ cut[i - 1] \in 0 .. NLayers /\ cut[i] \in 0 .. NLayers /\ cut[i - 1] <= cut[i]
        /\ Layers(Hop(i)) = cut[i - 1] .. (cut[i] - 1)
    <2>1. i - 1 \in 0 .. Len(Caps) /\ i \in 0 .. Len(Caps) BY Hops
    <2> QED BY <2>1 DEF Cuts, InLayerOrder
  <1>2. NLayers \in Nat /\ None \notin Nat BY PartitionAssumption, Constants
  <1>3. cut[i - 1] \in Nat /\ cut[i] \in Nat BY <1>1, <1>2
  <1>4. CASE cut[i - 1] = cut[i]
    <2>1. Layers(Hop(i)) = {} BY <1>1, <1>3, <1>4
    <2> QED BY <1>1, <1>4, <2>1 DEF Applied
  <1>5. CASE cut[i - 1] < cut[i]
    <2>1. cut[i - 1] \in Layers(Hop(i)) BY <1>1, <1>3, <1>5
    <2>2. Min(Layers(Hop(i))) = cut[i - 1] /\ Max(Layers(Hop(i))) + 1 = cut[i]
      BY <1>1, <1>3, <1>5, MinMaxInterval
    <2> QED BY <1>1, <1>2, <1>3, <2>1, <2>2 DEF Applied
  <1> QED BY <1>1, <1>3, <1>4, <1>5

\* Every live session is as far through the layers as its hop says.
PassInv(cut) == \A r \in Requests : Along(cut, r)

(* A step of the session itself.                                           *)
LEMMA AlongSession ==
  ASSUME Inv, NEW cut \in Cuts, NEW r \in Requests, Along(cut, r),
         Session(r) \/ cancel(r) \/ Reads(r)
  PROVE  Along(cut, r)'
  <1>1. sess \in [Requests -> Locals] /\ sess[r] \in Locals /\ Local(r) BY InvSess
  <1>2. CASE open_hop(r)
    <2>1. sess'[r] = [sess[r] EXCEPT !.pc = "write", !.written = FALSE, !.reply = FALSE]
      BY <1>1, <1>2 DEF open_hop
    <2>2. sess'[r].hop = sess[r].hop /\ sess'[r].x = sess[r].x /\ sess'[r].pc = "write"
      BY ONLY <1>1, <2>1 DEF Locals
    <2> QED BY <1>2, <2>2 DEF Along, Passed, open_hop, Active
  <1>3. CASE finish_hop(r)
    <2>1. sess'[r] = [sess[r] EXCEPT !.pc = "wait", !.written = TRUE]
      BY <1>1, <1>3 DEF finish_hop
    <2>2. sess'[r].hop = sess[r].hop /\ sess'[r].x = sess[r].x
          /\ sess'[r].reply = sess[r].reply
      BY ONLY <1>1, <2>1 DEF Locals
    <2> QED BY <1>1, <1>3, <2>2 DEF Along, Passed, finish_hop, Active, Local
  <1>4. CASE next_hop(r)
    <2>1. PICK h : h = sess[r].hop + 1 OBVIOUS
    <2>2. sess'[r] = [sess[r] EXCEPT !.pc = "send", !.hop = h] BY <1>1, <1>4, <2>1 DEF next_hop
    <2>3. sess'[r].hop = h /\ sess'[r].x = sess[r].x /\ sess'[r].pc = "send"
      BY ONLY <1>1, <2>2 DEF Locals
    <2>4. sess[r].hop \in Nat /\ h \in Nat /\ h - 1 = sess[r].hop BY <2>1, InvSess, Hops
    <2>5. sess[r].x = cut[sess[r].hop] BY <1>4 DEF Along, Passed, next_hop, Active
    <2>6. ~Passed(r, h)' BY <2>3, <2>4 DEF Passed
    <2> QED BY <2>3, <2>4, <2>5, <2>6 DEF Along
  <1>5. CASE step_done(r)
    <2> DEFINE s == sampled(sess[r])
               u == [s EXCEPT !.pc = "push"]
    <2>1. s \in Locals /\ s.hop = 1 /\ s.x = 0
      <3>1. 1 \in 1 .. Len(Caps) /\ 0 \in Depths /\ sess[r].pos + sess[r].seq \in Nat
        BY Hops, InvSess DEF Depths
      <3> QED BY ONLY <1>1, <3>1 DEF sampled, Locals
    <2> HIDE DEF s
    <2>2. u.hop = 1 /\ u.x = 0 /\ u.pc = "push" BY ONLY <2>1 DEF Locals
    <2>3. sess'[r] = u \/ sess'[r] = Handed(s)
      <3>1. sess' = [sess EXCEPT ![r] = IF sess[r].stream THEN u ELSE Handed(s)]
        BY <1>5, Zenon DEF step_done, s
      <3> HIDE DEF u
      <3> QED BY <1>1, <3>1
    <2> HIDE DEF u
    <2>4. \/ sess'[r].hop = 1 /\ sess'[r].x = 0 /\ sess'[r].pc \in {"send", "push"}
          \/ sess'[r].pc = "done"
      BY <2>1, <2>2, <2>3, HandedFields
    <2>5. CASE sess'[r].hop = 1 /\ sess'[r].x = 0 /\ sess'[r].pc \in {"send", "push"}
      <3>1. ~Passed(r, 1)' BY <2>5 DEF Passed
      <3>2. cut[1 - 1] = 0 BY DEF Cuts, InLayerOrder
      <3> QED BY <2>5, <3>1, <3>2 DEF Along
    <2> QED BY <2>4, <2>5 DEF Along, Active
  <1>6. CASE push(r)
    <2> DEFINE s == [sess[r] EXCEPT !.unread = sess[r].unread + 1]
    <2>1. sess[r].unread + 1 \in 0 .. ChannelCap BY <1>6, PushFits
    <2>2. s \in Locals /\ s.hop = sess[r].hop /\ s.x = sess[r].x BY ONLY <1>1, <2>1 DEF Locals
    <2>3. sess'[r] = Handed(s) BY <1>1, <1>6, PushFits
    <2> HIDE DEF s
    <2>4. \/ sess'[r].hop = sess[r].hop /\ sess'[r].x = sess[r].x /\ sess'[r].pc = "send"
          \/ sess'[r].pc = "done"
      BY <2>2, <2>3, HandedFields
    <2>5. sess[r].pc = "push" BY <1>6 DEF push
    <2> QED BY <2>4, <2>5 DEF Along, Passed, Active
  <1>7. CASE hop_fails(r) \/ panics(r) \/ push_fails(r) \/ cancel(r)
    <2>1. sess'[r].pc \in {"error", "panicked", "done", "cancelled"}
      <3>1. \A how : Over(sess[r], how).pc = how BY DEF Over, Idle
      <3>2. CASE hop_fails(r) BY <1>1, <3>1, <3>2 DEF hop_fails
      <3>3. CASE panics(r) BY <1>1, <3>1, <3>3 DEF panics
      <3>4. CASE push_fails(r) BY <1>1, <3>1, <3>4 DEF push_fails
      <3>5. CASE cancel(r)
        <4> DEFINE o == Over(sess[r], "cancelled")
        <4>1. sess'[r] = [o EXCEPT !.client = "left", !.written = sess[r].written,
                                   !.seq = sess[r].seq]
          BY <1>1, <3>5 DEF cancel
        <4>2. o \in Locals /\ o.pc = "cancelled" BY <1>1, OverFields
        <4> HIDE DEF o
        <4> QED BY <4>1, <4>2 DEF Locals
      <3> QED BY <1>7, <3>2, <3>3, <3>4, <3>5
    <2> QED BY <2>1 DEF Along, Active
  <1>8. CASE Reads(r)
    <2>1. Shows(sess[r], sess'[r]) BY <1>8, ReadsFields
    <2> QED BY <2>1 DEF Along, Passed, Active, Shows
  <1> QED BY <1>2, <1>3, <1>4, <1>5, <1>6, <1>7, <1>8 DEF Session

(* A frame is served for the session.                                      *)
LEMMA AlongServe ==
  ASSUME Inv, NEW cut \in Cuts, NEW r \in Requests, Along(cut, r),
         NEW w \in Workers, serve(w, r)
  PROVE  Along(cut, r)'
  <1>1. sess \in [Requests -> Locals] /\ sess[r] \in Locals /\ sess[r].hop \in 1 .. Len(Caps)
    BY InvSess
  <1>2. CASE ~Active(r) BY <1>2 DEF serve, Along, Active
  <1>3. CASE Active(r)
    <2>1. w = Hop(sess[r].hop) /\ sess[r].pc = "wait" /\ ~sess[r].reply
      BY <1>3, ServedWaits DEF serve
    <2>2. sess[r].x = cut[sess[r].hop - 1] BY <1>1, <1>3, <2>1, Hops DEF Along, Passed
    <2>3. PICK x : x = Applied(w, sess[r].x) OBVIOUS
    <2>4. sess'[r] = [sess[r] EXCEPT !.x = x, !.reply = TRUE] BY <1>1, <1>3, <2>3 DEF serve
    <2>5. sess'[r].hop = sess[r].hop /\ sess'[r].x = x /\ sess'[r].pc = sess[r].pc
          /\ sess'[r].reply
      BY ONLY <1>1, <2>4 DEF Locals
    <2>6. x = cut[sess[r].hop] BY <1>1, <2>1, <2>2, <2>3, HopApplies
    <2> QED BY <2>1, <2>5, <2>6 DEF Along, Passed
  <1> QED BY <1>2, <1>3

(* Every step keeps the sessions along the layers.                         *)
LEMMA PassNext ==
  ASSUME Inv, NEW cut \in Cuts, PassInv(cut), [Next]_vars
  PROVE  PassInv(cut)'
  <1> SUFFICES ASSUME NEW r \in Requests PROVE Along(cut, r)' BY DEF PassInv
  <1>1. Along(cut, r) /\ sess \in [Requests -> Locals] BY InvSess DEF PassInv
  <1>2. CASE sess'[r] = sess[r] BY <1>1, <1>2 DEF Along, Active, Passed
  <1>3. ASSUME NEW stream \in BOOLEAN, NEW prompt \in PromptLens[r], NEW limit \in TokenLimits,
               start(r, stream, prompt, limit)
        PROVE  Along(cut, r)'
    <2> DEFINE s == [Idle EXCEPT !.stream = stream, !.max_tokens = limit]
               ok == [s EXCEPT !.pc = "send", !.seq = prompt]
               failed == [s EXCEPT !.pc = "error"]
    <2>1. sess'[r] = ok \/ sess'[r] = failed
      <3>1. sess' = [sess EXCEPT ![r] = ok] \/ sess' = [sess EXCEPT ![r] = failed]
        BY <1>3 DEF start
      <3> HIDE DEF ok, failed
      <3> QED BY ONLY <1>1, <3>1, r \in Requests
    <2>2. sess'[r].hop = 1 /\ sess'[r].x = 0
      <3>1. ok.hop = 1 /\ ok.x = 0 BY ONLY TRUE DEF Idle
      <3>2. failed.hop = 1 /\ failed.x = 0 BY ONLY TRUE DEF Idle
      <3> HIDE DEF ok, failed
      <3> QED BY ONLY <2>1, <3>1, <3>2
    <2>3. sess'[r].pc \in {"send", "error"}
      <3>1. ok.pc = "send" BY ONLY TRUE DEF Idle
      <3>2. failed.pc = "error" BY ONLY TRUE DEF Idle
      <3> HIDE DEF ok, failed
      <3> QED BY ONLY <2>1, <3>1, <3>2
    <2> HIDE DEF s, ok, failed
    <2>4. ~Passed(r, 1)' BY <2>2, <2>3 DEF Passed
    <2>5. cut[1 - 1] = 0 BY DEF Cuts, InLayerOrder
    <2> QED BY <2>2, <2>3, <2>4, <2>5 DEF Along
  <1>4. CASE leader_stops
    <2>1. CASE Active(r)
      <3>1. sess'[r].pc = "error" BY <1>4, <2>1, InvSess DEF leader_stops, Locals
      <3> QED BY <3>1 DEF Along, Active
    <2>2. CASE ~Active(r)
      <3>1. sess'[r].pc = sess[r].pc BY <1>4, <2>2, InvSess DEF leader_stops, Locals
      <3> QED BY <2>2, <3>1 DEF Along, Active
    <2> QED BY <2>1, <2>2
  <1>5. CASE Session(r) \/ cancel(r) \/ Reads(r) BY <1>1, <1>5, AlongSession
  <1>6. CASE \E w \in Workers : serve(w, r) BY <1>1, <1>6, AlongServe
  <1>7. CASE Leader \/ UNCHANGED vars
    BY <1>2, <1>7 DEF Leader, join, assign, start_fails, vars
  <1>8. CASE Clients
    <2> PICK q \in Requests, stream \in BOOLEAN, limit \in TokenLimits :
          \E prompt \in PromptLens[q] : start(q, stream, prompt, limit)
      BY <1>8 DEF Clients
    <2>1. CASE q # r BY <1>1, <1>2, <2>1 DEF start
    <2> QED BY <1>3, <2>1
  <1>9. ASSUME NEW q \in Requests, Session(q) \/ cancel(q) \/ Reads(q) PROVE Along(cut, r)'
    <2>1. CASE q # r
      BY <1>1, <1>2, <1>9, <2>1, ReadsFields
         DEF Session, open_hop, finish_hop, hop_fails, next_hop, step_done, panics, push,
             push_fails, cancel
    <2> QED BY <1>5, <1>9, <2>1
  <1>10. ASSUME NEW w \in Workers, NEW q \in Requests, serve(w, q) PROVE Along(cut, r)'
    <2>1. CASE q # r BY <1>1, <1>2, <1>10, <2>1 DEF serve
    <2> QED BY <1>6, <1>10, <2>1
  <1>11. CASE \E w \in Workers : Worker(w)
    <2> PICK w \in Workers : Worker(w) BY <1>11
    <2>1. CASE conn_closed(w) \/ load(w) \/ accept_bi(w)
      BY <1>2, <2>1 DEF conn_closed, load, accept_bi
    <2>2. CASE \E q \in Requests : read_fails(w, q) \/ overflow(w, q)
      BY <1>2, <2>2 DEF read_fails, overflow
    <2> QED BY <1>10, <2>1, <2>2 DEF Worker
  <1>12. CASE Faults
    BY <1>2, <1>4, <1>9, <1>12 DEF Faults, crash, load_fails, write_fails, empty_panics, Reads
  <1> QED BY <1>7, <1>8, <1>9, <1>11, <1>12 DEF Next, Reads

-----------------------------------------------------------------------------
(* What the manifest is worth to those that use it.                        *)

\* Workers load, and sessions run, only with a manifest, and a worker serves
\* only if it has a range in it.
Loaded ==
  /\ phase \in {"assign", "serve"} => Manifest # Err
  /\ \A w \in Workers : worker[w] \in {"assigned", "serve"} => Manifest # Err
  /\ \A w \in Workers : worker[w] = "serve" => Hosted(w)

Depth(s) == s.x \in 0 .. NLayers \cup {None}

RunInv ==
  /\ Loaded
  /\ \A r \in Requests : (sess[r].pc # "new" => Manifest # Err) /\ Depth(sess[r])

(* Only join, assign and load take the leader and the workers further.     *)
LEMMA LoadedNext ==
  ASSUME Inv, Loaded, [Next]_vars
  PROVE  Loaded'
  <1> DEFINE States == {"accept", "joined", "assigned", "serve", "exited"}
  <1>1. worker \in [Workers -> States] BY DEF Inv, WorkerTypes
  <1>2. ASSUME phase' \in {"assign", "serve"} => phase' = phase, UNCHANGED worker PROVE Loaded'
    BY <1>2 DEF Loaded, Hosted
  <1>3. ASSUME NEW w \in Workers, UNCHANGED phase, worker' = [worker EXCEPT ![w] = "exited"]
        PROVE  Loaded'
    <2>1. \A v \in Workers : worker'[v] = worker[v] \/ worker'[v] = "exited" BY <1>1, <1>3
    <2> QED BY <1>3, <2>1 DEF Loaded, Hosted
  <1>4. CASE join
    <2> DEFINE w == Caps[joined + 1].node
    <2>1. worker' = [worker EXCEPT ![w] = "joined"] /\ (phase' = "assign" => Manifest # Err)
          /\ phase' # "serve"
      BY <1>4 DEF join
    <2>2. \A v \in Workers : worker'[v] = worker[v] \/ worker'[v] = "joined" BY <1>1, <2>1
    <2> QED BY <2>1, <2>2 DEF Loaded, Hosted
  <1>5. CASE assign
    <2> DEFINE w == Caps[assigned + 1].node
    <2>1. worker' = [worker EXCEPT ![w] = "assigned"] /\ Manifest # Err BY <1>5 DEF assign, Loaded
    <2>2. \A v \in Workers : worker'[v] = worker[v] \/ worker'[v] = "assigned" BY <1>1, <2>1
    <2> QED BY <2>1, <2>2 DEF Loaded, Hosted
  <1>6. ASSUME NEW w \in Workers, load(w) PROVE Loaded'
    <2>1. /\ worker' = [worker EXCEPT ![w] = "serve"] /\ Hosted(w) /\ Manifest # Err
          /\ UNCHANGED phase
      BY <1>6 DEF load, startup, Loaded
    <2>2. \A v \in Workers : worker'[v] = worker[v] \/ (v = w /\ worker'[v] = "serve")
      BY <1>1, <2>1
    <2> QED BY <2>1, <2>2 DEF Loaded, Hosted
  <1>7. CASE Leader
    <2>1. CASE start_fails BY <1>2, <2>1 DEF start_fails, workers
    <2> QED BY <1>4, <1>5, <1>7, <2>1 DEF Leader
  <1>8. CASE Clients BY <1>2, <1>8 DEF Clients, start, startup, workers
  <1>9. CASE \E r \in Requests : Session(r) \/ Reader(r)
    BY <1>2, <1>9 DEF Session, open_hop, finish_hop, hop_fails, next_hop, step_done, panics, push,
                      push_fails, Reader, recv, recv_end, startup, workers
  <1>10. CASE \E w \in Workers : Worker(w)
    <2> PICK w \in Workers : Worker(w) BY <1>10
    <2>1. CASE conn_closed(w) BY <1>3, <2>1 DEF conn_closed, Exit, startup
    <2>2. CASE load(w) BY <1>6, <2>2
    <2>3. CASE accept_bi(w) BY <1>2, <2>3 DEF accept_bi, startup
    <2>4. ASSUME NEW r \in Requests, read_fails(w, r) \/ overflow(w, r) PROVE Loaded'
      BY <1>3, <2>4 DEF read_fails, overflow, Exit, startup
    <2>5. ASSUME NEW r \in Requests, serve(w, r) PROVE Loaded' BY <1>2, <2>5 DEF serve, startup
    <2> QED BY <2>1, <2>2, <2>3, <2>4, <2>5 DEF Worker
  <1>11. CASE Faults
    <2>1. ASSUME NEW w \in Workers, crash(w) \/ load_fails(w) PROVE Loaded'
      BY <1>3, <2>1 DEF crash, load_fails, Exit, startup
    <2>2. ASSUME NEW w \in Workers, NEW r \in Requests, write_fails(w, r) \/ empty_panics(w, r)
          PROVE  Loaded'
      BY <1>3, <2>2 DEF write_fails, empty_panics, Exit, startup
    <2>3. ASSUME NEW r \in Requests, decode_fails(r) \/ cancel(r) \/ hang_up(r) PROVE Loaded'
      BY <1>2, <2>3 DEF decode_fails, cancel, hang_up, startup, workers
    <2>4. CASE leader_stops BY <1>2, <2>4 DEF leader_stops, workers
    <2> QED BY <1>11, <2>1, <2>2, <2>3, <2>4 DEF Faults
  <1>12. CASE UNCHANGED vars BY <1>2, <1>12 DEF vars, startup, workers
  <1> QED BY <1>7, <1>8, <1>9, <1>10, <1>11, <1>12 DEF Next

(* A worker that serves takes the activations no further than the layers   *)
(* of the model.                                                           *)
LEMMA DepthApplied ==
  ASSUME Loaded, NEW w \in Workers, worker[w] = "serve", NEW x \in 0 .. NLayers \cup {None}
  PROVE  Applied(w, x) \in 0 .. NLayers \cup {None}
  <1>1. Manifest # Err /\ Hosted(w) BY DEF Loaded
  <1> DEFINE a == for_node(Manifest, w).start
             b == for_node(Manifest, w).end
  <1>2. a \in 0 .. NLayers /\ b \in 0 .. NLayers BY <1>1, RangeWithin
  <1>3. Layers(w) = a .. (b - 1) BY DEF Layers
  <1> HIDE DEF a, b
  <1>4. ASSUME Layers(w) # {} PROVE Max(Layers(w)) + 1 = b
    <2>1. a < b /\ a \in Nat /\ b \in Nat BY <1>2, <1>3, <1>4, PartitionAssumption
    <2> QED BY <1>3, <2>1, MinMaxInterval
  <1> QED BY <1>2, <1>4 DEF Applied

(* A session begins with a manifest, and what it holds of the activations  *)
(* is what the workers made of them.                                       *)
LEMMA RunNext ==
  ASSUME Inv, RunInv, [Next]_vars
  PROVE  RunInv'
  <1> DEFINE Good(s) == (s.pc # "new" => Manifest # Err) /\ Depth(s)
  <1>1. sess \in [Requests -> Locals] /\ NLayers \in Nat BY PartitionAssumption DEF Inv
  <1>2. \A q \in Requests : sess[q] \in Locals /\ Good(sess[q]) BY <1>1 DEF RunInv
  <1>3. ASSUME NEW r \in Requests, NEW s, sess' = [sess EXCEPT ![r] = s], Good(s)
        PROVE  \A q \in Requests : Good(sess'[q])
    <2>1. \A q \in Requests : sess'[q] = s \/ sess'[q] = sess[q] BY <1>1, <1>3
    <2> HIDE DEF Good
    <2> QED BY <1>2, <1>3, <2>1
  <1>4. ASSUME UNCHANGED sess PROVE \A q \in Requests : Good(sess'[q]) BY <1>2, <1>4
  <1>5. ASSUME NEW s, s.x = 0 PROVE Depth(s) BY <1>1, <1>5 DEF Depth
  <1>6. ASSUME NEW r \in Requests, Session(r) \/ cancel(r) \/ Reads(r)
        PROVE  \A q \in Requests : Good(sess'[q])
    <2>1. Manifest # Err /\ sess[r].pc # "new" /\ sess[r] \in Locals /\ Depth(sess[r])
      <3>1. CASE Session(r) \/ cancel(r)
        <4>1. Active(r)
          BY <3>1 DEF Session, open_hop, finish_hop, hop_fails, next_hop, step_done, panics, push,
                      push_fails, cancel, Active
        <4> QED BY <1>2, <4>1 DEF Active
      <3>2. CASE Reads(r) BY <1>2, <3>2, ReadsFields
      <3> QED BY <1>6, <3>1, <3>2
    <2>2. CASE open_hop(r)
      <3>1. PICK s : s = [sess[r] EXCEPT !.pc = "write", !.written = FALSE, !.reply = FALSE] OBVIOUS
      <3>2. sess' = [sess EXCEPT ![r] = s] BY <1>1, <2>1, <2>2, <3>1 DEF open_hop, Locals
      <3>3. s.x = sess[r].x BY <2>1, <3>1 DEF Locals
      <3> QED BY <1>3, <2>1, <3>2, <3>3 DEF Depth
    <2>3. CASE finish_hop(r)
      <3>1. PICK s : s = [sess[r] EXCEPT !.pc = "wait", !.written = TRUE] OBVIOUS
      <3>2. sess' = [sess EXCEPT ![r] = s] BY <1>1, <2>1, <2>3, <3>1 DEF finish_hop, Locals
      <3>3. s.x = sess[r].x BY <2>1, <3>1 DEF Locals
      <3> QED BY <1>3, <2>1, <3>2, <3>3 DEF Depth
    <2>4. CASE hop_fails(r) \/ panics(r) \/ push_fails(r)
      <3>1. PICK s : /\ sess' = [sess EXCEPT ![r] = s]
                     /\ s \in {Over(sess[r], "error"), Over(sess[r], "panicked"), Over(sess[r], "done")}
        BY <2>4 DEF hop_fails, panics, push_fails
      <3>2. s.x = 0 BY <3>1 DEF Over, Idle
      <3> QED BY <1>3, <1>5, <2>1, <3>1, <3>2
    <2>5. CASE next_hop(r)
      <3>1. PICK s : s = [sess[r] EXCEPT !.pc = "send", !.hop = sess[r].hop + 1] OBVIOUS
      <3>2. sess' = [sess EXCEPT ![r] = s] BY <1>1, <2>1, <2>5, <3>1 DEF next_hop, Locals
      <3>3. s.x = sess[r].x BY <2>1, <3>1 DEF Locals
      <3> QED BY <1>3, <2>1, <3>2, <3>3 DEF Depth
    <2>6. CASE step_done(r)
      <3> DEFINE n == sampled(sess[r])
                 u == [n EXCEPT !.pc = "push"]
      <3>1. n \in Locals /\ n.x = 0
        <4>1. 1 \in 1 .. Len(Caps) /\ 0 \in Depths /\ sess[r].pos + sess[r].seq \in Nat
          BY Hops, InvSess DEF Depths
        <4> QED BY ONLY <2>1, <4>1 DEF sampled, Locals
      <3>2. sess' = [sess EXCEPT ![r] = IF sess[r].stream THEN u ELSE Handed(n)]
        BY <2>6, Zenon DEF step_done
      <3> HIDE DEF n
      <3>3. u.x = 0 BY <3>1 DEF Locals
      <3> HIDE DEF u
      <3>4. Handed(n).x = 0 BY <3>1, HandedFields
      <3>5. PICK s : sess' = [sess EXCEPT ![r] = s] /\ s.x = 0
        BY ONLY <3>2, <3>3, <3>4
      <3> QED BY <1>3, <1>5, <2>1, <3>5
    <2>7. CASE push(r)
      <3> DEFINE n == [sess[r] EXCEPT !.unread = sess[r].unread + 1]
      <3>1. sess[r].unread + 1 \in 0 .. ChannelCap BY <2>7, PushFits
      <3>2. n \in Locals /\ n.x = sess[r].x BY ONLY <2>1, <3>1 DEF Locals
      <3>3. sess' = [sess EXCEPT ![r] = Handed(n)] BY <2>7, PushFits
      <3> HIDE DEF n
      <3>4. Handed(n).x = sess[r].x \/ Handed(n).x = 0 BY <3>2, HandedFields
      <3>5. Depth(Handed(n)) BY <1>5, <2>1, <3>4 DEF Depth
      <3> QED BY <1>3, <2>1, <3>3, <3>5
    <2>8. CASE cancel(r)
      <3>1. PICK s : s = [Over(sess[r], "cancelled") EXCEPT
                            !.client = "left", !.written = sess[r].written, !.seq = sess[r].seq]
        OBVIOUS
      <3>2. sess' = [sess EXCEPT ![r] = s] BY <2>8, <3>1 DEF cancel
      <3>3. s.x = 0 BY <3>1 DEF Over, Idle
      <3> QED BY <1>3, <1>5, <2>1, <3>2, <3>3
    <2>9. CASE Reads(r)
      <3>1. /\ Shows(sess[r], sess'[r])
            /\ \A q \in Requests : q # r => sess'[q] = sess[q]
        BY <2>9, ReadsFields
      <3>2. Good(sess'[r]) BY <2>1, <3>1 DEF Depth, Shows
      <3> HIDE DEF Good
      <3> QED BY <1>2, <3>1, <3>2
    <2> QED BY <1>6, <2>2, <2>3, <2>4, <2>5, <2>6, <2>7, <2>8, <2>9 DEF Session
  <1>7. CASE Clients
    <2>1. PICK r \in Requests, stream \in BOOLEAN, limit \in TokenLimits :
            \E prompt \in PromptLens[r] : start(r, stream, prompt, limit)
      BY <1>7 DEF Clients
    <2>2. PICK prompt \in PromptLens[r] : start(r, stream, prompt, limit) BY <2>1
    <2>3. PICK s : sess' = [sess EXCEPT ![r] = s] /\ s.x = 0
      <3> DEFINE i == [Idle EXCEPT !.stream = stream, !.max_tokens = limit]
      <3>1. [i EXCEPT !.pc = "send", !.seq = prompt].x = 0 /\ [i EXCEPT !.pc = "error"].x = 0
        BY DEF Idle
      <3>2. \/ sess' = [sess EXCEPT ![r] = [i EXCEPT !.pc = "send", !.seq = prompt]]
            \/ sess' = [sess EXCEPT ![r] = [i EXCEPT !.pc = "error"]]
        BY <2>2 DEF start
      <3> HIDE DEF i
      <3> QED BY ONLY <3>1, <3>2
    <2>4. Manifest # Err BY <2>2 DEF start, RunInv, Loaded
    <2>5. \A q \in Requests : Good(sess'[q]) BY <1>3, <1>5, <2>3, <2>4
    <2> QED BY <2>5, LoadedNext DEF RunInv
  <1>8. ASSUME NEW w \in Workers, NEW r \in Requests, serve(w, r)
        PROVE  \A q \in Requests : Good(sess'[q])
    <2>1. CASE ~Active(r) BY <1>4, <1>8, <2>1 DEF serve
    <2>2. CASE Active(r)
      <3>1. PICK s : s = [sess[r] EXCEPT !.x = Applied(w, sess[r].x), !.reply = TRUE] OBVIOUS
      <3>2. sess' = [sess EXCEPT ![r] = s] BY <1>1, <1>2, <1>8, <2>2, <3>1 DEF serve, Locals
      <3>3. s.x = Applied(w, sess[r].x) /\ s.pc = sess[r].pc BY <1>2, <3>1 DEF Locals
      <3>4. worker[w] = "serve" BY <1>8 DEF serve, Serving
      <3>5. sess[r].x \in 0 .. NLayers \cup {None} BY <1>2 DEF Depth
      <3>6. Depth(s) BY <3>3, <3>4, <3>5, DepthApplied DEF Depth, RunInv
      <3> QED BY <1>2, <1>3, <3>2, <3>3, <3>6
    <2> QED BY <2>1, <2>2
  <1>9. CASE leader_stops
    <2>1. ASSUME NEW q \in Requests PROVE Good(sess'[q])
      <3>1. sess'[q].x = sess[q].x /\ (sess'[q].pc # "new" => sess[q].pc # "new")
        BY <1>2, <1>9 DEF leader_stops, Locals, Active
      <3> QED BY <1>2, <3>1 DEF Depth
    <2> QED BY <2>1, LoadedNext DEF RunInv
  <1>10. ASSUME \A q \in Requests : Good(sess'[q]) PROVE RunInv'
    BY <1>10, LoadedNext DEF RunInv, Depth
  <1> HIDE DEF Good
  <1>11. CASE Leader
    BY <1>4, <1>10, <1>11 DEF Leader, join, assign, start_fails
  <1>12. CASE \E w \in Workers : Worker(w)
    BY <1>4, <1>8, <1>10, <1>12 DEF Worker, conn_closed, load, accept_bi, read_fails, overflow
  <1>13. CASE Faults
    BY <1>4, <1>6, <1>9, <1>10, <1>13
       DEF Faults, crash, load_fails, write_fails, empty_panics, Reads
  <1>14. CASE UNCHANGED vars BY <1>4, <1>10, <1>14 DEF vars
  <1> QED BY <1>6, <1>7, <1>10, <1>11, <1>12, <1>13, <1>14 DEF Next, Reads

LEMMA RunInvAlways == Spec => []RunInv
  <1>1. Init => RunInv
    BY PartitionAssumption DEF Init, RunInv, Loaded, Depth, Idle
  <1>2. Inv /\ RunInv /\ [Next]_vars => RunInv' BY RunNext
  <1> QED BY <1>1, <1>2, InvAlways, PTL DEF Spec

-----------------------------------------------------------------------------
(***************************************************************************)
(* PassesInLayerOrder: where cfg.workers is in the order in which the      *)
(* manifest, derived or configured, cuts the layers (StarHopOrder shows    *)
(* what happens where it is not), each token is sampled from activations   *)
(* that went through all layers, once each and in order.                   *)
(***************************************************************************)
THEOREM PassesInLayerOrder == HopsInLayerOrder => (Spec => []WholePass)
  <1> SUFFICES ASSUME HopsInLayerOrder PROVE Spec => []WholePass OBVIOUS
  <1>1. PICK cut \in Cuts : TRUE BY DEF HopsInLayerOrder, Cuts
  <1>2. Init => PassInv(cut) BY DEF Init, PassInv, Along, Active, Idle
  <1>3. Inv /\ PassInv(cut) /\ [Next]_vars => PassInv(cut)' BY PassNext
  <1>4. PassInv(cut) => WholePass
    <2> SUFFICES ASSUME PassInv(cut), NEW r \in Requests, sess[r].pc = "wait", sess[r].reply,
                        sess[r].hop = Len(Caps)
                 PROVE  sess[r].x = NLayers
      BY DEF WholePass
    <2>1. sess[r].x = cut[Len(Caps)] BY DEF PassInv, Along, Active, Passed
    <2> QED BY <2>1 DEF Cuts, InLayerOrder
  <1> QED BY <1>2, <1>3, <1>4, InvAlways, PTL DEF Spec

(***************************************************************************)
(* PassesAreWhole: a leader that derives its manifest, with its workers    *)
(* configured in the order of their ids, samples each token from           *)
(* activations that went through all layers, once each and in order,       *)
(* whatever the memory and the speed of the workers: the plan is cut in    *)
(* the order of the hops, and a leader without a plan runs no session.     *)
(***************************************************************************)
THEOREM PassesAreWhole == Override = None /\ WorkersSorted => (Spec => []WholePass)
  <1> SUFFICES ASSUME Override = None, WorkersSorted PROVE Spec => []WholePass OBVIOUS
  <1>1. CASE Manifest = Err
    <2>1. RunInv => WholePass BY <1>1 DEF RunInv, WholePass
    <2> QED BY <2>1, RunInvAlways, PTL
  <1>2. CASE Manifest # Err
    <2>1. HopsInLayerOrder BY <1>2, SortedHops
    <2> QED BY <2>1, PassesInLayerOrder
  <1> QED BY <1>1, <1>2

(***************************************************************************)
(* StarTypes: the state of leader, workers and sessions keeps its types,   *)
(* with any workers and any manifest: no KV cache ever holds more than     *)
(* max_position_embeddings positions, and no activations are beyond the    *)
(* last layer.                                                             *)
(***************************************************************************)
THEOREM StarTypes == Spec => []TypeOK
  <1>1. Inv /\ RunInv => TypeOK
    <2> SUFFICES ASSUME Inv, RunInv PROVE TypeOK OBVIOUS
    <2>1. ASSUME NEW r \in Requests PROVE sess[r] \in Sessions
      <3>1. sess[r] \in Locals /\ sess[r].x \in 0 .. NLayers \cup {None}
        BY DEF Inv, RunInv, Depth
      <3> QED BY <3>1 DEF Locals, Sessions
    <2>2. sess \in [Requests -> Sessions] BY <2>1 DEF Inv
    <2> QED BY <2>2 DEF Inv, StartupTypes, WorkerTypes, TypeOK
  <1> QED BY <1>1, InvAlways, RunInvAlways, PTL
=============================================================================
