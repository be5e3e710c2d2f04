----------------------------- MODULE Leaderless -----------------------------
(***************************************************************************)
(* Inference on the leaderless mesh of crates/ai-engine-cluster: the       *)
(* forward loop of coordinator.rs (drive, forward_pass), the serve loops   *)
(* of peer.rs (serve_peer) and the coordinator half of provider.rs.        *)
(*                                                                         *)
(* Any node coordinates the requests it gets.  A token is one pass over    *)
(* the pipeline of the agreed manifest: Embed to the head, Relay through   *)
(* the middle, a terminal Relay to the tail, each on a bidi stream of its  *)
(* own.  Every node runs one serve loop per connection, with caches of its *)
(* own; the loop of node p for coordinator c is the pair << p, c >>.  The  *)
(* mesh starts complete (Mesh.tla): one connection per pair, used by the   *)
(* loops of both ends, and a loopback per node.                            *)
(***************************************************************************)
EXTENDS Partition

CONSTANTS Requests,     \* chat requests, once each
          Caps,         \* cluster_cfg.nodes as capabilities, in that order
          Override,     \* cluster_cfg.partition_override, or None
          Ingress,      \* nodes that clients send requests to
          MaxPos,       \* max_position_embeddings
          PromptLens,   \* per request, the prompt lengths in tokens, 0 among them
                        \* if the tokenizer adds nothing to an empty text
          TokenLimits,  \* values of max_tokens
          MaxFaults,    \* bound on crashed nodes plus connections lost while
                        \* no stream hangs on them
          None

Members == {Caps[i].node : i \in DOMAIN Caps}

\* The manifest every node computes from the same configuration.
Manifest == IF Override = None THEN agreed_manifest(Caps) ELSE manual_partition(Caps, Override)

\* A node without a manifest, or without a range in it, does not come up, and
\* the mesh waits for it.  One with two ranges leaves no ring to follow, and
\* drive refuses every chat.
ASSUME LeaderlessAssumption ==
  /\ Caps \in Seq(Capability) /\ Len(Caps) > 0
  /\ \A i, j \in DOMAIN Caps : i # j => Caps[i].node # Caps[j].node
  /\ Manifest # Err
  /\ \/ Override = None
     \/ /\ Override \in Seq(ManualRange)
        /\ {Override[i].node : i \in DOMAIN Override} = Members
        /\ \A i, j \in DOMAIN Override : i # j => Override[i].node # Override[j].node
  /\ Ingress \subseteq Members /\ MaxPos \in Nat /\ MaxFaults \in Nat
  /\ PromptLens \in [Requests -> SUBSET Nat] /\ TokenLimits \subseteq Nat
  /\ None \notin Requests /\ None \notin Nat

VARIABLES
  up,     \* the node's process runs
  lost,   \* connections that were closed, as sets of their one or two ends
  ended,  \* serve loops that returned or panicked
  inbox,  \* per loop, streams opened to it and not accepted yet
  busy,   \* per loop, the stream it is serving
  cache,  \* per node and request, the KV length in its loop's caches
  sess    \* per request, the locals of drive and forward_pass

vars == << up, lost, ended, inbox, busy, cache, sess >>

Loops == Members \X Members
Conns == {{l[1], l[2]} : l \in Loops}

\* Mutant of Order: the hops follow the configuration.
Order_config == [i \in DOMAIN Caps |-> Caps[i].node]

\* ids of drive: the nodes of forward_plan.
Order == pipeline_order(Manifest)

Layers(p) == LET a == for_node(Manifest, p) IN a.start .. (a.end - 1)

\* client: how the answer ended for the client.  The channel of a stream is
\* unbounded, so what is unread in it makes no difference to drive.
\* x: the layers the activations went through in order, NLayers + 1 for the
\* logits, None once something is out of order.
Idle == [pc |-> "new", at |-> None, stream |-> FALSE, max_tokens |-> 0, prompt |-> 0,
         pos |-> 0, seq |-> 0, hop |-> 1, x |-> 0, written |-> FALSE, reply |-> "none",
         produced |-> 0, client |-> "open"]

Sessions ==
  [pc : {"new", "send", "write", "wait", "done", "error", "cancelled"},
   at : Members \cup {None}, stream : BOOLEAN, max_tokens : TokenLimits \cup {0},
   prompt : Nat, pos : Nat, seq : Nat, hop : 1 .. Len(Order),
   x : 0 .. NLayers + 1 \cup {None}, written : BOOLEAN, reply : {"none", "ok", "cut"},
   produced : Nat, client : {"open", "complete", "failed", "left"}]

TypeOK ==
  /\ up \in [Members -> BOOLEAN]
  /\ lost \subseteq Conns /\ ended \subseteq Loops
  /\ inbox \in [Loops -> Seq(Requests)]
  /\ busy \in [Loops -> Requests \cup {None}]
  /\ cache \in [Members -> [Requests -> 0 .. MaxPos \cup {None}]]
  /\ sess \in [Requests -> Sessions]

Init ==
  /\ up = [n \in Members |-> TRUE]
  /\ lost = {} /\ ended = {}
  /\ inbox = [l \in Loops |-> << >>] /\ busy = [l \in Loops |-> None]
  /\ cache = [n \in Members |-> [r \in Requests |-> None]]
  /\ sess = [r \in Requests |-> Idle]

-----------------------------------------------------------------------------
(* Coordinator::generate and generate_stream: drive and forward_pass. *)

Active(r) == sess[r].pc \in {"send", "write", "wait"}

\* The loop the current hop of r goes to, and the connection to it.
Loop(r) == << Order[sess[r].hop], sess[r].at >>
Conn(r) == {Order[sess[r].hop], sess[r].at}

\* The locals of drive are dropped; what the client got remains.
Over(s, how) == [Idle EXCEPT !.pc = how, !.at = s.at, !.stream = s.stream,
                             !.max_tokens = s.max_tokens, !.produced = s.produced,
                             !.client = s.client]

\* chat or chat_stream at node n: the prompt is tokenised, which may fail, and
\* drive begins; it refuses a pipeline of one node.
start(r, n, stream, prompt, max_tokens) ==
  LET s == [Idle EXCEPT !.at = n, !.stream = stream, !.max_tokens = max_tokens,
                        !.prompt = prompt, !.seq = prompt] IN
  /\ up[n] /\ sess[r].pc = "new"
  /\ \/ Len(Order) >= 2 /\ sess' = [sess EXCEPT ![r] = [s EXCEPT !.pc = "send"]]
     \/ sess' = [sess EXCEPT ![r] = Over(s, "error")]
  /\ UNCHANGED << up, lost, ended, inbox, busy, cache >>

\* open_bi and the first bytes: the peer can accept the stream.
open_hop(r) ==
  /\ sess[r].pc = "send" /\ Conn(r) \notin lost
  /\ inbox' = IF Loop(r) \in ended THEN inbox ELSE [inbox EXCEPT ![Loop(r)] = Append(@, r)]
  /\ sess' = [sess EXCEPT ![r].pc = "write", ![r].written = FALSE, ![r].reply = "none"]
  /\ UNCHANGED << up, lost, ended, busy, cache >>

\* The frames are written and the send side is finished.
finish_hop(r) ==
  /\ sess[r].pc = "write" /\ Conn(r) \notin lost
  /\ sess' = [sess EXCEPT ![r].pc = "wait", ![r].written = TRUE]
  /\ UNCHANGED << up, lost, ended, inbox, busy, cache >>

\* Mutant of hop_fails: the error ends the answer as if it were complete.
hop_fails_quietly(r) ==
  /\ Active(r) /\ (Conn(r) \in lost \/ sess[r].reply = "cut")
  /\ sess' = [sess EXCEPT ![r] = Over(@, "done")]
  /\ UNCHANGED << up, lost, ended, inbox, busy, cache >>

\* The connection is closed, or the peer dropped the stream unanswered.
hop_fails(r) ==
  /\ Active(r) /\ (Conn(r) \in lost \/ sess[r].reply = "cut")
  /\ sess' = [sess EXCEPT ![r] = Over(@, "error")]
  /\ UNCHANGED << up, lost, ended, inbox, busy, cache >>

\* The activations came back: on to the next node of the pipeline.
next_hop(r) ==
  /\ sess[r].pc = "wait" /\ sess[r].reply = "ok" /\ sess[r].hop < Len(Order)
  /\ sess' = [sess EXCEPT ![r].pc = "send", ![r].hop = @ + 1]
  /\ UNCHANGED << up, lost, ended, inbox, busy, cache >>

\* Mutant of NextPos: the token sampled last is counted as fed.
NextPos_one_more(s) == s.prompt + s.produced + 1

\* pos = prompt_ids.len() + produced - 1, with produced counting this token.
NextPos(s) == s.prompt + s.produced

\* The logits came back and are sampled, and on_token hands the token out.  It
\* cannot if the receiver of a stream is gone: drive is done.
pass_done(r) ==
  LET s    == sess[r]
      next == [s EXCEPT !.pc = "send", !.produced = @ + 1, !.pos = NextPos(s), !.seq = 1,
                        !.hop = 1, !.x = 0]
  IN  /\ s.pc = "wait" /\ s.reply = "ok" /\ s.hop = Len(Order)
      /\ sess' = [sess EXCEPT ![r] =
                    IF s.client # "open" THEN Over(s, "done")
                    ELSE IF next.produced >= s.max_tokens THEN Over(next, "done") ELSE next]
      /\ UNCHANGED << up, lost, ended, inbox, busy, cache >>

\* The answer is over and the client has read it: tokens and their end, or an
\* error.
recv_end(r) ==
  /\ sess[r].client = "open" /\ sess[r].pc \in {"done", "error"}
  /\ sess' = [sess EXCEPT ![r].client = IF sess[r].pc = "done" THEN "complete" ELSE "failed"]
  /\ UNCHANGED << up, lost, ended, inbox, busy, cache >>

\* A token of a stream, or a whole answer, cannot be decoded: an error for the
\* client.  The stream is over and its receiver dropped; drive runs on.
decode_fails(r) ==
  /\ sess[r].client = "open"
  /\ IF sess[r].stream THEN sess[r].produced > 0 ELSE sess[r].pc = "done"
  /\ sess' = [sess EXCEPT ![r].client = "failed"]
  /\ UNCHANGED << up, lost, ended, inbox, busy, cache >>

\* The client of a whole answer goes away: the future of generate is dropped
\* where it waits, and with it both halves of the open stream.
cancel(r) ==
  /\ Active(r) /\ ~sess[r].stream
  /\ sess' = [sess EXCEPT ![r] = [Over(@, "cancelled") EXCEPT
                !.client = "left", !.written = sess[r].written, !.seq = sess[r].seq,
                !.hop = sess[r].hop]]
  /\ UNCHANGED << up, lost, ended, inbox, busy, cache >>

\* The client of a stream goes away: drive runs on in its own task.
hang_up(r) ==
  /\ sess[r].pc # "new" /\ sess[r].stream /\ sess[r].client = "open"
  /\ sess' = [sess EXCEPT ![r].client = "left"]
  /\ UNCHANGED << up, lost, ended, inbox, busy, cache >>

-----------------------------------------------------------------------------
(* serve_peer: one loop per connection and direction. *)

\* A loop is over: its streams and its caches are dropped.  The connection is
\* not closed: the coordinator's map holds it too.
End(ls) ==
  /\ ended' = ended \cup ls
  /\ inbox' = [l \in Loops |-> IF l \in ls THEN << >> ELSE inbox[l]]
  /\ busy' = [l \in Loops |-> IF l \in ls THEN None ELSE busy[l]]
  /\ cache' = [n \in Members |-> [r \in Requests |->
                 IF << n, sess[r].at >> \in ls THEN None ELSE cache[n][r]]]

Serving(l, r) == l \notin ended /\ busy[l] = r

accept_bi(l) ==
  /\ l \notin ended /\ busy[l] = None /\ inbox[l] # << >>
  /\ busy' = [busy EXCEPT ![l] = Head(inbox[l])]
  /\ inbox' = [inbox EXCEPT ![l] = Tail(@)]
  /\ UNCHANGED << up, lost, ended, cache, sess >>

\* The stream ended before its frames: `?` ends the loop.
read_fails(l, r) ==
  /\ Serving(l, r) /\ sess[r].pc = "cancelled" /\ ~sess[r].written
  /\ End({l})
  /\ UNCHANGED << up, lost, sess >>

CacheLen(p, r) == IF cache[p][r] = None THEN 0 ELSE cache[p][r]

\* KvCacheSlot::append panics past max_position_embeddings.
Overflows(p, r) == Layers(p) # {} /\ CacheLen(p, r) + sess[r].seq > MaxPos

\* The frame of an empty prompt reached the tail, which has no last position to
\* take the logits of.
Logitless(r) == sess[r].seq = 0 /\ sess[r].hop = Len(Order)

\* The panic unwinds the loop's task; the coordinator sees its stream cut.  The
\* tensor library may refuse the empty activations of an empty prompt anywhere.
panics(l, r) ==
  /\ Serving(l, r) /\ sess[r].written
  /\ Overflows(l[1], r) \/ sess[r].seq = 0
  /\ End({l})
  /\ sess' = [sess EXCEPT ![r].reply = "cut"]
  /\ UNCHANGED << up, lost >>

\* The activations after the layers of p: Embed at the first hop, for which p
\* must host the embedding, and the output at the last, a terminal Relay, for
\* which it must host the output (None: an error or a wrong result).
Applied(p, hop, x) ==
  LET a    == for_node(Manifest, p)
      from == IF hop = 1 THEN (IF a.hosts_embedding THEN 0 ELSE None) ELSE x
      to   == IF Layers(p) = {} THEN from
              ELSE IF from # None /\ from = a.start THEN a.end ELSE None
  IN  IF hop < Len(Order) THEN to
      ELSE IF a.hosts_output /\ to = NLayers THEN NLayers + 1 ELSE None

Answered(s, p) == [s EXCEPT !.x = Applied(p, s.hop, @), !.reply = "ok"]

\* The frames are read, the caches advance (they are created on the request's
\* first frame) and the answer is written.  Nobody sends End: they stay.
serve(l, r) ==
  LET p == l[1] IN
  /\ Serving(l, r) /\ sess[r].written /\ ~Overflows(p, r) /\ ~Logitless(r)
  /\ cache' = [cache EXCEPT ![p][r] = CacheLen(p, r) + (IF Layers(p) = {} THEN 0 ELSE sess[r].seq)]
  /\ busy' = [busy EXCEPT ![l] = None]
  /\ sess' = [sess EXCEPT ![r] = IF Active(r) THEN Answered(@, p) ELSE @]
  /\ UNCHANGED << up, lost, ended, inbox >>

\* The coordinator dropped the receive side before the answer was written.
write_fails(l, r) ==
  /\ Serving(l, r) /\ sess[r].written /\ sess[r].pc = "cancelled"
  /\ ~Overflows(l[1], r) /\ ~Logitless(r)
  /\ End({l})
  /\ UNCHANGED << up, lost, sess >>

-----------------------------------------------------------------------------
(* Connections and processes. *)

\* Mutant of Hangs: keep-alive packets hold the connection open.
Hangs_kept_alive(k) == FALSE

\* A stream hangs on k: nothing is sent on it, because every stream on it waits
\* for a loop that is over.  Then the QUIC idle timeout runs: no keep-alive is
\* configured.
Hangs(k) ==
  LET on == {r \in Requests : Active(r) /\ Conn(r) = k} IN
  /\ on # {}
  /\ \A r \in on : sess[r].pc = "wait" /\ sess[r].reply = "none" /\ Loop(r) \in ended

\* A crash loses the loopback of its node, so this counts both.
FaultLeft == Cardinality(lost) < MaxFaults

\* A connection is closed at both ends: accept_bi fails and the loops break.
\* It may time out or fail at any time.
conn_lost(k) ==
  /\ k \notin lost /\ (Hangs(k) \/ FaultLeft)
  /\ lost' = lost \cup {k}
  /\ End({l \in Loops : {l[1], l[2]} = k})
  /\ UNCHANGED << up, sess >>

idle_timeout(k) == Hangs(k) /\ conn_lost(k)

\* A process dies with its loops, the sessions it coordinates and the
\* connections of their clients.  Other nodes only notice when their own
\* connections to it time out.
crash(n) ==
  /\ up[n] /\ FaultLeft
  /\ up' = [up EXCEPT ![n] = FALSE]
  /\ lost' = lost \cup {{n}}
  /\ End({l \in Loops : l[1] = n})
  /\ sess' = [r \in Requests |->
                LET s == sess[r]
                    t == IF Active(r) THEN [s EXCEPT !.pc = "error"] ELSE s
                IN  IF s.at # n THEN s
                    ELSE IF s.client = "open" THEN [t EXCEPT !.client = "failed"] ELSE t]

-----------------------------------------------------------------------------
Session(r) == open_hop(r) \/ finish_hop(r) \/ hop_fails(r) \/ next_hop(r) \/ pass_done(r)
Peer(l) == accept_bi(l) \/ \E r \in Requests : read_fails(l, r) \/ panics(l, r) \/ serve(l, r)

Faults == \/ \E l \in Loops, r \in Requests : write_fails(l, r)
          \/ \E r \in Requests : decode_fails(r) \/ cancel(r) \/ hang_up(r)
          \/ \E k \in Conns : conn_lost(k)
          \/ \E n \in Members : crash(n)

Clients == \E r \in Requests, n \in Ingress, stream \in BOOLEAN, limit \in TokenLimits :
             \E prompt \in PromptLens[r] : start(r, n, stream, prompt, limit)

Next == \/ Clients \/ Faults
        \/ \E r \in Requests : Session(r) \/ recv_end(r)
        \/ \E l \in Loops : Peer(l)

Spec == Init /\ [][Next]_vars

\* Tasks that can run do, a client reads its answer or leaves, and an idle
\* connection times out.  Only the loops and connections of coordinating nodes
\* ever carry a stream.
FairSpec == /\ Spec
            /\ \A r \in Requests : WF_vars(Session(r)) /\ WF_vars(recv_end(r))
            /\ \A p \in Members, c \in Ingress :
                 WF_vars(Peer(<< p, c >>)) /\ WF_vars(idle_timeout({p, c}))

-----------------------------------------------------------------------------
(* Properties. *)

(***************************************************************************)
(* CacheInStep: when a loop is about to serve a frame its KV cache for the *)
(* request holds exactly the positions before seq_pos.  drive computes     *)
(* seq_pos from prompt and tokens produced, each peer appends at its own   *)
(* length, and a loop that lost its caches must never be used on.          *)
(***************************************************************************)
CacheInStep ==
  \A l \in Loops, r \in Requests :
    Serving(l, r) /\ Active(r) /\ Layers(l[1]) # {} => CacheLen(l[1], r) = sess[r].pos

(***************************************************************************)
(* WholePass: the logits a token is sampled from went from the embedding   *)
(* through layers 0 .. NLayers-1, once each and in order, to the output    *)
(* projection, in whatever order the nodes are configured and whichever    *)
(* node coordinates.                                                       *)
(***************************************************************************)
WholePass ==
  \A r \in Requests :
    sess[r].pc = "wait" /\ sess[r].reply = "ok" /\ sess[r].hop = Len(Order)
      => sess[r].x = NLayers + 1

\* The call as its client sees it.
Status(s) == IF s.pc = "new" THEN "idle" ELSE s.client

\* The first token is sampled before max_tokens is looked at.
Gen(r) == INSTANCE Generation WITH
  Limits <- TokenLimits,
  Floor  <- 1,
  Cuts   <- FALSE,
  status <- Status(sess[r]),
  count  <- IF sess[r].client # "left" THEN sess[r].produced ELSE 0,
  limit  <- IF sess[r].client # "left" THEN sess[r].max_tokens ELSE 0,
  eos    <- FALSE

(***************************************************************************)
(* ImplementsGeneration: an answer is a generation as Generation promises  *)
(* it.  One that ends well for a client that stayed has max_tokens tokens  *)
(* (one, if it asked for none): a peer, a serve loop or a connection lost  *)
(* on the way, a reply cut short or a panic at an empty prompt is an       *)
(* error, never a short answer.                                            *)
(***************************************************************************)
ImplementsGeneration ==
  /\ \A r \in Requests : Gen(r)!Init
  /\ [][\A r \in Requests : Gen(r)!Step]_vars

(***************************************************************************)
(* EverySessionEnds: a session never hangs for good, neither on a node     *)
(* that died nor on a serve loop that an earlier request ended while its   *)
(* connection stayed open: the idle timeout turns the wait into an error,  *)
(* and the answer of its client ends too.  Each request is sent at most    *)
(* once, so in the end none is active.                                     *)
(***************************************************************************)
EverySessionEnds ==
  <>[](\A r \in Requests : ~Active(r) /\ Status(sess[r]) # "open")
=============================================================================
