---------------------------- MODULE ClusterStar ----------------------------
(***************************************************************************)
(* The leader/worker cluster of crates/ai-engine-cluster: leader.rs (start,*)
(* generate, generate_stream, step_through_cluster_session), session.rs,   *)
(* worker.rs (run_worker_full) and the leader half of provider.rs.         *)
(*                                                                         *)
(* The leader joins the workers one after the other, distributes the       *)
(* manifest, then runs any number of sessions; each forward step of a      *)
(* session goes through the workers in turn over a bidi stream of its own. *)
(* A worker serves one stream at a time, keeps a KV cache per request, and *)
(* ends with the first error it meets.  Activations are abstracted to the  *)
(* layers they went through, and a cache to its length.                    *)
(***************************************************************************)
EXTENDS Partition

CONSTANTS Requests,     \* chat requests, once each
          Caps,         \* the capabilities of cfg.workers, in that order
          Override,     \* cfg.partition_override, or None
          MaxPos,       \* max_position_embeddings
          PromptLens,   \* per request, the prompt lengths in tokens, 0 among them
                        \* if the tokenizer adds nothing to an empty text
          TokenLimits,  \* values of max_tokens
          ChannelCap,   \* tokens the channel of generate_stream holds
          None

ASSUME StarAssumption ==
  /\ Caps \in Seq(Capability) /\ Len(Caps) > 0
  /\ \A i, j \in DOMAIN Caps : i # j => Caps[i].node # Caps[j].node
  /\ Override = None \/ Override \in Seq(ManualRange)
  /\ MaxPos \in Nat /\ ChannelCap \in Nat \ {0} /\ TokenLimits \subseteq Nat
  /\ PromptLens \in [Requests -> SUBSET Nat]
  /\ None \notin Requests /\ None \notin Nat

VARIABLES
  phase,    \* ClusterLeader::start, then the life of the leader process
  joined,   \* workers whose handshake is done
  assigned, \* workers that were sent their Assignment
  worker,   \* where run_worker_full stands on each worker
  fate,     \* history: why a worker ended
  inbox,    \* bidi streams opened to each worker and not accepted yet
  busy,     \* the stream a worker is serving
  cache,    \* request_caches: the KV length per request
  sess      \* the RequestSession of each request and its client

startup == << phase, joined, assigned >>
workers == << worker, fate, inbox, busy, cache >>
vars    == << startup, workers, sess >>

Workers == {Caps[i].node : i \in DOMAIN Caps}

\* The manifest the leader computes once every capability is in.
Manifest == IF Override = None THEN agreed_manifest(Caps) ELSE manual_partition(Caps, Override)

Hosted(w) == w \in Nodes(Manifest)
Layers(w) == LET a == for_node(Manifest, w) IN a.start .. (a.end - 1)

\* Mutant of Hop: the connections are walked backwards.
Hop_reversed(i) == Caps[Len(Caps) - i + 1].node

\* worker_conns: the connections in the order the workers were dialled.
Hop(i) == Caps[i].node

\* A session and what its client has got of it: the tokens sent to it, those
\* still unread in the channel of a stream, and how the answer ended for it.
\* x: how many layers the activations went through in order, None once wrong.
Idle == [pc |-> "new", stream |-> FALSE, max_tokens |-> 0, pos |-> 0, seq |-> 0, hop |-> 1,
         x |-> 0, written |-> FALSE, reply |-> FALSE, produced |-> 0, unread |-> 0,
         client |-> "open"]

Sessions ==
  [pc : {"new", "send", "write", "wait", "push", "done", "error", "panicked", "cancelled"},
   stream : BOOLEAN, max_tokens : TokenLimits \cup {0}, pos : Nat, seq : Nat,
   hop : 1 .. Len(Caps), x : 0 .. NLayers \cup {None}, written : BOOLEAN, reply : BOOLEAN,
   produced : Nat, unread : 0 .. ChannelCap,
   client : {"open", "complete", "failed", "cut", "left"}]

TypeOK ==
  /\ phase \in {"join", "assign", "serve", "failed", "stopped"}
  /\ joined \in 0 .. Len(Caps) /\ assigned \in 0 .. Len(Caps)
  /\ worker \in [Workers -> {"accept", "joined", "assigned", "serve", "exited"}]
  /\ fate \in [Workers -> {"alive", "crash", "load", "eof", "read", "write", "overflow",
                      "empty"}]
  /\ inbox \in [Workers -> Seq(Requests)]
  /\ busy \in [Workers -> Requests \cup {None}]
  /\ cache \in [Workers -> [Requests -> 0 .. MaxPos \cup {None}]]
  /\ sess \in [Requests -> Sessions]

Init ==
  /\ phase = "join" /\ joined = 0 /\ assigned = 0
  /\ worker = [w \in Workers |-> "accept"]
  /\ fate = [w \in Workers |-> "alive"]
  /\ inbox = [w \in Workers |-> << >>]
  /\ busy = [w \in Workers |-> None]
  /\ cache = [w \in Workers |-> [r \in Requests |-> None]]
  /\ sess = [r \in Requests |-> Idle]

-----------------------------------------------------------------------------
(* Workers end with their process: connection, streams and caches go too. *)

Exit(w, why) ==
  /\ worker' = [worker EXCEPT ![w] = "exited"]
  /\ fate' = [fate EXCEPT ![w] = why]
  /\ inbox' = [inbox EXCEPT ![w] = << >>]
  /\ busy' = [busy EXCEPT ![w] = None]
  /\ cache' = [cache EXCEPT ![w] = [r \in Requests |-> None]]
  /\ UNCHANGED startup

crash(w) ==
  /\ worker[w] # "exited"
  /\ Exit(w, "crash")
  /\ UNCHANGED sess

\* The leader is gone: accept_bi or a pending read fails.
conn_closed(w) ==
  /\ phase \in {"failed", "stopped"} /\ worker[w] \notin {"accept", "exited"}
  /\ Exit(w, "eof")
  /\ UNCHANGED sess

-----------------------------------------------------------------------------
(* ClusterLeader::start. *)

\* Connect, Join, JoinAck, Capability with the next worker of cfg.workers.
join ==
  LET w == Caps[joined + 1].node IN
  /\ phase = "join" /\ worker[w] = "accept"
  /\ worker' = [worker EXCEPT ![w] = "joined"]
  /\ joined' = joined + 1
  /\ phase' = IF joined' < Len(Caps) THEN "join"
              ELSE IF Manifest = Err THEN "failed" ELSE "assign"
  /\ UNCHANGED << assigned, fate, inbox, busy, cache, sess >>

\* Send the Assignment to the next worker.
assign ==
  LET w == Caps[assigned + 1].node IN
  /\ phase = "assign" /\ worker[w] = "joined"
  /\ worker' = [worker EXCEPT ![w] = "assigned"]
  /\ assigned' = assigned + 1
  /\ phase' = IF assigned' < Len(Caps) THEN "assign" ELSE "serve"
  /\ UNCHANGED << joined, fate, inbox, busy, cache, sess >>

\* A worker is not there: start returns the error and the process ends.
start_fails ==
  /\ \/ phase = "join" /\ worker[Caps[joined + 1].node] = "exited"
     \/ phase = "assign" /\ worker[Caps[assigned + 1].node] = "exited"
  /\ phase' = "failed"
  /\ UNCHANGED << joined, assigned, workers, sess >>

\* The worker finds its range in the manifest and loads the weights.
load(w) ==
  /\ worker[w] = "assigned" /\ Hosted(w)
  /\ worker' = [worker EXCEPT ![w] = "serve"]
  /\ UNCHANGED << startup, fate, inbox, busy, cache, sess >>

\* It has no range, or the weights cannot be read.
load_fails(w) ==
  /\ worker[w] = "assigned"
  /\ Exit(w, "load")
  /\ UNCHANGED sess

-----------------------------------------------------------------------------
(* Sessions: generate and generate_stream. *)

Active(r) == sess[r].pc \in {"send", "write", "wait", "push"}

\* The locals of generate are dropped; what the client got remains.
Over(s, how) == [Idle EXCEPT !.pc = how, !.stream = s.stream, !.max_tokens = s.max_tokens,
                             !.produced = s.produced, !.unread = s.unread, !.client = s.client]

\* chat or chat_stream: the prompt is tokenised, a fresh session is built and
\* the prefill step begins; or one of the two fails.
start(r, stream, prompt, max_tokens) ==
  LET s == [Idle EXCEPT !.stream = stream, !.max_tokens = max_tokens] IN
  /\ phase = "serve" /\ sess[r].pc = "new"
  /\ \/ sess' = [sess EXCEPT ![r] = [s EXCEPT !.pc = "send", !.seq = prompt]]
     \/ sess' = [sess EXCEPT ![r] = [s EXCEPT !.pc = "error"]]
  /\ UNCHANGED << startup, workers >>

\* open_bi and the first bytes of the header: the worker can accept the stream.
open_hop(r) ==
  LET w == Hop(sess[r].hop) IN
  /\ sess[r].pc = "send" /\ worker[w] # "exited"
  /\ inbox' = [inbox EXCEPT ![w] = Append(@, r)]
  /\ sess' = [sess EXCEPT ![r].pc = "write", ![r].written = FALSE, ![r].reply = FALSE]
  /\ UNCHANGED << startup, worker, fate, busy, cache >>

\* Header and payload are written and the send side is finished.
finish_hop(r) ==
  /\ sess[r].pc = "write"
  /\ sess' = [sess EXCEPT ![r].pc = "wait", ![r].written = TRUE]
  /\ UNCHANGED << startup, workers >>

\* Mutant of hop_fails: the error ends the answer as if it were complete.
hop_fails_quietly(r) ==
  /\ sess[r].pc \in {"send", "write", "wait"} /\ worker[Hop(sess[r].hop)] = "exited"
  /\ sess' = [sess EXCEPT ![r] = Over(@, "done")]
  /\ UNCHANGED << startup, workers >>

\* Mutant of hop_fails: a read does not notice that the worker is gone.
hop_fails_unread(r) ==
  /\ sess[r].pc \in {"send", "write"} /\ worker[Hop(sess[r].hop)] = "exited"
  /\ sess' = [sess EXCEPT ![r] = Over(@, "error")]
  /\ UNCHANGED << startup, workers >>

\* open_bi, a write or a read fails because the worker has ended.
hop_fails(r) ==
  /\ sess[r].pc \in {"send", "write", "wait"} /\ worker[Hop(sess[r].hop)] = "exited"
  /\ sess' = [sess EXCEPT ![r] = Over(@, "error")]
  /\ UNCHANGED << startup, workers >>

\* The reply of a hop that is not the last: on to the next worker.
next_hop(r) ==
  /\ sess[r].pc = "wait" /\ sess[r].reply /\ sess[r].hop < Len(Caps)
  /\ sess' = [sess EXCEPT ![r].pc = "send", ![r].hop = @ + 1]
  /\ UNCHANGED << startup, workers >>

\* Mutant of sampled: after the prefill the position moves by one token only.
sampled_pos(s) == [s EXCEPT !.pos = @ + 1, !.seq = 1, !.hop = 1, !.x = 0]

\* The logits are sampled: current_pos moves over the tokens just fed, and the
\* next step feeds the token sampled.
sampled(s) == [s EXCEPT !.pos = @ + s.seq, !.seq = 1, !.hop = 1, !.x = 0]

\* A token for the client: the last one, or another step follows.
Handed(s) == LET t == [s EXCEPT !.produced = @ + 1] IN
             IF t.produced >= t.max_tokens THEN Over(t, "done") ELSE [t EXCEPT !.pc = "send"]

\* The reply of the last hop.  A whole answer keeps the token, a stream sends it.
step_done(r) ==
  LET s    == sess[r]
      next == sampled(s)
  IN  /\ s.pc = "wait" /\ s.reply /\ s.hop = Len(Caps) /\ s.seq > 0
      /\ sess' = [sess EXCEPT ![r] = IF s.stream THEN [next EXCEPT !.pc = "push"] ELSE Handed(next)]
      /\ UNCHANGED << startup, workers >>

\* The step of an empty prompt: there is no last position to take the logits of
\* (nor may the tensor library accept empty ones), and the task panics.
panics(r) ==
  LET s == sess[r] IN
  /\ s.seq = 0
  /\ \/ s.pc = "send" /\ s.hop = 1
     \/ s.pc = "wait" /\ s.reply /\ s.hop = Len(Caps)
  /\ sess' = [sess EXCEPT ![r] = Over(s, "panicked")]
  /\ UNCHANGED << startup, workers >>

\* tx.send of a token: it waits for room in the channel.
push(r) ==
  /\ sess[r].pc = "push" /\ sess[r].client = "open" /\ sess[r].unread < ChannelCap
  /\ sess' = [sess EXCEPT ![r] = Handed([sess[r] EXCEPT !.unread = sess[r].unread + 1])]
  /\ UNCHANGED << startup, workers >>

\* Nobody is there to receive it: the task returns.
push_fails(r) ==
  /\ sess[r].pc = "push" /\ sess[r].client # "open"
  /\ sess' = [sess EXCEPT ![r] = Over(@, "done")]
  /\ UNCHANGED << startup, workers >>

-----------------------------------------------------------------------------
(* The clients: provider.rs turns tokens into text.                        *)

\* The stream the client reads takes a token out of the channel.
recv(r) ==
  /\ sess[r].client = "open" /\ sess[r].unread > 0
  /\ sess' = [sess EXCEPT ![r].unread = @ - 1]
  /\ UNCHANGED << startup, workers >>

\* The session is over and every token read.  An error is an item of its own;
\* a channel whose sender is gone with a panic ends like one that is done, and
\* the stream with it.  A whole answer goes down with its task.
recv_end(r) ==
  LET s == sess[r] IN
  /\ s.client = "open" /\ s.unread = 0
  /\ s.pc \in {"done", "error", "panicked"}
  /\ sess' = [sess EXCEPT ![r].client = IF s.pc = "done" THEN "complete"
                                        ELSE IF s.pc = "panicked" /\ s.stream THEN "cut"
                                        ELSE "failed"]
  /\ UNCHANGED << startup, workers >>

\* A token, or the whole answer, cannot be decoded.
decode_fails(r) ==
  /\ sess[r].client = "open"
  /\ sess[r].unread > 0 \/ (~sess[r].stream /\ sess[r].pc = "done")
  /\ sess' = [sess EXCEPT ![r].client = "failed", ![r].unread = 0]
  /\ UNCHANGED << startup, workers >>

\* The client of a whole answer goes away: the future of generate is dropped
\* where it waits, and with it both halves of the open stream.
cancel(r) ==
  /\ Active(r) /\ ~sess[r].stream
  /\ sess' = [sess EXCEPT ![r] = [Over(@, "cancelled") EXCEPT
                !.client = "left", !.written = sess[r].written, !.seq = sess[r].seq]]
  /\ UNCHANGED << startup, workers >>

\* The client of a stream goes away: only the receiver is dropped.
hang_up(r) ==
  /\ sess[r].pc # "new" /\ sess[r].stream /\ sess[r].client = "open"
  /\ sess' = [sess EXCEPT ![r].client = "left", ![r].unread = 0]
  /\ UNCHANGED << startup, workers >>

\* The leader process ends, and with it its sessions and the connections of
\* their clients.
leader_stops ==
  /\ phase = "serve"
  /\ phase' = "stopped"
  /\ sess' = [r \in Requests |->
                LET s == sess[r]
                    t == IF Active(r) THEN [s EXCEPT !.pc = "error"] ELSE s
                IN  IF s.pc # "new" /\ s.client = "open"
                    THEN [t EXCEPT !.client = "failed", !.unread = 0] ELSE t]
  /\ UNCHANGED << joined, assigned, workers >>

-----------------------------------------------------------------------------
(* run_worker_full: the serving loop. *)

Serving(w, r) == worker[w] = "serve" /\ busy[w] = r

accept_bi(w) ==
  /\ worker[w] = "serve" /\ busy[w] = None /\ inbox[w] # << >>
  /\ busy' = [busy EXCEPT ![w] = Head(inbox[w])]
  /\ inbox' = [inbox EXCEPT ![w] = Tail(@)]
  /\ UNCHANGED << startup, worker, fate, cache, sess >>

\* The stream ended before the frames it should hold.
read_fails(w, r) ==
  /\ Serving(w, r) /\ sess[r].pc = "cancelled" /\ ~sess[r].written
  /\ Exit(w, "read")
  /\ UNCHANGED sess

CacheLen(w, r) == IF cache[w][r] = None THEN 0 ELSE cache[w][r]

\* Mutant of Overflows: the bound of the cache is off by one.
Overflows_off_by_one(w, r) == Layers(w) # {} /\ CacheLen(w, r) + sess[r].seq > MaxPos + 1

\* KvCacheSlot::append panics past max_seq; a worker without layers has no slot.
Overflows(w, r) == Layers(w) # {} /\ CacheLen(w, r) + sess[r].seq > MaxPos

overflow(w, r) ==
  /\ Serving(w, r) /\ sess[r].written /\ Overflows(w, r)
  /\ Exit(w, "overflow")
  /\ UNCHANGED sess

\* The tensor library may refuse the empty activations of an empty prompt.
empty_panics(w, r) ==
  /\ Serving(w, r) /\ sess[r].written /\ sess[r].seq = 0 /\ Layers(w) # {}
  /\ Exit(w, "empty")
  /\ UNCHANGED sess

\* The layers of the worker are applied to the activations.
Applied(w, x) == IF Layers(w) = {} THEN x
                 ELSE IF x # None /\ x = Min(Layers(w)) THEN Max(Layers(w)) + 1 ELSE None

\* The frames are read, the caches of the request advance (they are created
\* on its first frame) and the result is written back.  is_terminal is never
\* set by the leader, so the caches stay.
serve(w, r) ==
  /\ Serving(w, r) /\ sess[r].written /\ ~Overflows(w, r)
  /\ cache' = [cache EXCEPT ![w][r] = CacheLen(w, r) + (IF Layers(w) = {} THEN 0 ELSE sess[r].seq)]
  /\ busy' = [busy EXCEPT ![w] = None]
  /\ sess' = IF Active(r) THEN [sess EXCEPT ![r].x = Applied(w, @), ![r].reply = TRUE] ELSE sess
  /\ UNCHANGED << startup, worker, fate, inbox >>

\* The leader dropped the receive side before the result was written.
write_fails(w, r) ==
  /\ Serving(w, r) /\ sess[r].written /\ sess[r].pc = "cancelled" /\ ~Overflows(w, r)
  /\ Exit(w, "write")
  /\ UNCHANGED sess

-----------------------------------------------------------------------------
Leader == join \/ assign \/ start_fails
Session(r) == \/ open_hop(r) \/ finish_hop(r) \/ hop_fails(r) \/ next_hop(r)
              \/ step_done(r) \/ panics(r) \/ push(r) \/ push_fails(r)
Reader(r) == recv(r) \/ recv_end(r)
Worker(w) == \/ conn_closed(w) \/ load(w) \/ accept_bi(w)
             \/ \E r \in Requests : read_fails(w, r) \/ overflow(w, r) \/ serve(w, r)

Faults == \/ \E w \in Workers : crash(w) \/ load_fails(w)
          \/ \E w \in Workers, r \in Requests : write_fails(w, r) \/ empty_panics(w, r)
          \/ \E r \in Requests : decode_fails(r) \/ cancel(r) \/ hang_up(r)
          \/ leader_stops

Clients == \E r \in Requests, stream \in BOOLEAN, limit \in TokenLimits :
             \E prompt \in PromptLens[r] : start(r, stream, prompt, limit)

Next == \/ Leader \/ Clients \/ Faults
        \/ \E r \in Requests : Session(r) \/ Reader(r)
        \/ \E w \in Workers : Worker(w)

Spec == Init /\ [][Next]_vars

\* Tasks that can run do, a worker's load ends one way or the other, and a
\* client reads its answer or leaves.
FairSpec == /\ Spec /\ WF_vars(Leader)
            /\ \A r \in Requests : WF_vars(Session(r)) /\ WF_vars(Reader(r))
            /\ \A w \in Workers : WF_vars(Worker(w) \/ load_fails(w))

-----------------------------------------------------------------------------
(* Properties. *)

(***************************************************************************)
(* CacheInStep: when a worker is about to serve a frame, its KV cache for  *)
(* the request holds exactly the positions before header.seq_pos.  The two *)
(* are kept by different processes (the cache appends at its own length,   *)
(* RoPE uses the leader's current_pos), so any slip would attend to the    *)
(* wrong keys without an error.                                            *)
(***************************************************************************)
CacheInStep ==
  \A w \in Workers, r \in Requests :
    Serving(w, r) /\ Active(r) /\ Layers(w) # {} => CacheLen(w, r) = sess[r].pos

(***************************************************************************)
(* WholePass: the activations a token is sampled from went through layers  *)
(* 0 .. NLayers-1, once each and in order, whatever other sessions,        *)
(* crashes and cancellations the workers see.                              *)
(***************************************************************************)
WholePass ==
  \A r \in Requests :
    sess[r].pc = "wait" /\ sess[r].reply /\ sess[r].hop = Len(Caps) => sess[r].x = NLayers

\* The call as its client sees it.
Status(s) == IF s.pc = "new" THEN "idle" ELSE s.client

\* The first token is sampled before max_tokens is looked at.  Only the stream
\* of an empty prompt may be cut.
Gen(r) == INSTANCE Generation WITH
  Limits <- TokenLimits,
  Floor  <- 1,
  Cuts   <- 0 \in PromptLens[r],
  status <- Status(sess[r]),
  count  <- IF sess[r].client # "left" THEN sess[r].produced ELSE 0,
  limit  <- IF sess[r].client # "left" THEN sess[r].max_tokens ELSE 0,
  eos    <- FALSE

(***************************************************************************)
(* ImplementsGeneration: a session is a generation as Generation promises  *)
(* it.  One that ends well for a client that stayed has produced           *)
(* max_tokens tokens (one, if it asked for none): a worker that dies       *)
(* between two hops, a token that cannot be decoded or a leader that stops *)
(* is an error, never a short answer.  The exception is a stream for an    *)
(* empty prompt: its task panics, and it ends with "stop" and no token.    *)
(* No model end-of-text is looked at.                                      *)
(***************************************************************************)
ImplementsGeneration ==
  /\ \A r \in Requests : Gen(r)!Init
  /\ [][\A r \in Requests : Gen(r)!Step]_vars

(***************************************************************************)
(* EverySessionEnds: a session never hangs on a worker that died, on one   *)
(* that failed to load, on the sessions queued before it or on a channel   *)
(* that is full: it ends with its tokens or with an error, and so does the *)
(* answer of its client.  Each request is sent at most once, so in the end *)
(* none is active.                                                         *)
(***************************************************************************)
EverySessionEnds ==
  <>[](\A r \in Requests : ~Active(r) /\ Status(sess[r]) # "open")

(***************************************************************************)
(* WorkerOutlivesRequests: no request ends a worker.  run_worker says "Run *)
(* the worker forever. Returns only when the QUIC endpoint stops accepting *)
(* connections (e.g., the process is shutting down)."                      *)
(***************************************************************************)
WorkerOutlivesRequests ==
  \A w \in Workers : fate[w] \notin {"read", "write", "overflow", "empty"}
=============================================================================
