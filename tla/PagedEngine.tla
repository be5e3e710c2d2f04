----------------------------- MODULE PagedEngine -----------------------------
(***************************************************************************)
(* The continuous-batching scheduler of the candle backend                 *)
(* (crates/ai-engine-candle/src/paged/engine.rs), the KV pool it writes    *)
(* (paged/attention.rs, paged/transformer.rs) and the way the provider     *)
(* feeds it and reads its answers (provider.rs, Backend::Paged).           *)
(*                                                                         *)
(* One scheduler thread owns the allocator, the KV pools and the list of   *)
(* running sequences; clients reach it only through the submit channel and *)
(* one reply channel per request, and may drop their receiver at any time. *)
(* Tokens are abstracted to "tok" and "eos", errors to their cause, and a  *)
(* K/V row to the (request, position) it was computed for.                 *)
(***************************************************************************)
EXTENDS BlockTable

CONSTANTS Requests,     \* the requests clients may submit, once each
          MaxNumSeqs,   \* cfg.max_num_seqs
          MaxSeq,       \* cfg.max_seq, the model's context length
          Asks,         \* what each client may ask: Asks[r] is a set of Jobs
          None          \* a K/V row never written

\* A whole answer or a stream, prompt_ids.len() and max_tokens.
Jobs == [stream : BOOLEAN, prompt : Nat, max_tokens : Nat]

ASSUME EngineAssumption == /\ MaxNumSeqs \in Nat
                           /\ MaxSeq \in Nat
                           /\ Asks \in [Requests -> SUBSET Jobs]
                           /\ None \notin Requests \X Nat

VARIABLES
  open,       \* some Engine handle (submit_tx) is alive
  queue,      \* the submit channel
  pc,         \* where run_loop stands
  running,    \* `running`, or the part of it a pass has already kept
  todo,       \* the sequences a pass over `running` has still to visit
  free,       \* BlockAllocator.free
  table,      \* Seq.table of each request
  pos,        \* Seq.pos
  produced,   \* Seq.produced
  job,        \* what was asked
  state,      \* where a request is: "new", "queued", "running" or "done"
  reply,      \* what its client has seen of the answer: "open" until it ends
  sent,       \* the items the reader of the reply channel could receive, in order
  sampled,    \* the last token sampled while there was one
  kv          \* the K/V rows of a layer's pool

alloc    == << free, table >>
progress == << pos, produced, sampled >>
vars     == << open, queue, pc, running, todo, alloc, progress, job, state,
               reply, sent, kv >>

Tokens == {"tok", "eos"}
Errors == {"context", "exhausted", "forward"}
Ends   == {"complete", "failed", "cut", "left"}

TypeOK ==
  /\ open \in BOOLEAN
  /\ queue \in Seq(Requests) /\ running \in Seq(Requests) /\ todo \in Seq(Requests)
  /\ pc \in {"admit", "reserve", "decode", "sample", "fail", "stopped"}
  /\ free \in Seq(Blocks)
  /\ table \in [Requests -> Seq(Blocks)]
  /\ pos \in [Requests -> Nat]
  /\ produced \in [Requests -> Nat]
  /\ job \in [Requests -> Jobs \cup {None}]
  /\ state \in [Requests -> {"new", "queued", "running", "done"}]
  /\ reply \in [Requests -> {"open"} \cup Ends]
  /\ sent \in [Requests -> Seq(Tokens \cup Errors)]
  /\ sampled \in [Requests -> Tokens \cup {"none"}]
  /\ kv \in [Cells -> (Requests \X Nat) \cup {None}]

Init ==
  /\ open = TRUE
  /\ queue = << >> /\ running = << >> /\ todo = << >>
  /\ pc = "admit"
  /\ free = new
  /\ table = [r \in Requests |-> << >>]
  /\ pos = [r \in Requests |-> 0]
  /\ produced = [r \in Requests |-> 0]
  /\ job = [r \in Requests |-> None]
  /\ state = [r \in Requests |-> "new"]
  /\ reply = [r \in Requests |-> "open"]
  /\ sent = [r \in Requests |-> << >>]
  /\ sampled = [r \in Requests |-> "none"]
  /\ kv = [c \in Cells |-> None]

-----------------------------------------------------------------------------
(* Clients. *)

\* Engine::submit, called by chat and chat_stream.
submit(r, j) ==
  /\ open /\ state[r] = "new"
  /\ state' = [state EXCEPT ![r] = "queued"]
  /\ job' = [job EXCEPT ![r] = j]
  /\ queue' = Append(queue, r)
  /\ UNCHANGED << open, pc, running, todo, alloc, progress, reply, sent, kv >>

\* The reply channel is read by chat itself, or by the relay task of a stream.
Reading(r) == state[r] # "new" /\ reply[r] = "open"

\* The reader is done with the answer and drops its receiver.  The scheduler is not
\* told; its later sends fail and the failure is ignored.
Close(r, how) ==
  /\ reply' = [reply EXCEPT ![r] = how]
  /\ UNCHANGED << open, queue, pc, running, todo, alloc, progress, job, state, sent, kv >>

\* The client goes away, and nothing is known of its answer any more.
Disconnect(r) ==
  /\ Reading(r)
  /\ reply' = [reply EXCEPT ![r] = "left"]
  /\ sent' = [sent EXCEPT ![r] = << >>]
  /\ sampled' = [sampled EXCEPT ![r] = "none"]
  /\ UNCHANGED << open, queue, pc, running, todo, alloc, pos, produced, job, state, kv >>

\* An error item has been sent.
Failed(r) == \E i \in DOMAIN sent[r] : sent[r][i] \in Errors

\* The tokens that have been sent.
Got(r) == Len(sent[r]) - (IF Failed(r) THEN 1 ELSE 0)

\* The reader meets an error item, or a closed channel, which it takes for the end
\* of the answer.  The tokens of a whole answer may not decode.
read_end(r) ==
  /\ Reading(r)
  /\ \/ Failed(r) /\ Close(r, "failed")
     \/ state[r] = "done" /\ ~Failed(r) /\ Close(r, "complete")
     \/ state[r] = "done" /\ ~Failed(r) /\ ~job[r].stream /\ Close(r, "failed")

\* The relay task decodes all the tokens so far with each one, and gives up with an
\* error when it cannot.  Where a token completes a character begun before,
\* full[prev_text.len()..] may cut it and the slice panics: the client's channel
\* closes as after a whole answer.
relay_fails(r) ==
  /\ Reading(r) /\ job[r].stream
  /\ (Got(r) > 0 /\ Close(r, "failed")) \/ (Got(r) > 1 /\ Close(r, "cut"))

Reader(r) == Disconnect(r) \/ read_end(r) \/ relay_fails(r)

\* The last Arc<Engine> is dropped (a reload replaced the provider); streams
\* already handed out do not hold one.
DropEngine ==
  /\ open
  /\ open' = FALSE
  /\ UNCHANGED << queue, pc, running, todo, alloc, progress, job, state,
                  reply, sent, kv >>

-----------------------------------------------------------------------------
(* The scheduler thread. *)

\* `let _ = tx.send(item)`.
Sent(r, item) == IF reply[r] = "open" THEN [sent EXCEPT ![r] = Append(@, item)] ELSE sent

\* The K/V pool after rows lo .. hi-1 of r were written through table t.
KvWrite(t, r, lo, hi) ==
  [c \in Cells |-> IF \E p \in lo .. (hi - 1) : locate(t, p) = c
                   THEN << r, CHOOSE p \in lo .. (hi - 1) : locate(t, p) = c >>
                   ELSE kv[c]]

\* prefill answers without admitting the request: an error, or nothing at all.
Rejected(r) ==
  /\ state' = [state EXCEPT ![r] = "done"]
  /\ UNCHANGED << running, table, progress >>

prefill_zero_tokens(r) ==
  /\ job[r].max_tokens = 0
  /\ Rejected(r)
  /\ UNCHANGED << free, sent, kv >>

prefill_too_long(r) ==
  /\ job[r].max_tokens > 0 /\ job[r].prompt > MaxSeq
  /\ Rejected(r)
  /\ sent' = Sent(r, "context")
  /\ UNCHANGED << free, kv >>

prefill_exhausted(r) ==
  /\ job[r].max_tokens > 0 /\ job[r].prompt <= MaxSeq
  /\ ~Fits(free, << >>, job[r].prompt)
  /\ Rejected(r)
  /\ sent' = Sent(r, "exhausted")
  /\ UNCHANGED << free, kv >>

\* prefill_seq fails after writing some of the rows, or its logits cannot be
\* read; the blocks are given back.  An empty prompt always ends here.
prefill_fails(r) ==
  LET n == job[r].prompt
      t == Grown(free, << >>, n)
  IN  /\ job[r].max_tokens > 0 /\ n <= MaxSeq /\ Fits(free, << >>, n)
      /\ \E written \in 0 .. n : kv' = KvWrite(t, r, 0, written)
      /\ free' = Released(Popped(free, << >>, n), t)
      /\ Rejected(r)
      /\ sent' = Sent(r, "forward")

\* The prompt is in the pool and its first token is sampled and sent, with
\* no test for EOS or for max_tokens.
prefill_ok(r) ==
  LET n == job[r].prompt
      t == Grown(free, << >>, n)
  IN  /\ job[r].max_tokens > 0 /\ 0 < n /\ n <= MaxSeq /\ Fits(free, << >>, n)
      /\ kv' = KvWrite(t, r, 0, n)
      /\ free' = Popped(free, << >>, n)
      /\ table' = [table EXCEPT ![r] = t]
      /\ pos' = [pos EXCEPT ![r] = n]
      /\ produced' = [produced EXCEPT ![r] = 1]
      /\ \E token \in Tokens :
           /\ sampled' = [sampled EXCEPT ![r] = IF reply[r] = "open" THEN token ELSE @]
           /\ sent' = Sent(r, token)
      /\ state' = [state EXCEPT ![r] = "running"]
      /\ running' = Append(running, r)

prefill(r) ==
  \/ prefill_zero_tokens(r)
  \/ prefill_too_long(r)
  \/ prefill_exhausted(r)
  \/ prefill_fails(r)
  \/ prefill_ok(r)

\* Mutant of Admit: admits one sequence too many.
Admit_one_more ==
  /\ pc = "admit" /\ Len(running) <= MaxNumSeqs /\ queue # << >>
  /\ queue' = Tail(queue)
  /\ prefill(Head(queue))
  /\ UNCHANGED << open, pc, todo, job, reply >>

\* try_recv while the batch has room, or blocking_recv when it is empty.
Admit ==
  /\ pc = "admit"
  /\ Len(running) < MaxNumSeqs \/ running = << >>
  /\ queue # << >>
  /\ queue' = Tail(queue)
  /\ prefill(Head(queue))
  /\ UNCHANGED << open, pc, todo, job, reply >>

\* The batch is full or the channel is empty: start the capacity pass.
StartPass ==
  /\ pc = "admit" /\ running # << >>
  /\ Len(running) >= MaxNumSeqs \/ queue = << >>
  /\ pc' = "reserve"
  /\ todo' = running /\ running' = << >>
  /\ UNCHANGED << open, queue, alloc, progress, job, state, reply, sent, kv >>

\* Mutant of Stop: returns as soon as the handles are gone.
Stop_early ==
  /\ pc = "admit" /\ ~open /\ running = << >>
  /\ pc' = "stopped"
  /\ UNCHANGED << open, queue, running, todo, alloc, progress, job, state,
                  reply, sent, kv >>

\* Every handle is gone and the channel is drained: run_loop returns.
Stop ==
  /\ pc = "admit" /\ ~open /\ running = << >> /\ queue = << >>
  /\ pc' = "stopped"
  /\ UNCHANGED << open, queue, running, todo, alloc, progress, job, state,
                  reply, sent, kv >>

\* What a pass over `running` does after its last sequence.
NextPass(last) == IF Tail(todo) = << >> THEN last ELSE pc

\* After the capacity pass: decode the survivors, if any.
AfterReserve(kept) == NextPass(IF kept = << >> THEN "admit" ELSE "decode")

\* Mutant of Leave: the Seq is dropped without release.
Leave_leak(r) ==
  /\ state' = [state EXCEPT ![r] = "done"]
  /\ UNCHANGED alloc

\* A sequence leaves the batch: its blocks are released and its Seq, with the
\* sender of its reply channel, is dropped.
Leave(r) ==
  /\ free' = Released(free, table[r])
  /\ table' = [table EXCEPT ![r] = << >>]
  /\ state' = [state EXCEPT ![r] = "done"]

\* Mutant of Evict: the sequence is dropped without an error item.
Evict_silently(r, error) ==
  /\ Leave(r)
  /\ pc' = AfterReserve(running)
  /\ UNCHANGED << running, sent >>

Evict(r, error) ==
  /\ Leave(r)
  /\ sent' = Sent(r, error)
  /\ pc' = AfterReserve(running)
  /\ UNCHANGED running

reserve_context(r) ==
  /\ pos[r] + 1 > MaxSeq
  /\ Evict(r, "context")

reserve_exhausted(r) ==
  /\ pos[r] + 1 <= MaxSeq /\ ~Fits(free, table[r], pos[r] + 1)
  /\ Evict(r, "exhausted")

\* Mutant of reserve_ok: reserves room for pos tokens instead of pos + 1.
reserve_short(r) ==
  /\ pos[r] + 1 <= MaxSeq /\ Fits(free, table[r], pos[r])
  /\ free' = Popped(free, table[r], pos[r])
  /\ table' = [table EXCEPT ![r] = Grown(free, @, pos[r])]
  /\ running' = Append(running, r)
  /\ pc' = AfterReserve(running')
  /\ UNCHANGED << state, sent >>

reserve_ok(r) ==
  /\ pos[r] + 1 <= MaxSeq /\ Fits(free, table[r], pos[r] + 1)
  /\ free' = Popped(free, table[r], pos[r] + 1)
  /\ table' = [table EXCEPT ![r] = Grown(free, @, pos[r] + 1)]
  /\ running' = Append(running, r)
  /\ pc' = AfterReserve(running')
  /\ UNCHANGED << state, sent >>

\* One turn of the loop that reserves room for the next token of a sequence.
Reserve ==
  /\ pc = "reserve"
  /\ todo' = Tail(todo)
  /\ LET r == Head(todo) IN reserve_context(r) \/ reserve_exhausted(r) \/ reserve_ok(r)
  /\ UNCHANGED << open, queue, progress, job, reply, kv >>

\* Mutant of KvDecode: the new row overwrites the previous position.
KvDecode_behind(n) ==
  [c \in Cells |->
     IF \E i \in 1 .. n : locate(table[running[i]], pos[running[i]] - 1) = c
     THEN LET i == CHOOSE i \in 1 .. n : locate(table[running[i]], pos[running[i]] - 1) = c
          IN  << running[i], pos[running[i]] >>
     ELSE kv[c]]

\* The K/V pool after decode_step wrote the new row of the first n sequences.
KvDecode(n) ==
  [c \in Cells |->
     IF \E i \in 1 .. n : locate(table[running[i]], pos[running[i]]) = c
     THEN LET i == CHOOSE i \in 1 .. n : locate(table[running[i]], pos[running[i]]) = c
          IN  << running[i], pos[running[i]] >>
     ELSE kv[c]]

\* decode_step over the whole batch.
decode_ok ==
  /\ pc = "decode"
  /\ kv' = KvDecode(Len(running))
  /\ pc' = "sample" /\ todo' = running /\ running' = << >>
  /\ UNCHANGED << open, queue, alloc, progress, job, state, reply, sent >>

\* decode_step fails part-way, or a row of its logits cannot be read.
decode_fails ==
  /\ pc = "decode"
  /\ \E n \in 0 .. Len(running) : kv' = KvDecode(n)
  /\ pc' = "fail" /\ todo' = running /\ running' = << >>
  /\ UNCHANGED << open, queue, alloc, progress, job, state, reply, sent >>

\* After a failed step every sequence of the batch gets the error.
Fail ==
  /\ pc = "fail"
  /\ LET r == Head(todo) IN Leave(r) /\ sent' = Sent(r, "forward")
  /\ todo' = Tail(todo)
  /\ pc' = NextPass("admit")
  /\ UNCHANGED << open, queue, running, progress, job, reply, kv >>

\* One turn of the loop that samples the next token of a sequence.
Sample ==
  /\ pc = "sample"
  /\ \E token \in Tokens :
       LET r        == Head(todo)
           at_limit == produced[r] + 1 >= job[r].max_tokens
       IN  /\ pos' = [pos EXCEPT ![r] = @ + 1]
           /\ produced' = [produced EXCEPT ![r] = @ + 1]
           /\ sampled' = [sampled EXCEPT ![r] = IF reply[r] = "open" THEN token ELSE @]
           /\ sent' = IF token = "eos" THEN sent ELSE Sent(r, token)
           /\ IF token = "eos" \/ at_limit
              THEN Leave(r) /\ UNCHANGED running
              ELSE running' = Append(running, r) /\ UNCHANGED << alloc, state >>
  /\ todo' = Tail(todo)
  /\ pc' = NextPass("admit")
  /\ UNCHANGED << open, queue, job, reply, kv >>

Scheduler == Admit \/ StartPass \/ Stop \/ Reserve \/ decode_ok \/ decode_fails
               \/ Fail \/ Sample

Clients == \/ \E r \in Requests : \/ \E j \in Asks[r] : submit(r, j)
                                 \/ Reader(r)
           \/ DropEngine

Next == Scheduler \/ Clients

Spec == Init /\ [][Next]_vars

\* The scheduler thread is always eventually scheduled and a forward pass
\* always returns; a reader is polled when there is something to read.
FairSpec == Spec /\ WF_vars(Scheduler) /\ \A r \in Requests : WF_vars(read_end(r))

-----------------------------------------------------------------------------
(* Properties. *)

Elems(s) == {s[i] : i \in DOMAIN s}
Distinct(s) == \A i, j \in DOMAIN s : i # j => s[i] # s[j]

\* The requests whose Seq the scheduler holds.
Active == Elems(running) \cup Elems(todo)

\* Every block of the pool is once in the free list f or once in one table of t.
Conserved(f, t) ==
  /\ Distinct(f)
  /\ \A r \in Requests : Distinct(t[r])
  /\ \A r \in Requests : Elems(f) \cap Elems(t[r]) = {}
  /\ \A r, q \in Requests : r # q => Elems(t[r]) \cap Elems(t[q]) = {}
  /\ \A b \in Blocks : b \in Elems(f) \/ \E r \in Requests : b \in Elems(t[r])

(***************************************************************************)
(* BlocksConserved: every physical block has exactly one owner, the free   *)
(* list or one sequence, once.  No admission, eviction, failure or         *)
(* completion in any order frees a block twice, hands it to two sequences  *)
(* or loses it (BlockAllocator::ensure_capacity and release as run_loop    *)
(* and prefill use them).                                                  *)
(***************************************************************************)
BlocksConserved == Conserved(free, table)

(***************************************************************************)
(* BlocksFollowSequences: a request holds blocks only while the scheduler  *)
(* holds its Seq, so nothing that ends a request (a rejection, an          *)
(* eviction, a failed step, EOS, the limit) leaks the blocks it had.       *)
(***************************************************************************)
BlocksFollowSequences ==
  \A r \in Requests : table[r] # << >> => r \in Active

(***************************************************************************)
(* LocateInBounds: when decode_step runs, the table of every sequence of   *)
(* the batch covers the position about to be written and all the ones      *)
(* before it, so `locate` and gather_seq never index past the table (the   *)
(* "OOB panic in alloc.locate" the capacity pass is there to avoid), and   *)
(* the position is inside the RoPE table.                                  *)
(***************************************************************************)
LocateInBounds ==
  pc = "decode" =>
    \A i \in DOMAIN running :
      LET r == running[i] IN
      /\ pos[r] < MaxSeq
      /\ \A p \in 0 .. pos[r] : InBounds(table[r], p)

(***************************************************************************)
(* KvIsolated: each sequence the scheduler holds finds its own K/V row at  *)
(* every position it has written, never a row of another request that      *)
(* used the block before or shares the batch.  (In the sample pass the     *)
(* row at pos has just been written and pos has not moved yet.)            *)
(***************************************************************************)
KvIsolated ==
  \A r \in Active : \A p \in 0 .. (pos[r] - 1) :
    InBounds(table[r], p) /\ kv[locate(table[r], p)] = << r, p >>

(***************************************************************************)
(* SchedulerInv: the request states, the channel and the two halves of the *)
(* batch agree.  A request is in exactly one place, and only the passes    *)
(* over the batch leave it split.  BlocksConserved is inductive together   *)
(* with it: a sequence that appeared twice in the batch would be released  *)
(* or grown twice.                                                         *)
(***************************************************************************)
SchedulerInv ==
  /\ Distinct(queue) /\ Distinct(running) /\ Distinct(todo)
  /\ Elems(running) \cap Elems(todo) = {}
  /\ \A r \in Requests : state[r] = "queued" <=> r \in Elems(queue)
  /\ \A r \in Requests : state[r] = "running" <=> r \in Active
  /\ \A r \in Requests : state[r] # "new" => job[r] \in Jobs
  /\ todo # << >> <=> pc \in {"reserve", "sample", "fail"}
  /\ pc = "decode" => running # << >>

\* The call as its client sees it.
Status(r) == IF state[r] = "new" THEN "idle" ELSE reply[r]

\* Status, and max_tokens until the client leaves.  prefill and the first
\* decode step each hand out a token before max_tokens is looked at, and prefill
\* an end-of-text too: not what CandleModel::generate does, which engine.rs:167
\* says the loop mirrors.
Gen(r) == INSTANCE Generation WITH
  Limits <- {j.max_tokens : j \in Asks[r]},
  Floor  <- 2,
  Cuts   <- TRUE,
  status <- Status(r),
  count  <- Got(r),
  limit  <- IF Status(r) \in {"idle", "left"} THEN 0 ELSE job[r].max_tokens,
  eos    <- sampled[r] = "eos"

(***************************************************************************)
(* ImplementsGeneration: through admission, eviction, failed steps, a      *)
(* dropped engine, decodes that fail and clients that leave, everyone gets *)
(* what Generation promises, up to its concession.  finish_reason "stop",  *)
(* which chat and the relay make of a channel that closes without an       *)
(* error, means a whole generation unless the relay task panicked (Cut);   *)
(* an error is the last thing sent; and nobody gets more than max_tokens   *)
(* (or 2) tokens.                                                          *)
(***************************************************************************)
ImplementsGeneration ==
  /\ \A r \in Requests : Gen(r)!Init
  /\ [][\A r \in Requests : Gen(r)!Step]_vars

(***************************************************************************)
(* BatchBounded: the scheduler never holds more than max_num_seqs          *)
(* sequences (one, if max_num_seqs is 0: blocking_recv does not test it).  *)
(***************************************************************************)
BatchBounded ==
  Len(running) + Len(todo) <= IF MaxNumSeqs = 0 THEN 1 ELSE MaxNumSeqs

(***************************************************************************)
(* EveryRequestEnds: whatever is submitted is answered to its end: under   *)
(* a scheduler that keeps running, a queued request is eventually over and *)
(* its client sees an end, whatever other clients submit, cancel or drop.  *)
(***************************************************************************)
EveryRequestEnds ==
  \A r \in Requests : (state[r] = "queued") ~> (state[r] = "done" /\ reply[r] \in Ends)
=============================================================================
