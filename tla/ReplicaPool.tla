---------------------------- MODULE ReplicaPool ----------------------------
(***************************************************************************)
(* The replica-pool backend of the candle provider: ReplicaPool::acquire   *)
(* (crates/ai-engine-candle/src/pool.rs), CandleModel::generate (model.rs) *)
(* and the Backend::Pool halves of chat and chat_stream (provider.rs).     *)
(*                                                                         *)
(* Each replica is a model with one KV cache behind a tokio Mutex, whose   *)
(* waiters are served first come, first served.  A call tries every        *)
(* replica, then waits for one chosen round robin.  chat runs in the       *)
(* request's own future and is dropped with it while it waits; chat_stream *)
(* runs in a task of its own and goes on without its client.  A KV cache   *)
(* is abstracted to whose rows it holds and how many.                      *)
(***************************************************************************)
EXTENDS Naturals, Sequences, SequencesExt

CONSTANTS Requests,     \* chat calls, once each
          NumReplicas,  \* pool_size
          Asks,         \* what each client may ask: stream, prompt length, max_tokens
          Panics,       \* whether a forward pass may panic
          None

ASSUME PoolAssumption ==
  /\ NumReplicas \in Nat \ {0}     \* ReplicaPool::new refuses 0
  /\ Asks \in [Requests -> SUBSET [stream : BOOLEAN, prompt : Nat, max_tokens : Nat]]
  /\ None \notin Requests /\ Panics \in BOOLEAN

VARIABLES
  call,    \* per call, the locals of chat or of the chat_stream task
  holder,  \* the call that has each replica's lock
  queue,   \* the calls that wait for it
  cache,   \* whose rows each replica's KV cache holds, and how many
  counter  \* ReplicaPool.counter, of which only the remainder is used

vars == << call, holder, queue, cache, counter >>

Replicas == 1 .. NumReplicas

\* A KV cache that was never fed, and one with rows of a call that is over.
Empty == << None, 0 >>
Stale == << None, 1 >>

\* on: the replica tried, waited for or held.  next: the token sampled last.
\* sent: the tokens that reached the client; mute: send_err is set.
Idle == [pc |-> "new", stream |-> FALSE, prompt |-> 0, max_tokens |-> 0, on |-> 1,
         pos |-> 0, next |-> "none", produced |-> 0, sent |-> 0, mute |-> FALSE,
         listening |-> TRUE]

Calls ==
  [pc : {"new", "try", "lock", "wait", "prefill", "decode",
         "done", "error", "cancelled", "panicked"},
   stream : BOOLEAN, prompt : Nat, max_tokens : Nat,
   on : Replicas, pos : Nat, next : {"none", "tok", "eos"}, produced : Nat, sent : Nat,
   mute : BOOLEAN, listening : BOOLEAN]

TypeOK ==
  /\ call \in [Requests -> Calls]
  /\ holder \in [Replicas -> Requests \cup {None}]
  /\ queue \in [Replicas -> Seq(Requests)]
  /\ cache \in [Replicas -> (Requests \cup {None}) \X Nat]
  /\ counter \in 0 .. (NumReplicas - 1)

Init ==
  /\ call = [r \in Requests |-> Idle]
  /\ holder = [i \in Replicas |-> None]
  /\ queue = [i \in Replicas |-> << >>]
  /\ cache = [i \in Replicas |-> Empty]
  /\ counter = 0

Over(r) == call[r].pc \in {"done", "error", "cancelled", "panicked"}
Active(r) == call[r].pc # "new" /\ ~Over(r)

-----------------------------------------------------------------------------
(* acquire. *)

\* chat or chat_stream with this backend.
start(r, ask) ==
  /\ call[r].pc = "new"
  /\ call' = [call EXCEPT ![r] = [Idle EXCEPT !.pc = "try", !.stream = ask.stream,
                                   !.prompt = ask.prompt, !.max_tokens = ask.max_tokens]]
  /\ UNCHANGED << holder, queue, cache, counter >>

\* One turn of the loop: the replicas are tried one after the other while
\* others take and release them.
try_lock(r) ==
  LET i == call[r].on IN
  /\ call[r].pc = "try"
  /\ IF holder[i] = None
     THEN /\ holder' = [holder EXCEPT ![i] = r]
          /\ call' = [call EXCEPT ![r].pc = "prefill"]
     ELSE /\ call' = [call EXCEPT ![r] = IF i < NumReplicas THEN [@ EXCEPT !.on = i + 1]
                                         ELSE [@ EXCEPT !.pc = "lock"]]
          /\ UNCHANGED holder
  /\ UNCHANGED << queue, cache, counter >>

\* Mutant of next_index: the index is not taken modulo the pool size.
next_index_unwrapped == counter + 1

\* next_index: the replicas in turn.
next_index == (counter + 1) % NumReplicas

\* All were busy when they were tried: one is waited for, unless it has been
\* released meanwhile.
lock(r) ==
  LET i == counter + 1 IN
  /\ call[r].pc = "lock"
  /\ counter' = next_index
  /\ IF holder[i] = None
     THEN /\ holder' = [holder EXCEPT ![i] = r]
          /\ call' = [call EXCEPT ![r].pc = "prefill", ![r].on = i]
          /\ UNCHANGED queue
     ELSE /\ queue' = [queue EXCEPT ![i] = Append(@, r)]
          /\ call' = [call EXCEPT ![r].pc = "wait", ![r].on = i]
          /\ UNCHANGED holder
  /\ UNCHANGED cache

\* The lock was handed to a waiter, whose future is polled again.
locked(r) ==
  /\ call[r].pc = "wait" /\ holder[call[r].on] = r
  /\ call' = [call EXCEPT ![r].pc = "prefill"]
  /\ UNCHANGED << holder, queue, cache, counter >>

\* Mutant of Release: the waiters are not woken.
Release_unwoken(i) == holder' = [holder EXCEPT ![i] = None] /\ UNCHANGED queue

\* The guard is dropped: the lock goes to the first waiter, if any.
Release(i) ==
  IF queue[i] = << >>
  THEN holder' = [holder EXCEPT ![i] = None] /\ UNCHANGED queue
  ELSE /\ holder' = [holder EXCEPT ![i] = Head(queue[i])]
       /\ queue' = [queue EXCEPT ![i] = Tail(@)]

\* A waiter takes its entry out of the queue, wherever it stands.
Unqueue(i, r) ==
  \E k \in DOMAIN queue[i] :
    queue[i][k] = r /\ queue' = [queue EXCEPT ![i] = RemoveAt(@, k)]

\* Mutant of cancel: a lock handed to a future about to be dropped is lost.
cancel_lost(r) ==
  LET i == call[r].on IN
  /\ call[r].pc = "wait" /\ ~call[r].stream
  /\ call' = [call EXCEPT ![r] = [Idle EXCEPT !.pc = "cancelled", !.listening = FALSE]]
  /\ IF holder[i] = r THEN UNCHANGED queue ELSE Unqueue(i, r)
  /\ UNCHANGED << holder, cache, counter >>

\* The client of a whole answer goes away while it waits for a replica: the
\* future is dropped, leaves the queue and passes on a lock it was handed.
cancel(r) ==
  LET i == call[r].on IN
  /\ call[r].pc = "wait" /\ ~call[r].stream
  /\ call' = [call EXCEPT ![r] = [Idle EXCEPT !.pc = "cancelled", !.listening = FALSE]]
  /\ IF holder[i] = r THEN Release(i)
     ELSE Unqueue(i, r) /\ UNCHANGED holder
  /\ UNCHANGED << cache, counter >>

\* Otherwise nobody is told: block_in_place is not interrupted, and a stream's
\* task notices when it sends, if it does.
hang_up(r) ==
  /\ Active(r) /\ call[r].listening
  /\ call[r].stream \/ call[r].pc \in {"prefill", "decode"}
  /\ call' = [call EXCEPT ![r].listening = FALSE]
  /\ UNCHANGED << holder, queue, cache, counter >>

-----------------------------------------------------------------------------
(* CandleModel::generate under the lock. *)

\* What is left of a call that ended: what its client knows, if it is there.
Ended(c, how) ==
  IF c.listening THEN [Idle EXCEPT !.pc = how, !.max_tokens = c.max_tokens, !.sent = c.sent,
                                   !.next = c.next]
  ELSE [Idle EXCEPT !.pc = how, !.listening = FALSE]

\* The call ends and its guard is dropped.  What it fed stays in the cache.
End(r, c, how) ==
  /\ call' = [call EXCEPT ![r] = Ended(c, how)]
  /\ Release(call[r].on)
  /\ UNCHANGED counter

Left(i) == cache' = [cache EXCEPT ![i] = Stale]

\* Mutant of Fed: rows fed at position 0 join those of the call before.
Fed_kept(i, r, pos, n) ==
  IF pos = 0 THEN << r, cache[i][2] + n >> ELSE << cache[i][1], cache[i][2] + n >>

\* The replica's KV cache after n tokens were fed at position pos; a pass at
\* position 0 starts it anew.
Fed(i, r, pos, n) == IF pos = 0 THEN << r, n >> ELSE << cache[i][1], cache[i][2] + n >>

should_stop(c) == c.produced >= c.max_tokens \/ c.next = "eos"

\* on_token: a whole answer only collects its tokens.  A stream decodes all of
\* them and sends what is new, until a decode fails or its client is gone.
Emitted(c, ok) ==
  IF c.stream /\ (c.mute \/ ~ok \/ ~c.listening)
  THEN [c EXCEPT !.produced = @ + 1, !.mute = TRUE]
  ELSE [c EXCEPT !.produced = @ + 1, !.sent = @ + 1]

\* The token just sampled is handed out.
emit(r, c) ==
  /\ ~should_stop(c)
  /\ \E ok \in BOOLEAN : call' = [call EXCEPT ![r] = Emitted(c, ok)]
  /\ UNCHANGED << holder, queue, counter >>

\* The text decoded so far ended inside a character; now that it is whole,
\* full[prev_text.len()..] may cut it, and the slice panics.  The task unwinds,
\* the sender is dropped and the stream takes that for the end of the answer.
stream_panics(r, c) ==
  /\ ~should_stop(c) /\ c.stream /\ ~c.mute /\ c.produced > 0
  /\ End(r, c, "panicked")

\* The loop ends: Ok, unless the text could not be decoded.
finish(r, c) ==
  /\ should_stop(c)
  /\ \E ok \in BOOLEAN :
       /\ c.stream => ok = ~c.mute
       /\ End(r, c, IF ok THEN "done" ELSE "error")

\* The n tokens of `input` are fed at pos, the next one is sampled, and the
\* loop takes its next turn with it.
forward(r, pos, n) ==
  LET i == call[r].on IN
  \E next \in {"tok", "eos"} :
    LET c == [call[r] EXCEPT !.pc = "decode", !.next = next, !.pos = pos + n] IN
    \/ emit(r, c) /\ cache' = [cache EXCEPT ![i] = Fed(i, r, pos, n)]
    \/ (stream_panics(r, c) \/ finish(r, c)) /\ Left(i)

\* The pass over the prompt, at position 0.
prefill_ok(r) ==
  /\ call[r].pc = "prefill" /\ call[r].prompt > 0
  /\ forward(r, 0, call[r].prompt)

\* The prompt is empty, or the pass fails with any part of the cache written.
prefill_fails(r) ==
  /\ call[r].pc = "prefill"
  /\ UNCHANGED cache \/ (call[r].prompt > 0 /\ Left(call[r].on))
  /\ End(r, call[r], "error")

\* The pass over the token handed out last, at index_pos.
decode_ok(r) ==
  /\ call[r].pc = "decode"
  /\ forward(r, call[r].pos, 1)

decode_fails(r) ==
  /\ call[r].pc = "decode"
  /\ End(r, call[r], "error")
  /\ Left(call[r].on)

\* A pass panics.  The guard is dropped while the task unwinds; a tokio Mutex is
\* not poisoned.  The future of a whole answer takes the connection with it.
pass_panics(r) ==
  /\ Panics
  /\ call[r].pc = "decode" \/ (call[r].pc = "prefill" /\ call[r].prompt > 0)
  /\ End(r, call[r], IF call[r].stream THEN "panicked" ELSE "error")
  /\ Left(call[r].on)

-----------------------------------------------------------------------------
Acquire(r) == try_lock(r) \/ lock(r) \/ locked(r)
Generate(r) == prefill_ok(r) \/ prefill_fails(r) \/ decode_ok(r) \/ decode_fails(r)

Clients == \E r \in Requests : (\E ask \in Asks[r] : start(r, ask)) \/ cancel(r) \/ hang_up(r)

Next == Clients \/ \E r \in Requests : Acquire(r) \/ Generate(r) \/ pass_panics(r)

Spec == Init /\ [][Next]_vars

\* The runtime polls every task that can go on, and a forward pass returns.
Fairness == \A r \in Requests : WF_vars(Acquire(r) \/ Generate(r))

-----------------------------------------------------------------------------
(* Properties. *)

(***************************************************************************)
(* OwnCache: a call that generates has its replica's lock, and the KV      *)
(* cache it decodes against holds its own rows, exactly those before       *)
(* index_pos: nothing a call before it left there, whether that one ended, *)
(* failed in the middle of a pass or panicked, and nothing of a call that  *)
(* got the same replica because it looked free.                            *)
(***************************************************************************)
OwnCache ==
  \A r \in Requests :
    LET c == call[r] IN
    /\ c.pc \in {"prefill", "decode"} => holder[c.on] = r
    /\ c.pc = "decode" => cache[c.on] = << r, c.pos >>

(***************************************************************************)
(* LocksHeldByCalls: a replica is locked only on behalf of a call that is  *)
(* still going to use and release it.  Most of all, a lock that was handed *)
(* to a waiter whose future is dropped before it runs is passed on: a lost *)
(* one would take the replica out of the pool for good.                    *)
(***************************************************************************)
LocksHeldByCalls ==
  \A i \in Replicas : holder[i] # None => Active(holder[i]) /\ call[holder[i]].on = i

\* The call as its client sees it, and nothing more of one that has left.
Status(c) == IF c.pc = "new" THEN "idle"
             ELSE IF ~c.listening THEN "left"
             ELSE IF c.pc = "panicked" THEN "cut"
             ELSE IF c.pc = "error" THEN "failed"
             ELSE IF c.pc = "done" THEN "complete" ELSE "open"

Here(c) == Status(c) # "left"

\* max_tokens is looked at before the first token is handed out.
Gen(r) == INSTANCE Generation WITH
  Limits <- {ask.max_tokens : ask \in Asks[r]},
  Floor  <- 0,
  Cuts   <- TRUE,
  status <- Status(call[r]),
  count  <- IF Here(call[r]) THEN call[r].sent ELSE 0,
  limit  <- IF Here(call[r]) THEN call[r].max_tokens ELSE 0,
  eos    <- Status(call[r]) = "complete" /\ call[r].next = "eos"
=============================================================================
