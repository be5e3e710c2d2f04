------------------------------ MODULE Rustyllm ------------------------------
(***************************************************************************)
(* The rustyllm provider (crates/ai-engine-rustyllm/src/provider.rs): one  *)
(* model behind a std Mutex, locked by a blocking thread per call.  Once   *)
(* started the thread runs to its end, client or no client.  A panic under *)
(* the lock poisons it, and every later lock() panics too.                 *)
(***************************************************************************)
EXTENDS Naturals

CONSTANTS Requests,     \* chat calls, once each
          Asks,         \* what each client may ask, as in ReplicaPool
          Panics,       \* whether the engine may panic
          None

VARIABLES
  job,      \* per call, its blocking thread and its client
  model,    \* the call whose thread has the lock of the model
  poisoned  \* the Mutex is poisoned

vars == << job, model, poisoned >>

\* pc: the thread.  produced: tokens generated; sent: those that went to a client
\* that was there; eos: the last one sampled for it was is_eos.  reply: how the
\* answer ended for the client.
Idle == [pc |-> "new", stream |-> FALSE, max_new |-> 0, produced |-> 0, sent |-> 0,
         eos |-> FALSE, reply |-> "open"]

Jobs ==
  [pc : {"new", "wait", "run", "done", "error", "panicked"}, stream : BOOLEAN,
   max_new : Nat, produced : Nat, sent : Nat, eos : BOOLEAN,
   reply : {"open", "complete", "failed", "cut", "left"}]

TypeOK ==
  /\ job \in [Requests -> Jobs]
  /\ model \in Requests \cup {None}
  /\ poisoned \in BOOLEAN

Init ==
  /\ job = [r \in Requests |-> Idle]
  /\ model = None
  /\ poisoned = FALSE

Active(r) == job[r].pc \in {"wait", "run"}

\* chat or chat_stream: gen_params, and the thread is spawned.
start(r, ask) ==
  /\ job[r].pc = "new"
  /\ job' = [job EXCEPT ![r] = [Idle EXCEPT !.pc = "wait", !.stream = ask.stream,
                                            !.max_new = ask.max_tokens]]
  /\ UNCHANGED << model, poisoned >>

-----------------------------------------------------------------------------
(* The handler and the stream, which read what the thread sends. *)

Reading(r) == job[r].pc # "new" /\ job[r].reply = "open"

\* The client goes away.  The thread is not told.
hang_up(r) ==
  /\ Reading(r)
  /\ job' = [job EXCEPT ![r].reply = "left", ![r].sent = 0]
  /\ UNCHANGED << model, poisoned >>

\* The tokens cannot be decoded: all of them at the end of a whole answer, those
\* received so far in a stream, which yields an error; or the stream cuts the
\* text inside a character, panics and takes the connection with it.
decode_fails(r) ==
  /\ Reading(r)
  /\ IF job[r].stream THEN job[r].sent > 0 ELSE job[r].pc = "done"
  /\ job' = [job EXCEPT ![r].reply = "failed"]
  /\ UNCHANGED << model, poisoned >>

\* The thread is over.  A whole answer learns from the join whether it panicked; a
\* stream sees its channel closed, as after a complete answer.
read_end(r) ==
  /\ Reading(r) /\ job[r].pc \in {"done", "error", "panicked"}
  /\ job' = [job EXCEPT ![r].reply = CASE job[r].pc = "done"  -> "complete"
                                       [] job[r].pc = "error" -> "failed"
                                       [] OTHER -> IF job[r].stream THEN "cut" ELSE "failed"]
  /\ UNCHANGED << model, poisoned >>

-----------------------------------------------------------------------------
(* The thread. *)

\* Waiters get the lock in any order.
lock(r) ==
  /\ job[r].pc = "wait" /\ model = None /\ ~poisoned
  /\ model' = r
  /\ job' = [job EXCEPT ![r].pc = "run"]
  /\ UNCHANGED poisoned

\* expect("rustyllm model mutex poisoned").
lock_poisoned(r) ==
  /\ job[r].pc = "wait" /\ model = None /\ poisoned
  /\ job' = [job EXCEPT ![r].pc = "panicked"]
  /\ UNCHANGED << model, poisoned >>

\* run_generation ends, with its result, and the guard is dropped.
End(r, c) ==
  /\ job' = [job EXCEPT ![r] = c]
  /\ model' = None
  /\ UNCHANGED poisoned

Running(r) == job[r].pc = "run" /\ model = r

\* The loop `for _ in 0..max_new` is over.
limit_reached(r) ==
  /\ Running(r) /\ job[r].produced >= job[r].max_new
  /\ End(r, [job[r] EXCEPT !.pc = "done"])

\* A turn of the loop samples the end of the text.
sample_eos(r) ==
  /\ Running(r) /\ job[r].produced < job[r].max_new
  /\ End(r, [job[r] EXCEPT !.pc = "done", !.eos = Reading(r)])

\* A turn of the loop hands out a token.
sample_token(r) ==
  /\ Running(r) /\ job[r].produced < job[r].max_new
  /\ job' = [job EXCEPT ![r].produced = @ + 1, ![r].sent = IF Reading(r) THEN @ + 1 ELSE @]
  /\ UNCHANGED << model, poisoned >>

\* Mutant of generate_fails: the error is dropped and the channel just closes.
generate_fails_quietly(r) ==
  /\ Running(r)
  /\ End(r, [job[r] EXCEPT !.pc = "done"])

\* encode, the cache or a forward pass (for an empty prompt too) fails.
generate_fails(r) ==
  /\ Running(r)
  /\ End(r, [job[r] EXCEPT !.pc = "error"])

\* The engine panics under the lock.
generate_panics(r) ==
  /\ Running(r) /\ Panics
  /\ job' = [job EXCEPT ![r].pc = "panicked"]
  /\ model' = None
  /\ poisoned' = TRUE

Thread(r) == lock(r) \/ lock_poisoned(r) \/ limit_reached(r) \/ sample_eos(r)
               \/ sample_token(r) \/ generate_fails(r)

Clients == \E r \in Requests : \/ \E ask \in Asks[r] : start(r, ask)
                              \/ hang_up(r) \/ decode_fails(r) \/ read_end(r)

Next == Clients \/ \E r \in Requests : Thread(r) \/ generate_panics(r)

Spec == Init /\ [][Next]_vars

\* A blocking thread that can go on does.
Fairness == \A r \in Requests : WF_vars(Thread(r))

-----------------------------------------------------------------------------
(* Properties. *)

(***************************************************************************)
(* OneAtATime: at most one thread generates, so no two calls stream layers *)
(* through the model's interior state together.                            *)
(***************************************************************************)
OneAtATime == \A r \in Requests : job[r].pc = "run" => model = r

\* The call as its client sees it, and nothing more of one that has left.
Status(c) == IF c.pc = "new" THEN "idle" ELSE c.reply

Here(c) == Status(c) # "left"

\* The loop looks at max_tokens before its first turn.
Gen(r) == INSTANCE Generation WITH
  Limits <- {ask.max_tokens : ask \in Asks[r]},
  Floor  <- 0,
  Cuts   <- TRUE,
  status <- Status(job[r]),
  count  <- IF Here(job[r]) THEN job[r].sent ELSE 0,
  limit  <- IF Here(job[r]) THEN job[r].max_new ELSE 0,
  eos    <- Here(job[r]) /\ job[r].eos
=============================================================================
