--------------------------- MODULE LocalProviders ---------------------------
(***************************************************************************)
(* A gateway with both local model providers: a candle pool (ReplicaPool)  *)
(* and a rustyllm model (Rustyllm).  A chat call goes to one of them.      *)
(***************************************************************************)
EXTENDS ReplicaPool

CONSTANT RustyAsks  \* what each client may ask of rustyllm, as Asks of the pool

ASSUME RustyAssumption ==
  RustyAsks \in [Requests -> SUBSET [stream : BOOLEAN, prompt : Nat, max_tokens : Nat]]

VARIABLES job, model, poisoned

Rusty == INSTANCE Rustyllm WITH Asks <- RustyAsks

rusty_vars == << job, model, poisoned >>
all_vars   == << vars, rusty_vars >>

LocalInit == Init /\ Rusty!Init

\* A step of either provider; a call that one has seen never reaches the other.
PoolStep ==
  /\ Next
  /\ \A r \in Requests : call'[r].pc = "new" \/ job[r].pc = "new"
  /\ UNCHANGED rusty_vars

RustyStep ==
  /\ Rusty!Next
  /\ \A r \in Requests : job'[r].pc = "new" \/ call[r].pc = "new"
  /\ UNCHANGED vars

LocalNext == PoolStep \/ RustyStep

LocalSpec == LocalInit /\ [][LocalNext]_all_vars /\ Fairness /\ Rusty!Fairness

-----------------------------------------------------------------------------
(* Properties. *)

\* The types of both providers.
LocalTypeOK == TypeOK /\ Rusty!TypeOK

(***************************************************************************)
(* OneModelOneCall: no two calls run on one model, and each works on its   *)
(* own KV rows: OwnCache for the replicas of the pool (acquire, generate), *)
(* OneAtATime for rustyllm's (the Mutex).                                  *)
(***************************************************************************)
OneModelOneCall == OwnCache /\ Rusty!OneAtATime

(***************************************************************************)
(* NoLockLost: a model is locked only for a call that is still going to    *)
(* use and release it, through cancelled waiters, failures and panics      *)
(* (LocksHeldByCalls for the pool).                                        *)
(***************************************************************************)
NoLockLost == LocksHeldByCalls /\ (model # None => Rusty!Active(model))

(***************************************************************************)
(* ImplementsGeneration: both providers keep what Generation promises a    *)
(* client, up to its concession: max_tokens is never exceeded, not even    *)
(* for 0; a failed pass or decode is an error and the last thing the       *)
(* client sees; an answer that ends with "stop" is whole, unless the task  *)
(* of a stream panicked (Cut).                                             *)
(***************************************************************************)
ImplementsGeneration ==
  /\ \A r \in Requests : Gen(r)!Init /\ Rusty!Gen(r)!Init
  /\ [][\A r \in Requests : Gen(r)!Step /\ Rusty!Gen(r)!Step]_all_vars

(***************************************************************************)
(* StopMeansWhole: without the concession, a client that is told "stop"    *)
(* has the whole answer, up to the model's end-of-text or max_tokens.  The *)
(* streams of both providers send what each token adds to the text decoded *)
(* so far, "(handles multi-token unicode the same way the candle provider  *)
(* does)" (rustyllm provider.rs:194-196); the candle provider's task       *)
(* panics where a token completes a character begun before.                *)
(***************************************************************************)
StopMeansWhole ==
  \A r \in Requests :
    /\ Status(call[r]) \in {"complete", "cut"} =>
         call[r].next = "eos" \/ call[r].sent >= call[r].max_tokens
    /\ Rusty!Status(job[r]) \in {"complete", "cut"} =>
         job[r].eos \/ job[r].sent >= job[r].max_new

(***************************************************************************)
(* EveryCallEnds: whoever waits for a model gets it, whatever clients come *)
(* and go, in whatever order replicas are tried, waited for and released;  *)
(* a poisoned or failing model does not keep the others waiting.           *)
(***************************************************************************)
EveryCallEnds == <>[](\A r \in Requests : ~Active(r) /\ ~Rusty!Active(r))
=============================================================================
