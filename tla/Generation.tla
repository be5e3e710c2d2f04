---------------------------- MODULE Generation ----------------------------
(***************************************************************************)
(* What a local provider promises the client of one chat call, whatever    *)
(* engine is behind it (Provider::chat and chat_stream of                  *)
(* crates/ai-engine-provider, as the candle, rustyllm and cluster          *)
(* providers implement them): tokens one by one within a budget, then      *)
(* exactly one end.  The end says "stop" only when the model ended the     *)
(* text or the client's max_tokens were produced; everything else is an    *)
(* error.  Leaderless implements it as it stands.  PagedEngine,            *)
(* ReplicaPool and Rustyllm need a concession, Cut: a stream whose task    *)
(* panics ends like a complete one.  ClusterStar needs it only for the     *)
(* stream of an empty prompt.                                              *)
(***************************************************************************)
EXTENDS Naturals

CONSTANTS Limits,  \* the values of max_tokens the client may send
          Floor,   \* the tokens an engine hands out before it looks at max_tokens
          Cuts     \* the concession: whether the call may be cut short unnoticed

VARIABLES
  status,  \* of the call, as its client sees it
  count,   \* the tokens produced for the client
  limit,   \* max_tokens
  eos      \* the last token sampled was the model's end-of-text

vars == << status, count, limit, eos >>

Init == status = "idle" /\ count = 0 /\ limit = 0 /\ eos = FALSE

\* What the client may get at most.
Budget == IF limit < Floor THEN Floor ELSE limit

\* The call is made.  It may be refused at once.
Begin ==
  /\ status = "idle"
  /\ status' \in {"open", "failed"}
  /\ limit' \in Limits
  /\ UNCHANGED << count, eos >>

\* A token is sampled, and handed out unless it is the end of the text (an
\* engine may hand that one out too).  It may be the last one: a call ends
\* well only with an end-of-text or with max_tokens reached.
Sample(token, handed) ==
  /\ status = "open"
  /\ handed \/ token = "eos"
  /\ handed => count < Budget
  /\ count' = IF handed THEN count + 1 ELSE count
  /\ eos' = (token = "eos")
  /\ status' \in {"open", "complete"}
  /\ status' = "complete" => eos' \/ count' >= limit
  /\ UNCHANGED limit

\* The call ends well after its last token.
Complete ==
  /\ status = "open" /\ (eos \/ count >= limit)
  /\ status' = "complete"
  /\ UNCHANGED << count, limit, eos >>

\* The call ends with an error.
Fail ==
  /\ status = "open"
  /\ status' = "failed"
  /\ UNCHANGED << count, limit, eos >>

\* The task behind a stream dies.  Its client is told "stop", with whatever it
\* has got: a short answer that it cannot tell from a whole one.
Cut ==
  /\ Cuts /\ status = "open"
  /\ status' = "cut"
  /\ UNCHANGED << count, limit, eos >>

\* The client goes away; nothing is promised to it any more.
Leave ==
  /\ status = "open"
  /\ status' = "left"
  /\ count' = 0 /\ limit' = 0 /\ eos' = FALSE

Next == \/ Begin
        \/ \E token \in {"tok", "eos"}, handed \in BOOLEAN : Sample(token, handed)
        \/ Complete
        \/ Fail
        \/ Cut
        \/ Leave

\* A step of an engine, as one of its calls sees it.
Step == [Next]_vars

Spec == Init /\ [][Next]_vars
=============================================================================
