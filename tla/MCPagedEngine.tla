---------------------------- MODULE MCPagedEngine ----------------------------
(* PagedEngine for TLC. *)
EXTENDS PagedEngine, TLC

CONSTANTS r1, r2

MCRequests == {r1, r2}

Job(stream, prompt, max_tokens) ==
  [stream |-> stream, prompt |-> prompt, max_tokens |-> max_tokens]

\* Both may outgrow their blocks and, together, the pool, meet the end of the
\* context, or be refused.
MCAsks == r1 :> {Job(TRUE, 1, 4), Job(TRUE, 3, 3), Job(FALSE, 2, 1), Job(FALSE, 1, 0)}
       @@ r2 :> {Job(FALSE, 3, 3), Job(TRUE, 2, 2), Job(FALSE, 0, 1), Job(TRUE, 5, 1)}
=============================================================================
