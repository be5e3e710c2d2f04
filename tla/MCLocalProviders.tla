-------------------------- MODULE MCLocalProviders --------------------------
(* LocalProviders for TLC: four clients, more than there are replicas. *)
EXTENDS LocalProviders, TLC

CONSTANTS r1, r2, r3, r4

Ask(stream, prompt, n) == [stream |-> stream, prompt |-> prompt, max_tokens |-> n]

\* A stream of some length, a short answer, and two calls that the pool
\* refuses once they have a replica; two of the clients may be routed to
\* rustyllm.
MCRequests  == {r1, r2, r3, r4}
Stream      == {Ask(TRUE, 1, 2)}
Short       == {Ask(FALSE, 1, 0)}
Refused     == {Ask(FALSE, 0, 1)}
MCAsks      == r1 :> Stream @@ r2 :> Short @@ r3 :> Refused @@ r4 :> Refused
MCRustyAsks == r1 :> Stream @@ r2 :> Short @@ r3 :> {} @@ r4 :> {}
=============================================================================
