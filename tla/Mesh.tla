-------------------------------- MODULE Mesh --------------------------------
(***************************************************************************)
(* How leaderless nodes form their full mesh: connect_mesh, dial_with_retry*)
(* connect_self and accept_one of transport/mesh.rs, in the order          *)
(* build_leaderless_node (crates/ai-engine/src/app.rs) calls them.         *)
(*                                                                         *)
(* Nodes are independent processes that start, crash and restart at any    *)
(* time.  The smaller id of a pair dials, the larger accepts a counted     *)
(* number of connections in a task of its own, and the dialer says who it  *)
(* is in a hello frame; then every node dials itself.  Ids are numbers,    *)
(* ordered as the strings of the code are.  A connection is the attempt    *)
(* that opened it, so two ends hold the same one when the values are equal.*)
(***************************************************************************)
EXTENDS Naturals, Sequences, FiniteSets, SequencesExt

CONSTANTS Config,        \* cluster_cfg.nodes: the ids in configuration order
          DIAL_ATTEMPTS, \* attempts per peer
          MaxRetries,    \* bound on attempts that time out and are repeated
          MaxFaults,     \* bound on crashed plus restarted processes
          None

Nodes == Range(Config)

\* An attempt to reach another node; run and seen tell the runs of the two
\* processes, seen = 0 until it arrives.
Attempts == [from : Nodes, run : Nat, to : Nodes, try : 1 .. DIAL_ATTEMPTS, seen : Nat]

ASSUME MeshAssumption ==
  /\ Config \in Seq(Nat \ {0}) /\ Cardinality(Nodes) = Len(Config) /\ Config # << >>
  /\ DIAL_ATTEMPTS \in Nat \ {0} /\ MaxFaults \in Nat /\ MaxRetries \in Nat
  /\ None \notin Attempts

VARIABLES
  phase,    \* where build_leaderless_node stands; "down" after a crash
  inc,      \* which run of the process this is
  to_dial,  \* peers still to dial
  dialing,  \* the dial in progress: its attempt and how far it is
  queue,    \* connections that arrived at the endpoint and nobody accepted
  left,     \* how many more the accept task takes; 0 when it is over
  reading,  \* the connection whose hello the accept task waits for
  hello,    \* connections whose hello is sent and not read yet
  dialed,   \* conns of connect_mesh: per peer, the connection dialed
  accepted, \* map of the accept task: per id in a hello, the connection
  broken,   \* the accept task ended with an error
  restarts, \* restarts so far
  retries   \* repeated attempts so far

process  == << phase, inc, restarts >>
dialer   == << to_dial, dialing, dialed >>
acceptor == << left, reading, accepted, broken >>
vars     == << process, dialer, acceptor, queue, hello, retries >>

Up(n) == phase[n] \in {"mesh", "loopback", "serving"}

Attempt(from, to, try, seen) ==
  [from |-> from, run |-> inc[from], to |-> to, try |-> try, seen |-> seen]

NotDialing == [pc |-> "idle", conn |-> None, try |-> 0]

TypeOK ==
  /\ phase \in [Nodes -> {"off", "mesh", "loopback", "serving", "failed", "down"}]
  /\ inc \in [Nodes -> Nat] /\ restarts \in 0 .. MaxFaults /\ retries \in 0 .. MaxRetries
  /\ to_dial \in [Nodes -> SUBSET Nodes]
  /\ dialing \in [Nodes -> [pc : {"idle", "wait", "hello", "over"},
                            conn : Attempts \cup {None}, try : 0 .. DIAL_ATTEMPTS]]
  /\ queue \in [Nodes -> Seq(Attempts)]
  /\ left \in [Nodes -> 0 .. Len(Config)]
  /\ reading \in [Nodes -> Attempts \cup {None}]
  /\ hello \subseteq Attempts
  /\ dialed \in [Nodes -> [Nodes -> Attempts \cup {None}]]
  /\ accepted \in [Nodes -> [Nodes -> Attempts \cup {None}]]
  /\ broken \in [Nodes -> BOOLEAN]

NoConns == [p \in Nodes |-> None]

Init ==
  /\ phase = [n \in Nodes |-> "off"] /\ inc = [n \in Nodes |-> 0] /\ restarts = 0 /\ retries = 0
  /\ to_dial = [n \in Nodes |-> {}] /\ dialing = [n \in Nodes |-> NotDialing]
  /\ queue = [n \in Nodes |-> << >>] /\ hello = {}
  /\ left = [n \in Nodes |-> 0] /\ reading = [n \in Nodes |-> None]
  /\ dialed = [n \in Nodes |-> NoConns] /\ accepted = [n \in Nodes |-> NoConns]
  /\ broken = [n \in Nodes |-> FALSE]

-----------------------------------------------------------------------------
(* Processes. *)

\* Mutant of Smaller: every peer is counted.
Smaller_all(n) == Nodes \ {n}

\* The peers a node accepts: those with a smaller id.
Smaller(n) == {p \in Nodes : p < n}

\* The peers a node dials.
Larger(n) == {p \in Nodes : p > n}

\* The dialer and the acceptor of n begin with these lists, the maps empty.
Fresh(n, dials, accepts) ==
  /\ to_dial' = [to_dial EXCEPT ![n] = dials]
  /\ dialing' = [dialing EXCEPT ![n] = NotDialing]
  /\ left' = [left EXCEPT ![n] = accepts]
  /\ reading' = [reading EXCEPT ![n] = None]
  /\ dialed' = [dialed EXCEPT ![n] = NoConns] /\ accepted' = [accepted EXCEPT ![n] = NoConns]
  /\ broken' = [broken EXCEPT ![n] = FALSE]

\* mesh_endpoint binds and connect_mesh starts.
Starts(n) ==
  /\ phase' = [phase EXCEPT ![n] = "mesh"] /\ inc' = [inc EXCEPT ![n] = @ + 1]
  /\ Fresh(n, Larger(n), Cardinality(Smaller(n)))
  /\ UNCHANGED << queue, hello, retries >>

start(n) == phase[n] = "off" /\ Starts(n) /\ UNCHANGED restarts

Faults == restarts + Cardinality({n \in Nodes : phase[n] = "down"})

restart(n) ==
  /\ phase[n] = "down" \/ (phase[n] = "failed" /\ Faults < MaxFaults)
  /\ restarts' = restarts + 1
  /\ Starts(n)

\* The process is over, and its memory and what arrived at its endpoint with it.
Over(n, how) ==
  /\ phase' = [phase EXCEPT ![n] = how]
  /\ Fresh(n, {}, 0)
  /\ queue' = [queue EXCEPT ![n] = << >>]
  /\ hello' = {c \in hello : c.to # n}
  /\ UNCHANGED << inc, restarts, retries >>

crash(n) == Up(n) /\ Faults < MaxFaults /\ Over(n, "down")

Fails(n) == Over(n, "failed")

\* Both ends are still the processes that made the connection.
Alive(c) == /\ Up(c.from) /\ inc[c.from] = c.run
            /\ Up(c.to) /\ inc[c.to] = c.seen

-----------------------------------------------------------------------------
(* dial_with_retry and the hello. *)

\* Peers are dialed one after the other, in configuration order.
Target(n) == Config[Min({i \in DOMAIN Config : Config[i] \in to_dial[n]})]

\* endpoint.connect: an attempt begins.
connect(n) ==
  /\ Up(n) /\ to_dial[n] # {} /\ dialing[n].pc = "idle"
  /\ LET try == dialing[n].try + 1 IN
     dialing' = [dialing EXCEPT ![n] = [pc |-> "wait", try |-> try,
                                        conn |-> Attempt(n, Target(n), try, 0)]]
  /\ UNCHANGED << process, to_dial, dialed, acceptor, queue, hello, retries >>

\* Its packets, repeated until it times out, reach a bound endpoint.
arrive(n) ==
  /\ Up(n) /\ dialing[n].pc = "wait"
  /\ Up(Target(n)) /\ dialing[n].conn.seen # inc[Target(n)]
  /\ LET c == [dialing[n].conn EXCEPT !.seen = inc[Target(n)]] IN
     /\ dialing' = [dialing EXCEPT ![n].conn = c]
     /\ queue' = [queue EXCEPT ![Target(n)] = Append(@, c)]
  /\ UNCHANGED << process, to_dial, dialed, acceptor, hello, retries >>

\* The handshake times out: the next attempt, after DIAL_BACKOFF.
handshake_fails(n) ==
  /\ Up(n) /\ dialing[n].pc = "wait" /\ dialing[n].try < DIAL_ATTEMPTS /\ retries < MaxRetries
  /\ retries' = retries + 1
  /\ dialing' = [dialing EXCEPT ![n].pc = "idle", ![n].conn = None]
  /\ UNCHANGED << process, to_dial, dialed, acceptor, queue, hello >>

\* Retries are exhausted, or the connection is lost before the hello.
DialOver(n) == \/ dialing[n].pc = "wait" /\ dialing[n].try = DIAL_ATTEMPTS
               \/ dialing[n].pc = "hello" /\ ~Alive(dialing[n].conn)

\* connect_mesh returns the error of its dial.
dial_fails(n) == phase[n] = "mesh" /\ DialOver(n) /\ Fails(n)

\* The task that dials the node itself ends.  Its error is looked at after
\* accept_one has returned.
self_dial_fails(n) ==
  /\ phase[n] = "loopback" /\ DialOver(n)
  /\ dialing' = [dialing EXCEPT ![n].pc = "over"]
  /\ UNCHANGED << process, to_dial, dialed, acceptor, queue, hello, retries >>

\* The hello goes out and the connection is kept under the id dialed.
send_hello(n) ==
  LET c == dialing[n].conn IN
  /\ Up(n) /\ dialing[n].pc = "hello"
  /\ hello' = hello \cup {c}
  /\ dialed' = [dialed EXCEPT ![n][c.to] = c]
  /\ to_dial' = [to_dial EXCEPT ![n] = @ \ {c.to}]
  /\ dialing' = [dialing EXCEPT ![n] = NotDialing]
  /\ UNCHANGED << process, acceptor, queue, retries >>

-----------------------------------------------------------------------------
(* The accept task of connect_mesh, and accept_one. *)

Waiting(n) == Up(n) /\ left[n] > 0 /\ ~broken[n] /\ reading[n] = None /\ queue[n] # << >>

\* The dialer is still waiting for the handshake of c.
Pending(c) == Up(c.from) /\ dialing[c.from] = [pc |-> "wait", conn |-> c, try |-> c.try]

\* accept, and the handshake: both ends have the connection.
accept(n) ==
  LET c == Head(queue[n]) IN
  /\ Waiting(n) /\ Pending(c)
  /\ queue' = [queue EXCEPT ![n] = Tail(@)]
  /\ reading' = [reading EXCEPT ![n] = c]
  /\ dialing' = [dialing EXCEPT ![c.from].pc = "hello"]
  /\ UNCHANGED << process, to_dial, dialed, left, accepted, broken, hello, retries >>

\* The handshake fails because the dialer gave the attempt up or is gone, or
\* the connection is lost before its hello: `?` ends the task.
accept_fails(n) ==
  /\ \/ Waiting(n) /\ ~Pending(Head(queue[n]))
     \/ Up(n) /\ reading[n] # None /\ ~Alive(reading[n])
  /\ broken' = [broken EXCEPT ![n] = TRUE]
  /\ reading' = [reading EXCEPT ![n] = None]
  /\ hello' = hello \ {reading[n]}
  /\ UNCHANGED << process, dialer, left, accepted, queue, retries >>

\* Mutant of read_hello: only the first connection of an id is kept and counted.
read_hello_first(n) ==
  LET c == reading[n] IN
  /\ Up(n) /\ c # None /\ c \in hello
  /\ IF accepted[n][c.from] = None
     THEN /\ accepted' = [accepted EXCEPT ![n][c.from] = c]
          /\ left' = [left EXCEPT ![n] = @ - 1]
     ELSE UNCHANGED << accepted, left >>
  /\ reading' = [reading EXCEPT ![n] = None]
  /\ hello' = hello \ {c}
  /\ UNCHANGED << process, dialer, broken, queue, retries >>

\* The hello is read and the connection kept under the id it carries.
read_hello(n) ==
  LET c == reading[n] IN
  /\ Up(n) /\ c # None /\ c \in hello
  /\ accepted' = [accepted EXCEPT ![n][c.from] = c]
  /\ left' = [left EXCEPT ![n] = @ - 1]
  /\ reading' = [reading EXCEPT ![n] = None]
  /\ hello' = hello \ {c}
  /\ UNCHANGED << process, dialer, broken, queue, retries >>

-----------------------------------------------------------------------------
(* build_leaderless_node around them. *)

\* conns.extend(accepted).
Conn(n, p) == IF accepted[n][p] # None THEN accepted[n][p] ELSE dialed[n][p]
Held(n) == {p \in Nodes : Conn(n, p) # None}

\* Mutant of Complete: connect_mesh returns what it has.
Complete_unchecked(n) == TRUE

\* conns.len() = peers.len().
Complete(n) == Cardinality(Held(n)) = Cardinality(Nodes) - 1

\* connect_mesh returns: dial and accept the loopback at the same time.
mesh_complete(n) ==
  /\ phase[n] = "mesh" /\ to_dial[n] = {} /\ left[n] = 0 /\ Complete(n)
  /\ phase' = [phase EXCEPT ![n] = "loopback"]
  /\ to_dial' = [to_dial EXCEPT ![n] = {n}]
  /\ left' = [left EXCEPT ![n] = 1]
  /\ UNCHANGED << inc, restarts, dialing, dialed, reading, accepted, broken, queue, hello, retries >>

\* The accept task broke, seen once the dials are done, or slots were taken
\* twice by one peer.
mesh_incomplete(n) ==
  /\ phase[n] = "mesh" /\ to_dial[n] = {}
  /\ broken[n] \/ (left[n] = 0 /\ ~Complete(n))
  /\ Fails(n)

\* accept_one failed or got another node's connection, or it returned and the
\* self-dial has failed.
loopback_fails(n) ==
  /\ phase[n] = "loopback"
  /\ \/ broken[n]
     \/ left[n] = 0 /\ (accepted[n][n] = None \/ dialing[n].pc = "over")
  /\ Fails(n)

\* The stages are loaded, a serve_peer loop is spawned per connection and the
\* coordinator built.  The endpoint accepts no connection any more.
serving(n) ==
  /\ phase[n] = "loopback" /\ to_dial[n] = {} /\ left[n] = 0 /\ accepted[n][n] # None
  /\ phase' = [phase EXCEPT ![n] = "serving"]
  /\ UNCHANGED << inc, restarts, dialer, acceptor, queue, hello, retries >>

\* build_peer_stages fails.
stages_fail(n) ==
  /\ phase[n] = "loopback" /\ to_dial[n] = {} /\ left[n] = 0
  /\ Fails(n)

-----------------------------------------------------------------------------
Dialer(n)   == \/ connect(n) \/ arrive(n) \/ handshake_fails(n) \/ dial_fails(n)
               \/ self_dial_fails(n) \/ send_hello(n)
Acceptor(n) == accept(n) \/ accept_fails(n) \/ read_hello(n)
Main(n)     == mesh_complete(n) \/ mesh_incomplete(n) \/ loopback_fails(n) \/ serving(n)
Process(n)  == start(n) \/ restart(n) \/ crash(n) \/ stages_fail(n)

Next == \E n \in Nodes : Process(n) \/ Dialer(n) \/ Acceptor(n) \/ Main(n)

Spec == Init /\ [][Next]_vars

\* Every node is started once, its tasks run, and a handshake that is not
\* answered times out.  Nobody is restarted for certain.
FairSpec == /\ Spec
            /\ \A n \in Nodes : /\ WF_vars(start(n)) /\ WF_vars(Dialer(n))
                                /\ WF_vars(Acceptor(n)) /\ WF_vars(Main(n))

-----------------------------------------------------------------------------
(* Properties. *)

(***************************************************************************)
(* FullMesh: a node that serves holds a connection for every peer and its  *)
(* own loopback, each between exactly the two nodes its key says: whatever *)
(* order nodes start, retry, crash and restart in, the coordinator never   *)
(* runs on a partial or mislabelled map (connect_mesh, accept_one).        *)
(***************************************************************************)
FullMesh ==
  \A n \in Nodes : phase[n] = "serving" =>
    \A p \in Nodes : Conn(n, p) # None /\ {Conn(n, p).from, Conn(n, p).to} = {n, p}

(***************************************************************************)
(* OnePerPair: two nodes that serve hold the same connection for their     *)
(* pair.  mesh.rs: "each pair forms exactly one connection regardless of   *)
(* which side calls first"; a retried dial or a restarted peer must not    *)
(* leave the two ends on different ones, where each would wait for streams *)
(* the other never serves.                                                 *)
(***************************************************************************)
OnePerPair ==
  \A n, p \in Nodes : phase[n] = "serving" /\ phase[p] = "serving" => Conn(n, p) = Conn(p, n)

\* The node dialed itself in vain, and waits in accept_one for a connection
\* that only another node's dial can bring.
Stranded(n) == phase[n] = "loopback" /\ dialing[n].pc = "over"

(***************************************************************************)
(* Settles: nodes that are all started and neither crash nor fail end up   *)
(* serving, for good: the sequential dials and counted accepts of all      *)
(* nodes never wait for each other in a circle.  And a node never stays in *)
(* its loopback phase, even if another node's dial is accepted there.  The *)
(* one exception is a node whose self-dial failed before it arrived:       *)
(* app.rs:488-490 waits for accept_one before it looks at that error.      *)
(***************************************************************************)
Settles ==
  <>[](/\ \A n \in Nodes : phase[n] = "loopback" => Stranded(n)
       /\ \/ \A n \in Nodes : phase[n] = "serving"
          \/ Faults > 0 \/ \E n \in Nodes : phase[n] = "failed" \/ Stranded(n))
=============================================================================
