------------------------------ MODULE Bringup ------------------------------
(***************************************************************************)
(* How a leader/worker cluster comes up, over any number of restarts:      *)
(* main.rs and app.rs (build_app_state) on the leader, worker_main.rs on   *)
(* the workers, tls.rs (the identity on disk), discovery/announce.rs and   *)
(* discovery/discover.rs (mDNS), leader.rs (ClusterLeader::start) and the  *)
(* SIGHUP reload of signal.rs.  ClusterStar starts where this module ends  *)
(* and looks inside one life of the cluster; here a life is one state and  *)
(* the lives follow each other.                                            *)
(*                                                                         *)
(* Every node has a home directory of its own.  An identity is the node    *)
(* that generated it and a count; a fingerprint is the identity itself.    *)
(***************************************************************************)
EXTENDS Integers, FiniteSets, Functions, FiniteSetsExt

CONSTANTS Workers,   \* the worker node ids, in the order of the strings
          Leader,    \* the leader's node id
          Cluster,   \* the cluster's id
          Expected,  \* discover.expected_workers
          Foreign,   \* announcements on the LAN that are not this cluster's
          Reaches,   \* the workers that may answer at the address of a worker
          Hosts,     \* the sets of workers the model can be partitioned over
          MaxCrashes,
          MaxRotations,
          Missing,   \* a file that does not exist
          Cut,       \* a file that was created and not written to its end
          None

ASSUME BringupAssumption ==
  /\ IsFiniteSet(Workers) /\ Workers \subseteq Nat /\ Workers # {}
  /\ Leader \notin Workers
  /\ Expected \in Nat \ {0} /\ MaxCrashes \in Nat /\ MaxRotations \in Nat
  /\ \A ad \in Foreign : ad.cluster # Cluster \/ ad.role # "worker" \/ ~ad.v4
  /\ Reaches \in [Workers -> SUBSET Workers] /\ Hosts \subseteq SUBSET Workers

Nodes == Workers \cup {Leader}

VARIABLES
  discover,  \* the cluster has a [cluster.discover] section
  disk,      \* node.crt and node.key of each node
  made,      \* how many identities each node has generated
  proc,      \* where each process stands
  me,        \* the NodeIdentity a process has in memory
  pinned,    \* history: the first fingerprint presented since the last rotation
  link,      \* a worker's side of the connection it accepted
  air,       \* announcements that can reach the browsing leader
  found,     \* worker_endpoints of the leader: node id -> fingerprint
  conns,     \* the connections of ClusterLeader::start: node id -> who is at the other end
  crashes, rotations

faults   == << crashes, rotations >>
identity == << disk, made, me, pinned >>
leader   == << air, found, conns >>
vars     == << discover, identity, proc, link, leader, faults >>

Ids   == Nodes \X Nat
Files == {Missing, Cut} \cup Ids

ASSUME MarkerAssumption ==
  /\ Missing # Cut
  /\ Missing \notin Ids /\ Cut \notin Ids /\ None \notin Ids

\* An identity is being made and saved, or is there.
Saving == {"make", "crt", "mid", "key"}

\* The processes whose endpoint shows their certificate.
Up == {"listen", "held", "browse", "dial", "serve", "detached"}

TypeOK ==
  /\ discover \in BOOLEAN
  /\ disk \in [Nodes -> [crt : Files, key : Files]]
  /\ made \in [Nodes -> 0 .. MaxCrashes + MaxRotations + 1]
  /\ proc \in [Nodes -> {"down", "ready"} \cup Saving \cup Up]
  /\ me \in [Nodes -> Ids \cup {None}]
  /\ pinned \in [Nodes -> Ids \cup {None}]
  /\ link \in [Workers -> {"none", "live", "dead"}]
  /\ DOMAIN found \subseteq Workers /\ DOMAIN conns \subseteq DOMAIN found
  /\ \A w \in DOMAIN found : found[w] \in Ids
  /\ \A w \in DOMAIN conns : conns[w] \in Workers
  /\ \A ad \in air \ Foreign : ad.node \in Workers /\ ad.fp \in Ids
  /\ crashes \in 0 .. MaxCrashes /\ rotations \in 0 .. MaxRotations

Nobody == [w \in {} |-> None]

Init ==
  /\ discover \in BOOLEAN
  /\ disk = [n \in Nodes |-> [crt |-> Missing, key |-> Missing]]
  /\ made = [n \in Nodes |-> 0]
  /\ proc = [n \in Nodes |-> "down"]
  /\ me = [n \in Nodes |-> None]
  /\ pinned = [n \in Nodes |-> None]
  /\ link = [w \in Workers |-> "none"]
  /\ air = {} /\ found = Nobody /\ conns = Nobody
  /\ crashes = 0 /\ rotations = 0

-----------------------------------------------------------------------------
(* load_or_generate_node_identity. *)

Exists(n) == disk[n].crt # Missing /\ disk[n].key # Missing
Parses(n) == disk[n].crt # Cut /\ disk[n].key # Cut

\* Both files exist and parse: the identity is read.  When one of them does not
\* parse the process ends where it started, today and at every later start.
load(n) ==
  /\ proc[n] = "down" /\ Exists(n) /\ Parses(n)
  /\ me' = [me EXCEPT ![n] = disk[n].crt]
  /\ proc' = [proc EXCEPT ![n] = "ready"]
  /\ UNCHANGED << discover, disk, made, pinned, link, leader, faults >>

\* Otherwise a fresh one is generated in memory.
generate_node_identity(n) ==
  /\ proc[n] = "down" /\ ~Exists(n)
  /\ made' = [made EXCEPT ![n] = @ + 1]
  /\ me' = [me EXCEPT ![n] = << n, made'[n] >>]
  /\ proc' = [proc EXCEPT ![n] = "make"]
  /\ UNCHANGED << discover, disk, pinned, link, leader, faults >>

\* Mutant of save: the key is never written.
save_crt_only(n) ==
  /\ proc[n] \in Saving
  /\ \/ /\ proc[n] = "make"
        /\ disk' = [disk EXCEPT ![n].crt = Cut] /\ proc' = [proc EXCEPT ![n] = "crt"]
     \/ /\ proc[n] = "crt"
        /\ disk' = [disk EXCEPT ![n].crt = me[n]] /\ proc' = [proc EXCEPT ![n] = "ready"]
  /\ UNCHANGED << discover, made, me, pinned, link, leader, faults >>

\* fs::write of node.crt and then of node.key, each created first and then filled.
save(n) ==
  /\ \/ /\ proc[n] = "make"
        /\ disk' = [disk EXCEPT ![n].crt = Cut] /\ proc' = [proc EXCEPT ![n] = "crt"]
     \/ /\ proc[n] = "crt"
        /\ disk' = [disk EXCEPT ![n].crt = me[n]] /\ proc' = [proc EXCEPT ![n] = "mid"]
     \/ /\ proc[n] = "mid"
        /\ disk' = [disk EXCEPT ![n].key = Cut] /\ proc' = [proc EXCEPT ![n] = "key"]
     \/ /\ proc[n] = "key"
        /\ disk' = [disk EXCEPT ![n].key = me[n]] /\ proc' = [proc EXCEPT ![n] = "ready"]
  /\ UNCHANGED << discover, made, me, pinned, link, leader, faults >>

\* The fingerprint is printed and from now on presented.
Present(n) == pinned' = IF pinned[n] = None THEN [pinned EXCEPT ![n] = me[n]] ELSE pinned

-----------------------------------------------------------------------------
(* run_worker. *)

Ad(w) == [cluster |-> Cluster, role |-> "worker", node |-> w, fp |-> me[w], v4 |-> TRUE]

Browsing == proc[Leader] = "browse"

\* server_endpoint and Announcer::register; a leader that browses may hear it.
announce(w) ==
  /\ proc[w] = "ready"
  /\ proc' = [proc EXCEPT ![w] = "listen"]
  /\ Present(w)
  /\ air' = IF Browsing THEN air \cup {Ad(w)} ELSE air
  /\ UNCHANGED << discover, disk, made, me, link, found, conns, faults >>

Ends(w) ==
  /\ proc' = [proc EXCEPT ![w] = "down"]
  /\ me' = [me EXCEPT ![w] = None]
  /\ link' = [link EXCEPT ![w] = "none"]

\* Mutant of drop: the worker holds on to the connection of a leader that is gone.
drop_never(w) ==
  /\ link[w] = "dead" /\ proc[w] = "down"
  /\ Ends(w)
  /\ UNCHANGED << discover, disk, made, pinned, leader, faults >>

\* The connection of the leader is closed or idles out: run_worker_full returns.
drop(w) ==
  /\ link[w] = "dead"
  /\ Ends(w)
  /\ UNCHANGED << discover, disk, made, pinned, leader, faults >>

-----------------------------------------------------------------------------
(* build_app_state and ClusterLeader::start on the leader. *)

\* The leader's worker connections are gone with their owner.
Released == [w \in Workers |-> IF link[w] = "live" THEN "dead" ELSE link[w]]

\* The process returns an error or dies.
LeaderEnds ==
  /\ proc' = [proc EXCEPT ![Leader] = "down"]
  /\ me' = [me EXCEPT ![Leader] = None]
  /\ link' = Released
  /\ air' = {} /\ found' = Nobody /\ conns' = Nobody

\* The announcers of the workers that are up answer the browser's query.
browse ==
  /\ proc[Leader] = "ready" /\ discover
  /\ proc' = [proc EXCEPT ![Leader] = "browse"]
  /\ Present(Leader)
  /\ air' = Foreign \cup {Ad(w) : w \in {v \in Workers : proc[v] \in {"listen", "held"}}}
  /\ UNCHANGED << discover, disk, made, me, link, found, conns, faults >>

\* Without a discover section the endpoints are the ones of the configuration,
\* where the operator has put the fingerprints that the workers printed.
static_endpoints ==
  /\ proc[Leader] = "ready" /\ ~discover
  /\ \A w \in Workers : pinned[w] # None
  /\ proc' = [proc EXCEPT ![Leader] = "dial"]
  /\ Present(Leader)
  /\ found' = [w \in Workers |-> pinned[w]]
  /\ UNCHANGED << discover, disk, made, me, link, air, conns, faults >>

\* The tests of the browse loop: this cluster, a worker, not seen yet, an IPv4 address.
Accepts(ad) ==
  /\ ad.cluster = Cluster /\ ad.role = "worker"
  /\ ad.node \notin DOMAIN found
  /\ ad.v4

With(map, w, x) == [v \in DOMAIN map \cup {w} |-> IF v = w THEN x ELSE map[v]]

\* A ServiceResolved event; the ones that are not accepted change nothing.
resolve(ad) ==
  /\ Browsing /\ Cardinality(DOMAIN found) < Expected
  /\ Accepts(ad)
  /\ found' = With(found, ad.node, ad.fp)
  /\ UNCHANGED << discover, identity, proc, link, air, conns, faults >>

\* Enough workers, or the timeout.  Finding nobody is an error of the caller.
browsed ==
  /\ Browsing
  /\ IF DOMAIN found = {} THEN LeaderEnds
     ELSE /\ proc' = [proc EXCEPT ![Leader] = "dial"]
          /\ air' = {}
          /\ UNCHANGED << me, link, found, conns >>
  /\ UNCHANGED << discover, disk, made, pinned, faults >>

\* cfg.workers is dialled in its order: discovered workers are sorted by node id,
\* and the configuration is taken to list them so too.
Next_worker == Min(DOMAIN found \ DOMAIN conns)

\* The connection attempt to the address of Next_worker gets to v.
Dials(v) == /\ proc[Leader] = "dial" /\ DOMAIN conns # DOMAIN found
            /\ v \in Reaches[Next_worker]

\* FingerprintVerifier: any fingerprint of the list will do.
Trusted(fp) == fp \in Range(found)

\* Mutant of Acknowledged: the node id of the JoinAck is not looked at.
Acknowledged_any(w, v) == TRUE

\* The JoinAck carries the node id of the worker that was dialled.
Acknowledged(w, v) == v = w

\* Connect, Join, JoinAck, Capability.
join(v) ==
  LET w == Next_worker IN
  /\ Dials(v) /\ proc[v] = "listen" /\ Trusted(me[v]) /\ Acknowledged(w, v)
  /\ proc' = [proc EXCEPT ![v] = "held"]
  /\ link' = [link EXCEPT ![v] = "live"]
  /\ conns' = With(conns, w, v)
  /\ UNCHANGED << discover, identity, air, found, faults >>

\* Another listed worker answers.  Its certificate will do, its JoinAck does not:
\* start returns an error, and the worker is left with a connection that closes.
wrong_worker(v) ==
  /\ Dials(v) /\ proc[v] = "listen" /\ Trusted(me[v]) /\ ~Acknowledged(Next_worker, v)
  /\ proc' = [proc EXCEPT ![Leader] = "down", ![v] = "held"]
  /\ me' = [me EXCEPT ![Leader] = None]
  /\ link' = [Released EXCEPT ![v] = "dead"]
  /\ air' = {} /\ found' = Nobody /\ conns' = Nobody
  /\ UNCHANGED << discover, disk, made, pinned, faults >>

\* The certificate is refused: start returns an error, and so does the
\* `incoming.await?` of the worker.
untrusted(v) ==
  /\ Dials(v) /\ proc[v] = "listen" /\ ~Trusted(me[v])
  /\ proc' = [proc EXCEPT ![Leader] = "down", ![v] = "down"]
  /\ me' = [me EXCEPT ![Leader] = None, ![v] = None]
  /\ link' = Released
  /\ air' = {} /\ found' = Nobody /\ conns' = Nobody
  /\ UNCHANGED << discover, disk, made, pinned, faults >>

\* Nobody accepts at that address: the worker is down, or holds another
\* connection and calls accept no more.  The handshake is given up after the
\* idle timeout, by which time the connections of earlier leaders, idle for
\* longer, are gone.
dial_times_out(v) ==
  /\ Dials(v) /\ proc[v] # "listen"
  /\ \A w \in Workers : link[w] # "dead"
  /\ LeaderEnds
  /\ UNCHANGED << discover, disk, made, pinned, faults >>

AllJoined == proc[Leader] = "dial" /\ DOMAIN conns = DOMAIN found

\* manual_partition or agreed_manifest returns an error: the workers there are
\* have too little memory, or one that the override names is not among them.
no_manifest ==
  /\ AllJoined /\ DOMAIN conns \notin Hosts
  /\ LeaderEnds
  /\ UNCHANGED << discover, disk, made, pinned, faults >>

\* The manifest is computed and sent.  A write to a worker that has died since it
\* joined may still be buffered.
assign ==
  /\ AllJoined /\ DOMAIN conns \in Hosts
  /\ \/ /\ proc' = [proc EXCEPT ![Leader] = "serve"]
        /\ UNCHANGED << me, link, leader >>
     \/ /\ \E w \in DOMAIN conns : link[conns[w]] # "live"
        /\ LeaderEnds
  /\ UNCHANGED << discover, disk, made, pinned, faults >>

\* SIGHUP: build_app_state runs as node `localhost`, which leads nothing, and the
\* pipelines that owned the ClusterLeader are replaced by ones without it.
reload ==
  /\ proc[Leader] = "serve"
  /\ proc' = [proc EXCEPT ![Leader] = "detached"]
  /\ link' = Released /\ found' = Nobody /\ conns' = Nobody
  /\ UNCHANGED << discover, identity, air, faults >>

-----------------------------------------------------------------------------
crash_worker(w) ==
  /\ proc[w] # "down" /\ crashes < MaxCrashes
  /\ Ends(w)
  /\ crashes' = crashes + 1
  /\ UNCHANGED << discover, disk, made, pinned, leader, rotations >>

crash_leader ==
  /\ proc[Leader] # "down" /\ crashes < MaxCrashes
  /\ LeaderEnds
  /\ crashes' = crashes + 1
  /\ UNCHANGED << discover, disk, made, pinned, rotations >>

\* An operator takes the identity of a node away to have it replaced.
rotate(n) ==
  /\ proc[n] = "down" /\ Exists(n) /\ rotations < MaxRotations
  /\ disk' = [disk EXCEPT ![n] = [crt |-> Missing, key |-> Missing]]
  /\ pinned' = [pinned EXCEPT ![n] = None]
  /\ rotations' = rotations + 1
  /\ UNCHANGED << discover, made, me, proc, link, leader, crashes >>

Identity(n) == load(n) \/ generate_node_identity(n) \/ save(n)
Configure   == browse \/ static_endpoints
Dial(v)     == join(v) \/ wrong_worker(v) \/ untrusted(v) \/ dial_times_out(v)
Distribute  == no_manifest \/ assign

Next ==
  \/ \E n \in Nodes : Identity(n) \/ rotate(n)
  \/ \E w \in Workers : announce(w) \/ drop(w) \/ crash_worker(w) \/ Dial(w)
  \/ Configure
  \/ \E ad \in air : resolve(ad)
  \/ browsed
  \/ Distribute
  \/ reload
  \/ crash_leader

\* Every process that ended is started again, and no process stands still: each
\* of its waits is bounded by a timeout.  Browsing again and again, the leader
\* hears an announcement some day.
Fairness ==
  /\ \A n \in Nodes : WF_vars(Identity(n))
  /\ \A w \in Workers : WF_vars(announce(w)) /\ WF_vars(drop(w))
  /\ WF_vars(Configure) /\ WF_vars(browsed) /\ WF_vars(\E v \in Workers : Dial(v)) /\ WF_vars(Distribute)
  /\ SF_vars(\E ad \in air : resolve(ad))

Spec == Init /\ [][Next]_vars

FairSpec == Spec /\ Fairness

-----------------------------------------------------------------------------
(* Properties. *)

\* "A node's fingerprint stays stable across restarts" (tls.rs): whatever the
\* moment of the crashes, a process that is up shows the fingerprint its node has
\* shown from the first, until an operator replaces it.
FingerprintStable == \A n \in Nodes : proc[n] \in Up => me[n] = pinned[n]

\* The verifier of ClusterLeader::start takes any fingerprint of the list,
\* announcements are trusted on first sight and an address may be answered by
\* another worker; still every connection ends at the node it is kept for, with
\* the identity that was announced, or configured, for that very node.
JoinedAsAnnounced ==
  \A w \in DOMAIN conns : conns[w] = w /\ (link[w] = "live" => me[w] = found[w])

\* A crash while node.key is written leaves files that no start can read.
Wedged(n) == proc[n] = "down" /\ Exists(n) /\ ~Parses(n)

\* The address of a worker leads to another one.
Misdirected == \E v \in Workers : Dial(v) /\ v # Next_worker

\* Once crashes and rotations stop, the leader comes up and serves for good, whatever
\* connections of earlier lives the workers still hold.  What can prevent it: a
\* reload, after which it leads nothing; identity files that were cut short (the
\* leader's own, those of all workers, or of one worker in a configuration
\* without discovery, where every worker is needed); and start after start in
\* which the address of one worker leads to another, or the workers that it has
\* found when it stops browsing cannot carry the model.
ComesUp ==
  \/ <>[](proc[Leader] = "serve")
  \/ <>[](proc[Leader] = "detached")
  \/ <>[](\/ Wedged(Leader)
          \/ IF discover THEN \A w \in Workers : Wedged(w) ELSE \E w \in Workers : Wedged(w))
  \/ []<><<Misdirected \/ no_manifest>>_vars

=============================================================================
