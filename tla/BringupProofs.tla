--------------------------- MODULE BringupProofs ---------------------------
(***************************************************************************)
(* Proofs about Bringup, for any number of workers, crashes, rotations and *)
(* foreign announcements: the fingerprint of a node is stable, and a       *)
(* worker that is joined shows the fingerprint its id was announced with.  *)
(***************************************************************************)
EXTENDS Bringup, WellFoundedInduction, TLAPS

\* An identity that node n generated.
IdsOf(n) == {<< n, k >> : k \in Nat}

(***************************************************************************)
(* The files and the memory of one node.  node.key is written last, so a   *)
(* node that has shown a fingerprint has both files whole and equal to it  *)
(* (Pinned), a key file implies a whole certificate (KeyAfterCrt), and an  *)
(* identity being saved has not been shown (Unsaved).                      *)
(***************************************************************************)
KeyAfterCrt(n) ==
  /\ disk[n].crt \in {Missing, Cut} \cup IdsOf(n)
  /\ disk[n].key # Missing => disk[n].crt \in IdsOf(n)
  /\ disk[n].key \in {Missing, Cut, disk[n].crt}

Pinned(n) ==
  pinned[n] # None => /\ pinned[n] \in IdsOf(n)
                      /\ disk[n].crt = pinned[n] /\ disk[n].key = pinned[n]

Unsaved(n) ==
  proc[n] \in Saving =>
    /\ me[n] \in IdsOf(n) /\ pinned[n] = None
    /\ proc[n] # "key" => disk[n].key = Missing
    /\ proc[n] \in {"mid", "key"} => disk[n].crt = me[n]

Saved(n) ==
  proc[n] \in {"ready"} \cup Up =>
    me[n] \in IdsOf(n) /\ disk[n].crt = me[n] /\ disk[n].key = me[n]

Shown(n) == proc[n] \in Up => me[n] = pinned[n]

NodeInv(n) == KeyAfterCrt(n) /\ Pinned(n) /\ Unsaved(n) /\ Saved(n) /\ Shown(n)

NodeTypes ==
  /\ disk \in [Nodes -> [crt : Files, key : Files]]
  /\ made \in [Nodes -> Nat]
  /\ proc \in [Nodes -> {"down", "ready"} \cup Saving \cup Up]
  /\ me \in [Nodes -> Ids \cup {None}]
  /\ pinned \in [Nodes -> Ids \cup {None}]

(***************************************************************************)
(* What the leader has heard: the fingerprint under a node id was made by  *)
(* that node, in the announcements that can be accepted (Heard), in the    *)
(* endpoints (Found) and, since it was the worker's own when it joined and *)
(* a process that holds a connection keeps its identity, in memory         *)
(* (Joined).                                                               *)
(***************************************************************************)
Heard ==
  \A ad \in air : ad \in Foreign \/ (ad.node \in Workers /\ ad.fp \in IdsOf(ad.node))

Found ==
  /\ DOMAIN found \subseteq Workers
  /\ \A w \in DOMAIN found : found[w] \in IdsOf(w)

Joined ==
  /\ link \in [Workers -> {"none", "live", "dead"}]
  /\ DOMAIN conns \subseteq DOMAIN found
  /\ proc[Leader] \notin {"dial", "serve"} => DOMAIN conns = {}
  /\ \A w \in Workers : link[w] = "live" => proc[w] = "held"
  /\ \A w \in DOMAIN conns : conns[w] = w /\ (link[w] = "live" => me[w] = found[w])

NodesInv == NodeTypes /\ \A n \in Nodes : NodeInv(n)

JoinInv == Heard /\ Found /\ Joined

Inv == NodesInv /\ JoinInv

-----------------------------------------------------------------------------
(* Every set of worker ids that is not empty has a least one.              *)
LEMMA LeastOfNaturals ==
  ASSUME NEW S \in SUBSET Nat, S # {}
  PROVE  Min(S) \in S
  <1> DEFINE R == OpToRel(<, Nat)
  <1>1. IsWellFoundedOn(R, Nat) BY NatLessThanWellFounded
  <1>2. \A x, y \in Nat : x < y => << x, y >> \in R BY DEF OpToRel
  <1> HIDE DEF R
  <1>3. PICK x \in S : \A y \in S : ~(<< y, x >> \in R) BY <1>1, WFMin
  <1>4. ASSUME NEW y \in S PROVE x <= y
    <2>1. ~(y < x) BY <1>2, <1>3, Zenon
    <2> QED BY <2>1
  <1> QED BY <1>3, <1>4 DEF Min

(* An identity is known by the node that made it, and is no marker.        *)
LEMMA IdsOfNodes ==
  ASSUME NEW n \in Nodes
  PROVE  /\ IdsOf(n) \subseteq Ids
         /\ Missing \notin IdsOf(n) /\ Cut \notin IdsOf(n) /\ None \notin IdsOf(n)
         /\ \A m \in Nodes, id \in IdsOf(n) : id \in IdsOf(m) => m = n
  <1>1. IdsOf(n) \subseteq Ids BY DEF IdsOf, Ids
  <1> QED BY <1>1, MarkerAssumption DEF IdsOf

-----------------------------------------------------------------------------
(* Files, memory and fingerprints of the nodes.                            *)

(* A process that ends, or goes on with the identity it has, changes       *)
(* nothing of what holds of its node.                                      *)
Quiet(n) ==
  \/ proc'[n] = "down"
  \/ /\ me'[n] = me[n]
     /\ proc'[n] = proc[n] \/ (proc[n] \in Up /\ proc'[n] \in Up)

LEMMA NodeKept ==
  ASSUME NEW n \in Nodes, NodeInv(n), Quiet(n),
         disk'[n] = disk[n], pinned'[n] = pinned[n]
  PROVE  NodeInv(n)'
  <1>1. KeyAfterCrt(n)' /\ Pinned(n)' BY DEF NodeInv, KeyAfterCrt, Pinned
  <1>2. Unsaved(n)' /\ Saved(n)' /\ Shown(n)'
    BY DEF NodeInv, Unsaved, Saved, Shown, Quiet, Up, Saving
  <1> QED BY <1>1, <1>2 DEF NodeInv

(* The same for all the nodes.                                             *)
LEMMA NodesKept ==
  ASSUME NodesInv, NodeTypes', \A n \in Nodes : Quiet(n), UNCHANGED << disk, pinned >>
  PROVE  NodesInv'
  BY NodeKept DEF NodesInv

(* One node does something, and no other.                                  *)
LEMMA NodeAlone ==
  ASSUME NodesInv, NodeTypes', NEW n \in Nodes, NodeInv(n)',
         \A m \in Nodes : m # n => /\ disk'[m] = disk[m] /\ pinned'[m] = pinned[m]
                                  /\ me'[m] = me[m] /\ proc'[m] = proc[m]
  PROVE  NodesInv'
  <1>1. ASSUME NEW m \in Nodes, m # n PROVE NodeInv(m)' BY <1>1, NodeKept DEF NodesInv, Quiet
  <1> QED BY <1>1 DEF NodesInv

(* The identity is read from whole files.                                  *)
LEMMA LoadKeeps ==
  ASSUME NodesInv, NEW n \in Nodes, load(n)
  PROVE  NodesInv'
  <1>1. NodeInv(n) /\ NodeTypes BY DEF NodesInv
  <1>2. disk[n].crt \in IdsOf(n) /\ disk[n].key = disk[n].crt
    BY <1>1 DEF load, Exists, Parses, NodeInv, KeyAfterCrt
  <1>3. me'[n] = disk[n].crt /\ proc'[n] = "ready" /\ UNCHANGED << disk, pinned >>
    BY <1>1 DEF load, NodeTypes
  <1>4. NodeTypes' BY <1>1, <1>2, IdsOfNodes DEF load, NodeTypes
  <1>5. KeyAfterCrt(n)' /\ Pinned(n)' BY <1>1, <1>3 DEF NodeInv, KeyAfterCrt, Pinned
  <1>6. Unsaved(n)' /\ Saved(n)' /\ Shown(n)'
    BY <1>2, <1>3 DEF Unsaved, Saved, Shown, Up, Saving
  <1>7. NodeInv(n)' BY <1>5, <1>6 DEF NodeInv
  <1>8. \A m \in Nodes : m # n => me'[m] = me[m] /\ proc'[m] = proc[m]
    BY <1>1 DEF load, NodeTypes
  <1> QED BY <1>3, <1>4, <1>7, <1>8, NodeAlone

(* A fresh identity: the key file is missing, and nothing was shown.       *)
LEMMA GenerateKeeps ==
  ASSUME NodesInv, NEW n \in Nodes, generate_node_identity(n)
  PROVE  NodesInv'
  <1>1. NodeInv(n) /\ NodeTypes BY DEF NodesInv
  <1>2. disk[n].key = Missing /\ pinned[n] = None
    BY <1>1, IdsOfNodes, MarkerAssumption
    DEF generate_node_identity, Exists, NodeInv, KeyAfterCrt, Pinned
  <1>3. made[n] + 1 \in Nat BY <1>1 DEF NodeTypes
  <1>4. me'[n] = << n, made[n] + 1 >> /\ proc'[n] = "make" /\ UNCHANGED << disk, pinned >>
    BY <1>1 DEF generate_node_identity, NodeTypes
  <1>5. me'[n] \in IdsOf(n) BY <1>3, <1>4 DEF IdsOf
  <1>6. NodeTypes' BY <1>1, <1>3, <1>4, <1>5, IdsOfNodes DEF generate_node_identity, NodeTypes, Saving
  <1>7. KeyAfterCrt(n)' /\ Pinned(n)' BY <1>1, <1>4 DEF NodeInv, KeyAfterCrt, Pinned
  <1>8. Unsaved(n)' /\ Saved(n)' /\ Shown(n)'
    BY <1>2, <1>4, <1>5 DEF Unsaved, Saved, Shown, Up, Saving
  <1>9. NodeInv(n)' BY <1>7, <1>8 DEF NodeInv
  <1>10. \A m \in Nodes : m # n => me'[m] = me[m] /\ proc'[m] = proc[m]
    BY <1>1 DEF generate_node_identity, NodeTypes
  <1> QED BY <1>4, <1>6, <1>9, <1>10, NodeAlone

(* The four writes of save.                                                *)
LEMMA SaveKeeps ==
  ASSUME NodesInv, NEW n \in Nodes, save(n)
  PROVE  NodesInv'
  <1>1. NodeInv(n) /\ NodeTypes BY DEF NodesInv
  <1>2. /\ proc[n] \in Saving /\ me[n] \in IdsOf(n) /\ pinned[n] = None
        /\ proc[n] # "key" => disk[n].key = Missing
        /\ proc[n] \in {"mid", "key"} => disk[n].crt = me[n]
        /\ KeyAfterCrt(n)
    BY <1>1 DEF save, Saving, NodeInv, Unsaved
  <1>3. me'[n] = me[n] /\ pinned'[n] = pinned[n] /\ UNCHANGED << me, made, pinned >>
    BY DEF save
  <1>4. /\ \A m \in Nodes : m # n => disk'[m] = disk[m] /\ proc'[m] = proc[m]
        /\ \/ /\ proc[n] = "make" /\ proc'[n] = "crt"
              /\ disk'[n].crt = Cut /\ disk'[n].key = disk[n].key
           \/ /\ proc[n] = "crt" /\ proc'[n] = "mid"
              /\ disk'[n].crt = me[n] /\ disk'[n].key = disk[n].key
           \/ /\ proc[n] = "mid" /\ proc'[n] = "key"
              /\ disk'[n].crt = disk[n].crt /\ disk'[n].key = Cut
           \/ /\ proc[n] = "key" /\ proc'[n] = "ready"
              /\ disk'[n].crt = disk[n].crt /\ disk'[n].key = me[n]
    BY <1>1 DEF save, NodeTypes
  <1>5. me[n] \in Files BY <1>2, IdsOfNodes DEF Files
  <1>6. NodeTypes'
    <2>1. disk' \in [Nodes -> [crt : Files, key : Files]]
      BY <1>1, <1>5 DEF save, NodeTypes, Files
    <2>2. proc' \in [Nodes -> {"down", "ready"} \cup Saving \cup Up]
      BY <1>1 DEF save, NodeTypes, Saving
    <2> QED BY <1>1, <1>3, <2>1, <2>2 DEF NodeTypes
  <1>7. KeyAfterCrt(n)' BY <1>2, <1>3, <1>4 DEF KeyAfterCrt
  <1>8. Pinned(n)' /\ Unsaved(n)' /\ Saved(n)' /\ Shown(n)'
    BY <1>2, <1>3, <1>4 DEF Pinned, Unsaved, Saved, Shown, Up, Saving
  <1>9. NodeInv(n)' BY <1>7, <1>8 DEF NodeInv
  <1> QED BY <1>3, <1>4, <1>6, <1>9, NodeAlone

(* A process shows its fingerprint for the first time in this life.  One   *)
(* shown in an earlier life is that of the files, hence the same.          *)
LEMMA PresentKeeps ==
  ASSUME NodesInv, NEW n \in Nodes, NEW up \in Up, proc[n] = "ready",
         proc' = [proc EXCEPT ![n] = up], Present(n), UNCHANGED << disk, made, me >>
  PROVE  NodesInv' /\ me[n] \in IdsOf(n)
  <1>1. NodeInv(n) /\ NodeTypes BY DEF NodesInv
  <1>2. me[n] \in IdsOf(n) /\ disk[n].crt = me[n] /\ disk[n].key = me[n]
    BY <1>1 DEF NodeInv, Saved
  <1>3. pinned'[n] = me[n] /\ \A m \in Nodes : m # n => pinned'[m] = pinned[m]
    BY <1>1, <1>2 DEF Present, NodeTypes, NodeInv, Pinned
  <1>4. proc'[n] = up /\ \A m \in Nodes : m # n => proc'[m] = proc[m]
    BY <1>1 DEF NodeTypes
  <1>5. NodeTypes' BY <1>1, <1>2, IdsOfNodes DEF NodeTypes, Present
  <1>6. KeyAfterCrt(n)' BY <1>1 DEF NodeInv, KeyAfterCrt
  <1>7. Pinned(n)' /\ Unsaved(n)' /\ Saved(n)' /\ Shown(n)'
    BY <1>2, <1>3, <1>4 DEF Pinned, Unsaved, Saved, Shown, Up, Saving
  <1>8. NodeInv(n)' BY <1>6, <1>7 DEF NodeInv
  <1> QED BY <1>2, <1>3, <1>4, <1>5, <1>8, NodeAlone

(* The operator removes both files together.                               *)
LEMMA RotateKeeps ==
  ASSUME NodesInv, NEW n \in Nodes, rotate(n)
  PROVE  NodesInv'
  <1>1. NodeInv(n) /\ NodeTypes BY DEF NodesInv
  <1>2. /\ disk'[n].crt = Missing /\ disk'[n].key = Missing /\ pinned'[n] = None
        /\ proc'[n] = "down" /\ UNCHANGED << made, me, proc >>
        /\ \A m \in Nodes : m # n => disk'[m] = disk[m] /\ pinned'[m] = pinned[m]
    BY <1>1 DEF rotate, NodeTypes
  <1>3. NodeTypes' BY <1>1 DEF rotate, NodeTypes, Files
  <1>4. NodeInv(n)'
    BY <1>2, MarkerAssumption DEF NodeInv, KeyAfterCrt, Pinned, Unsaved, Saved, Shown, Up, Saving
  <1> QED BY <1>2, <1>3, <1>4, NodeAlone

-----------------------------------------------------------------------------
(* What the leader heard, and the connections it made.                     *)

(* Nothing of it changes.                                                  *)
LEMMA JoinKept ==
  ASSUME Joined, Found, UNCHANGED << found, conns, link >>,
         proc'[Leader] = proc[Leader] \/ DOMAIN conns = {} \/ proc'[Leader] \in {"dial", "serve"},
         \A w \in Workers : link[w] = "live" => proc'[w] = proc[w] /\ me'[w] = me[w]
  PROVE  Joined'
  BY DEF Joined, Found

(* The leader ends, and with it all it knows.                              *)
LEMMA LeaderEndsKeeps ==
  ASSUME Joined, link' = Released, found' = Nobody, conns' = Nobody,
         \A w \in Workers : link'[w] # "live"
  PROVE  Found' /\ Joined'
  BY DEF Joined, Found, Nobody, Released

(* No connection of a leader that is gone counts as live.                  *)
LEMMA ReleasedNotLive ==
  ASSUME link \in [Workers -> {"none", "live", "dead"}]
  PROVE  /\ Released \in [Workers -> {"none", "live", "dead"}]
         /\ \A w \in Workers : Released[w] # "live"
  BY DEF Released

(* A worker ends, and with it its side of the connection.                  *)
LEMMA WorkerEndsKeeps ==
  ASSUME NodesInv, JoinInv, NEW w \in Workers, Ends(w), UNCHANGED << disk, made, pinned, leader >>
  PROVE  NodesInv' /\ JoinInv'
  <1> USE DEF leader
  <1>1. NodeTypes /\ w \in Nodes /\ w # Leader BY BringupAssumption DEF NodesInv, Nodes
  <1>2. NodeTypes' BY <1>1 DEF NodeTypes, Ends
  <1>3. \A n \in Nodes : Quiet(n) BY <1>1 DEF NodeTypes, Ends, Quiet
  <1>4. NodesInv' BY <1>2, <1>3, NodesKept
  <1>5. proc'[Leader] = proc[Leader] BY <1>1 DEF Ends
  <1>6. Joined' BY <1>1, <1>5 DEF JoinInv, Joined, Found, Ends, NodeTypes, Nodes
  <1>7. Heard' /\ Found' BY DEF JoinInv, Heard, Found
  <1> QED BY <1>4, <1>6, <1>7 DEF JoinInv

(* The next worker to dial is one that was found.                          *)
LEMMA NextWorkerFound ==
  ASSUME Found, Joined, NEW v \in Workers, Dials(v)
  PROVE  /\ Next_worker \in DOMAIN found /\ Next_worker \notin DOMAIN conns
         /\ Next_worker \in Workers
  <1>1. DOMAIN found \ DOMAIN conns # {} BY DEF Joined, Dials
  <1>2. DOMAIN found \ DOMAIN conns \in SUBSET Nat BY BringupAssumption DEF Found
  <1> QED BY <1>1, <1>2, LeastOfNaturals DEF Next_worker, Found

-----------------------------------------------------------------------------
(* The steps.                                                              *)

(* Loading, generating, saving and rotating touch no node that holds a     *)
(* connection.                                                             *)
LEMMA IdentityStep ==
  ASSUME Inv, NEW n \in Nodes, Identity(n) \/ rotate(n)
  PROVE  Inv'
  <1>1. NodesInv' BY LoadKeeps, GenerateKeeps, SaveKeeps, RotateKeeps DEF Inv, Identity
  <1>2. UNCHANGED << link, air, found, conns >>
    BY DEF Identity, load, generate_node_identity, save, rotate, leader
  <1>3. /\ proc[n] \in {"down"} \cup Saving
        /\ n = Leader => proc'[Leader] \in {"down", "ready"} \cup Saving
        /\ \A m \in Nodes : m # n => proc'[m] = proc[m] /\ me'[m] = me[m]
    BY DEF Inv, NodesInv, NodeTypes, Identity, load, generate_node_identity, save, rotate, Saving
  <1>4. Joined'
    <2>1. Joined /\ Found BY DEF Inv, JoinInv
    <2>2. \A w \in Workers : link[w] = "live" => w # n
      BY <1>3, <2>1 DEF Joined, Saving
    <2>3. \A w \in Workers : link[w] = "live" => proc'[w] = proc[w] /\ me'[w] = me[w]
      BY <1>3, <2>2 DEF Nodes
    <2>4. n = Leader => DOMAIN conns = {} BY <1>3, <2>1 DEF Joined, Saving
    <2>5. n # Leader => proc'[Leader] = proc[Leader] BY <1>3 DEF Nodes
    <2> QED BY <1>2, <2>1, <2>3, <2>4, <2>5, JoinKept
  <1>5. Heard' /\ Found' BY <1>2 DEF Inv, JoinInv, Heard, Found
  <1> QED BY <1>1, <1>4, <1>5 DEF Inv, JoinInv

(* A worker announces the identity it has in its files.                    *)
LEMMA AnnounceStep ==
  ASSUME Inv, NEW w \in Workers, announce(w)
  PROVE  Inv'
  <1>1. w \in Nodes /\ w # Leader BY BringupAssumption DEF Nodes
  <1>2. NodesInv' /\ me[w] \in IdsOf(w)
    BY <1>1, PresentKeeps DEF Inv, announce, Up
  <1>3. Heard'
    <2>1. Ad(w).node = w /\ Ad(w).fp = me[w] BY DEF Ad
    <2>2. air' \subseteq air \cup {Ad(w)} BY DEF announce
    <2> QED BY <1>2, <2>1, <2>2 DEF Inv, JoinInv, Heard
  <1>4. \A m \in Nodes : m # w => proc'[m] = proc[m] BY DEF Inv, NodesInv, NodeTypes, announce
  <1>5. \A m \in Workers : link[m] = "live" => m # w BY DEF Inv, JoinInv, Joined, announce
  <1>6. Joined' BY <1>1, <1>4, <1>5, JoinKept DEF Inv, JoinInv, announce, Nodes
  <1>7. Found' BY DEF Inv, JoinInv, Found, announce
  <1> QED BY <1>2, <1>3, <1>6, <1>7 DEF Inv, JoinInv

(* So do the workers that answer the query of a browsing leader.           *)
LEMMA BrowseStep ==
  ASSUME Inv, browse
  PROVE  Inv'
  <1>1. Leader \in Nodes /\ Leader \notin Workers BY BringupAssumption DEF Nodes
  <1>2. NodesInv' BY <1>1, PresentKeeps DEF Inv, browse, Up
  <1>3. Heard'
    <2>1. SUFFICES ASSUME NEW v \in Workers, proc[v] \in {"listen", "held"}
                   PROVE  Ad(v).node \in Workers /\ Ad(v).fp \in IdsOf(Ad(v).node)
      BY DEF browse, Heard
    <2>2. NodeInv(v) BY DEF Inv, NodesInv, Nodes
    <2>3. me[v] \in IdsOf(v) BY <2>1, <2>2 DEF NodeInv, Saved, Up
    <2> QED BY <2>3 DEF Ad
  <1>4. \A m \in Workers : proc'[m] = proc[m]
    BY <1>1 DEF Inv, NodesInv, NodeTypes, browse, Nodes
  <1>5. DOMAIN conns = {} BY DEF Inv, JoinInv, Joined, browse
  <1>6. Joined' BY <1>4, <1>5, JoinKept DEF Inv, JoinInv, browse
  <1>7. Found' BY DEF Inv, JoinInv, Found, browse
  <1> QED BY <1>2, <1>3, <1>6, <1>7 DEF Inv, JoinInv

(* The fingerprints in the configuration are the ones the workers printed. *)
LEMMA StaticStep ==
  ASSUME Inv, static_endpoints
  PROVE  Inv'
  <1>1. Leader \in Nodes /\ Leader \notin Workers BY BringupAssumption DEF Nodes
  <1>2. NodesInv' BY <1>1, PresentKeeps DEF Inv, static_endpoints, Up
  <1>3. \A m \in Workers : proc'[m] = proc[m]
    BY <1>1 DEF Inv, NodesInv, NodeTypes, static_endpoints, Nodes
  <1>4. DOMAIN conns = {} BY DEF Inv, JoinInv, Joined, static_endpoints
  <1>5. Joined' BY <1>3, <1>4 DEF Inv, JoinInv, Joined, static_endpoints
  <1>6. Found'
    <2>1. found' = [w \in Workers |-> pinned[w]] BY DEF static_endpoints
    <2>2. ASSUME NEW w \in Workers PROVE pinned[w] \in IdsOf(w)
      BY DEF static_endpoints, Inv, NodesInv, NodeInv, Pinned, Nodes
    <2> QED BY <2>1, <2>2 DEF Found
  <1>7. Heard' BY DEF Inv, JoinInv, Heard, static_endpoints
  <1> QED BY <1>2, <1>5, <1>6, <1>7 DEF Inv, JoinInv

(* An announcement that is accepted is not a foreign one.                  *)
LEMMA ResolveStep ==
  ASSUME Inv, NEW ad \in air, resolve(ad)
  PROVE  Inv'
  <1> USE DEF identity
  <1>1. ad.node \in Workers /\ ad.fp \in IdsOf(ad.node) /\ ad.node \notin DOMAIN found
    BY BringupAssumption DEF Inv, JoinInv, Heard, resolve, Accepts
  <1>2. NodesInv'
    <2>1. NodeTypes' BY DEF Inv, NodesInv, NodeTypes, resolve
    <2> QED BY <2>1, NodesKept DEF Inv, NodesInv, Quiet, resolve
  <1>3. found' = [w \in DOMAIN found \cup {ad.node} |-> IF w = ad.node THEN ad.fp ELSE found[w]]
    BY DEF resolve, With
  <1>4. Found' BY <1>1, <1>3 DEF Inv, JoinInv, Found
  <1>5. Joined' BY <1>1, <1>3 DEF Inv, JoinInv, Found, Joined, resolve
  <1>6. Heard' BY DEF Inv, JoinInv, Heard, resolve
  <1> QED BY <1>2, <1>4, <1>5, <1>6 DEF Inv, JoinInv

(* The leader's process ends.                                              *)
LEMMA LeaderEndsStep ==
  ASSUME Inv, LeaderEnds, UNCHANGED << disk, made, pinned >>
  PROVE  Inv'
  <1>1. Leader \in Nodes /\ Leader \notin Workers BY BringupAssumption DEF Nodes
  <1>2. NodesInv'
    <2>1. NodeTypes' BY DEF Inv, NodesInv, NodeTypes, LeaderEnds
    <2>2. \A n \in Nodes : Quiet(n) BY DEF Inv, NodesInv, NodeTypes, LeaderEnds, Quiet
    <2> QED BY <2>1, <2>2, NodesKept DEF Inv
  <1>3. \A w \in Workers : link'[w] # "live"
    BY ReleasedNotLive DEF Inv, JoinInv, Joined, LeaderEnds
  <1>4. Found' /\ Joined' BY <1>3, LeaderEndsKeeps DEF Inv, JoinInv, LeaderEnds
  <1>5. Heard' BY DEF LeaderEnds, Heard
  <1> QED BY <1>2, <1>4, <1>5 DEF Inv, JoinInv

(* The leader goes on from one phase of its start to the next.             *)
LEMMA LeaderMoves ==
  ASSUME Inv, NEW to \in {"dial", "serve"}, proc[Leader] \in Up,
         proc' = [proc EXCEPT ![Leader] = to],
         UNCHANGED << disk, made, pinned, me, link, found, conns >>
  PROVE  NodesInv' /\ Found' /\ Joined'
  <1>1. Leader \in Nodes /\ Leader \notin Workers BY BringupAssumption DEF Nodes
  <1>2. NodesInv'
    <2>1. NodeTypes' BY DEF Inv, NodesInv, NodeTypes, Up
    <2>2. \A n \in Nodes : Quiet(n) BY DEF Inv, NodesInv, NodeTypes, Quiet, Up
    <2> QED BY <2>1, <2>2, NodesKept DEF Inv
  <1>3. proc'[Leader] \in {"dial", "serve"} /\ \A m \in Workers : proc'[m] = proc[m]
    BY <1>1 DEF Inv, NodesInv, NodeTypes, Nodes
  <1>4. Joined' BY <1>3, JoinKept DEF Inv, JoinInv
  <1>5. Found' BY DEF Inv, JoinInv, Found
  <1> QED BY <1>2, <1>4, <1>5

(* The verifier takes any fingerprint of the list, but the JoinAck makes   *)
(* sure that the worker is the one dialled, and the fingerprint it shows   *)
(* was made by that worker, so it is the one of its own entry.             *)
LEMMA JoinStep ==
  ASSUME Inv, NEW w \in Workers, join(w)
  PROVE  Inv'
  <1> USE DEF identity
  <1>1. Found /\ Joined /\ Heard BY DEF Inv, JoinInv
  <1>2. Dials(w) /\ w = Next_worker BY DEF join, Acknowledged
  <1>3. /\ w \in DOMAIN found /\ proc[w] = "listen" /\ Trusted(me[w])
        /\ proc' = [proc EXCEPT ![w] = "held"]
        /\ link' = [link EXCEPT ![w] = "live"]
        /\ conns' = With(conns, w, w)
        /\ UNCHANGED << disk, made, me, pinned, air, found >>
    BY <1>1, <1>2, NextWorkerFound DEF join
  <1>4. w \in Nodes /\ w # Leader BY BringupAssumption DEF Nodes
  <1>5. NodesInv'
    <2>1. NodeTypes' BY <1>3 DEF Inv, NodesInv, NodeTypes, Up
    <2>2. \A n \in Nodes : Quiet(n) BY <1>3 DEF Inv, NodesInv, NodeTypes, Quiet, Up
    <2> QED BY <1>3, <2>1, <2>2, NodesKept DEF Inv
  <1>6. found[w] = me[w]
    <2>1. me[w] \in IdsOf(w)
      BY <1>3, <1>4 DEF Inv, NodesInv, NodeInv, Saved, Up
    <2>2. PICK v \in DOMAIN found : found[v] = me[w] BY <1>3 DEF Trusted, Range
    <2>3. v \in Workers /\ me[w] \in IdsOf(v) BY <1>1, <2>2 DEF Found
    <2>4. v = w BY <1>4, <2>1, <2>3, IdsOfNodes DEF Nodes
    <2> QED BY <2>2, <2>4
  <1>7. /\ proc'[w] = "held" /\ proc'[Leader] = proc[Leader] /\ link'[w] = "live"
        /\ \A m \in Workers : m # w => proc'[m] = proc[m] /\ link'[m] = link[m]
        /\ link' \in [Workers -> {"none", "live", "dead"}]
    BY <1>1, <1>3, <1>4 DEF Inv, NodesInv, NodeTypes, Nodes, Joined
  <1>8. proc'[Leader] = "dial" BY <1>2, <1>7 DEF Dials
  <1>9. Joined'
    <2>1. /\ DOMAIN conns' = DOMAIN conns \cup {w} /\ conns'[w] = w
          /\ \A v \in DOMAIN conns : v # w => conns'[v] = conns[v]
      BY <1>3 DEF With
    <2> QED BY <1>1, <1>3, <1>6, <1>7, <1>8, <2>1 DEF Joined, Found
  <1>10. Found' /\ Heard' BY <1>1, <1>3 DEF Found, Heard
  <1> QED BY <1>5, <1>9, <1>10 DEF Inv, JoinInv

(* A JoinAck of another worker ends the leader and what it had.            *)
LEMMA WrongWorkerStep ==
  ASSUME Inv, NEW w \in Workers, wrong_worker(w)
  PROVE  Inv'
  <1>1. Found /\ Joined BY DEF Inv, JoinInv
  <1>2. w \in Nodes /\ w # Leader BY BringupAssumption DEF Nodes
  <1>3. /\ proc[w] = "listen"
        /\ proc' = [proc EXCEPT ![Leader] = "down", ![w] = "held"]
        /\ me' = [me EXCEPT ![Leader] = None]
        /\ link' = [Released EXCEPT ![w] = "dead"]
        /\ air' = {} /\ found' = Nobody /\ conns' = Nobody
        /\ UNCHANGED << disk, made, pinned >>
    BY DEF wrong_worker
  <1>4. NodesInv'
    <2>1. NodeTypes' BY <1>3 DEF Inv, NodesInv, NodeTypes, Up
    <2>2. \A n \in Nodes : Quiet(n) BY <1>2, <1>3 DEF Inv, NodesInv, NodeTypes, Quiet, Up
    <2> QED BY <1>3, <2>1, <2>2, NodesKept DEF Inv
  <1>5. link' \in [Workers -> {"none", "live", "dead"}] /\ \A v \in Workers : link'[v] # "live"
    BY <1>1, <1>3, ReleasedNotLive DEF Joined
  <1>6. Found' /\ Joined' BY <1>3, <1>5 DEF Joined, Found, Nobody
  <1>7. Heard' BY <1>3 DEF Heard
  <1> QED BY <1>4, <1>6, <1>7 DEF Inv, JoinInv

(* A refused certificate ends the leader and that worker.                  *)
LEMMA UntrustedStep ==
  ASSUME Inv, NEW w \in Workers, untrusted(w)
  PROVE  Inv'
  <1>1. Found /\ Joined BY DEF Inv, JoinInv
  <1>3. /\ proc' = [proc EXCEPT ![Leader] = "down", ![w] = "down"]
        /\ me' = [me EXCEPT ![Leader] = None, ![w] = None]
        /\ link' = Released /\ air' = {} /\ found' = Nobody /\ conns' = Nobody
        /\ UNCHANGED << disk, made, pinned >>
    BY DEF untrusted
  <1>4. NodesInv'
    <2>1. NodeTypes' BY <1>3 DEF Inv, NodesInv, NodeTypes
    <2>2. \A n \in Nodes : Quiet(n) BY <1>3 DEF Inv, NodesInv, NodeTypes, Quiet
    <2> QED BY <1>3, <2>1, <2>2, NodesKept DEF Inv
  <1>5. \A v \in Workers : link'[v] # "live" BY <1>1, <1>3, ReleasedNotLive DEF Joined
  <1>6. Found' /\ Joined' BY <1>1, <1>3, <1>5, LeaderEndsKeeps
  <1>7. Heard' BY <1>3 DEF Heard
  <1> QED BY <1>4, <1>6, <1>7 DEF Inv, JoinInv

(* A reload forgets the endpoints together with the connections.           *)
LEMMA ReloadStep ==
  ASSUME Inv, reload
  PROVE  Inv'
  <1> USE DEF identity
  <1>1. NodesInv'
    <2>1. NodeTypes' BY DEF Inv, NodesInv, NodeTypes, reload, Up
    <2>2. \A n \in Nodes : Quiet(n) BY DEF Inv, NodesInv, NodeTypes, Quiet, reload, Up
    <2> QED BY <2>1, <2>2, NodesKept DEF Inv, reload
  <1>2. \A w \in Workers : link'[w] # "live" BY ReleasedNotLive DEF Inv, JoinInv, Joined, reload
  <1>3. Found' /\ Joined' BY <1>2, LeaderEndsKeeps DEF Inv, JoinInv, reload
  <1>4. Heard' BY DEF Inv, JoinInv, Heard, reload
  <1> QED BY <1>1, <1>3, <1>4 DEF Inv, JoinInv

(* Inv is inductive.                                                       *)
LEMMA InvStep == Inv /\ [Next]_vars => Inv'
  <1> SUFFICES ASSUME Inv, [Next]_vars PROVE Inv' OBVIOUS
  <1>1. CASE UNCHANGED vars
    <2>1. UNCHANGED << disk, made, me, pinned, proc, link, air, found, conns >>
      BY <1>1 DEF vars, identity, leader
    <2>2. NodesInv'
      <3>1. NodeTypes' BY <2>1 DEF Inv, NodesInv, NodeTypes
      <3> QED BY <2>1, <3>1, NodesKept DEF Inv, Quiet
    <2>3. Heard' /\ Found' BY <2>1 DEF Inv, JoinInv, Heard, Found
    <2>4. Joined' BY <2>1, JoinKept DEF Inv, JoinInv
    <2> QED BY <2>2, <2>3, <2>4 DEF Inv, JoinInv
  <1>2. ASSUME NEW w \in Workers, drop(w) \/ crash_worker(w) PROVE Inv'
    BY <1>2, WorkerEndsKeeps DEF Inv, drop, crash_worker
  <1>3. CASE browsed
    <2>1. CASE DOMAIN found = {} BY <1>3, <2>1, LeaderEndsStep DEF browsed
    <2>2. CASE DOMAIN found # {}
      <3>1. NodesInv' /\ Found' /\ Joined'
        BY <1>3, <2>2, LeaderMoves DEF browsed, Browsing, Up
      <3>2. Heard' BY <1>3, <2>2 DEF browsed, Heard
      <3> QED BY <3>1, <3>2 DEF Inv, JoinInv
    <2> QED BY <2>1, <2>2
  <1>4. CASE assign
    <2>1. CASE LeaderEnds BY <1>4, <2>1, LeaderEndsStep DEF assign
    <2>2. CASE proc' = [proc EXCEPT ![Leader] = "serve"] /\ UNCHANGED << me, link, leader >>
      <3>1. NodesInv' /\ Found' /\ Joined'
        BY <1>4, <2>2, LeaderMoves DEF assign, AllJoined, Up, leader
      <3>2. Heard' BY <2>2 DEF Inv, JoinInv, Heard, leader
      <3> QED BY <3>1, <3>2 DEF Inv, JoinInv
    <2> QED BY <1>4, <2>1, <2>2 DEF assign
  <1>5. CASE no_manifest \/ crash_leader
    BY <1>5, LeaderEndsStep DEF no_manifest, crash_leader
  <1>6. ASSUME NEW v \in Workers, Dial(v) PROVE Inv'
    <2>1. CASE dial_times_out(v) BY <2>1, LeaderEndsStep DEF dial_times_out
    <2> QED BY <1>6, <2>1, JoinStep, WrongWorkerStep, UntrustedStep DEF Dial
  <1> QED BY <1>1, <1>2, <1>3, <1>4, <1>5, <1>6, IdentityStep, AnnounceStep, BrowseStep,
             StaticStep, ResolveStep, ReloadStep
          DEF Next, Configure, Distribute

(* It holds when every process is down and no file exists.                 *)
LEMMA InvInit == Init => Inv
  <1> SUFFICES ASSUME Init PROVE Inv OBVIOUS
  <1>1. NodeTypes BY DEF Init, NodeTypes, Files
  <1>2. ASSUME NEW n \in Nodes PROVE NodeInv(n)
    BY MarkerAssumption
    DEF Init, NodeInv, KeyAfterCrt, Pinned, Unsaved, Saved, Shown, Up, Saving
  <1>3. Heard /\ Found /\ Joined BY DEF Init, Heard, Found, Joined, Nobody
  <1> QED BY <1>1, <1>2, <1>3 DEF Inv, NodesInv, JoinInv

(* Hence Inv holds in every reachable state.                               *)
LEMMA InvAlways == Spec => []Inv
  BY InvInit, InvStep, PTL DEF Spec

(***************************************************************************)
(* FingerprintNeverChanges: whatever crashes at whatever write of          *)
(* load_or_generate_node_identity, a process that is up shows the          *)
(* fingerprint its node has shown from the first, until an operator        *)
(* removes the files.                                                      *)
(***************************************************************************)
THEOREM FingerprintNeverChanges == Spec => []FingerprintStable
  <1>1. Inv => FingerprintStable BY DEF Inv, NodesInv, NodeInv, Shown, FingerprintStable
  <1> QED BY <1>1, InvAlways, PTL

(***************************************************************************)
(* JoinedUnderOwnId: although FingerprintVerifier takes any fingerprint of *)
(* the list and any worker may answer at an address, every connection of   *)
(* the leader ends at the node it is kept for, and that node shows what    *)
(* was announced or configured for it, whoever else announces itself on    *)
(* the LAN and whichever node restarts.  It rests on both checks of        *)
(* ClusterLeader::start, the certificate and the node id of the JoinAck.   *)
(***************************************************************************)
THEOREM JoinedUnderOwnId == Spec => []JoinedAsAnnounced
  <1>1. Inv => JoinedAsAnnounced BY DEF Inv, JoinInv, Joined, JoinedAsAnnounced
  <1> QED BY <1>1, InvAlways, PTL
=============================================================================
