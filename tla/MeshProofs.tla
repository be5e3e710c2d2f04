----------------------------- MODULE MeshProofs -----------------------------
(***************************************************************************)
(* Proofs about Mesh, for any configuration, any number of attempts,       *)
(* retries, crashes and restarts: a node that serves holds a connection    *)
(* for every node of the cluster, itself included, and two nodes that      *)
(* serve hold the same one for their pair.                                 *)
(***************************************************************************)
EXTENDS Mesh, FiniteSetTheorems, FunctionTheorems, WellFoundedInduction, TLAPS

Conns == Attempts \cup {None}

Types ==
  /\ phase \in [Nodes -> {"off", "mesh", "loopback", "serving", "failed", "down"}]
  /\ inc \in [Nodes -> Nat]
  /\ to_dial \in [Nodes -> SUBSET Nodes]
  /\ dialing \in [Nodes -> [pc : {"idle", "wait", "hello", "over"}, conn : Conns,
                            try : 0 .. DIAL_ATTEMPTS]]
  /\ queue \in [Nodes -> Seq(Attempts)]
  /\ left \in [Nodes -> Nat]
  /\ reading \in [Nodes -> Conns]
  /\ dialed \in [Nodes -> [Nodes -> Conns]]
  /\ accepted \in [Nodes -> [Nodes -> Conns]]

\* A node reaches larger ones and, once its mesh is complete, itself.
Reaches(n, p) == n < p \/ (n = p /\ phase[n] # "mesh")

\* What the run of n has dialed: it stems from this run and was not seen by a
\* run of its target that is still to come.
Outbound(n, c) ==
  /\ c \in Attempts /\ c.from = n /\ c.run = inc[n]
  /\ c.seen <= inc[c.to] /\ Reaches(n, c.to)

\* What arrived at n: for this run of it.
Inbound(n, c) ==
  /\ c \in Attempts /\ c.to = n /\ c.seen = inc[n]
  /\ c.from < n \/ (c.from = n /\ phase[n] # "mesh")

\* The first peer of a set in configuration order.
FirstOf(S) == Config[Min({i \in DOMAIN Config : Config[i] \in S})]

(***************************************************************************)
(* The dialer of n.  No peer is dialed that is connected already, so each  *)
(* run of a node connects to a peer once.                                  *)
(***************************************************************************)
Dials(n) ==
  /\ \A p \in to_dial[n] : dialed[n][p] = None /\ Reaches(n, p)
  /\ dialing[n].pc = "idle" => dialing[n].try < DIAL_ATTEMPTS
  /\ dialing[n].pc # "idle" => /\ Outbound(n, dialing[n].conn) /\ to_dial[n] # {}
                               /\ dialing[n].conn.to = FirstOf(to_dial[n])
  /\ \A p \in Nodes : dialed[n][p] # None => Outbound(n, dialed[n][p]) /\ dialed[n][p].to = p

(* The accept task of n.  A node that is not up has nothing in its queue.  *)
Accepts(n) ==
  /\ \A i \in DOMAIN queue[n] : Inbound(n, queue[n][i])
  /\ reading[n] # None => Inbound(n, reading[n]) /\ left[n] > 0
  /\ \A p \in Nodes : accepted[n][p] # None => Inbound(n, accepted[n][p]) /\ accepted[n][p].from = p
  /\ ~Up(n) => queue[n] = << >>

(* What connect_mesh, and then accept_one, have made sure of.              *)
Formed(n) ==
  /\ phase[n] \in {"loopback", "serving"} => \A p \in Nodes \ {n} : Conn(n, p) # None
  /\ phase[n] = "serving" => accepted[n][n] # None /\ left[n] = 0

\* The run of n has connection d to p: its hello is sent, or about to be.
Made(n, p, d) ==
  /\ Up(n)
  /\ dialed[n][p] = d \/ (dialing[n].pc = "hello" /\ dialing[n].conn = d /\ d.to = p)

\* The accept task of p waits for a hello of n.
Hears(p, n) == reading[p] # None /\ reading[p].from = n

(***************************************************************************)
(* Agreed: what the run of n has as its connection to p is what the run of *)
(* p it was made with has, or is about to read, as the one from n.  A      *)
(* later run of p has none from n, and will not get one from this run.     *)
(***************************************************************************)
Agreed(n, p) ==
  \A d \in {dialed[n][p], dialing[n].conn} \ {None} : Made(n, p, d) /\ Up(p) =>
    IF d.seen = inc[p] THEN reading[p] = d \/ (accepted[p][n] = d /\ ~Hears(p, n))
    ELSE accepted[p][n] = None /\ ~Hears(p, n)

Inv ==
  /\ Types
  /\ \A n \in Nodes : Dials(n) /\ Accepts(n) /\ Formed(n)
  /\ \A n, p \in Nodes : n < p => Agreed(n, p)

-----------------------------------------------------------------------------
(* Constants and operators.                                                *)

(* Nodes are finitely many positive numbers.                               *)
LEMMA NodesFinite ==
  /\ IsFiniteSet(Nodes) /\ Cardinality(Nodes) \in Nat
  /\ \A n \in Nodes : n \in Nat /\ \E i \in DOMAIN Config : Config[i] = n
  /\ None \notin Attempts /\ DIAL_ATTEMPTS \in Nat \ {0}
  <1>1. Config \in Seq(Nat \ {0}) /\ None \notin Attempts /\ DIAL_ATTEMPTS \in Nat \ {0}
    BY MeshAssumption
  <1>2. /\ DOMAIN Config = 1 .. Len(Config) /\ Len(Config) \in Nat
        /\ \A i \in DOMAIN Config : Config[i] \in Nat \ {0}
    BY <1>1
  <1>3. Nodes = {Config[i] : i \in DOMAIN Config} BY DEF Nodes, Range
  <1>4. IsFiniteSet(DOMAIN Config) BY <1>2, FS_Interval
  <1>5. Config \in Surjection(DOMAIN Config, Nodes)
    <2>1. Config \in [DOMAIN Config -> Nodes] BY <1>1, <1>2, <1>3
    <2> QED BY <2>1, <1>3 DEF Surjection
  <1>6. IsFiniteSet(Nodes) BY <1>4, <1>5, FS_Surjection
  <1> QED BY <1>1, <1>2, <1>3, <1>6, FS_CardinalityType

(* A set of naturals has a least element.                                  *)
LEMMA LeastOfNaturals ==
  ASSUME NEW S \in SUBSET Nat, S # {}
  PROVE  Min(S) \in S
  <1> DEFINE R == OpToRel(<, Nat)
  <1>1. IsWellFoundedOn(R, Nat) BY NatLessThanWellFounded
  <1>2. \A x, y \in Nat : x < y => << x, y >> \in R BY DEF OpToRel
  <1> HIDE DEF R
  <1>3. PICK x \in S : \A y \in S : ~(<< y, x >> \in R) BY <1>1, WFMin
  <1>4. ASSUME NEW y \in S PROVE x <= y
    <2>1. ~(y < x) BY <1>2, <1>3, Zenon
    <2> QED BY <2>1
  <1> QED BY <1>3, <1>4 DEF Min

(* The first peer of a set is one of it.                                   *)
LEMMA FirstIsOne ==
  ASSUME NEW S \in SUBSET Nodes, S # {}
  PROVE  FirstOf(S) \in S
  <1> DEFINE I == {i \in DOMAIN Config : Config[i] \in S}
  <1>1. DOMAIN Config \subseteq Nat BY MeshAssumption
  <1>2. I \in SUBSET Nat /\ I # {} BY <1>1, NodesFinite
  <1>3. Min(I) \in I BY <1>2, LeastOfNaturals
  <1> QED BY <1>3 DEF FirstOf

LEMMA TargetIsFirst == \A n \in Nodes : Target(n) = FirstOf(to_dial[n])
  BY DEF Target, FirstOf

-----------------------------------------------------------------------------
(* Parts of the state that a step leaves alone.                            *)

Later == inc' \in [Nodes -> Nat] /\ \A q \in Nodes : inc[q] <= inc'[q]

DialerSame(n) ==
  /\ to_dial'[n] = to_dial[n] /\ dialing'[n] = dialing[n] /\ dialed'[n] = dialed[n]
  /\ phase'[n] = phase[n] /\ inc'[n] = inc[n]

AcceptorSame(n) ==
  /\ queue'[n] = queue[n] /\ left'[n] = left[n] /\ reading'[n] = reading[n]
  /\ accepted'[n] = accepted[n] /\ phase'[n] = phase[n] /\ inc'[n] = inc[n]

MapsSame(n) ==
  /\ dialed'[n] = dialed[n] /\ accepted'[n] = accepted[n]
  /\ left'[n] = left[n] /\ phase'[n] = phase[n]

\* n has made no connection that it did not have.
NothingMade(n) ==
  /\ Up(n)' => Up(n)
  /\ dialed'[n] = dialed[n]
  /\ dialing'[n].pc = "hello" => dialing'[n] = dialing[n]

\* p has taken none.
NothingTaken(p) ==
  /\ Up(p)' => Up(p)
  /\ inc'[p] = inc[p] /\ reading'[p] = reading[p] /\ accepted'[p] = accepted[p]

LEMMA DialsKept ==
  ASSUME Inv, Later, NEW n \in Nodes, DialerSame(n)
  PROVE  Dials(n)'
  <1>1. Dials(n) BY DEF Inv
  <1>2. ASSUME NEW c, Outbound(n, c) PROVE Outbound(n, c)'
    <2>1. c.to \in Nodes /\ c.seen \in Nat BY <1>2 DEF Outbound, Attempts
    <2>2. inc[c.to] \in Nat BY <2>1 DEF Inv, Types
    <2>3. inc'[c.to] \in Nat /\ inc[c.to] <= inc'[c.to] BY <2>1 DEF Later
    <2>4. c.seen <= inc'[c.to] BY <1>2, <2>1, <2>2, <2>3 DEF Outbound
    <2> QED BY <1>2, <2>4 DEF Outbound, Reaches, DialerSame
  <1> QED BY <1>1, <1>2 DEF Dials, DialerSame, Reaches

LEMMA AcceptsKept ==
  ASSUME Inv, NEW n \in Nodes, AcceptorSame(n)
  PROVE  Accepts(n)'
  <1>1. Accepts(n) BY DEF Inv
  <1> QED BY <1>1 DEF Accepts, AcceptorSame, Inbound, Up

LEMMA FormedKept ==
  ASSUME Inv, NEW n \in Nodes, MapsSame(n)
  PROVE  Formed(n)'
  <1>1. Formed(n) BY DEF Inv
  <1> QED BY <1>1 DEF Formed, MapsSame, Conn

LEMMA AgreedKept ==
  ASSUME Inv, NEW n \in Nodes, NEW p \in Nodes, n < p, NothingMade(n), NothingTaken(p)
  PROVE  Agreed(n, p)'
  <1>1. Agreed(n, p) BY DEF Inv
  <1> QED BY <1>1 DEF Agreed, Made, Hears, NothingMade, NothingTaken

-----------------------------------------------------------------------------
(* The steps, one lemma each.                                              *)

\* What a step keeps.
Kept == Types' /\ (\A m \in Nodes : Dials(m)' /\ Accepts(m)' /\ Formed(m)')
               /\ \A m, p \in Nodes : m < p => Agreed(m, p)'

(* Fields of what a node is dialing.                                       *)
LEMMA DialingFields ==
  ASSUME Inv, NEW n \in Nodes
  PROVE  /\ dialing[n].pc \in {"idle", "wait", "hello", "over"} /\ dialing[n].conn \in Conns
         /\ dialing[n].try \in 0 .. DIAL_ATTEMPTS
         /\ dialing[n] = [pc |-> dialing[n].pc, conn |-> dialing[n].conn, try |-> dialing[n].try]
  BY DEF Inv, Types

(* What was dialed stays so in a step that changes neither runs nor phases. *)
LEMMA OutboundKept ==
  ASSUME NEW n \in Nodes, NEW c, Outbound(n, c), UNCHANGED << phase, inc >>
  PROVE  Outbound(n, c)'
  BY DEF Outbound, Reaches

(* An attempt begins.                                                      *)
LEMMA ConnectStep ==
  ASSUME Inv, NEW n \in Nodes, connect(n)
  PROVE  Kept
  <1>1. PICK t : t = FirstOf(to_dial[n]) OBVIOUS
  <1>2. t \in to_dial[n] /\ t \in Nodes /\ Target(n) = t /\ to_dial[n] # {}
    BY <1>1, FirstIsOne, TargetIsFirst DEF connect, Inv, Types
  <1>3. PICK k : k = dialing[n].try + 1 OBVIOUS
  <1>4. k \in 1 .. DIAL_ATTEMPTS
    <2>1. dialing[n].try < DIAL_ATTEMPTS BY DEF connect, Inv, Dials
    <2>2. dialing[n].try \in 0 .. DIAL_ATTEMPTS BY DialingFields
    <2>3. PICK j : j = dialing[n].try OBVIOUS
    <2> QED BY ONLY <1>3, <2>1, <2>2, <2>3, NodesFinite
  <1>5. PICK c : c = Attempt(n, t, k, 0) OBVIOUS
  <1>6. Outbound(n, c) /\ c.to = t
    <2>1. inc[n] \in Nat /\ inc[t] \in Nat BY <1>2 DEF Inv, Types
    <2>2. c \in Attempts /\ c.from = n /\ c.run = inc[n] /\ c.seen = 0 /\ c.to = t
      BY <1>2, <1>4, <1>5, <2>1 DEF Attempt, Attempts
    <2>3. Reaches(n, t) BY <1>2 DEF Inv, Dials
    <2> QED BY <2>1, <2>2, <2>3 DEF Outbound
  <1>7. /\ dialing' = [dialing EXCEPT ![n] = [pc |-> "wait", try |-> k, conn |-> c]]
        /\ UNCHANGED << phase, inc, to_dial, dialed, left, reading, accepted, queue >>
    BY <1>2, <1>3, <1>5 DEF connect, process, acceptor
  <1>8. Types'
    <2>1. c \in Conns BY <1>6 DEF Outbound, Conns
    <2> QED BY <1>4, <1>7, <2>1 DEF Inv, Types
  <1>9. /\ \A m \in Nodes : m # n => dialing'[m] = dialing[m]
        /\ dialing'[n] = [pc |-> "wait", try |-> k, conn |-> c]
    BY <1>7 DEF Inv, Types
  <1>10. Later BY <1>7 DEF Inv, Types, Later
  <1>11. ASSUME NEW m \in Nodes PROVE Dials(m)'
    <2>1. CASE m # n
      <3>1. DialerSame(m) BY <1>7, <1>9, <2>1 DEF DialerSame
      <3> QED BY <1>10, <3>1, DialsKept
    <2>2. CASE m = n
      <3>1. dialing'[n].pc = "wait" /\ dialing'[n].conn = c BY <1>9
      <3>2. Dials(n) BY DEF Inv
      <3>3. Outbound(n, c)' BY <1>6, <1>7, OutboundKept
      <3>4. \A p \in Nodes : dialed[n][p] # None => Outbound(n, dialed[n][p])'
        BY <1>7, <3>2 DEF Dials, Outbound, Reaches
      <3> QED BY <1>1, <1>2, <1>6, <1>7, <2>2, <3>1, <3>2, <3>3, <3>4 DEF Dials, Reaches
    <2> QED BY <2>1, <2>2
  <1>12. ASSUME NEW m \in Nodes PROVE Accepts(m)' /\ Formed(m)'
    <2>1. AcceptorSame(m) /\ MapsSame(m) BY <1>7 DEF AcceptorSame, MapsSame
    <2> QED BY <2>1, AcceptsKept, FormedKept
  <1>13. ASSUME NEW m \in Nodes, NEW p \in Nodes, m < p PROVE Agreed(m, p)'
    <2>1. NothingMade(m) BY <1>7, <1>9 DEF NothingMade, Up
    <2>2. NothingTaken(p) BY <1>7 DEF NothingTaken, Up
    <2> QED BY <1>13, <2>1, <2>2, AgreedKept
  <1> QED BY <1>8, <1>11, <1>12, <1>13 DEF Kept

(* An attempt is given up and will be repeated.                            *)
LEMMA RetryStep ==
  ASSUME Inv, NEW n \in Nodes, handshake_fails(n)
  PROVE  Kept
  <1>1. /\ dialing' = [dialing EXCEPT ![n].pc = "idle", ![n].conn = None]
        /\ dialing[n].pc = "wait" /\ dialing[n].try < DIAL_ATTEMPTS
        /\ UNCHANGED << phase, inc, to_dial, dialed, left, reading, accepted, queue >>
    BY DEF handshake_fails, process, acceptor
  <1>2. /\ \A m \in Nodes : m # n => dialing'[m] = dialing[m]
        /\ dialing'[n].pc = "idle" /\ dialing'[n].try = dialing[n].try
    BY <1>1 DEF Inv, Types
  <1>3. Types'
    <2>1. dialing' \in [Nodes -> [pc : {"idle", "wait", "hello", "over"}, conn : Conns,
                                  try : 0 .. DIAL_ATTEMPTS]]
      <3>1. dialing \in [Nodes -> [pc : {"idle", "wait", "hello", "over"}, conn : Conns,
                                   try : 0 .. DIAL_ATTEMPTS]]
        BY DEF Inv, Types
      <3>2. None \in Conns BY DEF Conns
      <3> QED BY ONLY <1>1, <3>1, <3>2
    <2> QED BY <1>1, <2>1 DEF Inv, Types
  <1>4. Later BY <1>1 DEF Inv, Types, Later
  <1>5. ASSUME NEW m \in Nodes PROVE Dials(m)'
    <2>1. CASE m # n
      <3>1. DialerSame(m) BY <1>1, <1>2, <2>1 DEF DialerSame
      <3> QED BY <1>4, <3>1, DialsKept
    <2>2. CASE m = n
      <3>1. Dials(n) BY DEF Inv
      <3>2. \A p \in Nodes : dialed[n][p] # None => Outbound(n, dialed[n][p])'
        BY <1>1, <3>1 DEF Dials, Outbound, Reaches
      <3> QED BY <1>1, <1>2, <2>2, <3>1, <3>2 DEF Dials, Reaches
    <2> QED BY <2>1, <2>2
  <1>6. ASSUME NEW m \in Nodes PROVE Accepts(m)' /\ Formed(m)'
    <2>1. AcceptorSame(m) /\ MapsSame(m) BY <1>1 DEF AcceptorSame, MapsSame
    <2> QED BY <2>1, AcceptsKept, FormedKept
  <1>7. ASSUME NEW m \in Nodes, NEW p \in Nodes, m < p PROVE Agreed(m, p)'
    <2>1. NothingMade(m) BY <1>1, <1>2 DEF NothingMade, Up
    <2>2. NothingTaken(p) BY <1>1 DEF NothingTaken, Up
    <2> QED BY <1>7, <2>1, <2>2, AgreedKept
  <1> QED BY <1>3, <1>5, <1>6, <1>7 DEF Kept

(* The task that dials the node itself ends with an error.                 *)
LEMMA SelfDialFailsStep ==
  ASSUME Inv, NEW n \in Nodes, self_dial_fails(n)
  PROVE  Kept
  <1>1. /\ dialing' = [dialing EXCEPT ![n].pc = "over"]
        /\ dialing[n].pc \in {"wait", "hello"}
        /\ UNCHANGED << phase, inc, to_dial, dialed, left, reading, accepted, queue >>
    BY DEF self_dial_fails, DialOver, process, acceptor
  <1>2. /\ \A m \in Nodes : m # n => dialing'[m] = dialing[m]
        /\ dialing'[n].pc = "over" /\ dialing'[n].conn = dialing[n].conn
    BY <1>1 DEF Inv, Types
  <1>3. Types'
    <2>1. dialing' \in [Nodes -> [pc : {"idle", "wait", "hello", "over"}, conn : Conns,
                                  try : 0 .. DIAL_ATTEMPTS]]
      <3>1. dialing \in [Nodes -> [pc : {"idle", "wait", "hello", "over"}, conn : Conns,
                                   try : 0 .. DIAL_ATTEMPTS]]
        BY DEF Inv, Types
      <3> QED BY ONLY <1>1, <3>1
    <2> QED BY <1>1, <2>1 DEF Inv, Types
  <1>4. Later BY <1>1 DEF Inv, Types, Later
  <1>5. ASSUME NEW m \in Nodes PROVE Dials(m)'
    <2>1. CASE m # n
      <3>1. DialerSame(m) BY <1>1, <1>2, <2>1 DEF DialerSame
      <3> QED BY <1>4, <3>1, DialsKept
    <2>2. CASE m = n
      <3>1. Dials(n) BY DEF Inv
      <3>2. \A p \in Nodes : dialed[n][p] # None => Outbound(n, dialed[n][p])'
        BY <1>1, <3>1 DEF Dials, Outbound, Reaches
      <3>3. Outbound(n, dialing[n].conn)' BY <1>1, <1>2, <3>1 DEF Dials, Outbound, Reaches
      <3> QED BY <1>1, <1>2, <2>2, <3>1, <3>2, <3>3 DEF Dials, Reaches
    <2> QED BY <2>1, <2>2
  <1>6. ASSUME NEW m \in Nodes PROVE Accepts(m)' /\ Formed(m)'
    <2>1. AcceptorSame(m) /\ MapsSame(m) BY <1>1 DEF AcceptorSame, MapsSame
    <2> QED BY <2>1, AcceptsKept, FormedKept
  <1>7. ASSUME NEW m \in Nodes, NEW p \in Nodes, m < p PROVE Agreed(m, p)'
    <2>1. NothingMade(m) BY <1>1, <1>2 DEF NothingMade, Up
    <2>2. NothingTaken(p) BY <1>1 DEF NothingTaken, Up
    <2> QED BY <1>7, <2>1, <2>2, AgreedKept
  <1> QED BY <1>3, <1>5, <1>6, <1>7 DEF Kept

(* An attempt arrives at the endpoint of its target.                       *)
LEMMA ArriveStep ==
  ASSUME Inv, NEW n \in Nodes, arrive(n)
  PROVE  Kept
  <1>1. PICK t : t = FirstOf(to_dial[n]) OBVIOUS
  <1>2. /\ dialing[n].pc = "wait" /\ Target(n) = t /\ Outbound(n, dialing[n].conn)
        /\ dialing[n].conn.to = t /\ t \in to_dial[n] /\ t \in Nodes /\ Up(t)
        /\ to_dial[n] # {}
    BY <1>1, FirstIsOne, TargetIsFirst DEF arrive, Inv, Types, Dials
  <1>3. PICK c : c = [dialing[n].conn EXCEPT !.seen = inc[t]] OBVIOUS
  <1>4. /\ c \in Attempts /\ c.from = n /\ c.to = t /\ c.seen = inc[t] /\ c.run = inc[n]
        /\ inc[t] \in Nat
    <2>1. PICK b : b = dialing[n].conn OBVIOUS
    <2>2. b \in Attempts /\ b.from = n /\ b.run = inc[n] /\ b.to = t
      BY <1>2, <2>1 DEF Outbound
    <2>3. inc[t] \in Nat BY <1>2 DEF Inv, Types
    <2>4. c = [b EXCEPT !.seen = inc[t]] BY <1>3, <2>1
    <2> QED BY ONLY <2>2, <2>3, <2>4 DEF Attempts
  <1>5. Outbound(n, c) BY <1>2, <1>4 DEF Outbound
  <1>6. Inbound(t, c) BY <1>2, <1>4 DEF Inbound, Outbound, Reaches
  <1>7. /\ dialing' = [dialing EXCEPT ![n].conn = c]
        /\ queue' = [queue EXCEPT ![t] = Append(@, c)]
        /\ UNCHANGED << phase, inc, to_dial, dialed, left, reading, accepted >>
    BY <1>2, <1>3 DEF arrive, process, acceptor
  <1>8. Types'
    <2>1. c \in Conns BY <1>4 DEF Conns
    <2>2. dialing' \in [Nodes -> [pc : {"idle", "wait", "hello", "over"}, conn : Conns,
                                  try : 0 .. DIAL_ATTEMPTS]]
      BY <1>7, <2>1 DEF Inv, Types
    <2>3. queue' \in [Nodes -> Seq(Attempts)] BY <1>2, <1>4, <1>7 DEF Inv, Types
    <2> QED BY <1>7, <2>2, <2>3 DEF Inv, Types
  <1>9. /\ \A m \in Nodes : m # n => dialing'[m] = dialing[m]
        /\ dialing'[n].pc = "wait" /\ dialing'[n].conn = c
    BY <1>2, <1>7 DEF Inv, Types
  <1>10. Later BY <1>7 DEF Inv, Types, Later
  <1>11. ASSUME NEW m \in Nodes PROVE Dials(m)'
    <2>1. CASE m # n
      <3>1. DialerSame(m) BY <1>7, <1>9, <2>1 DEF DialerSame
      <3> QED BY <1>10, <3>1, DialsKept
    <2>2. CASE m = n
      <3>1. Dials(n) BY DEF Inv
      <3>2. Outbound(n, c)' BY <1>5, <1>7, OutboundKept
      <3>3. \A p \in Nodes : dialed[n][p] # None => Outbound(n, dialed[n][p])'
        BY <1>7, <3>1 DEF Dials, Outbound, Reaches
      <3> QED BY <1>1, <1>2, <1>4, <1>7, <1>9, <2>2, <3>1, <3>2, <3>3 DEF Dials, Reaches
    <2> QED BY <2>1, <2>2
  <1>12. ASSUME NEW m \in Nodes PROVE Accepts(m)'
    <2>1. CASE m # t
      <3>1. AcceptorSame(m) BY <1>7, <2>1 DEF AcceptorSame, Inv, Types
      <3> QED BY <3>1, AcceptsKept
    <2>2. CASE m = t
      <3>1. PICK q : q = queue[t] OBVIOUS
      <3>2. q \in Seq(Attempts) /\ queue'[t] = Append(q, c) BY <1>2, <1>7, <3>1 DEF Inv, Types
      <3>3. Accepts(t) BY <1>2 DEF Inv
      <3>4. \A i \in DOMAIN q : Inbound(t, q[i])' BY <1>7, <3>1, <3>3 DEF Accepts, Inbound
      <3>5. Inbound(t, c)' BY <1>6, <1>7 DEF Inbound
      <3>6. \A i \in DOMAIN Append(q, c) : \/ i \in DOMAIN q /\ Append(q, c)[i] = q[i]
                                           \/ Append(q, c)[i] = c
        BY ONLY <3>2, <1>4
      <3>7. \A i \in DOMAIN queue'[t] : Inbound(t, queue[t][i])' BY <3>2, <3>4, <3>5, <3>6
      <3>8. \A p \in Nodes : accepted[t][p] # None => Inbound(t, accepted[t][p])'
        BY <1>7, <3>3 DEF Accepts, Inbound
      <3>9. reading[t] # None => Inbound(t, reading[t])' BY <1>7, <3>3 DEF Accepts, Inbound
      <3> QED BY <1>2, <1>7, <2>2, <3>3, <3>7, <3>8, <3>9 DEF Accepts, Up
    <2> QED BY <2>1, <2>2
  <1>13. ASSUME NEW m \in Nodes PROVE Formed(m)'
    <2>1. MapsSame(m) BY <1>7 DEF MapsSame
    <2> QED BY <2>1, FormedKept
  <1>14. ASSUME NEW m \in Nodes, NEW p \in Nodes, m < p PROVE Agreed(m, p)'
    <2>1. NothingMade(m) BY <1>7, <1>9 DEF NothingMade, Up
    <2>2. NothingTaken(p) BY <1>7 DEF NothingTaken, Up
    <2> QED BY <1>14, <2>1, <2>2, AgreedKept
  <1> QED BY <1>8, <1>11, <1>12, <1>13, <1>14 DEF Kept

(* The hello is sent and the connection kept.                              *)
LEMMA HelloStep ==
  ASSUME Inv, NEW n \in Nodes, send_hello(n)
  PROVE  Kept
  <1>1. PICK c : c = dialing[n].conn OBVIOUS
  <1>2. /\ dialing[n].pc = "hello" /\ Up(n) /\ Outbound(n, c) /\ c \in Attempts /\ c # None
        /\ c.to \in to_dial[n] /\ c.to \in Nodes
    <2>1. Dials(n) /\ to_dial[n] \in SUBSET Nodes BY DEF Inv, Types
    <2>2. dialing[n].pc = "hello" /\ Up(n) BY DEF send_hello
    <2>3. Outbound(n, c) /\ to_dial[n] # {} /\ c.to = FirstOf(to_dial[n])
      BY <1>1, <2>1, <2>2 DEF Dials
    <2>4. c \in Attempts /\ c # None BY <2>3, NodesFinite DEF Outbound
    <2> QED BY <2>1, <2>2, <2>3, <2>4, FirstIsOne
  <1>3. PICK t : t = c.to OBVIOUS
  <1>4. /\ dialed' = [dialed EXCEPT ![n][t] = c]
        /\ to_dial' = [to_dial EXCEPT ![n] = @ \ {t}]
        /\ dialing' = [dialing EXCEPT ![n] = NotDialing]
        /\ UNCHANGED << phase, inc, left, reading, accepted, queue >>
    BY <1>1, <1>3 DEF send_hello, process, acceptor
  <1>5. t \in Nodes /\ t \in to_dial[n] BY <1>2, <1>3
  <1>6. Types'
    <2>1. c \in Conns BY <1>2 DEF Conns
    <2>2. dialed' \in [Nodes -> [Nodes -> Conns]] BY <1>4, <1>5, <2>1 DEF Inv, Types
    <2>3. dialing' \in [Nodes -> [pc : {"idle", "wait", "hello", "over"}, conn : Conns,
                                  try : 0 .. DIAL_ATTEMPTS]]
      BY <1>4, NodesFinite DEF Inv, Types, NotDialing, Conns
    <2>4. to_dial' \in [Nodes -> SUBSET Nodes] BY <1>4 DEF Inv, Types
    <2> QED BY <1>4, <2>2, <2>3, <2>4 DEF Inv, Types
  <1>7. /\ \A m \in Nodes : m # n => /\ dialing'[m] = dialing[m] /\ dialed'[m] = dialed[m]
                                     /\ to_dial'[m] = to_dial[m]
        /\ dialing'[n].pc = "idle" /\ dialing'[n].try = 0 /\ to_dial'[n] = to_dial[n] \ {t}
        /\ dialed'[n][t] = c /\ \A p \in Nodes : p # t => dialed'[n][p] = dialed[n][p]
    BY <1>4, <1>5 DEF Inv, Types, NotDialing
  <1>8. Later BY <1>4 DEF Inv, Types, Later
  <1>9. ASSUME NEW m \in Nodes PROVE Dials(m)'
    <2>1. CASE m # n
      <3>1. DialerSame(m) BY <1>4, <1>7, <2>1 DEF DialerSame
      <3> QED BY <1>8, <3>1, DialsKept
    <2>2. CASE m = n
      <3>1. Dials(n) /\ to_dial[n] \in SUBSET Nodes BY DEF Inv, Types
      <3>2. Outbound(n, c)' BY <1>2, <1>4, OutboundKept
      <3>3. \A p \in Nodes : dialed[n][p] # None => Outbound(n, dialed[n][p])
        BY <3>1 DEF Dials
      <3>4. ASSUME NEW p \in Nodes, dialed'[n][p] # None
            PROVE  Outbound(n, dialed[n][p])' /\ dialed'[n][p].to = p
        <4>1. CASE p = t BY <1>3, <1>7, <3>2, <4>1
        <4>2. CASE p # t
          <5>1. PICK d : d = dialed[n][p] OBVIOUS
          <5>2. d # None /\ Outbound(n, d) /\ d.to = p BY <1>7, <3>1, <3>4, <4>2, <5>1 DEF Dials
          <5>3. Outbound(n, d)' BY <1>4, <5>2, OutboundKept
          <5> QED BY <1>7, <4>2, <5>1, <5>2, <5>3
        <4> QED BY <4>1, <4>2
      <3>5. \A p \in to_dial'[n] : dialed'[n][p] = None /\ Reaches(n, p)'
        BY <1>4, <1>7, <3>1 DEF Dials, Reaches
      <3> QED BY <1>7, <2>2, <3>4, <3>5, NodesFinite DEF Dials
    <2> QED BY <2>1, <2>2
  <1>10. ASSUME NEW m \in Nodes PROVE Accepts(m)'
    <2>1. AcceptorSame(m) BY <1>4 DEF AcceptorSame
    <2> QED BY <2>1, AcceptsKept
  <1>11. ASSUME NEW m \in Nodes PROVE Formed(m)'
    <2>1. \A p \in Nodes : dialed[m][p] # None => dialed'[m][p] # None BY <1>2, <1>7
    <2>2. Formed(m) BY DEF Inv
    <2> QED BY <1>4, <2>1, <2>2 DEF Formed, Conn
  <1>12. ASSUME NEW m \in Nodes, NEW p \in Nodes, m < p PROVE Agreed(m, p)'
    <2>1. NothingTaken(p) BY <1>4 DEF NothingTaken, Up
    <2>2. CASE m # n
      <3>1. NothingMade(m) BY <1>4, <1>7, <2>2 DEF NothingMade, Up
      <3> QED BY <1>12, <2>1, <3>1, AgreedKept
    <2>3. CASE m = n
      <3>1. Agreed(n, p) BY <1>12, <2>3 DEF Inv
      <3>2. SUFFICES ASSUME NEW d, d # None, Made(n, p, d)', Up(p)'
                     PROVE  IF d.seen = inc[p]' THEN reading[p]' = d \/ (accepted[p][n]' = d /\ ~Hears(p, n)')
                            ELSE accepted[p][n]' = None /\ ~Hears(p, n)'
        BY <2>3 DEF Agreed
      <3>3. dialed'[n][p] = d BY <1>7, <3>2 DEF Made
      <3>4. Made(n, p, d) /\ d \in {dialed[n][p], dialing[n].conn} \ {None}
        <4>1. CASE p = t
          <5>1. d = c BY <1>7, <3>3, <4>1
          <5> QED BY <1>1, <1>2, <1>3, <3>2, <4>1, <5>1 DEF Made
        <4>2. CASE p # t BY <1>2, <1>7, <3>2, <3>3, <4>2 DEF Made
        <4> QED BY <4>1, <4>2
      <3>5. Up(p) BY <1>4, <3>2 DEF Up
      <3> QED BY <1>4, <3>1, <3>4, <3>5 DEF Agreed, Hears
    <2> QED BY <2>2, <2>3
  <1> QED BY <1>6, <1>9, <1>10, <1>11, <1>12 DEF Kept

(* The first of a queue.                                                   *)
LEMMA HeadQueued ==
  ASSUME Inv, NEW n \in Nodes, queue[n] # << >>
  PROVE  /\ Inbound(n, Head(queue[n])) /\ Head(queue[n]) \in Attempts /\ Head(queue[n]) # None
         /\ Tail(queue[n]) \in Seq(Attempts)
         /\ \A i \in DOMAIN Tail(queue[n]) : Inbound(n, Tail(queue[n])[i])
  <1>1. PICK q : q = queue[n] OBVIOUS
  <1>2. q \in Seq(Attempts) /\ q # << >> /\ \A i \in DOMAIN q : Inbound(n, q[i])
    BY <1>1 DEF Inv, Types, Accepts
  <1>3. /\ Head(q) = q[1] /\ 1 \in DOMAIN q /\ Tail(q) \in Seq(Attempts)
        /\ \A i \in DOMAIN Tail(q) : Tail(q)[i] = q[i + 1] /\ i + 1 \in DOMAIN q
    BY ONLY <1>2
  <1>4. Inbound(n, Head(q)) /\ \A i \in DOMAIN Tail(q) : Inbound(n, Tail(q)[i])
    BY <1>2, <1>3
  <1>5. Head(q) \in Attempts BY <1>4 DEF Inbound
  <1> QED BY <1>1, <1>3, <1>4, <1>5, NodesFinite

(* A connection is made: its dialer is waiting for it, so it has none to   *)
(* this node yet.                                                          *)
LEMMA AcceptStep ==
  ASSUME Inv, NEW n \in Nodes, accept(n)
  PROVE  Kept
  <1>1. PICK c : c = Head(queue[n]) OBVIOUS
  <1>2. PICK f : f = c.from OBVIOUS
  <1>3. /\ Up(n) /\ left[n] > 0 /\ reading[n] = None /\ queue[n] # << >>
        /\ Up(f) /\ dialing[f] = [pc |-> "wait", conn |-> c, try |-> c.try]
        /\ queue' = [queue EXCEPT ![n] = Tail(@)]
        /\ reading' = [reading EXCEPT ![n] = c]
        /\ dialing' = [dialing EXCEPT ![f].pc = "hello"]
        /\ UNCHANGED << phase, inc, to_dial, dialed, left, accepted >>
    BY <1>1, <1>2 DEF accept, Waiting, Pending, process
  <1>4. /\ Inbound(n, c) /\ c \in Attempts /\ c # None /\ Tail(queue[n]) \in Seq(Attempts)
        /\ \A i \in DOMAIN Tail(queue[n]) : Inbound(n, Tail(queue[n])[i])
    BY <1>1, <1>3, HeadQueued
  <1>5. f \in Nodes /\ c.to = n /\ c.seen = inc[n] BY <1>2, <1>4 DEF Inbound, Attempts
  <1>6. Outbound(f, c) /\ n \in to_dial[f] /\ dialed[f][n] = None
    <2>1. Dials(f) /\ to_dial[f] \in SUBSET Nodes BY <1>5 DEF Inv, Types
    <2>2. Outbound(f, c) /\ to_dial[f] # {} /\ n = FirstOf(to_dial[f])
      BY <1>3, <1>5, <2>1 DEF Dials
    <2>3. n \in to_dial[f] BY <2>1, <2>2, FirstIsOne
    <2> QED BY <2>1, <2>2, <2>3 DEF Dials
  <1>7. Types'
    <2>1. c \in Conns BY <1>4 DEF Conns
    <2>2. dialing' \in [Nodes -> [pc : {"idle", "wait", "hello", "over"}, conn : Conns,
                                  try : 0 .. DIAL_ATTEMPTS]]
      BY <1>3 DEF Inv, Types
    <2>3. queue' \in [Nodes -> Seq(Attempts)] BY <1>3, <1>4 DEF Inv, Types
    <2>4. reading' \in [Nodes -> Conns] BY <1>3, <2>1 DEF Inv, Types
    <2> QED BY <1>3, <2>2, <2>3, <2>4 DEF Inv, Types
  <1>8. /\ \A m \in Nodes : m # f => dialing'[m] = dialing[m]
        /\ dialing'[f].pc = "hello" /\ dialing'[f].conn = c
        /\ \A m \in Nodes : m # n => queue'[m] = queue[m] /\ reading'[m] = reading[m]
        /\ queue'[n] = Tail(queue[n]) /\ reading'[n] = c
    BY <1>3, <1>5 DEF Inv, Types
  <1>9. Later BY <1>3 DEF Inv, Types, Later
  <1>10. ASSUME NEW m \in Nodes PROVE Dials(m)'
    <2>1. CASE m # f
      <3>1. DialerSame(m) BY <1>3, <1>8, <2>1 DEF DialerSame
      <3> QED BY <1>9, <3>1, DialsKept
    <2>2. CASE m = f
      <3>1. Dials(f) BY <1>5 DEF Inv
      <3>2. Outbound(f, c)' BY <1>3, <1>5, <1>6, OutboundKept
      <3>3. \A p \in Nodes : dialed[f][p] # None => Outbound(f, dialed[f][p])'
        BY <1>3, <3>1 DEF Dials, Outbound, Reaches
      <3> QED BY <1>3, <1>8, <2>2, <3>1, <3>2, <3>3 DEF Dials, Reaches
    <2> QED BY <2>1, <2>2
  <1>11. ASSUME NEW m \in Nodes PROVE Accepts(m)'
    <2>1. CASE m # n
      <3>1. AcceptorSame(m) BY <1>3, <1>8, <2>1 DEF AcceptorSame
      <3> QED BY <3>1, AcceptsKept
    <2>2. CASE m = n
      <3>1. Accepts(n) BY DEF Inv
      <3>2. Inbound(n, c)' BY <1>3, <1>4 DEF Inbound
      <3>3. PICK q : q = Tail(queue[n]) OBVIOUS
      <3>4. \A i \in DOMAIN queue'[n] : Inbound(n, queue[n][i])'
        <4>1. \A i \in DOMAIN q : Inbound(n, q[i]) BY <1>4, <3>3
        <4>2. \A i \in DOMAIN q : Inbound(n, q[i])' BY ONLY <1>3, <4>1 DEF Inbound
        <4> QED BY ONLY <1>8, <3>3, <4>2
      <3>5. \A p \in Nodes : accepted[n][p] # None => Inbound(n, accepted[n][p])'
        BY <1>3, <3>1 DEF Accepts, Inbound
      <3> QED BY <1>3, <1>8, <2>2, <3>1, <3>2, <3>4, <3>5 DEF Accepts, Up
    <2> QED BY <2>1, <2>2
  <1>12. ASSUME NEW m \in Nodes PROVE Formed(m)'
    <2>1. MapsSame(m) BY <1>3 DEF MapsSame
    <2> QED BY <2>1, FormedKept
  <1>13. ASSUME NEW m \in Nodes, NEW p \in Nodes, m < p PROVE Agreed(m, p)'
    <2>1. Agreed(m, p) BY <1>13 DEF Inv
    <2>2. SUFFICES ASSUME NEW d, d # None, Made(m, p, d)', Up(p)',
                          d \in {dialed'[m][p], dialing'[m].conn}
                   PROVE  IF d.seen = inc[p]' THEN reading[p]' = d \/ (accepted[p][m]' = d /\ ~Hears(p, m)')
                          ELSE accepted[p][m]' = None /\ ~Hears(p, m)'
      BY DEF Agreed
    <2>3. Up(p) /\ Up(m) BY <1>3, <2>2 DEF Up, Made
    <2>4. CASE m = f /\ p = n
      <3>1. d = c BY <1>3, <1>6, <1>8, <2>2, <2>4 DEF Made
      <3> QED BY <1>3, <1>5, <1>8, <2>4, <3>1
    <2>5. CASE ~(m = f /\ p = n)
      <3>1. Made(m, p, d) /\ d \in {dialed[m][p], dialing[m].conn} \ {None}
        <4>1. CASE m # f BY <1>3, <1>8, <2>2, <2>3, <4>1 DEF Made
        <4>2. CASE m = f
          <5>1. dialed[m][p] = d BY <1>3, <1>5, <1>8, <2>2, <2>5, <4>2 DEF Made
          <5> QED BY <2>2, <2>3, <5>1 DEF Made
        <4> QED BY <4>1, <4>2
      <3>2. IF d.seen = inc[p] THEN reading[p] = d \/ (accepted[p][m] = d /\ ~Hears(p, m))
            ELSE accepted[p][m] = None /\ ~Hears(p, m)
        BY <2>1, <2>3, <3>1 DEF Agreed
      <3>3. CASE p # n BY <1>3, <1>8, <3>2, <3>3 DEF Hears
      <3>4. CASE p = n
        <4>1. m # f /\ ~Hears(n, m)' BY <1>2, <1>8, <2>5, <3>4 DEF Hears
        <4> QED BY <1>3, <2>2, <3>2, <3>4, <4>1
      <3> QED BY <3>3, <3>4
    <2> QED BY <2>4, <2>5
  <1> QED BY <1>7, <1>10, <1>11, <1>12, <1>13 DEF Kept

(* What a connection in use is: from the run of its dialer, to its target. *)
LEMMA MadeIsOutbound ==
  ASSUME Inv, NEW m \in Nodes, NEW p \in Nodes, NEW d, d # None, Made(m, p, d)
  PROVE  Outbound(m, d) /\ d.to = p /\ d.from = m /\ d \in {dialed[m][p], dialing[m].conn} \ {None}
  <1>1. Dials(m) BY DEF Inv
  <1>2. CASE dialed[m][p] = d BY <1>1, <1>2 DEF Dials, Outbound
  <1>3. CASE dialing[m].pc = "hello" /\ dialing[m].conn = d /\ d.to = p
    BY <1>1, <1>3 DEF Dials, Outbound
  <1> QED BY <1>2, <1>3 DEF Made

(* The accept task gives up: no end of a connection in use is dropped.     *)
LEMMA AcceptFailsStep ==
  ASSUME Inv, NEW n \in Nodes, accept_fails(n)
  PROVE  Kept
  <1>1. /\ reading[n] = None \/ ~Alive(reading[n])
        /\ reading' = [reading EXCEPT ![n] = None]
        /\ UNCHANGED << phase, inc, to_dial, dialing, dialed, left, accepted, queue >>
    BY DEF accept_fails, Waiting, process, dialer
  <1>2. Types' BY <1>1 DEF Inv, Types, Conns
  <1>3. reading'[n] = None /\ \A m \in Nodes : m # n => reading'[m] = reading[m]
    BY <1>1 DEF Inv, Types
  <1>4. Later BY <1>1 DEF Inv, Types, Later
  <1>5. ASSUME NEW m \in Nodes PROVE Dials(m)'
    <2>1. DialerSame(m) BY <1>1 DEF DialerSame
    <2> QED BY <1>4, <2>1, DialsKept
  <1>6. ASSUME NEW m \in Nodes PROVE Accepts(m)'
    <2>1. Accepts(m) BY DEF Inv
    <2>3. \A i \in DOMAIN queue[m] : Inbound(m, queue[m][i])' BY <1>1, <2>1 DEF Accepts, Inbound
    <2>4. \A p \in Nodes : accepted[m][p] # None => Inbound(m, accepted[m][p])'
      BY <1>1, <2>1 DEF Accepts, Inbound
    <2>5. reading'[m] # None => Inbound(m, reading[m])' /\ left'[m] > 0
      BY <1>1, <1>3, <2>1 DEF Accepts, Inbound
    <2> QED BY <1>1, <2>1, <2>3, <2>4, <2>5 DEF Accepts, Up
  <1>7. ASSUME NEW m \in Nodes PROVE Formed(m)'
    <2>1. MapsSame(m) BY <1>1 DEF MapsSame
    <2> QED BY <2>1, FormedKept
  <1>8. ASSUME NEW m \in Nodes, NEW p \in Nodes, m < p PROVE Agreed(m, p)'
    <2>1. NothingMade(m) BY <1>1 DEF NothingMade, Up
    <2>2. CASE p # n
      <3>1. NothingTaken(p) BY <1>1, <1>3, <2>2 DEF NothingTaken, Up
      <3> QED BY <1>8, <2>1, <3>1, AgreedKept
    <2>3. CASE p = n
      <3>1. SUFFICES ASSUME NEW d, d # None, Made(m, n, d)', Up(n)',
                            d \in {dialed'[m][n], dialing'[m].conn}
                     PROVE  IF d.seen = inc[n]' THEN reading[n]' = d \/ (accepted[n][m]' = d /\ ~Hears(n, m)')
                            ELSE accepted[n][m]' = None /\ ~Hears(n, m)'
        BY <2>3 DEF Agreed
      <3>2. Made(m, n, d) /\ Up(n) /\ Up(m) BY <1>1, <3>1 DEF Made, Up
      <3>3. Outbound(m, d) /\ d.to = n /\ d.from = m BY <3>1, <3>2, MadeIsOutbound
      <3>4. IF d.seen = inc[n] THEN reading[n] = d \/ (accepted[n][m] = d /\ ~Hears(n, m))
            ELSE accepted[n][m] = None /\ ~Hears(n, m)
        BY <1>8, <2>3, <3>1, <3>2, MadeIsOutbound DEF Inv, Agreed
      <3>5. d.seen = inc[n] => Alive(d) BY <3>2, <3>3 DEF Alive, Outbound
      <3>6. d.seen = inc[n] => reading[n] # d BY <1>1, <3>1, <3>5
      <3> QED BY <1>1, <1>3, <3>4, <3>6 DEF Hears
    <2> QED BY <2>2, <2>3
  <1> QED BY <1>2, <1>5, <1>6, <1>7, <1>8 DEF Kept

(* A hello is read and its connection kept.                                *)
LEMMA ReadHelloStep ==
  ASSUME Inv, NEW n \in Nodes, read_hello(n)
  PROVE  Kept
  <1>1. PICK c : c = reading[n] OBVIOUS
  <1>2. PICK f : f = c.from OBVIOUS
  <1>3. /\ Up(n) /\ c # None
        /\ accepted' = [accepted EXCEPT ![n][f] = c]
        /\ left' = [left EXCEPT ![n] = @ - 1]
        /\ reading' = [reading EXCEPT ![n] = None]
        /\ UNCHANGED << phase, inc, to_dial, dialing, dialed, queue >>
    BY <1>1, <1>2 DEF read_hello, process, dialer
  <1>4. Inbound(n, c) /\ left[n] > 0 /\ left[n] \in Nat BY <1>1, <1>3 DEF Inv, Accepts, Types
  <1>5. f \in Nodes /\ c \in Conns BY <1>2, <1>4 DEF Inbound, Attempts, Conns
  <1>6. Types'
    <2>1. accepted' \in [Nodes -> [Nodes -> Conns]] BY <1>3, <1>5 DEF Inv, Types
    <2>2. left' \in [Nodes -> Nat] BY <1>3, <1>4 DEF Inv, Types
    <2>3. reading' \in [Nodes -> Conns] BY <1>3 DEF Inv, Types, Conns
    <2> QED BY <1>3, <2>1, <2>2, <2>3 DEF Inv, Types
  <1>7. /\ \A m \in Nodes : m # n => /\ accepted'[m] = accepted[m] /\ left'[m] = left[m]
                                     /\ reading'[m] = reading[m]
        /\ accepted'[n][f] = c /\ \A p \in Nodes : p # f => accepted'[n][p] = accepted[n][p]
        /\ reading'[n] = None
    BY <1>3, <1>5 DEF Inv, Types
  <1>8. Later BY <1>3 DEF Inv, Types, Later
  <1>9. ASSUME NEW m \in Nodes PROVE Dials(m)'
    <2>1. DialerSame(m) BY <1>3 DEF DialerSame
    <2> QED BY <1>8, <2>1, DialsKept
  <1>10. ASSUME NEW m \in Nodes PROVE Accepts(m)'
    <2>1. CASE m # n
      <3>1. AcceptorSame(m) BY <1>3, <1>7, <2>1 DEF AcceptorSame
      <3> QED BY <3>1, AcceptsKept
    <2>2. CASE m = n
      <3>1. Accepts(n) BY DEF Inv
      <3>2. \A i \in DOMAIN queue[n] : Inbound(n, queue[n][i])' BY <1>3, <3>1 DEF Accepts, Inbound
      <3>3. Inbound(n, c)' BY <1>3, <1>4 DEF Inbound
      <3>4. ASSUME NEW p \in Nodes, accepted'[n][p] # None
            PROVE  Inbound(n, accepted[n][p])' /\ accepted'[n][p].from = p
        <4>1. CASE p = f BY <1>2, <1>7, <3>3, <4>1
        <4>2. CASE p # f BY <1>3, <1>7, <3>1, <3>4, <4>2 DEF Accepts, Inbound
        <4> QED BY <4>1, <4>2
      <3> QED BY <1>3, <1>7, <2>2, <3>2, <3>4 DEF Accepts, Up
    <2> QED BY <2>1, <2>2
  <1>11. ASSUME NEW m \in Nodes PROVE Formed(m)'
    <2>1. Formed(m) BY DEF Inv
    <2>2. CASE m # n
      <3>1. MapsSame(m) BY <1>3, <1>7, <2>2 DEF MapsSame
      <3> QED BY <3>1, FormedKept
    <2>3. CASE m = n
      <3>1. phase[n] # "serving" BY <1>4, <2>1, <2>3 DEF Formed
      <3>2. \A p \in Nodes : Conn(n, p) # None => Conn(n, p)' # None BY <1>3, <1>7 DEF Conn
      <3> QED BY <1>3, <2>1, <2>3, <3>1, <3>2 DEF Formed
    <2> QED BY <2>2, <2>3
  <1>12. ASSUME NEW m \in Nodes, NEW p \in Nodes, m < p PROVE Agreed(m, p)'
    <2>1. NothingMade(m) BY <1>3 DEF NothingMade, Up
    <2>2. CASE p # n
      <3>1. NothingTaken(p) BY <1>3, <1>7, <2>2 DEF NothingTaken, Up
      <3> QED BY <1>12, <2>1, <3>1, AgreedKept
    <2>3. CASE p = n
      <3>1. SUFFICES ASSUME NEW d, d # None, Made(m, n, d)', Up(n)',
                            d \in {dialed'[m][n], dialing'[m].conn}
                     PROVE  IF d.seen = inc[n]' THEN reading[n]' = d \/ (accepted[n][m]' = d /\ ~Hears(n, m)')
                            ELSE accepted[n][m]' = None /\ ~Hears(n, m)'
        BY <2>3 DEF Agreed
      <3>2. Made(m, n, d) BY <1>3, <3>1 DEF Made, Up
      <3>3. d.from = m BY <3>1, <3>2, MadeIsOutbound
      <3>4. IF d.seen = inc[n] THEN reading[n] = d \/ (accepted[n][m] = d /\ ~Hears(n, m))
            ELSE accepted[n][m] = None /\ ~Hears(n, m)
        BY <1>3, <1>12, <2>3, <3>1, <3>2, MadeIsOutbound DEF Inv, Agreed
      <3>5. ~Hears(n, m)' BY <1>7 DEF Hears
      <3>6. CASE reading[n] = d
        <4>1. c = d /\ f = m BY <1>1, <1>2, <3>3, <3>6
        <4>2. d.seen = inc[n] BY <1>4, <4>1 DEF Inbound
        <4> QED BY <1>3, <1>7, <3>5, <4>1, <4>2
      <3>7. CASE reading[n] # d
        <4>1. f # m BY <1>1, <1>2, <1>3, <3>4, <3>7 DEF Hears
        <4> QED BY <1>3, <1>7, <3>4, <3>5, <3>7, <4>1
      <3> QED BY <3>6, <3>7
    <2> QED BY <2>2, <2>3
  <1> QED BY <1>6, <1>9, <1>10, <1>11, <1>12 DEF Kept

(* connect_mesh returns: as many connections as peers, none of them to the *)
(* node itself, are one for every peer.                                    *)
LEMMA MeshCompleteStep ==
  ASSUME Inv, NEW n \in Nodes, mesh_complete(n)
  PROVE  Kept
  <1>1. /\ phase[n] = "mesh" /\ to_dial[n] = {} /\ left[n] = 0 /\ Complete(n)
        /\ phase' = [phase EXCEPT ![n] = "loopback"]
        /\ to_dial' = [to_dial EXCEPT ![n] = {n}]
        /\ left' = [left EXCEPT ![n] = 1]
        /\ UNCHANGED << inc, dialing, dialed, reading, accepted, queue >>
    BY DEF mesh_complete
  <1>2. Types' BY <1>1 DEF Inv, Types
  <1>3. /\ \A m \in Nodes : m # n => /\ phase'[m] = phase[m] /\ to_dial'[m] = to_dial[m]
                                     /\ left'[m] = left[m]
        /\ phase'[n] = "loopback" /\ to_dial'[n] = {n} /\ left'[n] = 1
    BY <1>1 DEF Inv, Types
  <1>4. Later BY <1>1 DEF Inv, Types, Later
  <1>5. Dials(n) /\ Accepts(n) BY DEF Inv
  <1>6. n \in Nat BY NodesFinite
  <1>7. dialed[n][n] = None /\ accepted[n][n] = None
    <2>1. dialed[n][n] # None => Reaches(n, n) BY <1>5 DEF Dials, Outbound
    <2>2. accepted[n][n] # None => accepted[n][n].from < n \/ phase[n] # "mesh"
      BY <1>5 DEF Accepts, Inbound
    <2>3. accepted[n][n] # None => accepted[n][n].from = n BY <1>5 DEF Accepts
    <2> QED BY <1>1, <1>6, <2>1, <2>2, <2>3 DEF Reaches
  <1>8. ASSUME NEW m \in Nodes PROVE Dials(m)'
    <2>1. CASE m # n
      <3>1. DialerSame(m) BY <1>1, <1>3, <2>1 DEF DialerSame
      <3> QED BY <1>4, <3>1, DialsKept
    <2>2. CASE m = n
      <3>1. dialing[n].pc = "idle" BY <1>1, <1>5 DEF Dials
      <3>2. ASSUME NEW c, Outbound(n, c) PROVE Outbound(n, c)'
        BY <1>1, <1>3, <3>2 DEF Outbound, Reaches
      <3>3. ASSUME NEW p \in Nodes, dialed[n][p] # None
            PROVE  Outbound(n, dialed[n][p])' /\ dialed[n][p].to = p
        <4>1. PICK d : d = dialed[n][p] OBVIOUS
        <4>2. Outbound(n, d) /\ d.to = p BY <1>5, <3>3, <4>1 DEF Dials
        <4>3. Outbound(n, d)' BY <3>2, <4>2
        <4> QED BY <1>1, <4>1, <4>2, <4>3
      <3>4. \A p \in to_dial'[n] : dialed'[n][p] = None /\ Reaches(n, p)'
        BY <1>1, <1>3, <1>7 DEF Reaches
      <3> QED BY <1>1, <1>5, <2>2, <3>1, <3>3, <3>4 DEF Dials
    <2> QED BY <2>1, <2>2
  <1>9. ASSUME NEW m \in Nodes PROVE Accepts(m)'
    <2>1. CASE m # n
      <3>1. AcceptorSame(m) BY <1>1, <1>3, <2>1 DEF AcceptorSame
      <3> QED BY <3>1, AcceptsKept
    <2>2. CASE m = n
      <3>1. reading[n] = None BY <1>1, <1>5 DEF Accepts
      <3>2. \A i \in DOMAIN queue[n] : Inbound(n, queue[n][i])'
        BY <1>1, <1>3, <1>5 DEF Accepts, Inbound
      <3>3. \A p \in Nodes : accepted[n][p] # None => Inbound(n, accepted[n][p])'
        BY <1>1, <1>3, <1>5 DEF Accepts, Inbound
      <3> QED BY <1>1, <1>3, <1>5, <2>2, <3>1, <3>2, <3>3 DEF Accepts, Up
    <2> QED BY <2>1, <2>2
  <1>10. Held(n) = Nodes \ {n}
    <2>1. Held(n) \in SUBSET (Nodes \ {n}) BY <1>7 DEF Held, Conn
    <2>2. IsFiniteSet(Nodes \ {n}) /\ Cardinality(Nodes \ {n}) = Cardinality(Nodes) - 1
      BY NodesFinite, FS_RemoveElement
    <2>3. Cardinality(Held(n)) = Cardinality(Nodes \ {n}) BY <1>1, <2>2 DEF Complete
    <2> QED BY <2>1, <2>2, <2>3, FS_Subset
  <1>11. ASSUME NEW m \in Nodes PROVE Formed(m)'
    <2>1. CASE m # n
      <3>1. MapsSame(m) BY <1>1, <1>3, <2>1 DEF MapsSame
      <3> QED BY <3>1, FormedKept
    <2>2. CASE m = n
      <3>1. \A p \in Nodes \ {n} : Conn(n, p) # None BY <1>10 DEF Held
      <3>2. \A p \in Nodes \ {n} : Conn(n, p)' # None BY <1>1, <3>1 DEF Conn
      <3> QED BY <1>3, <2>2, <3>2 DEF Formed
    <2> QED BY <2>1, <2>2
  <1>12. ASSUME NEW m \in Nodes, NEW p \in Nodes, m < p PROVE Agreed(m, p)'
    <2>1. \A q \in Nodes : Up(q)' => Up(q) BY <1>1, <1>3 DEF Up
    <2>2. NothingMade(m) /\ NothingTaken(p) BY <1>1, <2>1 DEF NothingMade, NothingTaken
    <2> QED BY <1>12, <2>2, AgreedKept
  <1> QED BY <1>2, <1>8, <1>9, <1>11, <1>12 DEF Kept

(* The loopback is there and the node serves.                              *)
LEMMA ServingStep ==
  ASSUME Inv, NEW n \in Nodes, serving(n)
  PROVE  Kept
  <1>1. /\ phase[n] = "loopback" /\ left[n] = 0 /\ accepted[n][n] # None
        /\ phase' = [phase EXCEPT ![n] = "serving"]
        /\ UNCHANGED << inc, to_dial, dialing, dialed, left, reading, accepted, queue >>
    BY DEF serving, dialer, acceptor
  <1>2. Types' BY <1>1 DEF Inv, Types
  <1>3. phase'[n] = "serving" /\ \A m \in Nodes : m # n => phase'[m] = phase[m]
    BY <1>1 DEF Inv, Types
  <1>4. \A m \in Nodes : /\ (phase'[m] # "mesh") <=> (phase[m] # "mesh")
                         /\ Up(m)' <=> Up(m)
    BY <1>1, <1>3 DEF Up
  <1>5. ASSUME NEW m \in Nodes PROVE Dials(m)'
    <2>1. Dials(m) BY DEF Inv
    <2>2. ASSUME NEW c, Outbound(m, c) PROVE Outbound(m, c)'
      BY <1>1, <1>4, <2>2 DEF Outbound, Reaches
    <2>3. ASSUME NEW p \in Nodes, dialed[m][p] # None PROVE Outbound(m, dialed[m][p])'
      <3>1. PICK d : d = dialed[m][p] OBVIOUS
      <3>2. Outbound(m, d)' BY <2>1, <2>2, <2>3, <3>1 DEF Dials
      <3> QED BY <1>1, <3>1, <3>2
    <2>4. dialing[m].pc # "idle" => Outbound(m, dialing[m].conn)'
      <3>1. PICK d : d = dialing[m].conn OBVIOUS
      <3>2. dialing[m].pc # "idle" => Outbound(m, d)' BY <2>1, <2>2, <3>1 DEF Dials
      <3> QED BY <1>1, <3>1, <3>2
    <2>5. \A p \in to_dial[m] : Reaches(m, p)' BY <1>4, <2>1 DEF Dials, Reaches
    <2> QED BY <1>1, <2>1, <2>3, <2>4, <2>5 DEF Dials
  <1>6. ASSUME NEW m \in Nodes PROVE Accepts(m)'
    <2>1. Accepts(m) BY DEF Inv
    <2> QED BY <1>1, <1>4, <2>1 DEF Accepts, Inbound
  <1>7. ASSUME NEW m \in Nodes PROVE Formed(m)'
    <2>1. Formed(m) BY DEF Inv
    <2> QED BY <1>1, <1>3, <2>1 DEF Formed, Conn
  <1>8. ASSUME NEW m \in Nodes, NEW p \in Nodes, m < p PROVE Agreed(m, p)'
    <2>1. NothingMade(m) /\ NothingTaken(p) BY <1>1, <1>4 DEF NothingMade, NothingTaken
    <2> QED BY <1>8, <2>1, AgreedKept
  <1> QED BY <1>2, <1>5, <1>6, <1>7, <1>8 DEF Kept

(***************************************************************************)
(* The memory of n is blank: its process is over, or a new run begins.     *)
(***************************************************************************)
Blank(n, how, dials, accepts) ==
  /\ how \in {"mesh", "failed", "down"} /\ phase' = [phase EXCEPT ![n] = how]
  /\ inc' = [inc EXCEPT ![n] = IF how = "mesh" THEN @ + 1 ELSE @]
  /\ dials \in SUBSET Nodes /\ (\A p \in dials : n < p) /\ accepts \in Nat
  /\ Fresh(n, dials, accepts)
  /\ queue' = [queue EXCEPT ![n] = << >>]

LEMMA BlankStep ==
  ASSUME Inv, NEW n \in Nodes, NEW how, NEW dials, NEW accepts, Blank(n, how, dials, accepts)
  PROVE  Kept
  <1>1. /\ how \in {"mesh", "failed", "down"} /\ phase' = [phase EXCEPT ![n] = how]
        /\ inc' = [inc EXCEPT ![n] = IF how = "mesh" THEN @ + 1 ELSE @]
        /\ dials \in SUBSET Nodes /\ (\A p \in dials : n < p) /\ accepts \in Nat
        /\ to_dial' = [to_dial EXCEPT ![n] = dials]
        /\ dialing' = [dialing EXCEPT ![n] = NotDialing]
        /\ left' = [left EXCEPT ![n] = accepts]
        /\ reading' = [reading EXCEPT ![n] = None]
        /\ dialed' = [dialed EXCEPT ![n] = NoConns]
        /\ accepted' = [accepted EXCEPT ![n] = NoConns]
        /\ queue' = [queue EXCEPT ![n] = << >>]
    BY DEF Blank, Fresh
  <1>2. inc[n] \in Nat /\ NotDialing \in [pc : {"idle", "wait", "hello", "over"}, conn : Conns,
                                          try : 0 .. DIAL_ATTEMPTS]
    BY NodesFinite DEF Inv, Types, NotDialing, Conns
  <1>3. NoConns \in [Nodes -> Conns] /\ << >> \in Seq(Attempts) BY DEF NoConns, Conns
  <1>4. Types'
    <2>1. phase' \in [Nodes -> {"off", "mesh", "loopback", "serving", "failed", "down"}]
      BY <1>1 DEF Inv, Types
    <2>2. inc' \in [Nodes -> Nat] BY <1>1, <1>2 DEF Inv, Types
    <2>3. to_dial' \in [Nodes -> SUBSET Nodes] /\ left' \in [Nodes -> Nat] BY <1>1 DEF Inv, Types
    <2>4. dialing' \in [Nodes -> [pc : {"idle", "wait", "hello", "over"}, conn : Conns,
                                  try : 0 .. DIAL_ATTEMPTS]]
      BY <1>1, <1>2 DEF Inv, Types
    <2>5. queue' \in [Nodes -> Seq(Attempts)] /\ reading' \in [Nodes -> Conns]
      BY <1>1, <1>3 DEF Inv, Types, Conns
    <2>6. dialed' \in [Nodes -> [Nodes -> Conns]] /\ accepted' \in [Nodes -> [Nodes -> Conns]]
      BY <1>1, <1>3 DEF Inv, Types
    <2> QED BY <2>1, <2>2, <2>3, <2>4, <2>5, <2>6 DEF Types
  <1>5. ASSUME NEW m \in Nodes, m # n PROVE DialerSame(m) /\ AcceptorSame(m) /\ MapsSame(m)
    BY <1>1, <1>5 DEF Inv, Types, DialerSame, AcceptorSame, MapsSame
  <1>6. /\ phase'[n] = how /\ to_dial'[n] = dials /\ dialing'[n] = NotDialing
        /\ reading'[n] = None /\ dialed'[n] = NoConns /\ accepted'[n] = NoConns
        /\ queue'[n] = << >> /\ inc'[n] = IF how = "mesh" THEN inc[n] + 1 ELSE inc[n]
    BY <1>1 DEF Inv, Types
  <1>7. Later
    <2>1. inc' \in [Nodes -> Nat] BY <1>4 DEF Types
    <2>2. \A q \in Nodes : q # n => inc'[q] = inc[q] BY <1>5 DEF DialerSame
    <2> QED BY <1>2, <1>6, <2>1, <2>2 DEF Later
  <1>8. \A p \in Nodes : dialed'[n][p] = None /\ accepted'[n][p] = None BY <1>6 DEF NoConns
  <1>9. ASSUME NEW m \in Nodes PROVE Dials(m)'
    <2>1. CASE m # n BY <1>5, <1>7, <2>1, DialsKept
    <2>2. CASE m = n
      <3>1. dialing'[n].pc = "idle" /\ dialing'[n].try = 0 BY <1>6 DEF NotDialing
      <3> QED BY <1>1, <1>6, <1>8, <2>2, <3>1, NodesFinite DEF Dials, Reaches
    <2> QED BY <2>1, <2>2
  <1>10. ASSUME NEW m \in Nodes PROVE Accepts(m)'
    <2>1. CASE m # n BY <1>5, <2>1, AcceptsKept
    <2>2. CASE m = n BY <1>6, <1>8, <2>2 DEF Accepts
    <2> QED BY <2>1, <2>2
  <1>11. ASSUME NEW m \in Nodes PROVE Formed(m)'
    <2>1. CASE m # n BY <1>5, <2>1, FormedKept
    <2>2. CASE m = n BY <1>1, <1>6, <2>2 DEF Formed
    <2> QED BY <2>1, <2>2
  <1>12. ASSUME NEW m \in Nodes, NEW p \in Nodes, m < p PROVE Agreed(m, p)'
    <2>1. CASE m = n
      <3>1. dialing'[n].pc = "idle" BY <1>6 DEF NotDialing
      <3> QED BY <1>8, <2>1, <3>1 DEF Agreed, Made
    <2>2. CASE m # n /\ p # n
      <3>1. NothingMade(m) /\ NothingTaken(p)
        BY <1>5, <2>2 DEF NothingMade, NothingTaken, DialerSame, AcceptorSame, Up
      <3> QED BY <1>12, <3>1, AgreedKept
    <2>3. CASE m # n /\ p = n
      <3>1. SUFFICES ASSUME NEW d, d # None, Made(m, n, d)', Up(n)' PROVE d.seen # inc'[n]
        BY <1>6, <1>8, <2>3 DEF Agreed, Hears
      <3>2. Made(m, n, d) BY <1>5, <2>3, <3>1 DEF Made, DialerSame, Up
      <3>3. Outbound(m, d) /\ d.to = n BY <3>1, <3>2, MadeIsOutbound
      <3>4. d.seen \in Nat /\ d.seen <= inc[n] BY <3>3 DEF Outbound, Attempts
      <3>5. inc'[n] = inc[n] + 1 BY <1>1, <1>6, <3>1 DEF Up
      <3> QED BY <1>2, <3>4, <3>5
    <2> QED BY <2>1, <2>2, <2>3
  <1> QED BY <1>4, <1>9, <1>10, <1>11, <1>12 DEF Kept

(* A process ends.                                                         *)
LEMMA OverStep ==
  ASSUME Inv, NEW n \in Nodes, NEW how \in {"failed", "down"}, Over(n, how)
  PROVE  Kept
  <1>1. inc' = inc BY DEF Over
  <1>2. inc' = [inc EXCEPT ![n] = IF how = "mesh" THEN @ + 1 ELSE @] BY <1>1 DEF Inv, Types
  <1>3. Blank(n, how, {}, 0) BY <1>2 DEF Blank, Over
  <1> QED BY <1>3, BlankStep

(* A process starts: nothing can have arrived while it was not up.         *)
LEMMA StartsStep ==
  ASSUME Inv, NEW n \in Nodes, ~Up(n), Starts(n)
  PROVE  Kept
  <1>1. queue[n] = << >> BY DEF Inv, Accepts
  <1>2. queue' = [queue EXCEPT ![n] = << >>] BY <1>1 DEF Starts, Inv, Types
  <1>3. Larger(n) \in SUBSET Nodes /\ \A p \in Larger(n) : n < p BY NodesFinite DEF Larger
  <1>4. Cardinality(Smaller(n)) \in Nat
    <2>1. Smaller(n) \in SUBSET Nodes BY DEF Smaller
    <2>2. IsFiniteSet(Smaller(n)) BY <2>1, NodesFinite, FS_Subset
    <2> QED BY <2>2, FS_CardinalityType
  <1>5. inc' = [inc EXCEPT ![n] = IF "mesh" = "mesh" THEN @ + 1 ELSE @] BY DEF Starts
  <1>6. Blank(n, "mesh", Larger(n), Cardinality(Smaller(n)))
    BY <1>2, <1>3, <1>4, <1>5 DEF Blank, Starts
  <1> QED BY <1>6, BlankStep

-----------------------------------------------------------------------------
(* The invariant.                                                          *)

LEMMA InitInv == Init => Inv
  <1> SUFFICES ASSUME Init PROVE Inv OBVIOUS
  <1>1. NoConns \in [Nodes -> Conns] /\ << >> \in Seq(Attempts) BY DEF NoConns, Conns
  <1>2. NotDialing \in [pc : {"idle", "wait", "hello", "over"}, conn : Conns, try : 0 .. DIAL_ATTEMPTS]
        /\ NotDialing.pc = "idle" /\ NotDialing.try = 0
    BY NodesFinite DEF NotDialing, Conns
  <1>3. Types BY <1>1, <1>2 DEF Init, Types, Conns
  <1>4. ASSUME NEW n \in Nodes PROVE Dials(n) /\ Accepts(n) /\ Formed(n)
    BY <1>2, NodesFinite DEF Init, Dials, Accepts, Formed, NoConns
  <1>5. ASSUME NEW n \in Nodes, NEW p \in Nodes PROVE Agreed(n, p)
    BY DEF Init, Agreed, Made, Up
  <1> QED BY <1>3, <1>4, <1>5 DEF Inv

LEMMA NextInv == Inv /\ [Next]_vars => Inv'
  <1> SUFFICES ASSUME Inv, [Next]_vars PROVE Inv' OBVIOUS
  <1>1. CASE UNCHANGED vars
    <2>1. UNCHANGED << phase, inc, to_dial, dialing, queue, left, reading, dialed, accepted >>
      BY <1>1 DEF vars, process, dialer, acceptor
    <2> QED BY <2>1 DEF Inv, Types, Dials, Accepts, Formed, Agreed, Outbound, Inbound, Reaches,
                        Conn, Made, Hears, Up
  <1>2. ASSUME NEW n \in Nodes, Process(n) \/ Dialer(n) \/ Acceptor(n) \/ Main(n) PROVE Kept
    <2>1. CASE Process(n)
      <3>1. CASE start(n) \/ restart(n) BY <3>1, StartsStep DEF start, restart, Up
      <3>2. CASE crash(n) BY <3>2, OverStep DEF crash
      <3>3. CASE stages_fail(n) BY <3>3, OverStep DEF stages_fail, Fails
      <3> QED BY <2>1, <3>1, <3>2, <3>3 DEF Process
    <2>2. CASE Dialer(n)
      <3>1. CASE dial_fails(n) BY <3>1, OverStep DEF dial_fails, Fails
      <3> QED BY <2>2, <3>1, ConnectStep, ArriveStep, RetryStep, SelfDialFailsStep, HelloStep
              DEF Dialer
    <2>3. CASE Acceptor(n) BY <2>3, AcceptStep, AcceptFailsStep, ReadHelloStep DEF Acceptor
    <2>4. CASE Main(n)
      <3>1. CASE mesh_incomplete(n) BY <3>1, OverStep DEF mesh_incomplete, Fails
      <3>2. CASE loopback_fails(n) BY <3>2, OverStep DEF loopback_fails, Fails
      <3> QED BY <2>4, <3>1, <3>2, MeshCompleteStep, ServingStep DEF Main
    <2> QED BY <1>2, <2>1, <2>2, <2>3, <2>4
  <1>3. Kept => Inv' BY DEF Kept, Inv
  <1> QED BY <1>1, <1>2, <1>3 DEF Next

LEMMA InvAlways == Spec => []Inv
  BY InitInv, NextInv, PTL DEF Spec

(***************************************************************************)
(* ServingMeshIsFull: for any number of nodes, in whatever order they      *)
(* start, time out, crash and restart, a node that serves has a connection *)
(* for every peer and for itself, between the nodes its key says.          *)
(***************************************************************************)
THEOREM ServingMeshIsFull == Spec => []FullMesh
  <1>1. Inv => FullMesh
    <2> SUFFICES ASSUME Inv, NEW n \in Nodes, phase[n] = "serving", NEW p \in Nodes
                 PROVE  Conn(n, p) # None /\ {Conn(n, p).from, Conn(n, p).to} = {n, p}
      BY DEF FullMesh
    <2>1. Conn(n, p) # None BY DEF Inv, Formed, Conn
    <2>2. CASE accepted[n][p] # None BY <2>2 DEF Inv, Accepts, Inbound, Conn
    <2>3. CASE accepted[n][p] = None
      <3>1. Conn(n, p) = dialed[n][p] BY <2>3 DEF Conn
      <3>2. Outbound(n, dialed[n][p]) /\ dialed[n][p].to = p BY <2>1, <3>1 DEF Inv, Dials
      <3> QED BY <2>1, <3>1, <3>2 DEF Outbound
    <2> QED BY <2>1, <2>2, <2>3
  <1> QED BY InvAlways, <1>1, PTL

(***************************************************************************)
(* PairsAgree: two nodes that serve hold the same connection for their     *)
(* pair.  A later run of a node never stands on what an earlier one, or    *)
(* an abandoned attempt, left at its peer.                                 *)
(***************************************************************************)
THEOREM PairsAgree == Spec => []OnePerPair
  <1>1. ASSUME Inv, NEW n \in Nodes, NEW p \in Nodes, n < p,
               phase[n] = "serving", phase[p] = "serving"
        PROVE  Conn(n, p) = Conn(p, n)
    <2>1. n \in Nat /\ p \in Nat BY NodesFinite
    <2>2. Conn(n, p) # None /\ Conn(p, n) # None BY <1>1, <2>1 DEF Inv, Formed
    <2>3. accepted[n][p] = None
      <3>1. accepted[n][p] # None => accepted[n][p].from = p /\ Inbound(n, accepted[n][p])
        BY <1>1 DEF Inv, Accepts
      <3> QED BY <1>1, <2>1, <3>1 DEF Inbound
    <2>4. dialed[p][n] = None
      <3>1. dialed[p][n] # None => dialed[p][n].to = n /\ Outbound(p, dialed[p][n])
        BY <1>1 DEF Inv, Dials
      <3> QED BY <1>1, <2>1, <3>1 DEF Outbound, Reaches
    <2>5. Conn(n, p) = dialed[n][p] /\ Conn(p, n) = accepted[p][n] /\ accepted[p][n] # None
      BY <2>2, <2>3, <2>4 DEF Conn
    <2>6. reading[p] = None
      <3>1. left[p] = 0 BY <1>1 DEF Inv, Formed
      <3> QED BY <1>1, <3>1 DEF Inv, Accepts
    <2>7. Agreed(n, p) /\ Made(n, p, dialed[n][p]) /\ Up(p) BY <1>1 DEF Inv, Made, Up
    <2> QED BY <2>2, <2>5, <2>6, <2>7 DEF Agreed
  <1>2. Inv => OnePerPair
    <2> SUFFICES ASSUME Inv, NEW n \in Nodes, NEW p \in Nodes,
                        phase[n] = "serving", phase[p] = "serving"
                 PROVE  Conn(n, p) = Conn(p, n)
      BY DEF OnePerPair
    <2>1. n < p \/ p < n \/ n = p BY NodesFinite
    <2> QED BY <1>1, <2>1
  <1> QED BY InvAlways, <1>2, PTL
=============================================================================
