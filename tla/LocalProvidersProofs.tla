------------------------ MODULE LocalProvidersProofs ------------------------
(***************************************************************************)
(* Proofs about LocalProviders, for any number of clients, replicas and    *)
(* tokens: the types, exclusive use of every model and its KV cache, no    *)
(* lost lock, and that both providers implement Generation.                *)
(***************************************************************************)
EXTENDS LocalProviders, SequenceTheorems, TLAPS

(***************************************************************************)
(* The locks of the pool.  Who generates has the lock of its replica       *)
(* (Generates), a lock has an owner that knows of it (Owned), and who is   *)
(* queued waits for that replica, once, and is not its owner (Queued,      *)
(* Once).                                                                  *)
(***************************************************************************)
Generates(r) == call[r].pc \in {"prefill", "decode"} => holder[call[r].on] = r

Owned(i) ==
  holder[i] # None => /\ call[holder[i]].pc \in {"wait", "prefill", "decode"}
                      /\ call[holder[i]].on = i

Queued(i) ==
  \A k \in DOMAIN queue[i] :
    LET q == queue[i][k] IN
    call[q].pc = "wait" /\ call[q].on = i /\ holder[i] # q

Once(i) == \A k, l \in DOMAIN queue[i] : k # l => queue[i][k] # queue[i][l]

\* The rows a decoding call appends to; position 0 is the prompt's.
OwnRows(r) ==
  call[r].pc = "decode" => call[r].pos > 0 /\ cache[call[r].on] = << r, call[r].pos >>

\* What on_token has counted: only a muted stream sends less than it produces.
Counted(r) ==
  /\ call[r].pc = "new" => call[r] = Idle
  /\ Active(r) => /\ call[r].mute => call[r].stream /\ call[r].sent <= call[r].produced
                  /\ ~call[r].mute => call[r].sent = call[r].produced

PoolInv ==
  /\ TypeOK
  /\ \A r \in Requests : Generates(r) /\ OwnRows(r) /\ Counted(r)
  /\ \A i \in Replicas : Owned(i) /\ Queued(i) /\ Once(i)

\* The same of rustyllm: a thread that generates has the lock, its owner
\* generates, and a client that is there got every token, all of them when the
\* thread is done.
RustyCounted(r) ==
  LET c == job[r] IN
  /\ c.pc = "new" => c = Rusty!Idle
  /\ Rusty!Active(r) => ~c.eos /\ (c.reply = "open" => c.sent = c.produced)
  /\ c.pc = "done" /\ c.reply = "open" => c.eos \/ c.sent >= c.max_new

RustyInv ==
  /\ Rusty!TypeOK
  /\ \A r \in Requests : (job[r].pc = "run" <=> model = r) /\ RustyCounted(r)

Inv == PoolInv /\ RustyInv

-----------------------------------------------------------------------------
(* Sequences.                                                              *)

(* A sequence without its k-th element: the elements before it stay where  *)
(* they are, the others move up by one.                                    *)
LEMMA RemoveAtProperties ==
  ASSUME NEW S, NEW s \in Seq(S), NEW k \in 1 .. Len(s)
  PROVE  /\ RemoveAt(s, k) \in Seq(S)
         /\ Len(RemoveAt(s, k)) = Len(s) - 1
         /\ \A j \in 1 .. (Len(s) - 1) : RemoveAt(s, k)[j] = IF j < k THEN s[j] ELSE s[j + 1]
  <1> DEFINE a == SubSeq(s, 1, k - 1)
             b == SubSeq(s, k + 1, Len(s))
  <1>1. Len(s) \in Nat /\ k \in Nat /\ k <= Len(s) /\ 1 <= k OBVIOUS
  <1>2. a \in Seq(S) /\ Len(a) = k - 1 /\ \A j \in 1 .. (k - 1) : a[j] = s[j]
    BY <1>1
  <1>3. b \in Seq(S) /\ Len(b) = Len(s) - k /\ \A j \in 1 .. (Len(s) - k) : b[j] = s[k + j]
    BY <1>1
  <1> HIDE DEF a, b
  <1>4. a \o b \in Seq(S) /\ Len(a \o b) = Len(s) - 1
    <2>1. a \o b \in Seq(S) /\ Len(a \o b) = Len(a) + Len(b) BY <1>2, <1>3, ConcatProperties, Zenon
    <2> QED BY <1>1, <1>2, <1>3, <2>1
  <1>5. ASSUME NEW j \in 1 .. (Len(s) - 1)
        PROVE  (a \o b)[j] = IF j < k THEN s[j] ELSE s[j + 1]
    <2>1. CASE j < k BY <1>1, <1>2, <1>3, <2>1
    <2>2. CASE ~(j < k)
      <3>1. (a \o b)[j] = b[j - (k - 1)] BY <1>1, <1>2, <1>3, <2>2
      <3>2. j - (k - 1) \in 1 .. (Len(s) - k) /\ k + (j - (k - 1)) = j + 1 BY <1>1, <2>2
      <3> QED BY <1>3, <2>2, <3>1, <3>2
    <2> QED BY <2>1, <2>2
  <1>6. RemoveAt(s, k) = a \o b BY DEF RemoveAt, a, b
  <1> QED BY <1>4, <1>5, <1>6

-----------------------------------------------------------------------------
(* The locks of the pool.                                                  *)

LockTypes ==
  /\ call \in [Requests -> Calls]
  /\ holder \in [Replicas -> Requests \cup {None}]
  /\ queue \in [Replicas -> Seq(Requests)]

LockInv ==
  /\ \A r \in Requests : Generates(r)
  /\ \A i \in Replicas : Owned(i) /\ Queued(i) /\ Once(i)

\* r moves to c, and no other call moves.
Moves(r, c) == c \in Calls /\ call' = [call EXCEPT ![r] = c]

Locking == {"wait", "prefill", "decode"}

(* Moves in terms of each call.                                            *)
LEMMA MovesAlone ==
  ASSUME LockTypes, NEW r \in Requests, NEW c, Moves(r, c)
  PROVE  /\ call' \in [Requests -> Calls] /\ call'[r] = c
         /\ \A q \in Requests : q # r => call'[q] = call[q]
  BY DEF LockTypes, Moves

(* Who is queued is a call.                                                *)
LEMMA QueuedCalls ==
  ASSUME LockTypes, NEW i \in Replicas
  PROVE  \A k \in DOMAIN queue[i] : queue[i][k] \in Requests
  BY DEF LockTypes

(* A call that neither has nor awaits a lock moves without one.            *)
LEMMA LocksUntouched ==
  ASSUME LockTypes, LockInv, NEW r \in Requests, NEW c, Moves(r, c),
         call[r].pc \notin Locking, c.pc \notin Locking, UNCHANGED << holder, queue >>
  PROVE  LockTypes' /\ LockInv'
  <1>1. /\ call' \in [Requests -> Calls] /\ call'[r] = c
        /\ \A q \in Requests : q # r => call'[q] = call[q]
    BY MovesAlone
  <1>2. \A q \in Requests : Generates(q)' BY <1>1 DEF LockInv, Generates, Locking
  <1>3. ASSUME NEW i \in Replicas PROVE Owned(i)' /\ Queued(i)' /\ Once(i)'
    <2>1. Owned(i)' BY <1>1 DEF LockInv, LockTypes, Owned, Locking
    <2>2. Queued(i)' BY <1>1, QueuedCalls DEF LockInv, Queued, Locking
    <2>3. Once(i)' BY DEF LockInv, Once
    <2> QED BY <2>1, <2>2, <2>3
  <1> QED BY <1>1, <1>2, <1>3 DEF LockInv, LockTypes

(* A call goes on with the lock it has, or waits on.                       *)
LEMMA LocksGoOn ==
  ASSUME LockTypes, LockInv, NEW r \in Requests, NEW c, Moves(r, c),
         call[r].pc \in Locking, c.pc \in Locking, c.on = call[r].on,
         holder[call[r].on] = r \/ c.pc = call[r].pc, UNCHANGED << holder, queue >>
  PROVE  LockTypes' /\ LockInv'
  <1>1. /\ call' \in [Requests -> Calls] /\ call'[r] = c
        /\ \A q \in Requests : q # r => call'[q] = call[q]
    BY MovesAlone
  <1>2. \A q \in Requests : Generates(q)' BY <1>1 DEF LockInv, Generates, Locking
  <1>3. ASSUME NEW i \in Replicas PROVE Owned(i)' /\ Queued(i)' /\ Once(i)'
    <2>1. Owned(i)' BY <1>1 DEF LockInv, LockTypes, Owned, Locking
    <2>2. Queued(i)'
      <3>1. ASSUME NEW k \in DOMAIN queue[i], queue[i][k] = r PROVE c.pc = "wait" /\ c.on = i
        BY <3>1 DEF LockInv, Queued
      <3> QED BY <1>1, <3>1, QueuedCalls DEF LockInv, Queued
    <2>3. Once(i)' BY DEF LockInv, Once
    <2> QED BY <2>1, <2>2, <2>3
  <1> QED BY <1>1, <1>2, <1>3 DEF LockInv, LockTypes

(* A call takes a lock that is free.                                       *)
LEMMA LockTaken ==
  ASSUME LockTypes, LockInv, NEW r \in Requests, NEW c, Moves(r, c), NEW i \in Replicas,
         call[r].pc \notin Locking, c.pc \in Locking, c.on = i, holder[i] = None,
         holder' = [holder EXCEPT ![i] = r], UNCHANGED queue
  PROVE  LockTypes' /\ LockInv'
  <1>1. /\ call' \in [Requests -> Calls] /\ call'[r] = c
        /\ \A q \in Requests : q # r => call'[q] = call[q]
    BY MovesAlone
  <1>2. /\ holder' \in [Replicas -> Requests \cup {None}] /\ holder'[i] = r
        /\ \A j \in Replicas : j # i => holder'[j] = holder[j]
    BY DEF LockTypes
  <1>3. ASSUME NEW q \in Requests PROVE Generates(q)'
    <2>1. call[q].on \in Replicas BY DEF LockTypes, Calls
    <2> QED BY <1>1, <1>2, <2>1, PoolAssumption DEF LockInv, Generates
  <1>4. ASSUME NEW j \in Replicas PROVE Owned(j)' /\ Queued(j)' /\ Once(j)'
    <2>1. Owned(j)' BY <1>1, <1>2 DEF LockInv, LockTypes, Owned, Locking
    <2>2. \A k \in DOMAIN queue[j] : queue[j][k] # r BY DEF LockInv, Queued, Locking
    <2>3. Queued(j)' BY <1>1, <1>2, <2>2, QueuedCalls DEF LockInv, Queued
    <2>4. Once(j)' BY DEF LockInv, Once
    <2> QED BY <2>1, <2>3, <2>4
  <1> QED BY <1>1, <1>2, <1>3, <1>4 DEF LockInv, LockTypes

(* A call queues for a lock that is held.                                  *)
LEMMA LockAwaited ==
  ASSUME LockTypes, LockInv, NEW r \in Requests, NEW c, Moves(r, c), NEW i \in Replicas,
         call[r].pc \notin Locking, c.pc = "wait", c.on = i,
         queue' = [queue EXCEPT ![i] = Append(@, r)], UNCHANGED holder
  PROVE  LockTypes' /\ LockInv'
  <1>1. /\ call' \in [Requests -> Calls] /\ call'[r] = c
        /\ \A q \in Requests : q # r => call'[q] = call[q]
    BY MovesAlone
  <1>2. /\ queue' \in [Replicas -> Seq(Requests)] /\ queue'[i] = Append(queue[i], r)
        /\ \A j \in Replicas : j # i => queue'[j] = queue[j]
    BY DEF LockTypes
  <1>3. \A q \in Requests : Generates(q)' BY <1>1 DEF LockInv, Generates
  <1>4. \A j \in Replicas : \A k \in DOMAIN queue[j] : queue[j][k] # r
    BY DEF LockInv, Queued, Locking
  <1>5. \A j \in Replicas : holder[j] # r
    <2> SUFFICES ASSUME NEW j \in Replicas, holder[j] = r PROVE FALSE OBVIOUS
    <2>1. r # None BY PoolAssumption
    <2> QED BY <2>1 DEF LockInv, Owned, Locking
  <1>6. \A j \in Replicas : Owned(j)' BY <1>1, <1>5 DEF LockInv, LockTypes, Owned
  <1>7. ASSUME NEW j \in Replicas PROVE Queued(j)' /\ Once(j)'
    <2>1. CASE j # i
      <3>1. queue'[j] = queue[j] BY <1>2, <2>1
      <3>2. ASSUME NEW k \in DOMAIN queue[j]
            PROVE  /\ call'[queue[j][k]].pc = "wait" /\ call'[queue[j][k]].on = j
                   /\ holder[j] # queue[j][k]
        <4>1. queue[j][k] \in Requests /\ queue[j][k] # r BY <1>4, QueuedCalls
        <4> QED BY <1>1, <4>1 DEF LockInv, Queued
      <3>3. Queued(j)' BY <3>1, <3>2 DEF Queued
      <3>4. Once(j) BY DEF LockInv
      <3>5. Once(j)' BY ONLY <3>1, <3>4 DEF Once
      <3> QED BY <3>3, <3>5
    <2>2. CASE j = i
      <3> DEFINE s == queue[i]
      <3>1. s \in Seq(Requests) /\ Len(s) \in Nat BY DEF LockTypes
      <3>2. /\ DOMAIN queue'[i] = 1 .. (Len(s) + 1) /\ queue'[i][Len(s) + 1] = r
            /\ \A k \in 1 .. Len(s) : queue'[i][k] = s[k]
        BY <1>2, <3>1
      <3>3. DOMAIN s = 1 .. Len(s) BY <3>1
      <3> HIDE DEF s
      <3>4. \A k \in 1 .. Len(s) : /\ s[k] # r /\ s[k] \in Requests
                                   /\ call[s[k]].pc = "wait" /\ call[s[k]].on = i
                                   /\ holder[i] # s[k]
        BY <1>4, <3>3, QueuedCalls DEF s, LockInv, Queued
      <3>5. Queued(i)' BY <1>1, <1>5, <3>1, <3>2, <3>4 DEF Queued
      <3>6. \A k, l \in 1 .. Len(s) : k # l => s[k] # s[l] BY <3>3 DEF s, LockInv, Once
      <3>7. Once(i)' BY <3>1, <3>2, <3>4, <3>6 DEF Once
      <3> QED BY <2>2, <3>5, <3>7
    <2> QED BY <2>1, <2>2
  <1> QED BY <1>1, <1>2, <1>3, <1>6, <1>7 DEF LockInv, LockTypes

(* Who waits in a queue is one of the calls, and not one that moves.       *)
LEMMA QueueElsewhere ==
  ASSUME LockTypes, LockInv, NEW r \in Requests, NEW c, Moves(r, c), NEW j \in Replicas,
         \A k \in DOMAIN queue[j] : queue[j][k] # r,
         queue'[j] = queue[j], holder'[j] = holder[j]
  PROVE  Queued(j)' /\ Once(j)'
  <1>1. ASSUME NEW k \in DOMAIN queue[j]
        PROVE  /\ call'[queue[j][k]].pc = "wait" /\ call'[queue[j][k]].on = j
               /\ holder[j] # queue[j][k]
    <2>1. queue[j][k] \in Requests /\ queue[j][k] # r BY QueuedCalls
    <2> QED BY <2>1, MovesAlone DEF LockInv, Queued
  <1>2. Queued(j)' BY <1>1 DEF Queued
  <1>3. Once(j)' BY DEF LockInv, Once
  <1> QED BY <1>2, <1>3

(* The owner of a lock is over: the first waiter gets the lock, if there   *)
(* is one, and is in the queue no more.                                    *)
LEMMA LockReleased ==
  ASSUME LockTypes, LockInv, NEW r \in Requests, NEW c, Moves(r, c), NEW i \in Replicas,
         i = call[r].on, holder[i] = r, c.pc \notin Locking, Release(i)
  PROVE  LockTypes' /\ LockInv'
  <1>1. /\ call' \in [Requests -> Calls] /\ call'[r] = c
        /\ \A q \in Requests : q # r => call'[q] = call[q]
    BY MovesAlone
  <1> DEFINE s == queue[i]
  <1>2. s \in Seq(Requests) /\ Len(s) \in Nat /\ DOMAIN s = 1 .. Len(s) BY DEF LockTypes
  <1>3. \A k \in DOMAIN s : /\ s[k] # r /\ s[k] \in Requests
                            /\ call'[s[k]].pc = "wait" /\ call'[s[k]].on = i
    BY <1>1, QueuedCalls DEF LockInv, Queued
  <1>4. PICK h \in Requests \cup {None} :
          /\ holder' = [holder EXCEPT ![i] = h]
          /\ h # None => s # << >> /\ h = s[1]
          /\ s # << >> => h = s[1]
          /\ queue' = IF s = << >> THEN queue ELSE [queue EXCEPT ![i] = Tail(s)]
    <2>1. CASE s = << >> BY <2>1 DEF Release
    <2>2. CASE s # << >>
      <3>1. Head(s) = s[1] /\ 1 \in DOMAIN s BY <1>2, <2>2
      <3> QED BY <1>3, <2>2, <3>1 DEF Release
    <2> QED BY <2>1, <2>2
  <1>5. /\ holder' \in [Replicas -> Requests \cup {None}] /\ holder'[i] = h
        /\ \A j \in Replicas : j # i => holder'[j] = holder[j]
    BY <1>4 DEF LockTypes
  <1>6. /\ queue' \in [Replicas -> Seq(Requests)]
        /\ queue'[i] = IF s = << >> THEN << >> ELSE Tail(s)
        /\ \A j \in Replicas : j # i => queue'[j] = queue[j]
    <2>1. CASE s = << >> BY <1>4, <2>1 DEF LockTypes
    <2>2. CASE s # << >>
      <3>1. Tail(s) \in Seq(Requests) BY <1>2, <2>2
      <3>2. queue' = [queue EXCEPT ![i] = Tail(s)] BY <1>4, <2>2
      <3> HIDE DEF s
      <3> QED BY <2>2, <3>1, <3>2 DEF LockTypes
    <2> QED BY <2>1, <2>2
  <1>7. ASSUME NEW q \in Requests PROVE Generates(q)'
    <2>1. CASE q = r BY <1>1, <2>1 DEF Generates, Locking
    <2>2. CASE q # r
      <3>1. call'[q] = call[q] /\ call[q].on \in Replicas BY <1>1, <2>2 DEF LockTypes, Calls
      <3>2. call[q].pc \in {"prefill", "decode"} => holder[call[q].on] = q
        BY DEF LockInv, Generates
      <3> QED BY <1>5, <2>2, <3>1, <3>2 DEF Generates
    <2> QED BY <2>1, <2>2
  <1>8. ASSUME NEW j \in Replicas, j # i PROVE Owned(j)' /\ Queued(j)' /\ Once(j)'
    <2>1. holder[j] # r
      <3>1. r # None BY PoolAssumption
      <3> QED BY <1>8, <3>1 DEF LockInv, Owned
    <2>2. Owned(j)' BY <1>1, <1>5, <1>8, <2>1 DEF LockInv, LockTypes, Owned
    <2>3. \A k \in DOMAIN queue[j] : queue[j][k] # r BY <1>8 DEF LockInv, Queued
    <2>4. queue'[j] = queue[j] /\ holder'[j] = holder[j] BY <1>5, <1>6, <1>8
    <2>5. Queued(j)' /\ Once(j)' BY <2>3, <2>4, QueueElsewhere
    <2> QED BY <2>2, <2>5
  <1>9. Owned(i)'
    <2>1. ASSUME h # None PROVE call'[h].pc = "wait" /\ call'[h].on = i
      <3>1. h = s[1] /\ 1 \in DOMAIN s BY <1>2, <1>4, <2>1
      <3> QED BY <1>3, <3>1
    <2> QED BY <1>5, <2>1 DEF Owned
  <1>10. Queued(i)' /\ Once(i)'
    <2>1. CASE s = << >> BY <1>6, <2>1 DEF Queued, Once
    <2>2. CASE s # << >>
      <3> DEFINE t == Tail(s)
      <3>1. queue'[i] = t /\ h = s[1] BY <1>4, <1>6, <2>2
      <3>2. /\ DOMAIN t = 1 .. (Len(s) - 1) /\ 1 \in DOMAIN s
            /\ \A k \in DOMAIN t : t[k] = s[k + 1] /\ k + 1 \in DOMAIN s /\ k + 1 # 1
        BY <1>2, <2>2
      <3>3. \A k, l \in DOMAIN s : k # l => s[k] # s[l] BY DEF LockInv, Once
      <3>4. \A k, l \in DOMAIN t : k # l => k + 1 # l + 1 BY <1>2, <3>2
      <3> HIDE DEF t, s
      <3>5. Queued(i)' BY <1>3, <1>5, <3>1, <3>2, <3>3 DEF Queued
      <3>6. Once(i)' BY <3>1, <3>2, <3>3, <3>4 DEF Once
      <3> QED BY <3>5, <3>6
    <2> QED BY <2>1, <2>2
  <1> QED BY <1>1, <1>5, <1>6, <1>7, <1>8, <1>9, <1>10 DEF LockInv, LockTypes

(* A waiter that has not got the lock leaves the queue.                    *)
LEMMA LockGivenUp ==
  ASSUME LockTypes, LockInv, NEW r \in Requests, NEW c, Moves(r, c), NEW i \in Replicas,
         i = call[r].on, call[r].pc = "wait", holder[i] # r, c.pc \notin Locking,
         Unqueue(i, r), UNCHANGED holder
  PROVE  LockTypes' /\ LockInv'
  <1>1. /\ call' \in [Requests -> Calls] /\ call'[r] = c
        /\ \A q \in Requests : q # r => call'[q] = call[q]
    BY MovesAlone
  <1> DEFINE s == queue[i]
  <1>2. s \in Seq(Requests) /\ Len(s) \in Nat /\ DOMAIN s = 1 .. Len(s) BY DEF LockTypes
  <1>3. PICK k \in DOMAIN s : s[k] = r /\ queue' = [queue EXCEPT ![i] = RemoveAt(s, k)]
    BY DEF Unqueue
  <1> DEFINE t == RemoveAt(s, k)
  <1>4. /\ t \in Seq(Requests) /\ DOMAIN t = 1 .. (Len(s) - 1)
        /\ \A j \in 1 .. (Len(s) - 1) : t[j] = IF j < k THEN s[j] ELSE s[j + 1]
    <2>1. k \in 1 .. Len(s) BY <1>2, <1>3
    <2> HIDE DEF s
    <2>2. /\ t \in Seq(Requests) /\ Len(t) = Len(s) - 1
          /\ \A j \in 1 .. (Len(s) - 1) : t[j] = IF j < k THEN s[j] ELSE s[j + 1]
      BY ONLY <1>2, <2>1, RemoveAtProperties, Zenon
    <2> HIDE DEF t
    <2> QED BY ONLY <2>2
  <1> HIDE DEF t
  <1>5. \A j \in DOMAIN t : \E l \in DOMAIN s : l # k /\ t[j] = s[l]
                                              /\ l = IF j < k THEN j ELSE j + 1
    BY <1>2, <1>3, <1>4
  <1>6. \A j \in Replicas : holder[j] # r
    <2> SUFFICES ASSUME NEW j \in Replicas, holder[j] = r PROVE FALSE OBVIOUS
    <2>1. r # None BY PoolAssumption
    <2> QED BY <2>1 DEF LockInv, Owned
  <1>7. /\ queue' \in [Replicas -> Seq(Requests)] /\ queue'[i] = t
        /\ \A j \in Replicas : j # i => queue'[j] = queue[j]
    BY <1>3, <1>4 DEF LockTypes, t
  <1>8. \A q \in Requests : Generates(q)' BY <1>1 DEF LockInv, Generates, Locking
  <1>9. \A j \in Replicas : Owned(j)' BY <1>1, <1>6 DEF LockInv, LockTypes, Owned
  <1>10. ASSUME NEW j \in Replicas, j # i PROVE Queued(j)' /\ Once(j)'
    <2>1. \A m \in DOMAIN queue[j] : queue[j][m] # r BY <1>10 DEF LockInv, Queued
    <2> QED BY <1>7, <1>10, <2>1, QueueElsewhere
  <1>11. Queued(i)' /\ Once(i)'
    <2>1. \A l, m \in DOMAIN s : l # m => s[l] # s[m] BY DEF LockInv, Once
    <2>2. \A l \in DOMAIN s : l # k => /\ s[l] \in Requests /\ s[l] # r /\ holder[i] # s[l]
                                      /\ call[s[l]].pc = "wait" /\ call[s[l]].on = i
      BY <1>3, <2>1, QueuedCalls DEF LockInv, Queued
    <2> HIDE DEF s
    <2>3. Queued(i)' BY <1>1, <1>5, <1>7, <2>2 DEF Queued
    <2>4. ASSUME NEW j \in DOMAIN t, NEW m \in DOMAIN t, j # m PROVE t[j] # t[m]
      <3>1. PICK l \in DOMAIN s : t[j] = s[l] /\ l = IF j < k THEN j ELSE j + 1 BY <1>5
      <3>2. PICK n \in DOMAIN s : t[m] = s[n] /\ n = IF m < k THEN m ELSE m + 1 BY <1>5
      <3>3. l # n BY <1>2, <1>4, <2>4, <3>1, <3>2
      <3> QED BY <2>1, <3>1, <3>2, <3>3
    <2>5. Once(i)' BY <1>7, <2>4 DEF Once
    <2> QED BY <2>3, <2>5
  <1> QED BY <1>1, <1>7, <1>8, <1>9, <1>10, <1>11 DEF LockInv, LockTypes

-----------------------------------------------------------------------------
(* What a client of the pool sees.                                         *)

(* A call that does not move.                                              *)
LEMMA GenStutter ==
  ASSUME NEW r \in Requests, call'[r] = call[r]
  PROVE  Gen(r)!Step
  BY DEF Gen!Step, Gen!vars

(* A call that moves on, unseen by its client.                             *)
LEMMA GenUnseen ==
  ASSUME NEW r \in Requests, Active(r), Active(r)', call'[r].listening = call[r].listening,
         call'[r].sent = call[r].sent, call'[r].max_tokens = call[r].max_tokens
  PROVE  Gen(r)!Step
  BY DEF Gen!Step, Gen!vars, Status, Here, Active, Over

(* The client is gone.                                                     *)
LEMMA GenLeft ==
  ASSUME NEW r \in Requests, Active(r), call'[r].pc # "new", ~call'[r].listening
  PROVE  Gen(r)!Step
  <1>1. Status(call[r]) \in {"open", "left"} /\ Status(call'[r]) = "left"
    BY DEF Status, Active, Over
  <1>2. CASE Status(call[r]) = "left" BY <1>1, <1>2 DEF Gen!Step, Gen!vars, Here
  <1>3. CASE Status(call[r]) = "open"
    BY <1>1, <1>3 DEF Gen!Step, Gen!Next, Gen!Leave, Here
  <1> QED BY <1>1, <1>2, <1>3

(* A token within max_tokens reaches the client.                           *)
LEMMA GenHands ==
  ASSUME NEW r \in Requests, Active(r), Active(r)', call[r].listening, call'[r].listening,
         call[r].sent \in Nat, call[r].max_tokens \in Nat, call[r].sent < call[r].max_tokens,
         call'[r].sent = call[r].sent + 1, call'[r].max_tokens = call[r].max_tokens
  PROVE  Gen(r)!Step
  <1>1. Status(call[r]) = "open" /\ Status(call'[r]) = "open" BY DEF Status, Active, Over
  <1>2. Gen(r)!Sample("tok", TRUE) BY <1>1 DEF Gen!Sample, Gen!Budget, Here
  <1> QED BY <1>2 DEF Gen!Step, Gen!Next

(* The call ends with an error, or its stream is cut short.                *)
LEMMA GenFails ==
  ASSUME NEW r \in Requests, Active(r), NEW c, NEW how \in {"error", "panicked"},
         call'[r] = Ended(c, how),
         c.listening = call[r].listening, c.sent = call[r].sent,
         c.max_tokens = call[r].max_tokens
  PROVE  Gen(r)!Step
  <1>1. CASE ~call[r].listening BY <1>1, GenLeft DEF Ended, Idle
  <1>2. CASE call[r].listening
    <2>1. call'[r].pc = how /\ call'[r].listening /\ call'[r].sent = call[r].sent
          /\ call'[r].max_tokens = call[r].max_tokens
      BY <1>2 DEF Ended, Idle
    <2>2. Status(call[r]) = "open" BY <1>2 DEF Status, Active, Over
    <2>3. CASE how = "error"
      <3>1. Status(call'[r]) = "failed" BY <2>1, <2>3 DEF Status
      <3>2. Gen(r)!Fail BY <2>1, <2>2, <3>1 DEF Gen!Fail, Here
      <3> QED BY <3>2 DEF Gen!Step, Gen!Next
    <2>4. CASE how = "panicked"
      <3>1. Status(call'[r]) = "cut" BY <2>1, <2>4 DEF Status
      <3>2. Gen(r)!Cut BY <2>1, <2>2, <3>1 DEF Gen!Cut, Here
      <3> QED BY <3>2 DEF Gen!Step, Gen!Next
    <2> QED BY <2>3, <2>4
  <1> QED BY <1>1, <1>2

(* The call ends well: the model ended the text, or max_tokens are there.  *)
LEMMA GenDone ==
  ASSUME NEW r \in Requests, Active(r), NEW c, call'[r] = Ended(c, "done"),
         c.listening = call[r].listening, c.sent = call[r].sent,
         c.max_tokens = call[r].max_tokens,
         c.listening => c.next = "eos" \/ c.sent >= c.max_tokens
  PROVE  Gen(r)!Step
  <1>1. CASE ~call[r].listening BY <1>1, GenLeft DEF Ended, Idle
  <1>2. CASE call[r].listening
    <2>1. call'[r].pc = "done" /\ call'[r].listening /\ call'[r].sent = call[r].sent
          /\ call'[r].max_tokens = call[r].max_tokens /\ call'[r].next = c.next
      BY <1>2 DEF Ended, Idle
    <2>2. Status(call[r]) = "open" /\ Status(call'[r]) = "complete"
      BY <1>2, <2>1 DEF Status, Active, Over
    <2>3. CASE c.next = "eos"
      <3>1. Gen(r)!Sample("eos", FALSE) BY <2>1, <2>2, <2>3 DEF Gen!Sample, Here
      <3> QED BY <3>1 DEF Gen!Step, Gen!Next
    <2>4. CASE c.next # "eos"
      <3>1. Gen(r)!Complete BY <1>2, <2>1, <2>2, <2>4 DEF Gen!Complete, Here
      <3> QED BY <3>1 DEF Gen!Step, Gen!Next
    <2> QED BY <2>3, <2>4
  <1> QED BY <1>1, <1>2

-----------------------------------------------------------------------------
(* The steps of the pool.                                                  *)

\* What a step of r to c must show; the other calls do not move.
Kept(r) ==
  /\ LockTypes' /\ LockInv'
  /\ cache' \in [Replicas -> (Requests \cup {None}) \X Nat]
  /\ counter' \in 0 .. (NumReplicas - 1)
  /\ Counted(r)' /\ Gen(r)!Step

(* The rows of the other calls are in the caches of other replicas.        *)
LEMMA PoolMoves ==
  ASSUME PoolInv, NEW r \in Requests, NEW c, Moves(r, c), Kept(r), OwnRows(r)',
         \A j \in Replicas : cache'[j] = cache[j] \/ (j = call[r].on /\ holder[j] = r)
  PROVE  PoolInv' /\ \A q \in Requests : Gen(q)!Step
  <1>1. LockTypes BY DEF PoolInv, TypeOK, LockTypes
  <1>2. call'[r] = c /\ \A q \in Requests : q # r => call'[q] = call[q] BY <1>1, MovesAlone
  <1>3. ASSUME NEW q \in Requests PROVE OwnRows(q)' /\ Counted(q)' /\ Gen(q)!Step
    <2>1. CASE q = r BY <2>1 DEF Kept
    <2>2. CASE q # r
      <3>1. call'[q] = call[q] BY <1>2, <2>2
      <3>2. call[q].on \in Replicas BY <1>1 DEF LockTypes, Calls
      <3>3. call[q].pc = "decode" => holder[call[q].on] = q BY DEF PoolInv, Generates
      <3>4. OwnRows(q)' BY <2>2, <3>1, <3>2, <3>3 DEF PoolInv, OwnRows
      <3>5. Counted(q)' BY <3>1 DEF PoolInv, Counted, Active, Over
      <3> QED BY <3>1, <3>4, <3>5, GenStutter
    <2> QED BY <2>1, <2>2
  <1> QED BY <1>3 DEF Kept, PoolInv, TypeOK, LockTypes, LockInv

(* The types that every step may use.                                      *)
LEMMA PoolTypes ==
  ASSUME PoolInv, NEW r \in Requests
  PROVE  /\ LockTypes /\ LockInv /\ call[r] \in Calls /\ call[r].on \in Replicas
         /\ cache \in [Replicas -> (Requests \cup {None}) \X Nat]
         /\ counter \in 0 .. (NumReplicas - 1)
         /\ Counted(r) /\ OwnRows(r) /\ Generates(r)
  BY DEF PoolInv, TypeOK, LockTypes, LockInv, Calls

(* A call that was not made, and one that ended, are calls.                *)
LEMMA EndedCalls ==
  /\ Idle \in Calls
  /\ \A c \in Calls, how \in {"done", "error", "panicked"} :
       Ended(c, how) \in Calls /\ Ended(c, how).pc = how
  <1>1. 1 \in Replicas BY PoolAssumption DEF Replicas
  <1>2. Idle \in Calls BY <1>1 DEF Idle, Calls
  <1>3. ASSUME NEW c \in Calls, NEW how \in {"done", "error", "panicked"}
        PROVE  Ended(c, how) \in Calls
    BY <1>2 DEF Ended, Calls
  <1>4. \A c \in Calls, how \in {"done", "error", "panicked"} : Ended(c, how).pc = how
    BY DEF Ended, Idle
  <1> QED BY <1>2, <1>3, <1>4

(* A client makes its call.                                                *)
LEMMA StartStep ==
  ASSUME PoolInv, NEW r \in Requests, NEW ask \in Asks[r], start(r, ask)
  PROVE  PoolInv' /\ \A q \in Requests : Gen(q)!Step
  <1> DEFINE c == [Idle EXCEPT !.pc = "try", !.stream = ask.stream,
                               !.prompt = ask.prompt, !.max_tokens = ask.max_tokens]
  <1>1. ask \in [stream : BOOLEAN, prompt : Nat, max_tokens : Nat] BY PoolAssumption
  <1>2. c \in Calls BY <1>1, EndedCalls DEF Calls
  <1>3. Moves(r, c) BY <1>2 DEF start, Moves
  <1>4. LockTypes' /\ LockInv' BY <1>3, PoolTypes, LocksUntouched DEF start, Idle, Locking
  <1>5. call'[r] = c /\ call[r] = Idle
    BY <1>3, PoolTypes, MovesAlone DEF start, Counted
  <1>6. Counted(r)' /\ OwnRows(r)' BY <1>5 DEF Counted, OwnRows, Idle, Active, Over
  <1>7. Gen(r)!Step
    <2>1. Status(call[r]) = "idle" /\ Status(call'[r]) = "open" BY <1>5 DEF Status, Idle
    <2>2. call[r].sent = 0 /\ call'[r].sent = 0 /\ call'[r].max_tokens = ask.max_tokens
      BY <1>5 DEF Idle
    <2>3. Gen(r)!Begin BY <2>1, <2>2 DEF Gen!Begin, Here
    <2> QED BY <2>3 DEF Gen!Step, Gen!Next
  <1>8. Kept(r) BY <1>4, <1>6, <1>7, PoolTypes DEF Kept, start
  <1> QED BY <1>3, <1>6, <1>8, PoolMoves DEF start

(* A replica is tried.                                                     *)
LEMMA TryStep ==
  ASSUME PoolInv, NEW r \in Requests, try_lock(r)
  PROVE  PoolInv' /\ \A q \in Requests : Gen(q)!Step
  <1> DEFINE i == call[r].on
  <1>1. /\ LockTypes /\ LockInv /\ call[r] \in Calls /\ i \in Replicas
        /\ call[r].pc = "try" /\ Counted(r) /\ UNCHANGED << queue, cache, counter >>
    BY PoolTypes DEF try_lock
  <1>2. PICK c : /\ Moves(r, c)
                 /\ c.pc \in {"try", "lock", "prefill"}
                 /\ c.listening = call[r].listening /\ c.sent = call[r].sent
                 /\ c.max_tokens = call[r].max_tokens /\ c.mute = call[r].mute
                 /\ c.stream = call[r].stream /\ c.produced = call[r].produced
                 /\ LockTypes' /\ LockInv'
    <2>1. CASE holder[i] = None
      <3> DEFINE c == [call[r] EXCEPT !.pc = "prefill"]
      <3>1. c \in Calls /\ c.on = i /\ c.pc = "prefill" BY <1>1 DEF Calls
      <3>2. Moves(r, c) BY <2>1, <3>1 DEF try_lock, Moves
      <3>3. LockTypes' /\ LockInv' BY <1>1, <2>1, <3>1, <3>2, LockTaken DEF try_lock, Locking
      <3> QED BY <1>1, <3>1, <3>2, <3>3 DEF Calls
    <2>2. CASE holder[i] # None
      <3> DEFINE c == IF i < NumReplicas THEN [call[r] EXCEPT !.on = i + 1]
                      ELSE [call[r] EXCEPT !.pc = "lock"]
      <3>1. i < NumReplicas => i + 1 \in Replicas BY <1>1, PoolAssumption DEF Replicas
      <3>2. c \in Calls /\ c.pc \in {"try", "lock"} BY <1>1, <3>1 DEF Calls
      <3>3. Moves(r, c) BY <2>2, <3>2 DEF try_lock, Moves
      <3>4. LockTypes' /\ LockInv' BY <1>1, <2>2, <3>2, <3>3, LocksUntouched DEF try_lock, Locking
      <3> QED BY <1>1, <3>2, <3>3, <3>4 DEF Calls
    <2> QED BY <2>1, <2>2
  <1>3. call'[r] = c BY <1>1, <1>2, MovesAlone
  <1>4. Counted(r)' /\ OwnRows(r)' BY <1>1, <1>2, <1>3 DEF Counted, OwnRows, Active, Over
  <1>5. Gen(r)!Step BY <1>1, <1>2, <1>3, GenUnseen DEF Active, Over
  <1>6. Kept(r) BY <1>1, <1>2, <1>4, <1>5, PoolTypes DEF Kept
  <1> QED BY <1>1, <1>2, <1>4, <1>6, PoolMoves

(* The next replica in turn is taken or waited for.                        *)
LEMMA LockStep ==
  ASSUME PoolInv, NEW r \in Requests, lock(r)
  PROVE  PoolInv' /\ \A q \in Requests : Gen(q)!Step
  <1> DEFINE i == counter + 1
  <1>1. /\ LockTypes /\ LockInv /\ call[r] \in Calls /\ i \in Replicas
        /\ call[r].pc = "lock" /\ Counted(r) /\ UNCHANGED cache
    BY PoolTypes, PoolAssumption DEF lock, Replicas
  <1>2. counter' \in 0 .. (NumReplicas - 1)
    BY PoolTypes, PoolAssumption DEF lock, next_index
  <1>3. PICK pc \in {"prefill", "wait"} :
          LET c == [call[r] EXCEPT !.pc = pc, !.on = i]
          IN  Moves(r, c) /\ LockTypes' /\ LockInv'
    <2>1. CASE holder[i] = None
      <3> DEFINE c == [call[r] EXCEPT !.pc = "prefill", !.on = i]
      <3>1. c \in Calls /\ c.on = i /\ c.pc = "prefill" BY <1>1 DEF Calls
      <3>2. Moves(r, c) BY <1>1, <2>1, <3>1 DEF lock, Moves, LockTypes
      <3>3. LockTypes' /\ LockInv' BY <1>1, <2>1, <3>1, <3>2, LockTaken DEF lock, Locking
      <3> QED BY <3>2, <3>3
    <2>2. CASE holder[i] # None
      <3> DEFINE c == [call[r] EXCEPT !.pc = "wait", !.on = i]
      <3>1. c \in Calls /\ c.on = i /\ c.pc = "wait" BY <1>1 DEF Calls
      <3>2. Moves(r, c) BY <1>1, <2>2, <3>1 DEF lock, Moves, LockTypes
      <3>3. LockTypes' /\ LockInv' BY <1>1, <2>2, <3>1, <3>2, LockAwaited DEF lock, Locking
      <3> QED BY <3>2, <3>3
    <2> QED BY <2>1, <2>2
  <1> DEFINE c == [call[r] EXCEPT !.pc = pc, !.on = i]
  <1>4. call'[r] = c BY <1>1, <1>3, MovesAlone
  <1>5. /\ c.pc = pc /\ c.listening = call[r].listening /\ c.sent = call[r].sent
        /\ c.max_tokens = call[r].max_tokens /\ c.mute = call[r].mute
        /\ c.stream = call[r].stream /\ c.produced = call[r].produced
    BY <1>1 DEF Calls
  <1> HIDE DEF c
  <1>6. Counted(r)' /\ OwnRows(r)' BY <1>1, <1>4, <1>5 DEF Counted, OwnRows, Active, Over
  <1>7. Gen(r)!Step BY <1>1, <1>4, <1>5, GenUnseen DEF Active, Over
  <1>8. Kept(r) BY <1>1, <1>2, <1>3, <1>6, <1>7, PoolTypes DEF Kept
  <1> QED BY <1>1, <1>3, <1>6, <1>8, PoolMoves DEF c

(* A waiter has got the lock; or a client leaves a call that goes on.      *)
LEMMA GoesOnStep ==
  ASSUME PoolInv, NEW r \in Requests, locked(r) \/ hang_up(r)
  PROVE  PoolInv' /\ \A q \in Requests : Gen(q)!Step
  <1>1. /\ LockTypes /\ LockInv /\ call[r] \in Calls /\ Counted(r) /\ OwnRows(r) /\ Active(r)
        /\ UNCHANGED << holder, queue, cache, counter >>
    BY PoolTypes DEF locked, hang_up, Active, Over
  <1>2. CASE locked(r)
    <2> DEFINE c == [call[r] EXCEPT !.pc = "prefill"]
    <2>1. /\ c \in Calls /\ c.on = call[r].on /\ c.pc = "prefill"
          /\ c.listening = call[r].listening /\ c.sent = call[r].sent
          /\ c.max_tokens = call[r].max_tokens /\ c.mute = call[r].mute
          /\ c.stream = call[r].stream /\ c.produced = call[r].produced
      BY <1>1 DEF Calls
    <2>2. Moves(r, c) BY <1>2, <2>1 DEF locked, Moves
    <2> HIDE DEF c
    <2>3. LockTypes' /\ LockInv' BY <1>1, <1>2, <2>1, <2>2, LocksGoOn DEF locked, Locking
    <2>4. call'[r] = c BY <1>1, <2>2, MovesAlone
    <2>5. Counted(r)' /\ OwnRows(r)' BY <1>1, <2>1, <2>4 DEF Counted, OwnRows, Active, Over
    <2>6. Gen(r)!Step BY <1>1, <2>1, <2>4, GenUnseen DEF Active, Over
    <2>7. Kept(r) BY <1>1, <2>3, <2>5, <2>6, PoolTypes DEF Kept
    <2> QED BY <1>1, <2>2, <2>5, <2>7, PoolMoves
  <1>3. CASE hang_up(r)
    <2> DEFINE c == [call[r] EXCEPT !.listening = FALSE]
    <2>1. /\ c \in Calls /\ c.on = call[r].on /\ c.pc = call[r].pc /\ ~c.listening
          /\ c.sent = call[r].sent /\ c.mute = call[r].mute /\ c.pos = call[r].pos
          /\ c.stream = call[r].stream /\ c.produced = call[r].produced
      BY <1>1 DEF Calls
    <2>2. Moves(r, c) BY <1>3, <2>1 DEF hang_up, Moves
    <2> HIDE DEF c
    <2>3. LockTypes' /\ LockInv'
      <3>1. CASE call[r].pc \in Locking BY <1>1, <2>1, <2>2, <3>1, LocksGoOn
      <3>2. CASE call[r].pc \notin Locking BY <1>1, <2>1, <2>2, <3>2, LocksUntouched
      <3> QED BY <3>1, <3>2
    <2>4. call'[r] = c BY <1>1, <2>2, MovesAlone
    <2>5. Counted(r)' /\ OwnRows(r)' BY <1>1, <2>1, <2>4 DEF Counted, OwnRows, Active, Over
    <2>6. Gen(r)!Step BY <1>1, <2>1, <2>4, GenLeft DEF Active, Over
    <2>7. Kept(r) BY <1>1, <2>3, <2>5, <2>6, PoolTypes DEF Kept
    <2> QED BY <1>1, <2>2, <2>5, <2>7, PoolMoves
  <1> QED BY <1>2, <1>3

(* A future is dropped while it waits.                                     *)
LEMMA CancelStep ==
  ASSUME PoolInv, NEW r \in Requests, cancel(r)
  PROVE  PoolInv' /\ \A q \in Requests : Gen(q)!Step
  <1> DEFINE c == [Idle EXCEPT !.pc = "cancelled", !.listening = FALSE]
             i == call[r].on
  <1>1. /\ LockTypes /\ LockInv /\ i \in Replicas /\ Active(r) /\ call[r].pc = "wait"
        /\ UNCHANGED << cache, counter >>
    BY PoolTypes DEF cancel, Active, Over
  <1>2. c \in Calls /\ c.pc = "cancelled" /\ ~c.listening
    <2>1. c \in Calls BY EndedCalls DEF Calls
    <2> QED BY <2>1 DEF Idle
  <1>3. Moves(r, c) BY <1>2 DEF cancel, Moves
  <1> HIDE DEF c
  <1>4. LockTypes' /\ LockInv'
    <2>1. CASE holder[i] = r BY <1>1, <1>2, <1>3, <2>1, LockReleased DEF cancel, Locking
    <2>2. CASE holder[i] # r BY <1>1, <1>2, <1>3, <2>2, LockGivenUp DEF cancel, Locking
    <2> QED BY <2>1, <2>2
  <1>5. call'[r] = c BY <1>1, <1>3, MovesAlone
  <1>6. Counted(r)' /\ OwnRows(r)' BY <1>2, <1>5 DEF Counted, OwnRows, Active, Over
  <1>7. Gen(r)!Step BY <1>1, <1>2, <1>5, GenLeft
  <1>8. Kept(r) BY <1>1, <1>4, <1>6, <1>7, PoolTypes DEF Kept
  <1> QED BY <1>1, <1>3, <1>6, <1>8, PoolMoves

(* A call that generates ends, well or not: its guard is dropped, and what *)
(* it leaves in the cache belongs to nobody.                               *)
LEMMA EndStep ==
  ASSUME PoolInv, NEW r \in Requests, call[r].pc \in {"prefill", "decode"},
         NEW c \in Calls, NEW how \in {"done", "error", "panicked"}, End(r, c, how),
         UNCHANGED cache \/ Left(call[r].on),
         c.listening = call[r].listening, c.sent = call[r].sent,
         c.max_tokens = call[r].max_tokens,
         how = "done" /\ c.listening => c.next = "eos" \/ c.sent >= c.max_tokens
  PROVE  PoolInv' /\ \A q \in Requests : Gen(q)!Step
  <1> DEFINE e == Ended(c, how)
             i == call[r].on
  <1>1. /\ LockTypes /\ LockInv /\ i \in Replicas /\ Active(r) /\ holder[i] = r
        /\ cache \in [Replicas -> (Requests \cup {None}) \X Nat]
    BY PoolTypes DEF Active, Over, Generates
  <1>2. e \in Calls /\ e.pc = how BY EndedCalls
  <1>3. Moves(r, e) BY <1>2 DEF End, Moves
  <1>4. call'[r] = e BY <1>1, <1>3, MovesAlone
  <1>5. Gen(r)!Step
    <2>1. CASE how \in {"error", "panicked"} BY <1>1, <1>4, <2>1, GenFails
    <2>2. CASE how = "done" BY <1>1, <1>4, <2>2, GenDone
    <2> QED BY <2>1, <2>2
  <1> HIDE DEF e
  <1>6. LockTypes' /\ LockInv' BY <1>1, <1>2, <1>3, LockReleased DEF End, Locking
  <1>7. Counted(r)' /\ OwnRows(r)' BY <1>2, <1>4 DEF Counted, OwnRows, Active, Over
  <1>8. /\ cache' \in [Replicas -> (Requests \cup {None}) \X Nat]
        /\ \A j \in Replicas : cache'[j] = cache[j] \/ j = i
    BY <1>1 DEF Left, Stale
  <1>9. Kept(r) BY <1>5, <1>6, <1>7, <1>8, PoolTypes DEF Kept, End
  <1> QED BY <1>1, <1>3, <1>7, <1>8, <1>9, PoolMoves

\* The call once its tokens up to p are fed and the next one is sampled.
After(d, next, p) == [d EXCEPT !.pc = "decode", !.next = next, !.pos = p]

(* The fields of a call after on_token.                                    *)
LEMMA EmittedCall ==
  ASSUME NEW c \in Calls, NEW ok \in BOOLEAN, NEW e, e = Emitted(c, ok)
  PROVE  /\ e \in Calls /\ e.pc = c.pc /\ e.on = c.on /\ e.pos = c.pos
         /\ e.listening = c.listening /\ e.max_tokens = c.max_tokens /\ e.stream = c.stream
         /\ e.produced = c.produced + 1
         /\ \/ e.sent = c.sent + 1 /\ e.mute = c.mute /\ ~(c.stream /\ c.mute)
            \/ e.sent = c.sent /\ e.mute /\ c.stream
  <1>1. ASSUME NEW m \in Nat, e = [c EXCEPT !.produced = m, !.mute = TRUE]
        PROVE  /\ e \in Calls /\ e.pc = c.pc /\ e.on = c.on /\ e.pos = c.pos
               /\ e.listening = c.listening /\ e.max_tokens = c.max_tokens
               /\ e.stream = c.stream /\ e.produced = m /\ e.sent = c.sent /\ e.mute = TRUE
    BY ONLY <1>1, c \in Calls DEF Calls
  <1>2. ASSUME NEW m \in Nat, NEW n \in Nat, e = [c EXCEPT !.produced = m, !.sent = n]
        PROVE  /\ e \in Calls /\ e.pc = c.pc /\ e.on = c.on /\ e.pos = c.pos
               /\ e.listening = c.listening /\ e.max_tokens = c.max_tokens
               /\ e.stream = c.stream /\ e.produced = m /\ e.sent = n /\ e.mute = c.mute
    BY ONLY <1>2, c \in Calls DEF Calls
  <1>3. c.produced + 1 \in Nat /\ c.sent + 1 \in Nat BY DEF Calls
  <1>4. CASE c.stream /\ (c.mute \/ ~ok \/ ~c.listening)
    <2>1. e = [c EXCEPT !.produced = c.produced + 1, !.mute = TRUE]
      BY <1>4 DEF Emitted
    <2> QED BY ONLY <1>1, <1>3, <1>4, <2>1
  <1>5. CASE ~(c.stream /\ (c.mute \/ ~ok \/ ~c.listening))
    <2>1. e = [c EXCEPT !.produced = c.produced + 1, !.sent = c.sent + 1]
      BY <1>5 DEF Emitted
    <2> QED BY ONLY <1>2, <1>3, <1>5, <2>1
  <1> QED BY <1>4, <1>5

(* The n tokens at pos follow the rows the cache has of this call, if any; *)
(* the call hands out a token or ends.                                     *)
LEMMA ForwardStep ==
  ASSUME PoolInv, NEW r \in Requests, NEW pos \in Nat, NEW n \in Nat \ {0},
         call[r].pc \in {"prefill", "decode"},
         pos = 0 \/ cache[call[r].on] = << r, pos >>, forward(r, pos, n)
  PROVE  PoolInv' /\ \A q \in Requests : Gen(q)!Step
  <1> DEFINE i == call[r].on
  <1>1. /\ LockTypes /\ LockInv /\ call[r] \in Calls /\ i \in Replicas /\ Active(r)
        /\ holder[i] = r /\ Counted(r) /\ cache \in [Replicas -> (Requests \cup {None}) \X Nat]
    BY PoolTypes DEF Active, Over, Generates
  <1>2. PICK next \in {"tok", "eos"} :
          LET c == [call[r] EXCEPT !.pc = "decode", !.next = next, !.pos = pos + n] IN
          \/ emit(r, c) /\ cache' = [cache EXCEPT ![i] = Fed(i, r, pos, n)]
          \/ (stream_panics(r, c) \/ finish(r, c)) /\ Left(i)
    BY DEF forward
  <1> DEFINE c == [call[r] EXCEPT !.pc = "decode", !.next = next, !.pos = pos + n]
  <1>3. /\ c \in Calls /\ c.pc = "decode" /\ c.on = i /\ c.pos = pos + n /\ c.next = next
        /\ c.listening = call[r].listening /\ c.sent = call[r].sent
        /\ c.max_tokens = call[r].max_tokens /\ c.mute = call[r].mute
        /\ c.stream = call[r].stream /\ c.produced = call[r].produced
    <2>1. pos + n \in Nat OBVIOUS
    <2>2. PICK d : d = call[r] OBVIOUS
    <2>3. PICK p : p = pos + n OBVIOUS
    <2>4. PICK f : f = After(d, next, p) OBVIOUS
    <2>5. d \in Calls /\ p \in Nat BY <1>1, <2>1, <2>2, <2>3
    <2>6. /\ f \in Calls /\ f.pc = "decode" /\ f.on = d.on /\ f.pos = p /\ f.next = next
          /\ f.listening = d.listening /\ f.sent = d.sent
          /\ f.max_tokens = d.max_tokens /\ f.mute = d.mute
          /\ f.stream = d.stream /\ f.produced = d.produced
      BY <2>4, <2>5 DEF After, Calls
    <2>7. f = c BY ONLY <2>2, <2>3, <2>4 DEF After, c
    <2> HIDE DEF c
    <2> QED BY <2>2, <2>3, <2>6, <2>7
  <1>4. /\ c.mute => c.stream /\ c.sent <= c.produced
        /\ ~c.mute => c.sent = c.produced
    BY <1>1, <1>3 DEF Counted
  <1>5. /\ c.sent \in Nat /\ c.produced \in Nat /\ c.max_tokens \in Nat
        /\ c.mute \in BOOLEAN /\ c.stream \in BOOLEAN /\ c.listening \in BOOLEAN
    BY <1>3 DEF Calls
  <1>6. CASE emit(r, c) /\ cache' = [cache EXCEPT ![i] = Fed(i, r, pos, n)]
    <2> HIDE DEF c
    <2>1. PICK ok \in BOOLEAN : call' = [call EXCEPT ![r] = Emitted(c, ok)]
      BY <1>6 DEF emit
    <2> DEFINE e == Emitted(c, ok)
    <2>0. e = Emitted(c, ok) OBVIOUS
    <2> HIDE DEF e
    <2>2. /\ e \in Calls /\ e.pc = "decode" /\ e.on = i /\ e.pos = pos + n
          /\ e.listening = c.listening /\ e.max_tokens = c.max_tokens /\ e.stream = c.stream
          /\ e.produced = c.produced + 1
      BY <1>3, <2>0, EmittedCall
    <2>3. \/ e.sent = c.sent + 1 /\ e.mute = c.mute /\ ~(c.stream /\ c.mute)
          \/ e.sent = c.sent /\ e.mute /\ c.stream
      BY <1>3, <2>0, EmittedCall
    <2>4. Moves(r, e) BY <2>0, <2>1, <2>2 DEF Moves
    <2>5. call'[r] = e BY <1>1, <2>4, MovesAlone
    <2>6. LockTypes' /\ LockInv'
      BY <1>1, <1>6, <2>2, <2>4, LocksGoOn DEF emit, Locking
    <2>7. Counted(r)'
      <3>1. /\ e.mute => e.stream /\ e.sent <= e.produced
            /\ ~e.mute => e.sent = e.produced
        BY <1>4, <1>5, <2>2, <2>3
      <3> QED BY <2>2, <2>5, <3>1 DEF Counted
    <2>8. Gen(r)!Step
      <3>1. Active(r)' BY <2>2, <2>5 DEF Active, Over
      <3>2. c.produced < c.max_tokens BY <1>5, <1>6 DEF emit, should_stop
      <3>3. CASE ~c.listening BY <1>1, <2>2, <2>5, <3>3, GenLeft
      <3>4. CASE c.listening /\ e.sent = c.sent
        BY <1>1, <1>3, <2>2, <2>5, <3>1, <3>4, GenUnseen
      <3>5. CASE c.listening /\ e.sent = c.sent + 1
        <4>1. c.sent < c.max_tokens BY <1>4, <1>5, <3>2
        <4> QED BY <1>1, <1>3, <1>5, <2>2, <2>5, <3>1, <3>5, <4>1, GenHands
      <3> QED BY <1>5, <2>3, <3>3, <3>4, <3>5
    <2>9. /\ cache' \in [Replicas -> (Requests \cup {None}) \X Nat]
          /\ cache'[i] = << r, pos + n >>
          /\ \A j \in Replicas : cache'[j] = cache[j] \/ j = i
      <3>1. Fed(i, r, pos, n) = << r, pos + n >> BY DEF Fed
      <3>2. << r, pos + n >> \in (Requests \cup {None}) \X Nat OBVIOUS
      <3> QED BY <1>1, <1>6, <3>1, <3>2
    <2>10. OwnRows(r)' BY <2>2, <2>5, <2>9 DEF OwnRows
    <2>11. Kept(r) BY <1>6, <2>6, <2>7, <2>8, <2>9, PoolTypes DEF Kept, emit
    <2> QED BY <1>1, <2>4, <2>9, <2>10, <2>11, PoolMoves
  <1>7. CASE stream_panics(r, c) /\ Left(i)
    <2> HIDE DEF c
    <2> QED BY <1>3, <1>7, EndStep DEF stream_panics
  <1>8. CASE finish(r, c) /\ Left(i)
    <2> HIDE DEF c
    <2>1. PICK ok \in BOOLEAN : /\ c.stream => ok = ~c.mute
                                /\ End(r, c, IF ok THEN "done" ELSE "error")
      BY <1>8 DEF finish
    <2>2. c.produced >= c.max_tokens \/ c.next = "eos" BY <1>8 DEF finish, should_stop
    <2>3. CASE ok
      <3>1. ~c.mute BY <1>4, <1>5, <2>1, <2>3
      <3>2. c.next = "eos" \/ c.sent >= c.max_tokens BY <1>4, <2>2, <3>1
      <3>3. End(r, c, "done") BY <2>1, <2>3
      <3> QED BY <1>3, <1>8, <3>2, <3>3, EndStep
    <2>4. CASE ~ok
      <3>1. End(r, c, "error") BY <2>1, <2>4
      <3> QED BY <1>3, <1>8, <3>1, EndStep
    <2> QED BY <2>3, <2>4
  <1> QED BY <1>2, <1>6, <1>7, <1>8

(* A turn of generate.                                                     *)
LEMMA GenerateStep ==
  ASSUME PoolInv, NEW r \in Requests, Generate(r) \/ pass_panics(r)
  PROVE  PoolInv' /\ \A q \in Requests : Gen(q)!Step
  <1>1. call[r] \in Calls /\ OwnRows(r) BY PoolTypes
  <1>2. call[r].prompt \in Nat /\ call[r].pos \in Nat BY <1>1 DEF Calls
  <1>3. CASE prefill_ok(r)
    <2>1. call[r].prompt \in Nat \ {0} BY <1>2, <1>3 DEF prefill_ok
    <2> QED BY <1>3, <2>1, ForwardStep DEF prefill_ok
  <1>4. CASE decode_ok(r)
    <2>1. cache[call[r].on] = << r, call[r].pos >> BY <1>1, <1>4 DEF decode_ok, OwnRows
    <2> QED BY <1>2, <1>4, <2>1, ForwardStep DEF decode_ok
  <1>5. CASE prefill_fails(r) BY <1>1, <1>5, EndStep DEF prefill_fails
  <1>6. CASE decode_fails(r) BY <1>1, <1>6, EndStep DEF decode_fails
  <1>7. CASE pass_panics(r)
    <2>1. CASE call[r].stream BY <1>1, <1>7, <2>1, EndStep DEF pass_panics
    <2>2. CASE ~call[r].stream BY <1>1, <1>7, <2>2, EndStep DEF pass_panics
    <2> QED BY <2>1, <2>2
  <1> QED BY <1>3, <1>4, <1>5, <1>6, <1>7 DEF Generate

(* Every step of the pool.                                                 *)
LEMMA PoolNext ==
  ASSUME PoolInv, [Next]_vars
  PROVE  PoolInv' /\ \A q \in Requests : Gen(q)!Step
  <1>1. CASE UNCHANGED vars
    <2>1. UNCHANGED << call, holder, queue, cache, counter >> BY <1>1 DEF vars
    <2>2. PoolInv'
      BY <2>1 DEF PoolInv, TypeOK, Generates, OwnRows, Counted, Active, Over, Owned, Queued, Once
    <2> QED BY <2>1, <2>2, GenStutter
  <1>2. CASE Next
    BY <1>2, StartStep, CancelStep, GoesOnStep, TryStep, LockStep, GenerateStep
    DEF Next, Clients, Acquire
  <1> QED BY <1>1, <1>2

-----------------------------------------------------------------------------
(* rustyllm.                                                               *)

\* r moves to c, and the lock stays with r, comes to it or leaves it.
RustyMoves(r, c) ==
  /\ c \in Rusty!Jobs /\ job' = [job EXCEPT ![r] = c] /\ c.pc # "new"
  /\ c.pc \in {"wait", "run"} => ~c.eos /\ (c.reply = "open" => c.sent = c.produced)
  /\ c.pc = "done" /\ c.reply = "open" => c.eos \/ c.sent >= c.max_new
  /\ c.pc = "run" <=> model' = r
  /\ model' # model => model' \in {r, None} /\ model \in {r, None}
  /\ poisoned' \in BOOLEAN

(* No call of rustyllm moves.                                              *)
LEMMA RustyStutter ==
  ASSUME NEW q \in Requests, job'[q] = job[q]
  PROVE  Rusty!Gen(q)!Step
  BY DEF Rusty!Gen!Step, Rusty!Gen!vars, Rusty!Status, Rusty!Here

(* What the other calls keep when one moves.                               *)
LEMMA RustyAlone ==
  ASSUME RustyInv, NEW r \in Requests, NEW c, RustyMoves(r, c), Rusty!Gen(r)!Step
  PROVE  RustyInv' /\ \A q \in Requests : Rusty!Gen(q)!Step
  <1>1. /\ job' \in [Requests -> Rusty!Jobs] /\ job'[r] = c
        /\ \A q \in Requests : q # r => job'[q] = job[q]
    BY DEF RustyInv, Rusty!TypeOK, RustyMoves
  <1>2. model \in Requests \cup {None} /\ None \notin Requests
    BY PoolAssumption DEF RustyInv, Rusty!TypeOK
  <1>3. Rusty!TypeOK' BY <1>1, <1>2 DEF Rusty!TypeOK, RustyMoves
  <1>4. (job[r].pc = "run" <=> model = r)' /\ RustyCounted(r)'
    BY <1>1 DEF RustyMoves, RustyCounted, Rusty!Active
  <1>5. ASSUME NEW q \in Requests, q # r
        PROVE  (job[q].pc = "run" <=> model = q)' /\ RustyCounted(q)'
    <2>1. job'[q] = job[q] /\ (model' = q <=> model = q) BY <1>1, <1>2, <1>5 DEF RustyMoves
    <2> QED BY <2>1 DEF RustyInv, RustyCounted, Rusty!Active
  <1>6. RustyInv' BY <1>3, <1>4, <1>5 DEF RustyInv
  <1>7. \A q \in Requests : q # r => Rusty!Gen(q)!Step BY <1>1, RustyStutter
  <1> QED BY <1>6, <1>7

\* r keeps what its client knows.
RustySame(r, c) ==
  /\ c.reply = job[r].reply /\ c.sent = job[r].sent
  /\ c.max_new = job[r].max_new /\ c.eos = job[r].eos

(* The thread goes on or ends, unseen by the client.                       *)
LEMMA RustyUnseen ==
  ASSUME NEW r \in Requests, NEW c, RustySame(r, c), job'[r] = c, job[r].pc # "new",
         c.pc # "new"
  PROVE  Rusty!Gen(r)!Step
  <1>1. Rusty!Status(job[r]) = Rusty!Status(c) BY DEF Rusty!Status, RustySame
  <1> QED BY <1>1 DEF Rusty!Gen!Step, Rusty!Gen!vars, Rusty!Here, RustySame

(* The thread ends and leaves the lock free.                               *)
LEMMA RustyEndStep ==
  ASSUME RustyInv, NEW r \in Requests, NEW c \in Rusty!Jobs, RustySame(r, c), Rusty!Active(r),
         job' = [job EXCEPT ![r] = c], model \in {r, None}, model' = None,
         poisoned' \in BOOLEAN, c.pc \in {"done", "error", "panicked"},
         c.pc = "done" /\ c.reply = "open" => c.eos \/ c.sent >= c.max_new
  PROVE  RustyInv' /\ \A q \in Requests : Rusty!Gen(q)!Step
  <1>1. job'[r] = c /\ None # r BY PoolAssumption DEF RustyInv, Rusty!TypeOK
  <1>2. RustyMoves(r, c) BY <1>1 DEF RustyMoves
  <1>3. Rusty!Gen(r)!Step BY <1>1, RustyUnseen DEF Rusty!Active
  <1> QED BY <1>2, <1>3, RustyAlone

(* The thread ends: the limit, an end-of-text, an error, a panic.          *)
LEMMA RustyOver ==
  ASSUME RustyInv, NEW r \in Requests,
         \/ Rusty!limit_reached(r) \/ Rusty!sample_eos(r) \/ Rusty!generate_fails(r)
         \/ Rusty!generate_panics(r) \/ Rusty!lock_poisoned(r)
  PROVE  RustyInv' /\ \A q \in Requests : Rusty!Gen(q)!Step
  <1>1. /\ job \in [Requests -> Rusty!Jobs] /\ job[r] \in Rusty!Jobs
        /\ RustyCounted(r) /\ poisoned \in BOOLEAN
    BY DEF RustyInv, Rusty!TypeOK
  <1>2. Rusty!Active(r) /\ model \in {r, None} /\ model' = None /\ poisoned' \in BOOLEAN
    BY <1>1 DEF Rusty!limit_reached, Rusty!sample_eos, Rusty!generate_fails, Rusty!Running,
                Rusty!generate_panics, Rusty!lock_poisoned, Rusty!Active, Rusty!End
  <1>3. CASE Rusty!limit_reached(r)
    <2> DEFINE c == [job[r] EXCEPT !.pc = "done"]
    <2>1. c \in Rusty!Jobs /\ RustySame(r, c) /\ c.pc = "done"
      BY <1>1 DEF Rusty!Jobs, RustySame
    <2>2. job' = [job EXCEPT ![r] = c] BY <1>3 DEF Rusty!limit_reached, Rusty!End
    <2>3. c.reply = "open" => c.sent >= c.max_new
      <3>1. job[r].reply = "open" => job[r].sent >= job[r].max_new
        BY <1>1, <1>2, <1>3 DEF RustyCounted, Rusty!limit_reached
      <3> QED BY <2>1, <3>1 DEF RustySame
    <2> HIDE DEF c
    <2> QED BY <1>2, <2>1, <2>2, <2>3, RustyEndStep
  <1>4. CASE Rusty!sample_eos(r)
    <2> DEFINE c == [job[r] EXCEPT !.pc = "done", !.eos = Rusty!Reading(r)]
    <2>1. /\ c \in Rusty!Jobs /\ c.pc = "done" /\ c.eos = Rusty!Reading(r)
          /\ c.reply = job[r].reply /\ c.sent = job[r].sent /\ c.max_new = job[r].max_new
      BY <1>1 DEF Rusty!Jobs, Rusty!Reading
    <2>2. job' = [job EXCEPT ![r] = c] BY <1>4 DEF Rusty!sample_eos, Rusty!End
    <2>3. job[r].eos = FALSE /\ job[r].pc # "new"
      BY <1>1, <1>2 DEF RustyCounted, Rusty!Active, Rusty!Jobs
    <2> HIDE DEF c
    <2>4. CASE ~Rusty!Reading(r)
      <3>1. c.eos = FALSE /\ c.reply # "open" BY <2>1, <2>3, <2>4 DEF Rusty!Reading
      <3>2. RustySame(r, c) BY <2>1, <2>3, <3>1 DEF RustySame
      <3> QED BY <1>2, <2>1, <2>2, <3>1, <3>2, RustyEndStep
    <2>5. CASE Rusty!Reading(r)
      <3>1. c.eos = TRUE /\ job[r].reply = "open" BY <2>1, <2>5 DEF Rusty!Reading
      <3>2. job'[r] = c /\ None # r BY <1>1, <2>2, PoolAssumption
      <3>3. RustyMoves(r, c) BY <1>2, <2>1, <2>2, <3>1, <3>2 DEF RustyMoves
      <3>4. Rusty!Status(job[r]) = "open" /\ Rusty!Status(c) = "open"
        BY <2>1, <2>3, <3>1 DEF Rusty!Status
      <3>5. Rusty!Gen(r)!Sample("eos", FALSE)
        BY <2>1, <3>1, <3>2, <3>4 DEF Rusty!Gen!Sample, Rusty!Here
      <3>6. Rusty!Gen(r)!Step BY <3>5 DEF Rusty!Gen!Step, Rusty!Gen!Next
      <3> QED BY <3>3, <3>6, RustyAlone
    <2> QED BY <2>4, <2>5
  <1>5. CASE Rusty!generate_fails(r)
    <2> DEFINE c == [job[r] EXCEPT !.pc = "error"]
    <2>1. c \in Rusty!Jobs /\ RustySame(r, c) /\ c.pc = "error"
      BY <1>1 DEF Rusty!Jobs, RustySame
    <2>2. job' = [job EXCEPT ![r] = c] BY <1>5 DEF Rusty!generate_fails, Rusty!End
    <2> HIDE DEF c
    <2> QED BY <1>2, <2>1, <2>2, RustyEndStep
  <1>6. CASE Rusty!generate_panics(r) \/ Rusty!lock_poisoned(r)
    <2> DEFINE c == [job[r] EXCEPT !.pc = "panicked"]
    <2>1. c \in Rusty!Jobs /\ RustySame(r, c) /\ c.pc = "panicked"
      BY <1>1 DEF Rusty!Jobs, RustySame
    <2>2. job' = [job EXCEPT ![r] = c]
      BY <1>6 DEF Rusty!generate_panics, Rusty!lock_poisoned
    <2> HIDE DEF c
    <2> QED BY <1>2, <2>1, <2>2, RustyEndStep
  <1> QED BY <1>3, <1>4, <1>5, <1>6

(* A call of rustyllm begins.                                              *)
LEMMA RustyStart ==
  ASSUME RustyInv, NEW r \in Requests, NEW ask \in RustyAsks[r], Rusty!start(r, ask)
  PROVE  RustyInv' /\ \A q \in Requests : Rusty!Gen(q)!Step
  <1> DEFINE c == [Rusty!Idle EXCEPT !.pc = "wait", !.stream = ask.stream,
                                     !.max_new = ask.max_tokens]
  <1>1. ask \in [stream : BOOLEAN, prompt : Nat, max_tokens : Nat] BY RustyAssumption
  <1>2. /\ c \in Rusty!Jobs /\ c.pc = "wait" /\ c.reply = "open"
        /\ c.eos = FALSE /\ c.sent = 0 /\ c.produced = 0 /\ c.max_new = ask.max_tokens
    BY <1>1 DEF Rusty!Jobs, Rusty!Idle
  <1>3. job' = [job EXCEPT ![r] = c] /\ UNCHANGED << model, poisoned >> BY DEF Rusty!start
  <1> HIDE DEF c
  <1>4. job'[r] = c /\ job[r] = Rusty!Idle /\ poisoned \in BOOLEAN /\ model # r
    BY <1>3 DEF RustyInv, RustyCounted, Rusty!TypeOK, Rusty!start
  <1>5. RustyMoves(r, c) BY <1>2, <1>3, <1>4 DEF RustyMoves
  <1>6. Rusty!Gen(r)!Step
    <2>1. Rusty!Status(job[r]) = "idle" /\ Rusty!Status(c) = "open"
      BY <1>2, <1>4 DEF Rusty!Status, Rusty!Idle
    <2>2. job[r].sent = 0 /\ job[r].eos = FALSE BY <1>4 DEF Rusty!Idle
    <2>3. Rusty!Gen(r)!Begin BY <1>2, <1>4, <2>1, <2>2 DEF Rusty!Gen!Begin, Rusty!Here
    <2> QED BY <2>3 DEF Rusty!Gen!Step, Rusty!Gen!Next
  <1> QED BY <1>5, <1>6, RustyAlone

(* The lock is taken, or a token is handed out.                            *)
LEMMA RustyGoesOn ==
  ASSUME RustyInv, NEW r \in Requests, Rusty!lock(r) \/ Rusty!sample_token(r)
  PROVE  RustyInv' /\ \A q \in Requests : Rusty!Gen(q)!Step
  <1>1. /\ job \in [Requests -> Rusty!Jobs] /\ job[r] \in Rusty!Jobs
        /\ RustyCounted(r) /\ poisoned \in BOOLEAN
        /\ job[r].pc = "run" <=> model = r
    BY DEF RustyInv, Rusty!TypeOK
  <1>2. Rusty!Active(r) /\ job[r].pc \in {"wait", "run"} /\ job[r].pc # "new"
    BY DEF Rusty!lock, Rusty!sample_token, Rusty!Running, Rusty!Active
  <1>3. ~job[r].eos /\ (job[r].reply = "open" => job[r].sent = job[r].produced)
    BY <1>1, <1>2 DEF RustyCounted
  <1>4. CASE Rusty!lock(r)
    <2> DEFINE c == [job[r] EXCEPT !.pc = "run"]
    <2>1. /\ c \in Rusty!Jobs /\ RustySame(r, c) /\ c.pc = "run"
          /\ c.eos = job[r].eos /\ c.produced = job[r].produced
      BY <1>1 DEF Rusty!Jobs, RustySame
    <2>2. /\ job' = [job EXCEPT ![r] = c] /\ model' = r /\ model = None
          /\ UNCHANGED poisoned
      BY <1>4 DEF Rusty!lock
    <2> HIDE DEF c
    <2>3. job'[r] = c BY <1>1, <2>2
    <2>4. RustyMoves(r, c) BY <1>1, <1>3, <2>1, <2>2 DEF RustyMoves, RustySame
    <2>5. Rusty!Gen(r)!Step BY <1>2, <2>1, <2>3, RustyUnseen
    <2> QED BY <2>4, <2>5, RustyAlone
  <1>5. CASE Rusty!sample_token(r)
    <2> DEFINE n == IF Rusty!Reading(r) THEN job[r].sent + 1 ELSE job[r].sent
               c == [job[r] EXCEPT !.produced = job[r].produced + 1, !.sent = n]
    <2>1. /\ job[r].produced \in Nat /\ job[r].sent \in Nat /\ job[r].max_new \in Nat
          /\ n \in Nat
      BY <1>1 DEF Rusty!Jobs
    <2>2. /\ job' = [job EXCEPT ![r] = c] /\ UNCHANGED << model, poisoned >>
          /\ job[r].pc = "run" /\ job[r].produced < job[r].max_new
      BY <1>1, <1>5 DEF Rusty!sample_token, Rusty!Running
    <2> HIDE DEF n
    <2>3. PICK m : m = job[r].produced + 1 OBVIOUS
    <2>4. /\ c \in Rusty!Jobs /\ c.pc = job[r].pc /\ c.reply = job[r].reply
          /\ c.max_new = job[r].max_new /\ c.eos = job[r].eos
          /\ c.produced = job[r].produced + 1 /\ c.sent = n
      <3>1. m \in Nat /\ c = [job[r] EXCEPT !.produced = m, !.sent = n] BY <2>1, <2>3
      <3> HIDE DEF c
      <3>2. /\ c \in Rusty!Jobs /\ c.pc = job[r].pc /\ c.reply = job[r].reply
            /\ c.max_new = job[r].max_new /\ c.eos = job[r].eos
            /\ c.produced = m /\ c.sent = n
        BY ONLY <1>1, <2>1, <3>1 DEF Rusty!Jobs
      <3> QED BY <2>3, <3>2
    <2> HIDE DEF c
    <2>5. job'[r] = c BY <1>1, <2>2
    <2>6. RustyMoves(r, c)
      <3>1. c.reply = "open" => c.sent = c.produced
        BY <1>2, <1>3, <2>1, <2>4 DEF n, Rusty!Reading
      <3> QED BY <1>1, <1>3, <2>2, <2>4, <3>1 DEF RustyMoves
    <2>7. Rusty!Gen(r)!Step
      <3>1. CASE ~Rusty!Reading(r)
        <4>1. RustySame(r, c) BY <2>4, <3>1 DEF RustySame, n
        <4> QED BY <1>2, <2>2, <2>4, <2>5, <4>1, RustyUnseen
      <3>2. CASE Rusty!Reading(r)
        <4>1. Rusty!Status(job[r]) = "open" /\ Rusty!Status(c) = "open"
          BY <1>2, <2>4, <3>2 DEF Rusty!Status, Rusty!Reading
        <4>2. c.sent = job[r].sent + 1 /\ job[r].sent < job[r].max_new
          BY <1>3, <2>1, <2>2, <2>4, <3>2 DEF n, Rusty!Reading
        <4>3. Rusty!Gen(r)!Sample("tok", TRUE)
          <5>1. c.eos = FALSE BY <1>1, <1>3, <2>4 DEF Rusty!Jobs
          <5> QED BY <2>1, <2>4, <2>5, <4>1, <4>2, <5>1
                  DEF Rusty!Gen!Sample, Rusty!Gen!Budget, Rusty!Here
        <4> QED BY <4>3 DEF Rusty!Gen!Step, Rusty!Gen!Next
      <3> QED BY <3>1, <3>2
    <2> QED BY <2>6, <2>7, RustyAlone
  <1> QED BY <1>4, <1>5

\* The answer of r ends this way; its thread is left alone.
Closes(r, how) == job' = [job EXCEPT ![r].reply = how] /\ UNCHANGED << model, poisoned >>

(* The answer ends for its client: it fails, is whole, or is cut short.    *)
LEMMA RustyCloses ==
  ASSUME RustyInv, NEW r \in Requests, Rusty!Reading(r),
         NEW how \in {"failed", "complete", "cut"}, Closes(r, how),
         how = "complete" => job[r].pc = "done"
  PROVE  RustyInv' /\ \A q \in Requests : Rusty!Gen(q)!Step
  <1>1. /\ job \in [Requests -> Rusty!Jobs] /\ job[r] \in Rusty!Jobs
        /\ RustyCounted(r) /\ poisoned \in BOOLEAN
        /\ job[r].pc = "run" <=> model = r
        /\ job[r].pc # "new" /\ job[r].reply = "open"
    BY DEF RustyInv, Rusty!TypeOK, Rusty!Reading
  <1> DEFINE c == [job[r] EXCEPT !.reply = how]
  <1>2. /\ c \in Rusty!Jobs /\ c.pc = job[r].pc /\ c.reply = how /\ c.eos = job[r].eos
        /\ c.sent = job[r].sent /\ c.max_new = job[r].max_new
    BY <1>1 DEF Rusty!Jobs
  <1>3. job' = [job EXCEPT ![r] = c] /\ UNCHANGED << model, poisoned >> BY DEF Closes
  <1> HIDE DEF c
  <1>4. job'[r] = c BY <1>1, <1>3
  <1>5. RustyMoves(r, c) BY <1>1, <1>2, <1>3 DEF RustyMoves, RustyCounted, Rusty!Active
  <1>6. Rusty!Status(job[r]) = "open" /\ Rusty!Status(c) = how
    BY <1>1, <1>2 DEF Rusty!Status
  <1>7. CASE how = "failed"
    <2>1. Rusty!Gen(r)!Fail BY <1>2, <1>4, <1>6, <1>7 DEF Rusty!Gen!Fail, Rusty!Here
    <2>2. Rusty!Gen(r)!Step BY <2>1 DEF Rusty!Gen!Step, Rusty!Gen!Next
    <2> QED BY <1>5, <2>2, RustyAlone
  <1>8. CASE how = "cut"
    <2>1. Rusty!Gen(r)!Cut BY <1>2, <1>4, <1>6, <1>8 DEF Rusty!Gen!Cut, Rusty!Here
    <2>2. Rusty!Gen(r)!Step BY <2>1 DEF Rusty!Gen!Step, Rusty!Gen!Next
    <2> QED BY <1>5, <2>2, RustyAlone
  <1>9. CASE how = "complete"
    <2>1. job[r].eos \/ job[r].sent >= job[r].max_new BY <1>1, <1>9 DEF RustyCounted
    <2>2. Rusty!Gen(r)!Complete
      BY <1>2, <1>4, <1>6, <1>9, <2>1 DEF Rusty!Gen!Complete, Rusty!Here
    <2>3. Rusty!Gen(r)!Step BY <2>2 DEF Rusty!Gen!Step, Rusty!Gen!Next
    <2> QED BY <1>5, <2>3, RustyAlone
  <1> QED BY <1>7, <1>8, <1>9

(* The client goes away.                                                   *)
LEMMA RustyHangUp ==
  ASSUME RustyInv, NEW r \in Requests, Rusty!hang_up(r)
  PROVE  RustyInv' /\ \A q \in Requests : Rusty!Gen(q)!Step
  <1>1. /\ job \in [Requests -> Rusty!Jobs] /\ job[r] \in Rusty!Jobs
        /\ RustyCounted(r) /\ poisoned \in BOOLEAN
        /\ job[r].pc = "run" <=> model = r
        /\ job[r].pc # "new" /\ job[r].reply = "open"
    BY DEF RustyInv, Rusty!TypeOK, Rusty!Reading, Rusty!hang_up
  <1> DEFINE c == [job[r] EXCEPT !.reply = "left", !.sent = 0]
  <1>2. c \in Rusty!Jobs /\ c.pc = job[r].pc /\ c.reply = "left" /\ c.eos = job[r].eos
    BY <1>1 DEF Rusty!Jobs
  <1>3. job' = [job EXCEPT ![r] = c] /\ UNCHANGED << model, poisoned >>
    BY DEF Rusty!hang_up
  <1> HIDE DEF c
  <1>4. job'[r] = c BY <1>1, <1>3
  <1>5. RustyMoves(r, c) BY <1>1, <1>2, <1>3 DEF RustyMoves, RustyCounted, Rusty!Active
  <1>6. Rusty!Status(job[r]) = "open" /\ Rusty!Status(c) = "left"
    BY <1>1, <1>2 DEF Rusty!Status
  <1>7. Rusty!Gen(r)!Leave BY <1>4, <1>6 DEF Rusty!Gen!Leave, Rusty!Here
  <1>8. Rusty!Gen(r)!Step BY <1>7 DEF Rusty!Gen!Step, Rusty!Gen!Next
  <1> QED BY <1>5, <1>8, RustyAlone

(* A decode fails, or the reader sees that the thread is over.             *)
LEMMA RustyReplies ==
  ASSUME RustyInv, NEW r \in Requests, Rusty!decode_fails(r) \/ Rusty!read_end(r)
  PROVE  RustyInv' /\ \A q \in Requests : Rusty!Gen(q)!Step
  <1>1. CASE Rusty!decode_fails(r)
    <2>1. Rusty!Reading(r) /\ Closes(r, "failed") BY <1>1 DEF Rusty!decode_fails, Closes
    <2> QED BY <2>1, RustyCloses
  <1>2. CASE Rusty!read_end(r)
    <2> DEFINE how == CASE job[r].pc = "done"  -> "complete"
                        [] job[r].pc = "error" -> "failed"
                        [] OTHER -> IF job[r].stream THEN "cut" ELSE "failed"
    <2>1. Rusty!Reading(r) /\ Closes(r, how) BY <1>2 DEF Rusty!read_end, Closes
    <2>2. how \in {"failed", "complete", "cut"} /\ (how = "complete" => job[r].pc = "done")
      OBVIOUS
    <2> HIDE DEF how
    <2> QED BY <2>1, <2>2, RustyCloses
  <1> QED BY <1>1, <1>2

(* Every step of rustyllm.                                                 *)
LEMMA RustyNext ==
  ASSUME RustyInv, [Rusty!Next]_rusty_vars
  PROVE  RustyInv' /\ \A q \in Requests : Rusty!Gen(q)!Step
  <1>1. CASE UNCHANGED rusty_vars
    <2>1. UNCHANGED << job, model, poisoned >> BY <1>1 DEF rusty_vars
    <2>2. RustyInv' BY <2>1 DEF RustyInv, Rusty!TypeOK, RustyCounted, Rusty!Active
    <2> QED BY <2>1, <2>2, RustyStutter
  <1>2. CASE Rusty!Next
    BY <1>2, RustyStart, RustyOver, RustyGoesOn, RustyHangUp, RustyReplies
    DEF Rusty!Next, Rusty!Clients, Rusty!Thread
  <1> QED BY <1>1, <1>2

-----------------------------------------------------------------------------
(* Both providers.                                                         *)

(* The invariant holds at first.                                           *)
LEMMA InvInit ==
  ASSUME LocalInit
  PROVE  Inv
  <1>1. PoolInv
    <2>1. TypeOK
      <3>1. Idle \in Calls /\ counter \in 0 .. (NumReplicas - 1)
        BY PoolAssumption DEF Idle, Calls, Replicas, LocalInit, Init
      <3>2. Empty \in (Requests \cup {None}) \X Nat BY DEF Empty
      <3>3. << >> \in Seq(Requests) OBVIOUS
      <3> QED BY <3>1, <3>2, <3>3 DEF LocalInit, Init, TypeOK
    <2>2. \A r \in Requests : Generates(r) /\ OwnRows(r) /\ Counted(r)
      BY DEF LocalInit, Init, Generates, OwnRows, Counted, Active, Idle
    <2>3. \A i \in Replicas : Owned(i) /\ Queued(i) /\ Once(i)
      BY DEF LocalInit, Init, Owned, Queued, Once
    <2> QED BY <2>1, <2>2, <2>3 DEF PoolInv
  <1>2. RustyInv
    <2>1. Rusty!Idle \in Rusty!Jobs /\ Rusty!Idle.pc = "new"
      BY DEF Rusty!Idle, Rusty!Jobs
    <2> QED BY <2>1, PoolAssumption
            DEF LocalInit, Rusty!Init, RustyInv, Rusty!TypeOK, RustyCounted, Rusty!Active
  <1> QED BY <1>1, <1>2 DEF Inv

\* What one step of the providers shows each client.
Steps == \A r \in Requests : Gen(r)!Step /\ Rusty!Gen(r)!Step

(* Every step of the providers keeps the invariant and is, for the client  *)
(* of each call, a step of Generation or none at all.                      *)
LEMMA InvNext ==
  ASSUME Inv, [LocalNext]_all_vars
  PROVE  Inv' /\ Steps
  <1>1. [Next]_vars /\ [Rusty!Next]_rusty_vars
    BY DEF LocalNext, PoolStep, RustyStep, all_vars
  <1> QED BY <1>1, PoolNext, RustyNext DEF Inv, Steps

(* Nothing a client sees happened before its call.                         *)
LEMMA GenInit ==
  ASSUME LocalInit
  PROVE  \A r \in Requests : Gen(r)!Init /\ Rusty!Gen(r)!Init
  BY DEF LocalInit, Init, Rusty!Init, Gen!Init, Rusty!Gen!Init, Idle, Rusty!Idle,
         Status, Rusty!Status, Here, Rusty!Here

(* The invariant holds of every behaviour.                                 *)
LEMMA InvAlways == LocalSpec => []Inv
  <1>1. LocalSpec => LocalInit /\ [][LocalNext]_all_vars BY DEF LocalSpec
  <1>2. LocalInit => Inv BY InvInit
  <1>3. Inv /\ [LocalNext]_all_vars => Inv' BY InvNext
  <1> QED BY <1>1, <1>2, <1>3, PTL

(***************************************************************************)
(* TypesKept: every call, lock, queue and KV cache of the pool, its round  *)
(* robin counter and every thread of rustyllm stay what they are declared  *)
(* to be.                                                                  *)
(***************************************************************************)
THEOREM TypesKept == LocalSpec => []LocalTypeOK
  <1>1. Inv => LocalTypeOK BY DEF Inv, PoolInv, RustyInv, LocalTypeOK
  <1> QED BY <1>1, InvAlways, PTL

(***************************************************************************)
(* ModelsNotShared: for any number of clients and replicas, no two calls   *)
(* run on one model, and a call decodes only against its own KV rows:      *)
(* exactly those before index_pos, whatever the replica ran before.        *)
(***************************************************************************)
THEOREM ModelsNotShared == LocalSpec => []OneModelOneCall
  <1>1. Inv => OneModelOneCall
    BY DEF Inv, PoolInv, RustyInv, Generates, OwnRows, OneModelOneCall, OwnCache,
           Rusty!OneAtATime
  <1> QED BY <1>1, InvAlways, PTL

(***************************************************************************)
(* LocksPassedOn: no replica and no model stays locked for a call that is  *)
(* over, whatever waiters were cancelled while the lock was on its way.    *)
(***************************************************************************)
THEOREM LocksPassedOn == LocalSpec => []NoLockLost
  <1>1. Inv => NoLockLost
    <2> SUFFICES ASSUME Inv PROVE NoLockLost OBVIOUS
    <2>1. LocksHeldByCalls
      BY DEF Inv, PoolInv, Owned, LocksHeldByCalls, Active, Over
    <2>2. model # None => Rusty!Active(model)
      BY DEF Inv, RustyInv, Rusty!TypeOK, Rusty!Active
    <2> QED BY <2>1, <2>2 DEF NoLockLost
  <1> QED BY <1>1, InvAlways, PTL

(***************************************************************************)
(* LocalAnswersAreGenerations: the pool and rustyllm implement Generation, *)
(* up to its concession Cut, for each of their calls, with any prompts and *)
(* any max_tokens: an answer that ends well is whole or max_tokens long, a *)
(* short one is an error, or the stream of a task that panicked.           *)
(***************************************************************************)
THEOREM LocalAnswersAreGenerations == LocalSpec => ImplementsGeneration
  <1> DEFINE First == \A r \in Requests : Gen(r)!Init /\ Rusty!Gen(r)!Init
  <1>1. LocalSpec => LocalInit /\ [][LocalNext]_all_vars BY DEF LocalSpec
  <1>2. LocalInit => First BY GenInit
  <1>3. Inv /\ [LocalNext]_all_vars => [Steps]_all_vars BY InvNext
  <1>4. ImplementsGeneration <=> First /\ [][Steps]_all_vars
    BY DEF ImplementsGeneration, Steps
  <1> HIDE DEF First
  <1> QED BY <1>1, <1>2, <1>3, <1>4, InvAlways, PTL
=============================================================================
