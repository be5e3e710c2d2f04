-------------------------- MODULE PagedEngineProofs --------------------------
(***************************************************************************)
(* Proofs about PagedEngine for every pool, batch, context and set of      *)
(* requests: types, ownership of the blocks, `locate` in its bounds, K/V   *)
(* rows that no two sequences share, the size of the batch, and that the   *)
(* engine implements Generation for every one of its clients.              *)
(***************************************************************************)
EXTENDS PagedEngine, SequenceTheorems, TLAPS

(* A function on 1 .. m is a sequence of length m.                         *)
LEMMA FunIsSeq ==
  ASSUME NEW S, NEW m \in Nat, NEW s \in [1 .. m -> S]
  PROVE  s \in Seq(S) /\ Len(s) = m /\ DOMAIN s = 1 .. m
  <1>1. s \in Seq(S) BY SeqDef
  <1>2. Len(s) = m BY <1>1, LenProperties
  <1> QED BY <1>1, <1>2

(* blocks_for rounds up: a natural number of blocks, enough for n tokens.  *)
LEMMA BlocksForNat == ASSUME NEW n \in Nat PROVE blocks_for(n) \in Nat
  <1>1. BlockSize \in Nat /\ BlockSize > 0 BY PoolAssumption
  <1>2. n + BlockSize - 1 \in Nat BY <1>1
  <1> QED BY <1>1, <1>2 DEF blocks_for

(* ensure_capacity pops a natural number of blocks.                        *)
LEMMA ExtraNat ==
  ASSUME NEW n \in Nat, NEW t \in Seq(Blocks)
  PROVE  Extra(t, n) \in Nat
  BY BlocksForNat DEF Extra

(* A successful ensure_capacity leaves two lists of blocks whose lengths   *)
(* add up to what they were.                                               *)
LEMMA GrowType ==
  ASSUME NEW n \in Nat, NEW f \in Seq(Blocks), NEW t \in Seq(Blocks), Fits(f, t, n)
  PROVE  /\ Grown(f, t, n) \in Seq(Blocks)
         /\ Len(Grown(f, t, n)) = Len(t) + Extra(t, n)
         /\ Popped(f, t, n) \in Seq(Blocks)
         /\ Len(Popped(f, t, n)) = Len(f) - Extra(t, n)
  <1> DEFINE e == Extra(t, n)
  <1>1. e \in Nat /\ e <= Len(f) BY ExtraNat DEF Fits
  <1>2. Len(f) \in Nat /\ Len(t) \in Nat OBVIOUS
  <1>3. \A i \in 1 .. (Len(t) + e) :
          (IF i <= Len(t) THEN t[i] ELSE f[Len(f) + 1 - (i - Len(t))]) \in Blocks
    <2> SUFFICES ASSUME NEW i \in 1 .. (Len(t) + e), i > Len(t)
                 PROVE  f[Len(f) + 1 - (i - Len(t))] \in Blocks
      BY <1>1, <1>2
    <2> Len(f) + 1 - (i - Len(t)) \in 1 .. Len(f) BY <1>1, <1>2
    <2> QED OBVIOUS
  <1>4. \A i \in 1 .. (Len(f) - e) : f[i] \in Blocks BY <1>1, <1>2
  <1>5. Len(t) + e \in Nat /\ Len(f) - e \in Nat BY <1>1, <1>2
  <1> HIDE DEF e
  <1>6. Grown(f, t, n) = [i \in 1 .. (Len(t) + e) |->
           IF i <= Len(t) THEN t[i] ELSE f[Len(f) + 1 - (i - Len(t))]]
    BY DEF Grown, e
  <1>7. Popped(f, t, n) = [i \in 1 .. (Len(f) - e) |-> f[i]] BY DEF Popped, e
  <1>8. Extra(t, n) = e BY DEF e
  <1>9. Grown(f, t, n) \in [1 .. (Len(t) + e) -> Blocks] BY <1>3, <1>6
  <1>10. Popped(f, t, n) \in [1 .. (Len(f) - e) -> Blocks] BY <1>4, <1>7
  <1>11. Grown(f, t, n) \in Seq(Blocks) /\ Len(Grown(f, t, n)) = Len(t) + e
    BY <1>5, <1>9, FunIsSeq
  <1>12. Popped(f, t, n) \in Seq(Blocks) /\ Len(Popped(f, t, n)) = Len(f) - e
    BY <1>5, <1>10, FunIsSeq
  <1> QED BY <1>8, <1>11, <1>12

(* release leaves a list of blocks, the two lists one after the other.     *)
LEMMA ReleaseType ==
  ASSUME NEW f \in Seq(Blocks), NEW t \in Seq(Blocks)
  PROVE  Released(f, t) \in Seq(Blocks) /\ Len(Released(f, t)) = Len(f) + Len(t)
  <1>1. Len(f) + Len(t) \in Nat /\ Len(f) \in Nat /\ Len(t) \in Nat OBVIOUS
  <1>2. \A i \in 1 .. (Len(f) + Len(t)) :
           (IF i <= Len(f) THEN f[i] ELSE t[i - Len(f)]) \in Blocks
    BY <1>1
  <1>3. Released(f, t) \in [1 .. (Len(f) + Len(t)) -> Blocks] BY <1>2 DEF Released
  <1> QED BY <1>1, <1>3, FunIsSeq

(* Conserved, read index by index.                                         *)
LEMMA ConservedByIndex ==
  ASSUME NEW f, NEW t, Conserved(f, t)
  PROVE  /\ Distinct(f)
         /\ \A q \in Requests : Distinct(t[q])
         /\ \A q \in Requests : \A i \in DOMAIN f, j \in DOMAIN t[q] : f[i] # t[q][j]
         /\ \A q, s \in Requests : q # s =>
              \A i \in DOMAIN t[q], j \in DOMAIN t[s] : t[q][i] # t[s][j]
  <1>1. \A q \in Requests : \A i \in DOMAIN f, j \in DOMAIN t[q] : f[i] # t[q][j]
    <2> SUFFICES ASSUME NEW q \in Requests, NEW i \in DOMAIN f, NEW j \in DOMAIN t[q]
                 PROVE  f[i] # t[q][j]
      OBVIOUS
    <2>1. f[i] \in Elems(f) /\ t[q][j] \in Elems(t[q]) BY DEF Elems
    <2>2. Elems(f) \cap Elems(t[q]) = {} BY DEF Conserved
    <2> QED BY <2>1, <2>2
  <1>2. \A q, s \in Requests : q # s =>
          \A i \in DOMAIN t[q], j \in DOMAIN t[s] : t[q][i] # t[s][j]
    <2> SUFFICES ASSUME NEW q \in Requests, NEW s \in Requests, q # s,
                        NEW i \in DOMAIN t[q], NEW j \in DOMAIN t[s]
                 PROVE  t[q][i] # t[s][j]
      OBVIOUS
    <2>1. t[q][i] \in Elems(t[q]) /\ t[s][j] \in Elems(t[s]) BY DEF Elems
    <2>2. Elems(t[q]) \cap Elems(t[s]) = {} BY DEF Conserved
    <2> QED BY <2>1, <2>2
  <1> QED BY <1>1, <1>2 DEF Conserved

(* A successful ensure_capacity moves blocks from the free list to one     *)
(* table and keeps every block's single owner.                             *)
LEMMA GrowConserves ==
  ASSUME NEW n \in Nat, NEW f \in Seq(Blocks), NEW t \in [Requests -> Seq(Blocks)],
         NEW r \in Requests, Fits(f, t[r], n), Conserved(f, t)
  PROVE  Conserved(Popped(f, t[r], n), [t EXCEPT ![r] = Grown(f, t[r], n)])
  <1> DEFINE e == Extra(t[r], n)
             g == Grown(f, t[r], n)
             p == Popped(f, t[r], n)
             u == [t EXCEPT ![r] = g]
             lf == Len(f)
             lt == Len(t[r])
  <1>1. t[r] \in Seq(Blocks) OBVIOUS
  <1>2. e \in Nat /\ e <= lf BY <1>1, ExtraNat DEF Fits
  <1>3. lf \in Nat /\ lt \in Nat BY <1>1
  <1>4. g \in Seq(Blocks) /\ DOMAIN g = 1 .. (lt + e) BY <1>1, GrowType, LenProperties
  <1>5. p \in Seq(Blocks) /\ DOMAIN p = 1 .. (lf - e) BY <1>1, GrowType, LenProperties
  <1>6. DOMAIN f = 1 .. lf /\ DOMAIN t[r] = 1 .. lt BY <1>1, LenProperties
  <1>7. \A i \in DOMAIN g : g[i] = IF i <= lt THEN t[r][i] ELSE f[lf + 1 - (i - lt)]
    BY <1>4 DEF Grown
  <1>8. \A i \in DOMAIN p : p[i] = f[i] BY <1>5 DEF Popped
  <1> HIDE DEF g, p, lf, lt, e
  <1>9. \A i \in DOMAIN g :
          \/ i \in DOMAIN t[r] /\ g[i] = t[r][i]
          \/ /\ ~(i \in DOMAIN t[r]) /\ lf + 1 - (i - lt) \in (lf - e + 1) .. lf
             /\ g[i] = f[lf + 1 - (i - lt)]
    BY <1>2, <1>3, <1>4, <1>6, <1>7
  <1>10. DOMAIN p \subseteq DOMAIN f /\ (lf - e + 1) .. lf \subseteq DOMAIN f
    BY <1>2, <1>3, <1>5, <1>6
  <1>11. u = [q \in Requests |-> IF q = r THEN g ELSE t[q]] OBVIOUS
  <1>12. /\ Distinct(f) /\ Distinct(t[r])
         /\ \A q \in Requests : Distinct(t[q])
         /\ \A q \in Requests : \A i \in DOMAIN f, j \in DOMAIN t[q] : f[i] # t[q][j]
         /\ \A q, s \in Requests : q # s =>
              \A i \in DOMAIN t[q], j \in DOMAIN t[s] : t[q][i] # t[s][j]
    BY ConservedByIndex
  <1>13. Distinct(p) BY <1>8, <1>10, <1>12 DEF Distinct
  <1>14. Distinct(g)
    <2> SUFFICES ASSUME NEW i \in DOMAIN g, NEW j \in DOMAIN g, i # j
                 PROVE  g[i] # g[j]
      BY DEF Distinct
    <2>1. i \in Int /\ j \in Int BY <1>2, <1>3, <1>4
    <2>2. lf + 1 - (i - lt) # lf + 1 - (j - lt) BY <1>3, <2>1
    <2> QED BY <1>9, <1>10, <1>12, <2>2 DEF Distinct
  <1>15. \A i \in DOMAIN p, j \in DOMAIN g : p[i] # g[j]
    <2> SUFFICES ASSUME NEW i \in DOMAIN p, NEW j \in DOMAIN g PROVE p[i] # g[j]
      OBVIOUS
    <2>1. p[i] = f[i] /\ i \in DOMAIN f BY <1>8, <1>10
    <2>2. i # lf + 1 - (j - lt) \/ j \in DOMAIN t[r]
      BY <1>2, <1>3, <1>5, <1>9
    <2> QED BY <1>9, <1>10, <1>12, <2>1, <2>2 DEF Distinct
  <1>16. \A q \in Requests : q # r =>
           /\ \A i \in DOMAIN p, j \in DOMAIN t[q] : p[i] # t[q][j]
           /\ \A i \in DOMAIN g, j \in DOMAIN t[q] : g[i] # t[q][j]
    BY <1>8, <1>9, <1>10, <1>12
  <1>17. \A b \in Blocks : \/ \E i \in DOMAIN p : p[i] = b
                           \/ \E i \in DOMAIN g : g[i] = b
                           \/ \E q \in Requests \ {r} : b \in Elems(t[q])
    <2> SUFFICES ASSUME NEW b \in Blocks, ~ \E q \in Requests \ {r} : b \in Elems(t[q])
                 PROVE  (\E i \in DOMAIN p : p[i] = b) \/ (\E i \in DOMAIN g : g[i] = b)
      OBVIOUS
    <2>1. b \in Elems(f) \/ b \in Elems(t[r]) BY DEF Conserved
    <2>2. CASE b \in Elems(t[r])
      <3>1. PICK i \in DOMAIN t[r] : t[r][i] = b BY <2>2 DEF Elems
      <3>2. i \in DOMAIN g /\ i <= lt BY <1>2, <1>3, <1>4, <1>6
      <3> QED BY <1>7, <3>1, <3>2
    <2>3. CASE b \in Elems(f)
      <3>1. PICK i \in DOMAIN f : f[i] = b BY <2>3 DEF Elems
      <3>2. CASE i <= lf - e
        <4>1. i \in DOMAIN p BY <1>2, <1>3, <1>5, <1>6, <3>2
        <4> QED BY <1>8, <3>1, <4>1
      <3>3. CASE i > lf - e
        <4>1. lt + lf + 1 - i \in DOMAIN g /\ ~(lt + lf + 1 - i <= lt)
          BY <1>2, <1>3, <1>4, <1>6, <3>3
        <4>2. lf + 1 - ((lt + lf + 1 - i) - lt) = i BY <1>3, <1>6
        <4> QED BY <1>7, <3>1, <4>1, <4>2
      <3> QED BY <1>2, <1>3, <1>6, <3>2, <3>3
    <2> QED BY <2>1, <2>2, <2>3
  <1> HIDE DEF u
  <1>18. /\ \A q \in Requests : Distinct(u[q])
         /\ \A q \in Requests : Elems(p) \cap Elems(u[q]) = {}
    BY <1>11, <1>12, <1>14, <1>15, <1>16 DEF Elems
  <1>19. \A q, s \in Requests : q # s => Elems(u[q]) \cap Elems(u[s]) = {}
    BY <1>11, <1>12, <1>16 DEF Elems
  <1>20. \A b \in Blocks : b \in Elems(p) \/ \E q \in Requests : b \in Elems(u[q])
    BY <1>11, <1>17 DEF Elems
  <1>21. Conserved(p, u) BY <1>13, <1>18, <1>19, <1>20 DEF Conserved
  <1> QED BY <1>21 DEF u, p, g

(* release moves a whole table to the free list and keeps every block's    *)
(* single owner.                                                           *)
LEMMA ReleaseConserves ==
  ASSUME NEW f \in Seq(Blocks), NEW t \in [Requests -> Seq(Blocks)],
         NEW r \in Requests, Conserved(f, t)
  PROVE  Conserved(Released(f, t[r]), [t EXCEPT ![r] = << >>])
  <1> DEFINE g == Released(f, t[r])
             u == [t EXCEPT ![r] = << >>]
             lf == Len(f)
             lt == Len(t[r])
  <1>1. t[r] \in Seq(Blocks) OBVIOUS
  <1>2. lf \in Nat /\ lt \in Nat BY <1>1
  <1>3. DOMAIN g = 1 .. (lf + lt) BY <1>1, ReleaseType, LenProperties
  <1>4. DOMAIN f = 1 .. lf /\ DOMAIN t[r] = 1 .. lt BY <1>1, LenProperties
  <1>5. \A i \in DOMAIN g : g[i] = IF i <= lf THEN f[i] ELSE t[r][i - lf]
    BY <1>3 DEF Released
  <1> HIDE DEF g, lf, lt
  <1>6. \A i \in DOMAIN g :
          \/ i <= lf /\ i \in DOMAIN f /\ g[i] = f[i]
          \/ ~(i <= lf) /\ i - lf \in DOMAIN t[r] /\ g[i] = t[r][i - lf]
    BY <1>2, <1>3, <1>4, <1>5
  <1>7. /\ Distinct(f) /\ Distinct(t[r])
        /\ \A q \in Requests : Distinct(t[q])
        /\ \A q \in Requests : \A i \in DOMAIN f, j \in DOMAIN t[q] : f[i] # t[q][j]
        /\ \A q, s \in Requests : q # s =>
             \A i \in DOMAIN t[q], j \in DOMAIN t[s] : t[q][i] # t[s][j]
    BY ConservedByIndex
  <1>8. Distinct(g)
    <2> SUFFICES ASSUME NEW i \in DOMAIN g, NEW j \in DOMAIN g, i # j
                 PROVE  g[i] # g[j]
      BY DEF Distinct
    <2>1. i - lf # j - lf BY <1>2, <1>3
    <2> QED BY <1>6, <1>7, <2>1 DEF Distinct
  <1>9. \A q \in Requests \ {r} : \A i \in DOMAIN g, j \in DOMAIN t[q] : g[i] # t[q][j]
    BY <1>6, <1>7
  <1>10. u = [q \in Requests |-> IF q = r THEN << >> ELSE t[q]] OBVIOUS
  <1>11. Elems(<< >>) = {} /\ Distinct(<< >>) BY DEF Elems, Distinct
  <1>12. \A b \in Elems(f) \cup Elems(t[r]) : b \in Elems(g)
    <2>1. \A i \in DOMAIN f : i \in DOMAIN g /\ g[i] = f[i]
      BY <1>2, <1>3, <1>4, <1>5
    <2>2. \A i \in DOMAIN t[r] : i + lf \in DOMAIN g /\ g[i + lf] = t[r][i]
      <3> TAKE i \in DOMAIN t[r]
      <3>1. i + lf \in DOMAIN g /\ ~(i + lf <= lf) /\ (i + lf) - lf = i
        BY <1>2, <1>3, <1>4
      <3> QED BY <1>5, <3>1
    <2> QED BY <2>1, <2>2 DEF Elems
  <1> HIDE DEF u
  <1>13. /\ \A q \in Requests : Distinct(u[q])
         /\ \A q \in Requests : Elems(g) \cap Elems(u[q]) = {}
    <2> SUFFICES ASSUME NEW q \in Requests
                 PROVE  Distinct(u[q]) /\ Elems(g) \cap Elems(u[q]) = {}
      OBVIOUS
    <2>1. CASE q = r BY <1>10, <1>11, <2>1
    <2>2. CASE q # r BY <1>7, <1>9, <1>10, <2>2 DEF Elems
    <2> QED BY <2>1, <2>2
  <1>14. \A q, s \in Requests : q # s => Elems(u[q]) \cap Elems(u[s]) = {}
    BY <1>10, <1>11 DEF Conserved
  <1>15. \A b \in Blocks : b \in Elems(g) \/ \E q \in Requests : b \in Elems(u[q])
    BY <1>10, <1>12 DEF Conserved
  <1>16. Conserved(g, u) BY <1>8, <1>13, <1>14, <1>15 DEF Conserved
  <1> QED BY <1>16 DEF u, g
-----------------------------------------------------------------------------
(* Sequences of requests, read as sets. *)

(* Appending a new element to a list without repetition.                   *)
LEMMA AppendElems ==
  ASSUME NEW S, NEW s \in Seq(S), NEW x \in S
  PROVE  /\ Append(s, x) \in Seq(S)
         /\ Elems(Append(s, x)) = Elems(s) \cup {x}
         /\ Distinct(s) /\ x \notin Elems(s) => Distinct(Append(s, x))
         /\ Append(s, x) # << >>
  <1> DEFINE a == Append(s, x)
             n == Len(s)
  <1>1. n \in Nat /\ DOMAIN s = 1 .. n BY LenProperties
  <1>2. a \in Seq(S) /\ DOMAIN a = 1 .. (n + 1) /\ a[n + 1] = x
    BY <1>1, AppendProperties, LenProperties
  <1>3. \A i \in 1 .. n : a[i] = s[i] BY <1>1, AppendProperties
  <1> HIDE DEF a, n
  <1>4. \A i \in DOMAIN a : \/ i \in DOMAIN s /\ a[i] = s[i]
                            \/ i = n + 1 /\ i \notin DOMAIN s /\ a[i] = x
    BY <1>1, <1>2, <1>3
  <1>5. Elems(a) = Elems(s) \cup {x}
    <2>1. Elems(a) \subseteq Elems(s) \cup {x} BY <1>4 DEF Elems
    <2>2. \A i \in DOMAIN s : i \in DOMAIN a /\ a[i] = s[i] BY <1>1, <1>2, <1>3
    <2>3. n + 1 \in DOMAIN a BY <1>1, <1>2
    <2>4. Elems(s) \cup {x} \subseteq Elems(a) BY <1>2, <2>2, <2>3 DEF Elems
    <2> QED BY <2>1, <2>4
  <1>6. Distinct(s) /\ x \notin Elems(s) => Distinct(a)
    BY <1>4 DEF Distinct, Elems
  <1>7. a # << >>
    <2>1. n + 1 \in DOMAIN a BY <1>1, <1>2
    <2> QED BY <2>1
  <1> QED BY <1>2, <1>5, <1>6, <1>7 DEF a

(* Taking the head off a list without repetition.                          *)
LEMMA TailElems ==
  ASSUME NEW S, NEW s \in Seq(S), s # << >>, Distinct(s)
  PROVE  /\ Head(s) \in S /\ Head(s) \in Elems(s)
         /\ Tail(s) \in Seq(S) /\ Distinct(Tail(s))
         /\ Elems(Tail(s)) = Elems(s) \ {Head(s)}
  <1> DEFINE t == Tail(s)
             n == Len(s)
  <1>1. n \in Nat /\ n > 0 /\ DOMAIN s = 1 .. n BY LenProperties, EmptySeq
  <1>2. /\ Head(s) \in S /\ t \in Seq(S) /\ Len(t) = n - 1
        /\ \A i \in 1 .. Len(t) : t[i] = s[i + 1]
    BY HeadTailProperties
  <1>3. Head(s) = s[1] /\ 1 \in DOMAIN s BY <1>1
  <1>4. DOMAIN t = 1 .. (n - 1) BY <1>2, LenProperties
  <1> HIDE DEF t, n
  <1>5. \A i \in DOMAIN t : t[i] = s[i + 1] /\ i + 1 \in DOMAIN s /\ i + 1 # 1
    BY <1>1, <1>2, <1>4
  <1>6. Distinct(t)
    <2> SUFFICES ASSUME NEW i \in DOMAIN t, NEW j \in DOMAIN t, i # j
                 PROVE  t[i] # t[j]
      BY DEF Distinct
    <2>1. i + 1 # j + 1 BY <1>4
    <2> QED BY <1>5, <2>1 DEF Distinct
  <1>7. Elems(t) \subseteq Elems(s) \ {s[1]}
    <2> SUFFICES ASSUME NEW i \in DOMAIN t PROVE t[i] \in Elems(s) \ {s[1]}
      BY DEF Elems
    <2> QED BY <1>3, <1>5 DEF Distinct, Elems
  <1>8. Elems(s) \ {s[1]} \subseteq Elems(t)
    <2> SUFFICES ASSUME NEW i \in DOMAIN s, s[i] # s[1] PROVE s[i] \in Elems(t)
      BY DEF Elems
    <2>1. i - 1 \in DOMAIN t /\ (i - 1) + 1 = i BY <1>1, <1>4
    <2>2. t[i - 1] = s[i] BY <1>5, <2>1
    <2> QED BY <2>1, <2>2 DEF Elems
  <1> QED BY <1>2, <1>3, <1>6, <1>7, <1>8 DEF Elems, t

(* The list is empty exactly when its set of elements is.                  *)
LEMMA EmptyElems == Elems(<< >>) = {} /\ Distinct(<< >>) BY DEF Elems, Distinct
-----------------------------------------------------------------------------
(* The inductive invariant. *)

IInv == TypeOK /\ SchedulerInv /\ BlocksConserved /\ BlocksFollowSequences

(* The pool starts whole and free, and no request is anywhere.             *)
LEMMA InitIInv == Init => IInv
  <1> SUFFICES ASSUME Init PROVE IInv OBVIOUS
  <1> USE DEF Init
  <1>1. NumBlocks \in Nat BY PoolAssumption
  <1>2. new \in [1 .. NumBlocks -> Blocks] BY <1>1 DEF new, Blocks
  <1>3. new \in Seq(Blocks) /\ DOMAIN new = 1 .. NumBlocks BY <1>1, <1>2, FunIsSeq
  <1>4. TypeOK
    BY <1>3 DEF TypeOK
  <1>5. SchedulerInv BY EmptyElems DEF SchedulerInv, Active
  <1>6. Distinct(new) BY <1>1 DEF new, Distinct
  <1>7. \A b \in Blocks : b \in Elems(new)
    <2> TAKE b \in Blocks
    <2>1. NumBlocks - b \in DOMAIN new /\ new[NumBlocks - b] = b
      BY <1>1 DEF new, Blocks
    <2> QED BY <2>1 DEF Elems
  <1>8. BlocksConserved
    BY <1>6, <1>7, EmptyElems DEF BlocksConserved, Conserved
  <1>9. BlocksFollowSequences BY DEF BlocksFollowSequences
  <1> QED BY <1>4, <1>5, <1>8, <1>9 DEF IInv

(* Sends keep the reply logs well typed.                                   *)
LEMMA SentType ==
  ASSUME TypeOK, NEW r \in Requests, NEW x \in Tokens \cup Errors
  PROVE  Sent(r, x) \in [Requests -> Seq(Tokens \cup Errors)]
  BY DEF TypeOK, Sent

(* Writes keep the K/V pool well typed.                                    *)
LEMMA KvWriteType ==
  ASSUME TypeOK, NEW r \in Requests, NEW t, NEW n \in Nat
  PROVE  KvWrite(t, r, 0, n) \in [Cells -> (Requests \X Nat) \cup {None}]
  <1>1. ASSUME NEW c \in Cells, \E p \in 0 .. (n - 1) : locate(t, p) = c
        PROVE  (CHOOSE p \in 0 .. (n - 1) : locate(t, p) = c) \in Nat
    BY <1>1
  <1> QED BY <1>1 DEF KvWrite, TypeOK

LEMMA KvDecodeType ==
  ASSUME TypeOK, NEW n \in 0 .. Len(running)
  PROVE  KvDecode(n) \in [Cells -> (Requests \X Nat) \cup {None}]
  <1> DEFINE At(i) == locate(table[running[i]], pos[running[i]])
  <1>1. ASSUME NEW c \in Cells, \E i \in 1 .. n : At(i) = c
        PROVE  LET i == CHOOSE i \in 1 .. n : At(i) = c
               IN  << running[i], pos[running[i]] >> \in Requests \X Nat
    <2> DEFINE k == CHOOSE i \in 1 .. n : At(i) = c
    <2>1. k \in 1 .. n BY <1>1
    <2>2. k \in 1 .. Len(running) BY <2>1 DEF TypeOK
    <2> HIDE DEF k
    <2>3. running[k] \in Requests BY <2>2 DEF TypeOK
    <2>4. pos[running[k]] \in Nat BY <2>3 DEF TypeOK
    <2> QED BY <2>3, <2>4 DEF k
  <1> QED BY <1>1 DEF KvDecode, TypeOK

(* A reader of a reply channel touches nothing but the reply.              *)
LEMMA ReaderOnly ==
  ASSUME NEW r \in Requests, Reader(r)
  PROVE  UNCHANGED << open, queue, pc, running, todo, free, table, pos, produced, job,
                      state, kv >>
  BY DEF Reader, Disconnect, read_end, relay_fails, Close, alloc, progress

(* The job of a request that was submitted.                                *)
LEMMA JobType ==
  ASSUME IInv, NEW r \in Requests, state[r] # "new"
  PROVE  job[r].prompt \in Nat /\ job[r].max_tokens \in Nat
  BY DEF IInv, SchedulerInv, Jobs

(* The request prefill works on, and the one a pass visits.                *)
LEMMA HeadOfQueue ==
  ASSUME IInv, queue # << >>
  PROVE  /\ Head(queue) \in Requests /\ state[Head(queue)] = "queued"
         /\ Tail(queue) \in Seq(Requests)
  BY TailElems DEF IInv, SchedulerInv, TypeOK

LEMMA HeadOfTodo ==
  ASSUME IInv, pc \in {"reserve", "sample", "fail"}
  PROVE  /\ todo # << >> /\ Head(todo) \in Requests /\ state[Head(todo)] = "running"
         /\ Head(todo) \notin Elems(running) /\ Tail(todo) \in Seq(Requests)
  BY TailElems DEF IInv, SchedulerInv, TypeOK, Active

(* Every step keeps the types.                                             *)
LEMMA TypeStep == IInv /\ [Next]_vars => TypeOK'
  <1> SUFFICES ASSUME IInv, [Next]_vars PROVE TypeOK' OBVIOUS
  <1> USE DEF alloc, progress
  <1>0. TypeOK BY DEF IInv
  <1>1. ASSUME NEW r \in Requests, NEW j \in Asks[r], submit(r, j) PROVE TypeOK'
    <2>1. Append(queue, r) \in Seq(Requests) /\ j \in Jobs
      BY <1>0, EngineAssumption, AppendElems DEF TypeOK
    <2>2. /\ state' \in [Requests -> {"new", "queued", "running", "done"}]
          /\ job' \in [Requests -> Jobs \cup {None}]
      BY <1>0, <1>1, <2>1 DEF TypeOK, submit
    <2> QED BY <1>0, <1>1, <2>1, <2>2 DEF TypeOK, submit
  <1>2. ASSUME NEW r \in Requests, Reader(r) PROVE TypeOK'
    <2>1. /\ sent' \in [Requests -> Seq(Tokens \cup Errors)]
          /\ sampled' \in [Requests -> Tokens \cup {"none"}]
          /\ reply' \in [Requests -> {"open"} \cup Ends]
      <3>1. CASE Disconnect(r) BY <1>0, <3>1 DEF TypeOK, Disconnect, Ends
      <3>2. ASSUME NEW how \in Ends, Close(r, how) PROVE <2>1
        BY <1>0, <3>2 DEF TypeOK, Close
      <3>3. CASE read_end(r) \/ relay_fails(r)
        BY <3>2, <3>3 DEF read_end, relay_fails, Ends
      <3> QED BY <1>2, <3>1, <3>3 DEF Reader
    <2> QED BY <1>0, <1>2, <2>1, ReaderOnly DEF TypeOK
  <1>3. CASE DropEngine BY <1>0, <1>3 DEF TypeOK, DropEngine
  <1>4. CASE Admit
    <2> DEFINE r == Head(queue)
               n == job[r].prompt
    <2>1. queue # << >> /\ prefill(r) /\ queue' = Tail(queue)
          /\ UNCHANGED << open, pc, todo, job, reply >>
      BY <1>4 DEF Admit
    <2>2. r \in Requests /\ state[r] = "queued" /\ Tail(queue) \in Seq(Requests)
      BY <2>1, HeadOfQueue
    <2>3. n \in Nat BY <2>2, JobType
    <2> HIDE DEF r
    <2>4. /\ open' \in BOOLEAN /\ queue' \in Seq(Requests) /\ todo' \in Seq(Requests)
          /\ pc' \in {"admit", "reserve", "decode", "sample", "fail", "stopped"}
          /\ job' \in [Requests -> Jobs \cup {None}]
          /\ reply' \in [Requests -> {"open"} \cup Ends]
      BY <1>0, <2>1, <2>2 DEF TypeOK
    <2>5. ASSUME Rejected(r) PROVE /\ state' \in [Requests -> {"new", "queued", "running", "done"}]
                                   /\ running' \in Seq(Requests)
                                   /\ table' \in [Requests -> Seq(Blocks)]
                                   /\ pos' \in [Requests -> Nat]
                                   /\ produced' \in [Requests -> Nat]
                                   /\ sampled' \in [Requests -> Tokens \cup {"none"}]
      BY <1>0, <2>2, <2>5 DEF TypeOK, Rejected
    <2>6. CASE prefill_zero_tokens(r)
      BY <1>0, <2>4, <2>5, <2>6 DEF TypeOK, prefill_zero_tokens
    <2>7. CASE prefill_too_long(r)
      <3>1. Sent(r, "context") \in [Requests -> Seq(Tokens \cup Errors)]
        BY <1>0, <2>2, SentType DEF Errors
      <3> QED BY <1>0, <2>4, <2>5, <2>7, <3>1 DEF TypeOK, prefill_too_long
    <2>8. CASE prefill_exhausted(r)
      <3>1. Sent(r, "exhausted") \in [Requests -> Seq(Tokens \cup Errors)]
        BY <1>0, <2>2, SentType DEF Errors
      <3> QED BY <1>0, <2>4, <2>5, <2>8, <3>1 DEF TypeOK, prefill_exhausted
    <2>9. CASE prefill_fails(r)
      <3>1. Sent(r, "forward") \in [Requests -> Seq(Tokens \cup Errors)]
        BY <1>0, <2>2, SentType DEF Errors
      <3>2. free \in Seq(Blocks) /\ << >> \in Seq(Blocks) /\ Fits(free, << >>, n)
        BY <1>0, <2>9 DEF TypeOK, prefill_fails
      <3>3. Grown(free, << >>, n) \in Seq(Blocks) /\ Popped(free, << >>, n) \in Seq(Blocks)
        BY <2>3, <3>2, GrowType
      <3>4. free' \in Seq(Blocks) BY <2>9, <3>3, ReleaseType DEF prefill_fails
      <3>5. kv' \in [Cells -> (Requests \X Nat) \cup {None}]
        <4>1. PICK w \in 0 .. n : kv' = KvWrite(Grown(free, << >>, n), r, 0, w)
          BY <2>9 DEF prefill_fails
        <4>2. w \in Nat BY <2>3
        <4> QED BY <1>0, <2>2, <4>1, <4>2, KvWriteType
      <3>6. sent' = Sent(r, "forward") /\ Rejected(r) BY <2>9 DEF prefill_fails
      <3> QED BY <2>4, <2>5, <3>1, <3>4, <3>5, <3>6 DEF TypeOK
    <2>10. CASE prefill_ok(r)
      <3>1. \A x \in Tokens : Sent(r, x) \in [Requests -> Seq(Tokens \cup Errors)]
        BY <1>0, <2>2, SentType
      <3>2. free \in Seq(Blocks) /\ << >> \in Seq(Blocks) /\ Fits(free, << >>, n)
        BY <1>0, <2>10 DEF TypeOK, prefill_ok
      <3>3. Grown(free, << >>, n) \in Seq(Blocks) /\ Popped(free, << >>, n) \in Seq(Blocks)
        BY <2>3, <3>2, GrowType
      <3>4. kv' \in [Cells -> (Requests \X Nat) \cup {None}]
        BY <1>0, <2>2, <2>3, <2>10, KvWriteType DEF prefill_ok
      <3>5. /\ free' = Popped(free, << >>, n)
            /\ table' = [table EXCEPT ![r] = Grown(free, << >>, n)]
            /\ pos' = [pos EXCEPT ![r] = n]
            /\ produced' = [produced EXCEPT ![r] = 1]
            /\ state' = [state EXCEPT ![r] = "running"]
            /\ running' = Append(running, r)
        BY <2>10 DEF prefill_ok
      <3>6. \E x \in Tokens :
              /\ sampled' = [sampled EXCEPT ![r] = IF reply[r] = "open" THEN x ELSE @]
              /\ sent' = Sent(r, x)
        BY <2>10 DEF prefill_ok
      <3>7. sent' \in [Requests -> Seq(Tokens \cup Errors)] BY <3>1, <3>6
      <3>8. sampled' \in [Requests -> Tokens \cup {"none"}]
        BY <1>0, <2>2, <3>6 DEF TypeOK
      <3>9. /\ table' \in [Requests -> Seq(Blocks)] /\ pos' \in [Requests -> Nat]
            /\ produced' \in [Requests -> Nat] /\ running' \in Seq(Requests)
            /\ state' \in [Requests -> {"new", "queued", "running", "done"}]
        <4>1. Append(running, r) \in Seq(Requests) BY <1>0, <2>2, AppendElems DEF TypeOK
        <4>2. table' \in [Requests -> Seq(Blocks)] BY <1>0, <2>2, <3>3, <3>5 DEF TypeOK
        <4>3. pos' \in [Requests -> Nat] /\ produced' \in [Requests -> Nat]
          BY <1>0, <2>2, <2>3, <3>5 DEF TypeOK
        <4>4. state' \in [Requests -> {"new", "queued", "running", "done"}]
          BY <1>0, <2>2, <3>5 DEF TypeOK
        <4> QED BY <3>5, <4>1, <4>2, <4>3, <4>4
      <3> QED BY <2>4, <3>3, <3>4, <3>5, <3>7, <3>8, <3>9 DEF TypeOK
    <2> QED BY <2>1, <2>6, <2>7, <2>8, <2>9, <2>10 DEF prefill
  <1>5. CASE StartPass
    <2>1. << >> \in Seq(Requests) OBVIOUS
    <2> QED BY <1>0, <1>5, <2>1 DEF TypeOK, StartPass
  <1>6. CASE Stop BY <1>0, <1>6 DEF TypeOK, Stop
  <1>7. ASSUME NEW r \in Requests, Leave(r)
        PROVE  /\ free' \in Seq(Blocks) /\ table' \in [Requests -> Seq(Blocks)]
               /\ state' \in [Requests -> {"new", "queued", "running", "done"}]
    <2>1. table[r] \in Seq(Blocks) /\ free \in Seq(Blocks) BY <1>0 DEF TypeOK
    <2>2. Released(free, table[r]) \in Seq(Blocks) BY <2>1, ReleaseType
    <2> QED BY <1>0, <1>7, <2>2 DEF TypeOK, Leave
  <1>8. CASE Reserve
    <2> DEFINE r == Head(todo)
    <2>1. r \in Requests /\ Tail(todo) \in Seq(Requests)
      BY <1>8, HeadOfTodo DEF Reserve
    <2> HIDE DEF r
    <2>2. /\ open' \in BOOLEAN /\ queue' \in Seq(Requests) /\ todo' \in Seq(Requests)
          /\ job' \in [Requests -> Jobs \cup {None}]
          /\ reply' \in [Requests -> {"open"} \cup Ends]
          /\ pos' \in [Requests -> Nat] /\ produced' \in [Requests -> Nat]
          /\ sampled' \in [Requests -> Tokens \cup {"none"}]
          /\ kv' \in [Cells -> (Requests \X Nat) \cup {None}]
      BY <1>0, <1>8, <2>1 DEF TypeOK, Reserve
    <2>3. ASSUME NEW x \in Errors, Evict(r, x) PROVE TypeOK'
      <3>1. Sent(r, x) \in [Requests -> Seq(Tokens \cup Errors)]
        BY <1>0, <2>1, SentType
      <3>2. pc' \in {"admit", "decode", "reserve"}
        BY <1>8, <2>3 DEF Evict, AfterReserve, NextPass, Reserve
      <3> QED BY <1>0, <1>7, <2>1, <2>2, <2>3, <3>1, <3>2 DEF TypeOK, Evict
    <2>4. CASE reserve_context(r) BY <2>3, <2>4 DEF reserve_context, Errors
    <2>5. CASE reserve_exhausted(r) BY <2>3, <2>5 DEF reserve_exhausted, Errors
    <2>6. CASE reserve_ok(r)
      <3>1. pos[r] + 1 \in Nat /\ free \in Seq(Blocks) /\ table[r] \in Seq(Blocks)
            /\ Fits(free, table[r], pos[r] + 1)
        <4>1. /\ pos \in [Requests -> Nat] /\ free \in Seq(Blocks)
              /\ table \in [Requests -> Seq(Blocks)]
          BY ONLY <1>0 DEF TypeOK
        <4>2. pos[r] \in Nat /\ table[r] \in Seq(Blocks) BY ONLY <2>1, <4>1
        <4>3. Fits(free, table[r], pos[r] + 1) BY ONLY <2>6 DEF reserve_ok
        <4> QED BY ONLY <4>1, <4>2, <4>3
      <3>2. /\ Grown(free, table[r], pos[r] + 1) \in Seq(Blocks)
            /\ Popped(free, table[r], pos[r] + 1) \in Seq(Blocks)
        BY <3>1, GrowType
      <3>3. pc' \in {"admit", "decode", "reserve"}
        BY <1>8, <2>6 DEF reserve_ok, AfterReserve, NextPass, Reserve
      <3>4. /\ free' = Popped(free, table[r], pos[r] + 1)
            /\ table' = [table EXCEPT ![r] = Grown(free, table[r], pos[r] + 1)]
            /\ running' = Append(running, r) /\ UNCHANGED << state, sent >>
        BY <2>6 DEF reserve_ok
      <3>5. Append(running, r) \in Seq(Requests) BY <1>0, <2>1, AppendElems DEF TypeOK
      <3>6. table' \in [Requests -> Seq(Blocks)] BY <1>0, <2>1, <3>2, <3>4 DEF TypeOK
      <3> QED BY <1>0, <2>2, <3>2, <3>3, <3>4, <3>5, <3>6 DEF TypeOK
    <2> QED BY <1>8, <2>4, <2>5, <2>6 DEF Reserve, r
  <1>9. CASE decode_ok
    <2>1. KvDecode(Len(running)) \in [Cells -> (Requests \X Nat) \cup {None}]
      <3>1. Len(running) \in 0 .. Len(running) BY ONLY <1>0 DEF TypeOK
      <3> QED BY <1>0, <3>1, KvDecodeType
    <2>2. /\ running' \in Seq(Requests) /\ todo' \in Seq(Requests) /\ pc' = "sample"
          /\ kv' = KvDecode(Len(running))
          /\ UNCHANGED << open, queue, free, table, pos, produced, sampled, job, state,
                          reply, sent >>
      <3>1. running \in Seq(Requests) /\ << >> \in Seq(Requests) BY ONLY <1>0 DEF TypeOK
      <3> QED BY ONLY <1>9, <3>1 DEF decode_ok, alloc, progress
    <2> QED BY ONLY <1>0, <2>1, <2>2 DEF TypeOK
  <1>10. CASE decode_fails
    <2>1. kv' \in [Cells -> (Requests \X Nat) \cup {None}]
      BY <1>0, <1>10, KvDecodeType DEF decode_fails
    <2>2. /\ running' \in Seq(Requests) /\ todo' \in Seq(Requests) /\ pc' = "fail"
          /\ UNCHANGED << open, queue, free, table, pos, produced, sampled, job, state,
                          reply, sent >>
      <3>1. running \in Seq(Requests) /\ << >> \in Seq(Requests) BY ONLY <1>0 DEF TypeOK
      <3> QED BY ONLY <1>10, <3>1 DEF decode_fails, alloc, progress
    <2> QED BY ONLY <1>0, <2>1, <2>2 DEF TypeOK
  <1>11. CASE Fail
    <2> DEFINE r == Head(todo)
    <2>1. r \in Requests /\ Tail(todo) \in Seq(Requests)
      BY <1>11, HeadOfTodo DEF Fail
    <2>2. Leave(r) /\ sent' = Sent(r, "forward") BY <1>11 DEF Fail
    <2>3. Sent(r, "forward") \in [Requests -> Seq(Tokens \cup Errors)]
      BY <1>0, <2>1, SentType DEF Errors
    <2>4. pc' \in {"admit", "fail"} BY <1>11 DEF Fail, NextPass
    <2> HIDE DEF r
    <2> QED BY <1>0, <1>7, <1>11, <2>1, <2>2, <2>3, <2>4 DEF TypeOK, Fail
  <1>12. CASE Sample
    <2> DEFINE r == Head(todo)
    <2>1. r \in Requests /\ Tail(todo) \in Seq(Requests)
      BY <1>12, HeadOfTodo DEF Sample
    <2>2. PICK x \in Tokens :
            /\ pos' = [pos EXCEPT ![r] = @ + 1]
            /\ produced' = [produced EXCEPT ![r] = @ + 1]
            /\ sampled' = [sampled EXCEPT ![r] = IF reply[r] = "open" THEN x ELSE @]
            /\ sent' = IF x = "eos" THEN sent ELSE Sent(r, x)
            /\ \/ Leave(r) /\ UNCHANGED running
               \/ running' = Append(running, r) /\ UNCHANGED << alloc, state >>
      BY <1>12 DEF Sample
    <2>3. pc' \in {"admit", "sample"} BY <1>12 DEF Sample, NextPass
    <2>4. /\ open' \in BOOLEAN /\ queue' \in Seq(Requests) /\ todo' \in Seq(Requests)
          /\ job' \in [Requests -> Jobs \cup {None}]
          /\ reply' \in [Requests -> {"open"} \cup Ends]
          /\ kv' \in [Cells -> (Requests \X Nat) \cup {None}]
      BY <1>0, <1>12, <2>1 DEF TypeOK, Sample
    <2> HIDE DEF r
    <2>5. sent' \in [Requests -> Seq(Tokens \cup Errors)]
      BY <1>0, <2>1, <2>2, SentType DEF TypeOK
    <2>6. /\ pos' \in [Requests -> Nat] /\ produced' \in [Requests -> Nat]
          /\ sampled' \in [Requests -> Tokens \cup {"none"}]
      <3>1. pos[r] + 1 \in Nat /\ produced[r] + 1 \in Nat
        <4>1. pos \in [Requests -> Nat] /\ produced \in [Requests -> Nat] BY ONLY <1>0 DEF TypeOK
        <4>2. pos[r] \in Nat /\ produced[r] \in Nat BY ONLY <2>1, <4>1
        <4> QED BY ONLY <4>2
      <3>2. pos' \in [Requests -> Nat] BY <1>0, <2>1, <2>2, <3>1 DEF TypeOK
      <3>3. produced' \in [Requests -> Nat] BY <1>0, <2>1, <2>2, <3>1 DEF TypeOK
      <3>4. sampled' \in [Requests -> Tokens \cup {"none"}] BY <1>0, <2>1, <2>2 DEF TypeOK
      <3> QED BY <3>2, <3>3, <3>4
    <2>7. /\ free' \in Seq(Blocks) /\ table' \in [Requests -> Seq(Blocks)]
          /\ state' \in [Requests -> {"new", "queued", "running", "done"}]
          /\ running' \in Seq(Requests)
      <3>1. Append(running, r) \in Seq(Requests) BY <1>0, <2>1, AppendElems DEF TypeOK
      <3>2. CASE Leave(r) /\ UNCHANGED running BY <1>0, <1>7, <2>1, <3>2 DEF TypeOK
      <3>3. CASE running' = Append(running, r) /\ UNCHANGED << alloc, state >>
        BY <1>0, <3>1, <3>3 DEF TypeOK
      <3> QED BY <2>2, <3>2, <3>3
    <2> QED BY <2>3, <2>4, <2>5, <2>6, <2>7 DEF TypeOK
  <1>13. CASE UNCHANGED vars BY <1>0, <1>13 DEF TypeOK, vars
  <1> QED BY <1>1, <1>2, <1>3, <1>4, <1>5, <1>6, <1>8, <1>9, <1>10, <1>11, <1>12, <1>13
          DEF Next, Scheduler, Clients

(* One turn of a pass over the batch moves the visited sequence from todo  *)
(* to running or out of the batch.                                         *)
LEMMA PassStep ==
  ASSUME IInv, pc \in {"reserve", "sample", "fail"},
         todo' = Tail(todo), queue' = queue, job' = job,
         Tail(todo) # << >> <=> pc' \in {"reserve", "sample", "fail"},
         pc' = "decode" => running' # << >>,
         \/ running' = running /\ state' = [state EXCEPT ![Head(todo)] = "done"]
         \/ running' = Append(running, Head(todo)) /\ state' = state
  PROVE  SchedulerInv'
  <1> DEFINE r == Head(todo)
  <1>1. TypeOK /\ SchedulerInv BY DEF IInv
  <1>2. /\ r \in Requests /\ state[r] = "running" /\ r \notin Elems(running)
        /\ todo # << >>
    BY HeadOfTodo
  <1>3. Distinct(todo') /\ Elems(todo') = Elems(todo) \ {r} /\ r \in Elems(todo)
    BY <1>1, <1>2, TailElems DEF TypeOK, SchedulerInv
  <1>t. running \in Seq(Requests) /\ Distinct(running) BY <1>1 DEF TypeOK, SchedulerInv
  <1> HIDE DEF r
  <1>a. /\ Elems(Append(running, r)) = Elems(running) \cup {r}
        /\ Distinct(Append(running, r))
    BY <1>2, <1>t, AppendElems
  <1>4. \/ Elems(running') = Elems(running) /\ state' = [state EXCEPT ![r] = "done"]
        \/ Elems(running') = Elems(running) \cup {r} /\ state' = state
    BY <1>a DEF Elems, r
  <1>5. Distinct(running')
    BY <1>1, <1>a DEF SchedulerInv, Distinct, r
  <1>6. state \in [Requests -> {"new", "queued", "running", "done"}] BY <1>1 DEF TypeOK
  <1>7. Elems(running') \cap Elems(todo') = {} BY <1>1, <1>2, <1>3, <1>4 DEF SchedulerInv
  <1>8. \A q \in Requests : state'[q] = "running" <=> q \in Elems(running') \cup Elems(todo')
    BY <1>1, <1>2, <1>3, <1>4, <1>6 DEF SchedulerInv, Active
  <1>9. \A q \in Requests : state'[q] = "queued" <=> q \in Elems(queue)
    BY <1>1, <1>2, <1>4, <1>6 DEF SchedulerInv
  <1>10. \A q \in Requests : state'[q] # "new" => job[q] \in Jobs
    BY <1>1, <1>2, <1>4, <1>6 DEF SchedulerInv
  <1>11. Distinct(queue') /\ Elems(queue') = Elems(queue)
    BY <1>1 DEF SchedulerInv, Distinct, Elems
  <1>12. Active' = Elems(running') \cup Elems(todo') BY DEF Active, Elems
  <1> QED BY <1>3, <1>5, <1>7, <1>8, <1>9, <1>10, <1>11, <1>12 DEF SchedulerInv, Elems, Distinct

(* Every step keeps the request states, the channel and the batch in       *)
(* agreement.                                                              *)
LEMMA SchedulerStep == IInv /\ [Next]_vars => SchedulerInv'
  <1> SUFFICES ASSUME IInv, [Next]_vars PROVE SchedulerInv' OBVIOUS
  <1> USE DEF alloc, progress
  <1>0. TypeOK /\ SchedulerInv BY DEF IInv
  <1>t. /\ queue \in Seq(Requests) /\ running \in Seq(Requests) /\ todo \in Seq(Requests)
        /\ state \in [Requests -> {"new", "queued", "running", "done"}]
        /\ job \in [Requests -> Jobs \cup {None}]
    BY <1>0 DEF TypeOK
  <1>1. ASSUME NEW r \in Requests, NEW j \in Asks[r], submit(r, j) PROVE SchedulerInv'
    <2>1. /\ state[r] = "new" /\ state' = [state EXCEPT ![r] = "queued"]
          /\ job' = [job EXCEPT ![r] = j] /\ queue' = Append(queue, r)
          /\ UNCHANGED << pc, running, todo >> /\ j \in Jobs
      BY <1>1, EngineAssumption DEF submit
    <2>2. r \notin Elems(queue) /\ r \notin Active BY <1>0, <2>1 DEF SchedulerInv
    <2>3. Elems(queue') = Elems(queue) \cup {r} /\ Distinct(queue')
      BY <1>0, <1>t, <2>1, <2>2, AppendElems DEF SchedulerInv
    <2>4. Active' = Active BY <2>1 DEF Active, Elems
    <2>5. /\ \A q \in Requests : state'[q] = "queued" <=> q \in Elems(queue')
          /\ \A q \in Requests : state'[q] = "running" <=> q \in Active'
          /\ \A q \in Requests : state'[q] # "new" => job'[q] \in Jobs
      BY <1>0, <1>t, <2>1, <2>2, <2>3, <2>4 DEF SchedulerInv
    <2>6. /\ Elems(running') \cap Elems(todo') = {} /\ Distinct(running') /\ Distinct(todo')
          /\ todo' # << >> <=> pc' \in {"reserve", "sample", "fail"}
          /\ pc' = "decode" => running' # << >>
      BY <1>0, <2>1 DEF SchedulerInv
    <2> QED BY <2>3, <2>5, <2>6 DEF SchedulerInv, Elems, Distinct, Active
  <1>2. ASSUME NEW r \in Requests, Reader(r) PROVE SchedulerInv'
    BY <1>0, <1>2, ReaderOnly DEF SchedulerInv, Active, Elems, Distinct
  <1>3. CASE DropEngine
    BY <1>0, <1>3 DEF SchedulerInv, DropEngine, Active, Elems, Distinct
  <1>4. CASE Admit
    <2> DEFINE r == Head(queue)
    <2>1. queue # << >> /\ prefill(r) /\ queue' = Tail(queue) /\ pc = "admit"
          /\ UNCHANGED << pc, todo, job >>
      BY <1>4 DEF Admit
    <2>2. /\ r \in Requests /\ r \in Elems(queue) /\ state[r] = "queued"
          /\ Elems(queue') = Elems(queue) \ {r} /\ Distinct(queue')
      BY <1>0, <1>t, <2>1, TailElems DEF SchedulerInv
    <2>3. r \notin Active BY <1>0, <2>2 DEF SchedulerInv
    <2>4. \/ state' = [state EXCEPT ![r] = "done"] /\ running' = running
          \/ state' = [state EXCEPT ![r] = "running"] /\ running' = Append(running, r)
      BY <2>1 DEF prefill, prefill_zero_tokens, prefill_too_long, prefill_exhausted,
                  prefill_fails, prefill_ok, Rejected
    <2> HIDE DEF r
    <2>5. CASE state' = [state EXCEPT ![r] = "done"] /\ running' = running
      <3>1. Active' = Active BY <2>1, <2>5 DEF Active, Elems
      <3>2. /\ \A q \in Requests : state'[q] = "queued" <=> q \in Elems(queue')
            /\ \A q \in Requests : state'[q] = "running" <=> q \in Active'
            /\ \A q \in Requests : state'[q] # "new" => job'[q] \in Jobs
        BY <1>0, <1>t, <2>1, <2>2, <2>3, <2>5, <3>1 DEF SchedulerInv
      <3> QED BY <1>0, <2>1, <2>2, <2>5, <3>2 DEF SchedulerInv, Elems, Distinct
    <2>6. CASE state' = [state EXCEPT ![r] = "running"] /\ running' = Append(running, r)
      <3>1. r \notin Elems(running) /\ r \notin Elems(todo) BY <2>3 DEF Active
      <3>2. Elems(running') = Elems(running) \cup {r} /\ Distinct(running')
        BY <1>0, <1>t, <2>2, <2>6, <3>1, AppendElems DEF SchedulerInv
      <3>3. Elems(todo') = Elems(todo) /\ Distinct(todo')
        BY <1>0, <2>1 DEF Elems, Distinct, SchedulerInv
      <3>4. Active' = Active \cup {r} BY <3>2, <3>3 DEF Active, Elems
      <3>5. /\ \A q \in Requests : state'[q] = "queued" <=> q \in Elems(queue')
            /\ \A q \in Requests : state'[q] = "running" <=> q \in Active'
            /\ \A q \in Requests : state'[q] # "new" => job'[q] \in Jobs
        BY <1>0, <1>t, <2>1, <2>2, <2>3, <2>6, <3>4 DEF SchedulerInv
      <3>6. Elems(running') \cap Elems(todo') = {}
        BY <1>0, <3>1, <3>2, <3>3 DEF SchedulerInv
      <3> QED BY <1>0, <2>1, <2>2, <3>2, <3>3, <3>5, <3>6 DEF SchedulerInv, Elems, Distinct
    <2> QED BY <2>4, <2>5, <2>6
  <1>5. ASSUME pc \in {"admit", "decode"}, pc' \in {"reserve", "sample", "fail"},
               running # << >>, todo' = running, running' = << >>,
               UNCHANGED << queue, job, state >>
        PROVE  SchedulerInv'
    <2>1. todo = << >> BY <1>0, <1>5 DEF SchedulerInv
    <2>2. /\ Elems(running') = {} /\ Distinct(running')
          /\ Elems(todo') = Elems(running) /\ Elems(todo) = {} /\ Distinct(todo')
      BY <1>0, <1>5, <2>1, EmptyElems DEF SchedulerInv, Elems, Distinct
    <2>3. Active' = Active BY <2>2 DEF Active, Elems
    <2> QED BY <1>0, <1>5, <2>2, <2>3 DEF SchedulerInv, Elems, Distinct
  <1>6. CASE StartPass BY <1>5, <1>6 DEF StartPass
  <1>7. CASE Stop
    BY <1>0, <1>7 DEF SchedulerInv, Stop, Active, Elems, Distinct
  <1>8. CASE Reserve
    <2> DEFINE r == Head(todo)
    <2>1. pc = "reserve" /\ todo' = Tail(todo) /\ UNCHANGED << queue, job >>
      BY <1>8 DEF Reserve
    <2>2. \/ running' = running /\ state' = [state EXCEPT ![r] = "done"]
          \/ running' = Append(running, r) /\ state' = state
      BY <1>8 DEF Reserve, reserve_context, reserve_exhausted, reserve_ok, Evict, Leave
    <2>3. \E k : pc' = AfterReserve(k)
      BY <1>8 DEF Reserve, reserve_context, reserve_exhausted, reserve_ok, Evict
    <2>4. Tail(todo) # << >> <=> pc' \in {"reserve", "sample", "fail"}
      BY <2>1, <2>3 DEF AfterReserve, NextPass
    <2>5. pc' = "decode" => running' # << >>
      BY <1>8 DEF Reserve, reserve_context, reserve_exhausted, reserve_ok, Evict,
                  AfterReserve, NextPass
    <2> QED BY <2>1, <2>2, <2>4, <2>5, PassStep
  <1>9. CASE decode_ok \/ decode_fails
    <2>1. running # << >> BY <1>0, <1>9 DEF decode_ok, decode_fails, SchedulerInv
    <2> QED BY <1>5, <1>9, <2>1 DEF decode_ok, decode_fails
  <1>11. CASE Fail
    <2>1. Tail(todo) # << >> <=> pc' \in {"reserve", "sample", "fail"}
      BY <1>11 DEF Fail, NextPass
    <2>2. pc' # "decode" BY <1>11 DEF Fail, NextPass
    <2> QED BY <1>11, <2>1, <2>2, PassStep DEF Fail, Leave
  <1>12. CASE Sample
    <2> DEFINE r == Head(todo)
    <2>1. Tail(todo) # << >> <=> pc' \in {"reserve", "sample", "fail"}
      BY <1>12 DEF Sample, NextPass
    <2>2. \/ running' = running /\ state' = [state EXCEPT ![r] = "done"]
          \/ running' = Append(running, r) /\ state' = state
      BY <1>12 DEF Sample, Leave
    <2>3. pc' # "decode" BY <1>12 DEF Sample, NextPass
    <2> QED BY <1>12, <2>1, <2>2, <2>3, PassStep DEF Sample
  <1>13. CASE UNCHANGED vars
    BY <1>0, <1>13 DEF SchedulerInv, vars, Active, Elems, Distinct
  <1> QED BY <1>1, <1>2, <1>3, <1>4, <1>6, <1>7, <1>8, <1>9, <1>11, <1>12, <1>13
          DEF Next, Scheduler, Clients

(* Every step keeps the single owner of every block, and a request holds   *)
(* blocks only while it runs.                                              *)
LEMMA BlocksStep == IInv /\ [Next]_vars => BlocksConserved' /\ BlocksFollowSequences'
  <1> DEFINE Held == \A q \in Requests : table[q] # << >> => state[q] = "running"
  <1> SUFFICES ASSUME IInv, [Next]_vars PROVE BlocksConserved' /\ BlocksFollowSequences'
    OBVIOUS
  <1> USE DEF alloc, progress
  <1>0. /\ TypeOK /\ Conserved(free, table) /\ Held
        /\ free \in Seq(Blocks) /\ table \in [Requests -> Seq(Blocks)]
        /\ state \in [Requests -> {"new", "queued", "running", "done"}]
    BY DEF IInv, TypeOK, SchedulerInv, BlocksConserved, BlocksFollowSequences
  <1>s. SUFFICES Conserved(free', table') /\ Held'
    <2>1. SchedulerInv' BY SchedulerStep
    <2>2. Held' => BlocksFollowSequences' BY <2>1 DEF BlocksFollowSequences, SchedulerInv
    <2>3. Conserved(free', table') => BlocksConserved' 
      BY DEF BlocksConserved, Conserved, Elems, Distinct
    <2> QED BY <2>2, <2>3
  <1>1. ASSUME NEW r \in Requests, NEW j \in Asks[r], submit(r, j)
        PROVE  Conserved(free', table') /\ Held'
    BY <1>0, <1>1 DEF submit
  <1>2. ASSUME NEW r \in Requests, Reader(r) PROVE Conserved(free', table') /\ Held'
    BY <1>0, <1>2, ReaderOnly
  <1>4. CASE Admit
    <2> DEFINE r == Head(queue)
               n == job[r].prompt
    <2>1. queue # << >> /\ prefill(r) BY <1>4 DEF Admit
    <2>2. r \in Requests /\ state[r] = "queued" BY <2>1, HeadOfQueue
    <2>3. n \in Nat BY <2>2, JobType
    <2>4. table[r] = << >> BY <1>0, <2>2
    <2> HIDE DEF r
    <2>5. ASSUME Rejected(r) PROVE table' = table /\ Held'
      BY <1>0, <2>2, <2>4, <2>5 DEF Rejected
    <2>6. CASE prefill_zero_tokens(r) \/ prefill_too_long(r) \/ prefill_exhausted(r)
      BY <1>0, <2>5, <2>6 DEF prefill_zero_tokens, prefill_too_long, prefill_exhausted
    <2> DEFINE g == Grown(free, table[r], n)
               f == Popped(free, table[r], n)
               t == [table EXCEPT ![r] = g]
    <2>7. ASSUME Fits(free, table[r], n)
          PROVE  /\ f \in Seq(Blocks) /\ t \in [Requests -> Seq(Blocks)]
                 /\ Conserved(f, t)
      <3>1. g \in Seq(Blocks) /\ f \in Seq(Blocks) BY <1>0, <2>2, <2>3, <2>7, GrowType
      <3>2. t \in [Requests -> Seq(Blocks)] BY <1>0, <3>1
      <3> QED BY <1>0, <2>2, <2>3, <2>7, <3>1, <3>2, GrowConserves
    <2>8. CASE prefill_fails(r)
      <3>1. Fits(free, table[r], n) /\ free' = Released(f, g) /\ Rejected(r)
        BY <2>4, <2>8 DEF prefill_fails
      <3>2. t[r] = g /\ [t EXCEPT ![r] = << >>] = table BY <1>0, <2>2, <2>4
      <3> HIDE DEF f, t
      <3>3. Conserved(Released(f, t[r]), [t EXCEPT ![r] = << >>])
        BY <2>2, <2>7, <3>1, ReleaseConserves
      <3> QED BY <2>5, <3>1, <3>2, <3>3
    <2>9. CASE prefill_ok(r)
      <3>1. /\ Fits(free, table[r], n) /\ free' = f /\ table' = t
            /\ state' = [state EXCEPT ![r] = "running"]
        BY <2>4, <2>9 DEF prefill_ok
      <3>2. Held' BY <1>0, <2>2, <3>1
      <3> QED BY <2>7, <3>1, <3>2
    <2> QED BY <2>1, <2>6, <2>8, <2>9 DEF prefill
  <1>7. ASSUME NEW r \in Requests, Leave(r) PROVE Conserved(free', table') /\ Held'
    <2>1. Conserved(free', table') BY <1>0, <1>7, ReleaseConserves DEF Leave
    <2>2. Held' BY <1>0, <1>7 DEF Leave
    <2> QED BY <2>1, <2>2
  <1>8. CASE Reserve
    <2> DEFINE r == Head(todo)
    <2>1. r \in Requests /\ state[r] = "running" BY <1>8, HeadOfTodo DEF Reserve
    <2> HIDE DEF r
    <2>2. CASE reserve_context(r) \/ reserve_exhausted(r)
      BY <1>7, <2>1, <2>2 DEF reserve_context, reserve_exhausted, Evict
    <2>3. CASE reserve_ok(r)
      <3>1. pos[r] + 1 \in Nat BY <1>0, <2>1 DEF TypeOK
      <3>2. /\ Fits(free, table[r], pos[r] + 1)
            /\ free' = Popped(free, table[r], pos[r] + 1)
            /\ table' = [table EXCEPT ![r] = Grown(free, table[r], pos[r] + 1)]
            /\ state' = state
        BY <2>3 DEF reserve_ok
      <3>3. Conserved(free', table') BY <1>0, <2>1, <3>1, <3>2, GrowConserves
      <3>4. Held' BY <1>0, <2>1, <3>2
      <3> QED BY <3>3, <3>4
    <2> QED BY <1>8, <2>2, <2>3 DEF Reserve, r
  <1>11. CASE Fail
    <2>1. Head(todo) \in Requests BY <1>11, HeadOfTodo DEF Fail
    <2> QED BY <1>7, <1>11, <2>1 DEF Fail
  <1>12. CASE Sample
    <2>1. Head(todo) \in Requests BY <1>12, HeadOfTodo DEF Sample
    <2>2. Leave(Head(todo)) \/ UNCHANGED << free, table, state >> BY <1>12 DEF Sample
    <2> QED BY <1>0, <1>7, <2>1, <2>2
  <1>13. CASE DropEngine \/ StartPass \/ Stop \/ decode_ok \/ decode_fails \/ UNCHANGED vars
    BY <1>0, <1>13 DEF DropEngine, StartPass, Stop, decode_ok, decode_fails, vars
  <1> QED BY <1>1, <1>2, <1>4, <1>8, <1>11, <1>12, <1>13 DEF Next, Scheduler, Clients

(* The invariant holds in every reachable state.                           *)
LEMMA IInvAlways == Spec => []IInv
  <1>1. IInv /\ [Next]_vars => IInv' BY TypeStep, SchedulerStep, BlocksStep DEF IInv
  <1> QED BY InitIInv, <1>1, PTL DEF Spec

(***************************************************************************)
(* Type correctness of the scheduler, for every pool size, block size,     *)
(* batch size, context length and set of requests.                         *)
(***************************************************************************)
THEOREM TypeCorrect == Spec => []TypeOK
  <1>1. IInv => TypeOK BY DEF IInv
  <1> QED BY IInvAlways, <1>1, PTL

(***************************************************************************)
(* Block ownership: run_loop and prefill never free a block twice, never   *)
(* give one block to two sequences and never lose one, whatever clients    *)
(* submit, cancel or drop and wherever a forward pass fails.               *)
(***************************************************************************)
THEOREM BlockOwnership == Spec => []BlocksConserved
  <1>1. IInv => BlocksConserved BY DEF IInv
  <1> QED BY IInvAlways, <1>1, PTL

(***************************************************************************)
(* No block outlives its sequence: a request that was refused, evicted,    *)
(* failed, finished or left by its client holds none.                      *)
(***************************************************************************)
THEOREM NoBlockLeaked == Spec => []BlocksFollowSequences
  <1>1. IInv => BlocksFollowSequences BY DEF IInv
  <1> QED BY IInvAlways, <1>1, PTL

-----------------------------------------------------------------------------
(* The K/V rows.                                                           *)


(* blocks_for rounds up, so a table with blocks_for(n) blocks has a slot   *)
(* for each of the positions 0 .. n-1 (BlockAllocator::locate).            *)
LEMMA CoveredInBounds ==
  ASSUME NEW t \in Seq(Blocks), NEW n \in Nat, blocks_for(n) <= Len(t),
         NEW p \in 0 .. (n - 1)
  PROVE  InBounds(t, p) /\ locate(t, p) \in Cells
  <1>1. BlockSize \in Nat /\ BlockSize > 0 /\ n \in Nat /\ p \in Nat /\ p + 1 <= n
    BY PoolAssumption
  <1>2. p \div BlockSize \in Nat /\ p % BlockSize \in 0 .. (BlockSize - 1) BY <1>1
  <1>3. p \div BlockSize < (n + BlockSize - 1) \div BlockSize
    <2> DEFINE a == p \div BlockSize
               b == (n + BlockSize - 1) \div BlockSize
    <2>1. BlockSize * a <= p BY <1>1
    <2>2. n + BlockSize - 1 < BlockSize * (b + 1) BY <1>1
    <2>3. a \in Int /\ b \in Int BY <1>1
    <2> HIDE DEF a, b
    <2>4. BlockSize * a + BlockSize < BlockSize * (b + 1) BY <1>1, <2>1, <2>2, <2>3
    <2>5. BlockSize * (a + 1) < BlockSize * (b + 1) BY <1>1, <2>3, <2>4
    <2>6. a + 1 < b + 1 BY <1>1, <2>3, <2>5
    <2> QED BY <2>3, <2>6 DEF a, b
  <1>4. InBounds(t, p) BY <1>3, <1>1, <1>2, BlocksForNat DEF InBounds, blocks_for
  <1>5. (p \div BlockSize) + 1 \in 1 .. Len(t) BY <1>2, <1>4 DEF InBounds
  <1>6. t[(p \div BlockSize) + 1] \in Blocks BY <1>5
  <1> QED BY <1>2, <1>4, <1>6 DEF locate, Cells, Slots

(* The block index of a position is a natural number.                      *)
LEMMA BlockIndexNat == ASSUME NEW p \in Nat PROVE p \div BlockSize \in Nat
  <1>1. BlockSize \in Nat /\ BlockSize > 0 BY PoolAssumption
  <1> QED BY <1>1

(* A position is determined by its block index and its slot.               *)
LEMMA SlotOfPosition ==
  ASSUME NEW p \in Nat, NEW q \in Nat,
         p \div BlockSize = q \div BlockSize, p % BlockSize = q % BlockSize
  PROVE  p = q
  <1>1. BlockSize \in Nat /\ BlockSize > 0 BY PoolAssumption
  <1>2. p = BlockSize * (p \div BlockSize) + (p % BlockSize) BY <1>1
  <1>3. q = BlockSize * (q \div BlockSize) + (q % BlockSize) BY <1>1
  <1> QED BY <1>2, <1>3

(* Two positions that are stored at all never share a slot, neither in one *)
(* sequence nor across two: each block has one owner, once.                *)
LEMMA LocateInjective ==
  ASSUME NEW f \in Seq(Blocks), NEW t \in [Requests -> Seq(Blocks)], Conserved(f, t),
         NEW r \in Requests, NEW q \in Requests, NEW i \in Nat, NEW j \in Nat,
         InBounds(t[r], i), InBounds(t[q], j), locate(t[r], i) = locate(t[q], j)
  PROVE  r = q /\ i = j
  <1> DEFINE a == i \div BlockSize
             b == j \div BlockSize
  <1>2. a \in Nat /\ b \in Nat BY BlockIndexNat
  <1>3. t[r] \in Seq(Blocks) /\ t[q] \in Seq(Blocks) OBVIOUS
  <1>4. a < Len(t[r]) /\ b < Len(t[q]) BY DEF InBounds
  <1>5. t[r][a + 1] = t[q][b + 1] /\ i % BlockSize = j % BlockSize BY DEF locate
  <1> HIDE DEF a, b
  <1>6. a + 1 \in DOMAIN t[r] /\ b + 1 \in DOMAIN t[q] BY <1>2, <1>3, <1>4, LenProperties
  <1>7. r = q BY <1>5, <1>6, ConservedByIndex
  <1>8. a + 1 = b + 1 BY <1>5, <1>6, <1>7, ConservedByIndex DEF Distinct
  <1>9. a = b BY <1>2, <1>8
  <1>10. i = j BY <1>5, <1>9, SlotOfPosition DEF a, b
  <1> QED BY <1>7, <1>10

(* A successful ensure_capacity covers n tokens and moves none of the      *)
(* positions the table already held.                                       *)
LEMMA GrowCovers ==
  ASSUME NEW n \in Nat, NEW f \in Seq(Blocks), NEW t \in Seq(Blocks), Fits(f, t, n)
  PROVE  /\ blocks_for(n) <= Len(Grown(f, t, n))
         /\ Len(t) <= Len(Grown(f, t, n))
         /\ \A p \in Nat : InBounds(t, p) =>
              InBounds(Grown(f, t, n), p) /\ locate(Grown(f, t, n), p) = locate(t, p)
  <1> DEFINE g == Grown(f, t, n)
             e == Extra(t, n)
  <1>1. Len(g) = Len(t) + e /\ e \in Nat /\ Len(t) \in Nat BY GrowType, ExtraNat
  <1>2. blocks_for(n) \in Nat BY BlocksForNat
  <1>3. blocks_for(n) <= Len(t) + e BY <1>1, <1>2 DEF Extra
  <1>4. \A i \in 1 .. Len(t) : g[i] = t[i] BY <1>1 DEF Grown
  <1> HIDE DEF g, e
  <1>5. ASSUME NEW p \in Nat, InBounds(t, p)
        PROVE  InBounds(g, p) /\ locate(g, p) = locate(t, p)
    <2>2. p \div BlockSize \in Nat BY BlockIndexNat
    <2>3. (p \div BlockSize) + 1 \in 1 .. Len(t) BY <1>1, <1>5, <2>2 DEF InBounds
    <2>4. InBounds(g, p) BY <1>1, <1>5, <2>2 DEF InBounds
    <2> QED BY <1>4, <2>3, <2>4 DEF locate
  <1>6. blocks_for(n) <= Len(g) /\ Len(t) <= Len(g) BY <1>1, <1>2, <1>3
  <1> QED BY <1>5, <1>6 DEF g
-----------------------------------------------------------------------------
(* What prefill_seq and decode_step leave in the pool. *)

(* prefill_seq writes row p of r at the slot of p, for each p below n ...  *)
LEMMA KvWriteRow ==
  ASSUME NEW f \in Seq(Blocks), NEW t \in [Requests -> Seq(Blocks)], Conserved(f, t),
         NEW r \in Requests, NEW n \in Nat, blocks_for(n) <= Len(t[r]),
         NEW p \in 0 .. (n - 1)
  PROVE  KvWrite(t[r], r, 0, n)[locate(t[r], p)] = << r, p >>
  <1> DEFINE c == locate(t[r], p)
             Hit(i) == locate(t[r], i) = c
             k == CHOOSE i \in 0 .. (n - 1) : Hit(i)
  <1>1. t[r] \in Seq(Blocks) OBVIOUS
  <1>2. \A i \in 0 .. (n - 1) : InBounds(t[r], i) /\ i \in Nat BY <1>1, CoveredInBounds
  <1>3. c \in Cells BY <1>1, CoveredInBounds
  <1>4. k \in 0 .. (n - 1) /\ Hit(k) OBVIOUS
  <1>5. KvWrite(t[r], r, 0, n)[c] = << r, k >> BY <1>3 DEF KvWrite
  <1> HIDE DEF k
  <1>6. k = p BY <1>2, <1>4, LocateInjective
  <1> QED BY <1>5, <1>6

(* ... and no row of another request.                                      *)
LEMMA KvWriteOther ==
  ASSUME NEW f \in Seq(Blocks), NEW t \in [Requests -> Seq(Blocks)], Conserved(f, t),
         NEW r \in Requests, NEW n \in Nat, blocks_for(n) <= Len(t[r]),
         NEW m \in 0 .. n,
         NEW q \in Requests, q # r, NEW p \in Nat, InBounds(t[q], p),
         locate(t[q], p) \in Cells
  PROVE  KvWrite(t[r], r, 0, m)[locate(t[q], p)] = kv[locate(t[q], p)]
  <1>1. t[r] \in Seq(Blocks) OBVIOUS
  <1>2. \A i \in 0 .. (m - 1) : i \in 0 .. (n - 1) /\ i \in Nat OBVIOUS
  <1>3. \A i \in 0 .. (m - 1) : InBounds(t[r], i) BY <1>1, <1>2, CoveredInBounds
  <1>4. ~ \E i \in 0 .. (m - 1) : locate(t[r], i) = locate(t[q], p)
    BY <1>2, <1>3, LocateInjective
  <1> QED BY <1>4 DEF KvWrite

\* The tables of the batch cover the positions decode_step writes.
BatchInBounds ==
  \A i \in 1 .. Len(running) : InBounds(table[running[i]], pos[running[i]])

(* decode_step writes the new row of each of the first n sequences at its  *)
(* position, and no other row that a sequence holds.                       *)
LEMMA KvDecodeRow ==
  ASSUME TypeOK, Conserved(free, table), BatchInBounds, NEW n \in 0 .. Len(running),
         NEW q \in Requests, NEW p \in Nat, InBounds(table[q], p),
         locate(table[q], p) \in Cells
  PROVE  /\ KvDecode(n)[locate(table[q], p)] \in {<< q, p >>, kv[locate(table[q], p)]}
         /\ \A i \in 1 .. n : running[i] = q /\ pos[q] = p =>
              KvDecode(n)[locate(table[q], p)] = << q, p >>
  <1> DEFINE c == locate(table[q], p)
             Hit(i) == locate(table[running[i]], pos[running[i]]) = c
             k == CHOOSE i \in 1 .. n : Hit(i)
  <1>0. running \in Seq(Requests) /\ pos \in [Requests -> Nat] BY DEF TypeOK
  <1>1. \A i \in 1 .. n : running[i] \in Requests /\ pos[running[i]] \in Nat
                          /\ InBounds(table[running[i]], pos[running[i]])
    <2> SUFFICES ASSUME NEW i \in 1 .. n
                 PROVE  running[i] \in Requests /\ pos[running[i]] \in Nat
                          /\ InBounds(table[running[i]], pos[running[i]])
      OBVIOUS
    <2>1. i \in 1 .. Len(running) BY <1>0
    <2>2. running[i] \in Requests BY <1>0, <2>1
    <2> QED BY <1>0, <2>1, <2>2 DEF BatchInBounds
  <1>2. CASE \E i \in 1 .. n : Hit(i)
    <2>1. k \in 1 .. n /\ Hit(k) BY <1>2
    <2>2. KvDecode(n)[c] = << running[k], pos[running[k]] >> BY <1>2 DEF KvDecode
    <2> HIDE DEF k
    <2>3. running[k] = q /\ pos[running[k]] = p
      BY <1>1, <2>1, LocateInjective DEF TypeOK
    <2> QED BY <2>2, <2>3
  <1>3. CASE ~ \E i \in 1 .. n : Hit(i)
    <2>1. KvDecode(n)[c] = kv[c] BY <1>3 DEF KvDecode
    <2> QED BY <1>3, <2>1
  <1> QED BY <1>2, <1>3
-----------------------------------------------------------------------------
(* The inductive invariant. *)

\* The table of r has a slot for each of n tokens.
Covered(r, n) == blocks_for(n) <= Len(table[r])

\* The row computed for position p of r is where r looks for it.
Row(r, p) == kv[locate(table[r], p)] = << r, p >>

Holds(r) == Covered(r, pos[r]) /\ \A p \in 0 .. (pos[r] - 1) : Row(r, p)
Room(r)  == pos[r] < MaxSeq /\ Covered(r, pos[r] + 1)
Fresh(r) == Covered(r, pos[r] + 1) /\ Row(r, pos[r])

(***************************************************************************)
(* KvInv: every sequence of the batch finds its rows; the sequences that   *)
(* the capacity pass has kept have room for one more; those whose token is *)
(* still to be sampled have their new row.                                 *)
(***************************************************************************)
KvInv ==
  /\ \A r \in Active : Holds(r)
  /\ pc \in {"reserve", "decode"} => \A r \in Elems(running) : Room(r)
  /\ pc = "sample" => \A r \in Elems(todo) : Fresh(r)

(* The sequences of the batch are requests.                                *)
LEMMA ActiveRequests ==
  ASSUME TypeOK
  PROVE  /\ Active \subseteq Requests
         /\ Elems(running) \subseteq Requests /\ Elems(todo) \subseteq Requests
  <1>1. running \in Seq(Requests) /\ todo \in Seq(Requests) BY DEF TypeOK
  <1>2. \A i \in DOMAIN running : running[i] \in Requests BY <1>1, LenProperties
  <1>3. \A i \in DOMAIN todo : todo[i] \in Requests BY <1>1, LenProperties
  <1> QED BY <1>2, <1>3 DEF Active, Elems

(* Where the rows of a sequence of the batch are.                          *)
LEMMA HeldInBounds ==
  ASSUME TypeOK, NEW q \in Requests, NEW n \in Nat, Covered(q, n), NEW p \in 0 .. (n - 1)
  PROVE  p \in Nat /\ InBounds(table[q], p) /\ locate(table[q], p) \in Cells
  <1>1. table[q] \in Seq(Blocks) BY DEF TypeOK
  <1> QED BY <1>1, CoveredInBounds DEF Covered

(* A step that leaves a sequence's table, position and rows alone.         *)
LEMMA HoldsKept ==
  ASSUME NEW q \in Requests, Holds(q), table'[q] = table[q], pos'[q] = pos[q],
         \A p \in 0 .. (pos[q] - 1) :
            kv'[locate(table[q], p)] = kv[locate(table[q], p)]
  PROVE  Holds(q)'
  BY DEF Holds, Covered, Row

(* Growing the table of a sequence moves none of its rows.                 *)
LEMMA HoldsGrown ==
  ASSUME TypeOK, NEW q \in Requests, Holds(q), NEW n \in Nat, Fits(free, table[q], n),
         table'[q] = Grown(free, table[q], n), pos'[q] = pos[q], kv' = kv
  PROVE  Holds(q)' /\ Covered(q, n)'
  <1>1. table[q] \in Seq(Blocks) /\ free \in Seq(Blocks) /\ pos[q] \in Nat BY DEF TypeOK
  <1>2. /\ blocks_for(n) <= Len(table'[q]) /\ Len(table[q]) <= Len(table'[q])
        /\ \A p \in Nat : InBounds(table[q], p) => locate(table'[q], p) = locate(table[q], p)
    BY <1>1, GrowCovers
  <1>3. Len(table[q]) \in Nat /\ Len(table'[q]) \in Nat /\ blocks_for(pos[q]) \in Nat
    <2>1. table'[q] \in Seq(Blocks) BY <1>1, GrowType
    <2>2. blocks_for(pos[q]) \in Nat BY <1>1, BlocksForNat
    <2> QED BY <1>1, <2>1, <2>2
  <1>4. Covered(q, pos[q]) BY DEF Holds
  <1>5. blocks_for(pos[q]) <= Len(table'[q]) BY <1>2, <1>3, <1>4 DEF Covered
  <1>6. \A p \in 0 .. (pos[q] - 1) : locate(table'[q], p) = locate(table[q], p)
    BY <1>1, <1>2, <1>4, HeldInBounds
  <1>7. Holds(q)' BY <1>5, <1>6 DEF Holds, Covered, Row
  <1> QED BY <1>2, <1>7 DEF Covered

(* Nothing is in the batch at the start.                                   *)
LEMMA InitKvInv == Init => KvInv
  BY EmptyElems DEF Init, KvInv, Active

(* A sequence leaves the batch: the others keep what they have.            *)
LEMMA LeaveKeeps ==
  ASSUME IInv, KvInv, NEW r \in Requests, Leave(r), kv' = kv,
         \A q \in Requests : q # r => pos'[q] = pos[q]
  PROVE  \A q \in Active \ {r} : Holds(q)' /\ table'[q] = table[q] /\ pos'[q] = pos[q]
  <1>1. TypeOK BY DEF IInv
  <1> SUFFICES ASSUME NEW q \in Active, q # r
               PROVE  Holds(q)' /\ table'[q] = table[q] /\ pos'[q] = pos[q]
    OBVIOUS
  <1>2. q \in Requests BY <1>1, ActiveRequests
  <1>3. table'[q] = table[q] /\ pos'[q] = pos[q] BY <1>1, <1>2 DEF TypeOK, Leave
  <1> QED BY <1>2, <1>3, HoldsKept DEF KvInv

(* prefill writes only into blocks that were free, and hands the batch a   *)
(* sequence whose whole prompt is in the pool.                             *)
LEMMA AdmitKv ==
  ASSUME IInv, KvInv, Admit, NEW r \in Requests, r = Head(queue)
  PROVE  KvInv'
  <1> USE DEF alloc, progress
  <1> DEFINE n == job[r].prompt
             g == Grown(free, << >>, n)
             f == Popped(free, << >>, n)
             t == [table EXCEPT ![r] = g]
  <1>0. TypeOK /\ Conserved(free, table) /\ table \in [Requests -> Seq(Blocks)]
        /\ free \in Seq(Blocks) /\ pos \in [Requests -> Nat]
    BY DEF IInv, BlocksConserved, TypeOK
  <1>1. queue # << >> /\ prefill(r) /\ pc = "admit" /\ pc' = "admit" /\ todo' = todo
    BY DEF Admit
  <1>2. state[r] = "queued" BY <1>1, HeadOfQueue
  <1>3. n \in Nat /\ << >> \in Seq(Blocks) BY <1>2, JobType
  <1>4. r \notin Active BY <1>2 DEF IInv, SchedulerInv
  <1>5. table[r] = << >> BY <1>2, <1>4 DEF IInv, BlocksFollowSequences
  <1>6. \A q \in Active : q \in Requests /\ q # r /\ Holds(q)
    BY <1>0, <1>4, ActiveRequests DEF KvInv
  <1> HIDE DEF n
  <1>7. ASSUME Fits(free, << >>, n)
        PROVE  /\ f \in Seq(Blocks) /\ t \in [Requests -> Seq(Blocks)] /\ t[r] = g
               /\ Conserved(f, t) /\ blocks_for(n) <= Len(t[r])
               /\ \A q \in Requests : q # r => t[q] = table[q]
    <2>1. g \in Seq(Blocks) /\ f \in Seq(Blocks) BY <1>0, <1>3, <1>7, GrowType
    <2>2. t \in [Requests -> Seq(Blocks)] /\ t[r] = g BY <1>0, <1>2, <2>1
    <2>3. Conserved(f, t) BY <1>0, <1>2, <1>3, <1>5, <1>7, GrowConserves
    <2>4. blocks_for(n) <= Len(g) BY <1>0, <1>3, <1>7, GrowCovers
    <2> HIDE DEF g, f
    <2>5. \A q \in Requests : q # r => t[q] = table[q] BY <1>0, <1>2
    <2> QED BY <2>1, <2>2, <2>3, <2>4, <2>5
  <1> HIDE DEF g, f, t
  <1>8. ASSUME Fits(free, << >>, n), NEW m \in 0 .. n, kv' = KvWrite(g, r, 0, m),
               NEW q \in Active, table'[q] = table[q], pos'[q] = pos[q]
        PROVE  Holds(q)'
    <2>1. q \in Requests /\ q # r /\ Holds(q) /\ t[q] = table[q] /\ pos[q] \in Nat
      BY <1>0, <1>6, <1>7, <1>8
    <2>2. \A p \in 0 .. (pos[q] - 1) :
            p \in Nat /\ InBounds(t[q], p) /\ locate(t[q], p) \in Cells
      BY <1>0, <2>1, HeldInBounds DEF Holds
    <2>3. \A p \in 0 .. (pos[q] - 1) :
            KvWrite(t[r], r, 0, m)[locate(t[q], p)] = kv[locate(t[q], p)]
      <3> TAKE p \in 0 .. (pos[q] - 1)
      <3>1. /\ f \in Seq(Blocks) /\ t \in [Requests -> Seq(Blocks)]
            /\ Conserved(f, t) /\ blocks_for(n) <= Len(t[r])
        BY <1>7, <1>8
      <3>2. p \in Nat /\ InBounds(t[q], p) /\ locate(t[q], p) \in Cells BY <2>2
      <3>3. m \in 0 .. n /\ q \in Requests /\ q # r /\ n \in Nat BY <1>3, <1>8, <2>1
      <3> HIDE DEF t
      <3> QED BY ONLY <3>1, <3>2, <3>3, r \in Requests, KvWriteOther, SMTT(30)
    <2> QED BY <1>7, <1>8, <2>1, <2>3, HoldsKept
  <1>9. ASSUME UNCHANGED << running, table, pos >>, \A q \in Active : Holds(q)'
        PROVE  KvInv'
    <2>1. Active' = Active BY <1>1, <1>9 DEF Active, Elems
    <2> QED BY <1>1, <1>9, <2>1 DEF KvInv
  <1>10. CASE prefill_zero_tokens(r) \/ prefill_too_long(r) \/ prefill_exhausted(r)
    <2>1. UNCHANGED << running, table, pos, kv >>
      BY <1>10 DEF prefill_zero_tokens, prefill_too_long, prefill_exhausted, Rejected
    <2>2. \A q \in Active : Holds(q)' BY <1>6, <2>1, HoldsKept
    <2> QED BY <1>9, <2>1, <2>2
  <1>11. CASE prefill_fails(r)
    <2>1. Fits(free, << >>, n) /\ UNCHANGED << running, table, pos >>
      BY <1>11 DEF prefill_fails, Rejected, n
    <2>2. PICK m \in 0 .. n : kv' = KvWrite(g, r, 0, m) BY <1>11 DEF prefill_fails, g, n
    <2>3. \A q \in Active : Holds(q)' BY <1>8, <2>1, <2>2
    <2> QED BY <1>9, <2>1, <2>3
  <1>12. CASE prefill_ok(r)
    <2>1. /\ Fits(free, << >>, n) /\ kv' = KvWrite(g, r, 0, n) /\ table' = t
          /\ pos' = [pos EXCEPT ![r] = n] /\ running' = Append(running, r)
      BY <1>12 DEF prefill_ok, g, t, n
    <2>2. \A q \in Requests : q # r => table'[q] = table[q] /\ pos'[q] = pos[q]
      BY <1>0, <1>7, <2>1
    <2>3. n \in 0 .. n BY <1>3
    <2>4. \A q \in Active : Holds(q)' BY <1>6, <1>8, <2>1, <2>2, <2>3
    <2>5. pos'[r] = n /\ table'[r] = g BY <1>0, <1>2, <1>7, <2>1
    <2>6. \A p \in 0 .. (n - 1) : KvWrite(t[r], r, 0, n)[locate(t[r], p)] = << r, p >>
      BY <1>2, <1>3, <1>7, <2>1, KvWriteRow
    <2>7. Holds(r)'
      <3>1. Covered(r, pos[r])' BY <1>7, <2>1, <2>5 DEF Covered
      <3>2. \A p \in 0 .. (pos'[r] - 1) : kv'[locate(table'[r], p)] = << r, p >>
        BY <1>7, <2>1, <2>5, <2>6
      <3> QED BY <3>1, <3>2 DEF Holds, Row
    <2>8. Elems(running') = Elems(running) \cup {r} BY <1>0, <1>2, <2>1, AppendElems DEF TypeOK
    <2>9. Active' = Active \cup {r} BY <1>1, <2>8 DEF Active, Elems
    <2> QED BY <1>1, <2>4, <2>7, <2>9 DEF KvInv
  <1> QED BY <1>1, <1>10, <1>11, <1>12 DEF prefill

(* One turn of the capacity pass.                                          *)
LEMMA ReserveKv ==
  ASSUME IInv, KvInv, Reserve, NEW r \in Requests, r = Head(todo)
  PROVE  KvInv'
  <1> USE DEF alloc, progress
  <1>0. TypeOK /\ SchedulerInv /\ running \in Seq(Requests) /\ todo \in Seq(Requests)
        /\ table \in [Requests -> Seq(Blocks)]
        /\ free \in Seq(Blocks) /\ pos \in [Requests -> Nat]
    BY DEF IInv, TypeOK
  <1>1. pc = "reserve" /\ todo' = Tail(todo) /\ UNCHANGED << pos, kv >> BY DEF Reserve
  <1>2. todo # << >> /\ r \notin Elems(running) BY <1>1, HeadOfTodo
  <1>3. Elems(todo') = Elems(todo) \ {r} /\ r \in Elems(todo)
    BY <1>0, <1>1, <1>2, TailElems DEF SchedulerInv
  <1>4. r \in Active /\ Holds(r) BY <1>3 DEF Active, KvInv
  <1>5. pc' \in {"admit", "decode", "reserve"}
    BY <1>1 DEF Reserve, reserve_context, reserve_exhausted, reserve_ok, Evict,
                AfterReserve, NextPass
  <1>6. \A q \in Elems(running) : q \in Requests /\ q # r /\ Room(q)
    BY <1>0, <1>1, <1>2, ActiveRequests DEF KvInv
  <1>7. ASSUME \A q \in Requests : q # r => table'[q] = table[q]
        PROVE  /\ \A q \in Active \ {r} : Holds(q)'
               /\ \A q \in Elems(running) : Room(q)'
    <2>1. \A q \in Active \ {r} : Holds(q)'
      BY <1>0, <1>1, <1>7, ActiveRequests, HoldsKept DEF KvInv
    <2>2. \A q \in Elems(running) : Room(q)' BY <1>1, <1>6, <1>7 DEF Room, Covered
    <2> QED BY <2>1, <2>2
  <1>8. CASE reserve_context(r) \/ reserve_exhausted(r)
    <2>1. Leave(r) /\ running' = running
      BY <1>8 DEF reserve_context, reserve_exhausted, Evict
    <2>2. \A q \in Requests : q # r => table'[q] = table[q] BY <1>0, <2>1 DEF Leave
    <2>3. Elems(running') = Elems(running) BY <2>1 DEF Elems
    <2>4. Active' \subseteq Active \ {r} BY <1>2, <1>3, <2>3 DEF Active, Elems
    <2> QED BY <1>5, <1>7, <2>2, <2>3, <2>4 DEF KvInv
  <1>9. CASE reserve_ok(r)
    <2>1. /\ pos[r] + 1 <= MaxSeq /\ Fits(free, table[r], pos[r] + 1)
          /\ table' = [table EXCEPT ![r] = Grown(free, table[r], pos[r] + 1)]
          /\ running' = Append(running, r)
      BY <1>9 DEF reserve_ok
    <2>2. \A q \in Requests : q # r => table'[q] = table[q] BY <1>0, <2>1
    <2>3. table'[r] = Grown(free, table[r], pos[r] + 1) BY <1>0, <2>1
    <2>4. pos[r] \in Nat /\ pos[r] + 1 \in Nat /\ MaxSeq \in Nat BY <1>0, EngineAssumption
    <2>5. Holds(r)' /\ blocks_for(pos[r] + 1) <= Len(table'[r])
      BY <1>0, <1>1, <1>4, <2>1, <2>3, <2>4, HoldsGrown DEF Covered
    <2>6. Room(r)' BY <1>1, <2>1, <2>4, <2>5 DEF Room, Covered
    <2>7. Elems(running') = Elems(running) \cup {r} BY <1>0, <2>1, AppendElems
    <2>8. Active' \subseteq Active BY <1>3, <2>7 DEF Active, Elems
    <2> QED BY <1>5, <1>7, <2>2, <2>5, <2>6, <2>7, <2>8 DEF KvInv
  <1> QED BY <1>8, <1>9 DEF Reserve

(* decode_step leaves each sequence of the batch its rows, and a new one   *)
(* if it succeeds.                                                         *)
LEMMA DecodeKv ==
  ASSUME IInv, KvInv, decode_ok \/ decode_fails
  PROVE  KvInv'
  <1> USE DEF alloc, progress
  <1>0. TypeOK /\ SchedulerInv /\ Conserved(free, table) /\ running \in Seq(Requests)
        /\ pos \in [Requests -> Nat]
    BY DEF IInv, TypeOK, BlocksConserved
  <1>1. pc = "decode" /\ todo' = running /\ running' = << >> /\ UNCHANGED << table, pos >>
        /\ pc' \in {"sample", "fail"} /\ (pc' = "sample" <=> decode_ok)
    BY DEF decode_ok, decode_fails
  <1>2. PICK n \in 0 .. Len(running) : kv' = KvDecode(n) /\ (decode_ok => n = Len(running))
    BY <1>0, <1>1 DEF decode_ok, decode_fails
  <1>3. todo = << >> BY <1>0, <1>1 DEF SchedulerInv
  <1>4. Elems(running') = {} /\ Elems(todo') = Elems(running) /\ Elems(todo) = {}
    BY <1>1, <1>3, EmptyElems DEF Elems
  <1>5. Active = Elems(running) /\ Active' = Elems(running) BY <1>4 DEF Active, Elems
  <1>6. \A q \in Elems(running) : q \in Requests /\ pos[q] \in Nat /\ Room(q) /\ Holds(q)
    BY <1>0, <1>1, <1>5, ActiveRequests DEF KvInv
  <1>7. \A q \in Elems(running) : \A p \in 0 .. pos[q] :
          p \in Nat /\ InBounds(table[q], p) /\ locate(table[q], p) \in Cells
    <2> TAKE q \in Elems(running)
    <2> TAKE p \in 0 .. pos[q]
    <2>1. pos[q] + 1 \in Nat /\ p \in 0 .. ((pos[q] + 1) - 1) BY <1>6
    <2> QED BY <1>0, <1>6, <2>1, HeldInBounds DEF Room
  <1>8. \A i \in 1 .. Len(running) : running[i] \in Elems(running)
    BY <1>0, LenProperties DEF Elems
  <1>9. BatchInBounds BY <1>6, <1>7, <1>8 DEF BatchInBounds
  <1>10. ASSUME NEW q \in Elems(running), NEW p \in 0 .. pos[q]
         PROVE  /\ kv'[locate(table[q], p)] \in {<< q, p >>, kv[locate(table[q], p)]}
                /\ \A i \in 1 .. n : running[i] = q /\ pos[q] = p =>
                     kv'[locate(table[q], p)] = << q, p >>
    <2>1. /\ q \in Requests /\ p \in Nat /\ InBounds(table[q], p)
          /\ locate(table[q], p) \in Cells
      BY <1>6, <1>7
    <2>2. /\ KvDecode(n)[locate(table[q], p)] \in {<< q, p >>, kv[locate(table[q], p)]}
          /\ \A i \in 1 .. n : running[i] = q /\ pos[q] = p =>
               KvDecode(n)[locate(table[q], p)] = << q, p >>
      BY ONLY <1>0, <1>9, n \in 0 .. Len(running), <2>1, KvDecodeRow
    <2> QED BY <1>2, <2>2
  <1>11. ASSUME NEW q \in Elems(running) PROVE Holds(q)'
    <2>1. \A p \in 0 .. (pos[q] - 1) : p \in 0 .. pos[q] /\ Row(q, p) BY <1>6 DEF Holds
    <2>2. \A p \in 0 .. (pos[q] - 1) : kv'[locate(table[q], p)] = << q, p >>
      BY <1>10, <2>1 DEF Row
    <2> QED BY <1>1, <1>6, <2>2 DEF Holds, Covered, Row
  <1>12. ASSUME pc' = "sample", NEW q \in Elems(running) PROVE Fresh(q)'
    <2>1. PICK i \in 1 .. Len(running) : running[i] = q BY <1>0, LenProperties DEF Elems
    <2>2. i \in 1 .. n /\ pos[q] \in 0 .. pos[q] BY <1>1, <1>2, <1>6, <1>12, <2>1
    <2>3. kv'[locate(table[q], pos[q])] = << q, pos[q] >> BY <1>10, <2>1, <2>2
    <2> QED BY <1>1, <1>6, <2>3 DEF Fresh, Room, Covered, Row
  <1> QED BY <1>1, <1>4, <1>5, <1>11, <1>12 DEF KvInv

(* A sequence whose token is sampled has one more row; one whose batch     *)
(* failed is gone.                                                         *)
LEMMA SampleKv ==
  ASSUME IInv, KvInv, Sample \/ Fail, NEW r \in Requests, r = Head(todo)
  PROVE  KvInv'
  <1> USE DEF alloc, progress
  <1>0. TypeOK /\ SchedulerInv /\ running \in Seq(Requests) /\ todo \in Seq(Requests)
        /\ table \in [Requests -> Seq(Blocks)] /\ pos \in [Requests -> Nat]
    BY DEF IInv, TypeOK
  <1>1. pc \in {"sample", "fail"} /\ todo' = Tail(todo) /\ kv' = kv
        /\ pc' \in {"admit", pc}
    BY DEF Sample, Fail, NextPass
  <1>2. todo # << >> /\ r \notin Elems(running) BY <1>1, HeadOfTodo
  <1>3. Elems(todo') = Elems(todo) \ {r} /\ r \in Elems(todo)
    BY <1>0, <1>1, <1>2, TailElems DEF SchedulerInv
  <1>4. r \in Active /\ Holds(r) BY <1>3 DEF Active, KvInv
  <1>5. \A q \in Requests : q # r => pos'[q] = pos[q] BY <1>0 DEF Sample, Fail
  <1>6. Elems(todo) \subseteq Active /\ Elems(running) \subseteq Active BY DEF Active
  <1>7. ASSUME \A q \in Active \ {r} : Holds(q)' /\ table'[q] = table[q] /\ pos'[q] = pos[q],
               \/ Elems(running') = Elems(running)
               \/ Elems(running') = Elems(running) \cup {r} /\ Holds(r)'
        PROVE  KvInv'
    <2>1. pc' = "sample" => \A q \in Elems(todo') : Fresh(q)
      BY <1>1, <1>3 DEF KvInv
    <2>2. pc' = "sample" => \A q \in Elems(todo') : Fresh(q)'
      BY <1>1, <1>3, <1>6, <1>7, <2>1 DEF Fresh, Covered, Row
    <2>3. \A q \in Active' : Holds(q)'
      BY <1>2, <1>3, <1>6, <1>7 DEF Active, Elems
    <2> QED BY <1>1, <2>2, <2>3 DEF KvInv
  <1>8. CASE Leave(r) /\ running' = running
    <2>1. Elems(running') = Elems(running) BY <1>8 DEF Elems
    <2> QED BY <1>1, <1>5, <1>7, <1>8, <2>1, LeaveKeeps
  <1>9. CASE Sample /\ running' = Append(running, r) /\ UNCHANGED << alloc, state >>
    <2>1. pc = "sample" /\ pos' = [pos EXCEPT ![r] = pos[r] + 1] BY <1>9 DEF Sample
    <2>2. pos'[r] = pos[r] + 1 /\ pos[r] \in Nat BY <1>0, <2>1
    <2>3. Fresh(r) BY <1>3, <2>1 DEF KvInv
    <2>4. \A p \in 0 .. pos[r] : kv[locate(table[r], p)] = << r, p >>
      <3> TAKE p \in 0 .. pos[r]
      <3>1. p = pos[r] \/ p \in 0 .. (pos[r] - 1) BY <2>2
      <3> QED BY <1>4, <2>3, <3>1 DEF Fresh, Holds, Row
    <2>5. \A p \in 0 .. (pos'[r] - 1) : p \in 0 .. pos[r] BY <2>2
    <2>6. Holds(r)' BY <1>1, <1>9, <2>2, <2>3, <2>4, <2>5 DEF Holds, Fresh, Covered, Row
    <2>7. \A q \in Active \ {r} : Holds(q)' /\ table'[q] = table[q] /\ pos'[q] = pos[q]
      BY <1>0, <1>1, <1>5, <1>9, ActiveRequests, HoldsKept DEF KvInv
    <2>8. Elems(running') = Elems(running) \cup {r} BY <1>0, <1>9, AppendElems
    <2> QED BY <1>7, <2>6, <2>7, <2>8
  <1> QED BY <1>8, <1>9 DEF Sample, Fail

(* Every step keeps every sequence's rows.                                 *)
LEMMA KvStep == IInv /\ KvInv /\ [Next]_vars => KvInv'
  <1> SUFFICES ASSUME IInv, KvInv, [Next]_vars PROVE KvInv' OBVIOUS
  <1> USE DEF alloc, progress
  <1>0. TypeOK BY DEF IInv
  <1>1. ASSUME UNCHANGED << running, todo, table, pos, kv >>, pc' \in {pc, "stopped"}
        PROVE  KvInv'
    <2>1. Active' = Active /\ Elems(running') = Elems(running) /\ Elems(todo') = Elems(todo)
      BY <1>1 DEF Active, Elems
    <2> QED BY <1>1, <2>1 DEF KvInv, Holds, Room, Fresh, Covered, Row
  <1>2. CASE Clients
    BY <1>1, <1>2, ReaderOnly DEF Clients, submit, DropEngine
  <1>3. CASE Stop BY <1>1, <1>3 DEF Stop
  <1>4. CASE UNCHANGED vars BY <1>1, <1>4 DEF vars
  <1>5. CASE Admit
    <2>1. Head(queue) \in Requests BY <1>5, HeadOfQueue DEF Admit
    <2> QED BY <1>5, <2>1, AdmitKv
  <1>6. CASE StartPass
    <2>1. todo = << >> BY <1>6 DEF StartPass, IInv, SchedulerInv
    <2>2. Elems(running') = {} /\ Elems(todo') = Elems(running) /\ Elems(todo) = {}
      BY <1>6, <2>1, EmptyElems DEF StartPass, Elems
    <2>3. Active' = Active BY <2>2 DEF Active, Elems
    <2> QED BY <1>6, <2>2, <2>3 DEF StartPass, KvInv, Holds, Covered, Row
  <1>7. CASE Reserve
    <2>1. Head(todo) \in Requests BY <1>7, HeadOfTodo DEF Reserve
    <2> QED BY <1>7, <2>1, ReserveKv
  <1>8. CASE decode_ok \/ decode_fails BY <1>8, DecodeKv
  <1>9. CASE Sample \/ Fail
    <2>1. Head(todo) \in Requests BY <1>9, HeadOfTodo DEF Sample, Fail
    <2> QED BY <1>9, <2>1, SampleKv
  <1> QED BY <1>2, <1>3, <1>4, <1>5, <1>6, <1>7, <1>8, <1>9 DEF Next, Scheduler

(* Both invariants hold in every reachable state.                          *)
LEMMA KvInvAlways == Spec => [](IInv /\ KvInv)
  <1>1. Init => KvInv BY InitKvInv
  <1>2. IInv /\ KvInv /\ [Next]_vars => KvInv' BY KvStep
  <1> QED BY IInvAlways, <1>1, <1>2, PTL DEF Spec

(***************************************************************************)
(* The capacity pass does its work: when decode_step runs, `locate` stays  *)
(* inside the table of every sequence for the position it writes and for   *)
(* all those it reads, and the position inside the RoPE table.             *)
(***************************************************************************)
THEOREM LocateNeverPanics == Spec => []LocateInBounds
  <1>1. IInv /\ KvInv => LocateInBounds
    <2> SUFFICES ASSUME IInv, KvInv, pc = "decode", NEW i \in DOMAIN running
                 PROVE  /\ pos[running[i]] < MaxSeq
                        /\ \A p \in 0 .. pos[running[i]] : InBounds(table[running[i]], p)
      BY DEF LocateInBounds
    <2> DEFINE r == running[i]
    <2>1. TypeOK BY DEF IInv
    <2>2. r \in Elems(running) BY DEF Elems
    <2>3. r \in Requests /\ Room(r) BY <2>1, <2>2, ActiveRequests DEF KvInv
    <2>4. pos[r] \in Nat BY <2>1, <2>3 DEF TypeOK
    <2> HIDE DEF r
    <2>5. ASSUME NEW p \in 0 .. pos[r] PROVE InBounds(table[r], p)
      <3>1. pos[r] + 1 \in Nat /\ p \in 0 .. ((pos[r] + 1) - 1) BY <2>4
      <3> QED BY <2>1, <2>3, <3>1, HeldInBounds DEF Room
    <2> QED BY <2>3, <2>5 DEF Room, r
  <1> QED BY KvInvAlways, <1>1, PTL

(***************************************************************************)
(* Isolation of the K/V cache: no request ever finds a row of another one, *)
(* or of another position, where its own should be, whoever used the block *)
(* before, whoever shares the batch and wherever a forward pass failed.    *)
(***************************************************************************)
THEOREM KvIsolation == Spec => []KvIsolated
  <1>1. IInv /\ KvInv => KvIsolated
    <2> SUFFICES ASSUME IInv, KvInv, NEW r \in Active, NEW p \in 0 .. (pos[r] - 1)
                 PROVE  InBounds(table[r], p) /\ kv[locate(table[r], p)] = << r, p >>
      BY DEF KvIsolated
    <2>1. TypeOK BY DEF IInv
    <2>2. r \in Requests /\ Holds(r) BY <2>1, ActiveRequests DEF KvInv
    <2>3. pos[r] \in Nat BY <2>1, <2>2 DEF TypeOK
    <2> QED BY <2>1, <2>2, <2>3, HeldInBounds DEF Holds, Row
  <1> QED BY KvInvAlways, <1>1, PTL
-----------------------------------------------------------------------------
(* The size of the batch. *)

(* Every step keeps the batch within max_num_seqs.                         *)
LEMMA BatchStep == IInv /\ BatchBounded /\ [Next]_vars => BatchBounded'
  <1> SUFFICES ASSUME IInv, BatchBounded, [Next]_vars PROVE BatchBounded' OBVIOUS
  <1> DEFINE Bound == IF MaxNumSeqs = 0 THEN 1 ELSE MaxNumSeqs
  <1> USE DEF alloc, progress
  <1>0. /\ running \in Seq(Requests) /\ todo \in Seq(Requests) /\ SchedulerInv
        /\ Len(running) \in Nat /\ Len(todo) \in Nat /\ MaxNumSeqs \in Nat
    BY EngineAssumption DEF IInv, TypeOK
  <1>1. Len(running) + Len(todo) <= Bound BY DEF BatchBounded
  <1>2. ASSUME Len(running') + Len(todo') <= Bound PROVE BatchBounded'
    BY <1>2 DEF BatchBounded
  <1>3. ASSUME UNCHANGED << running, todo >> PROVE BatchBounded' BY <1>1, <1>2, <1>3
  <1>4. CASE Admit
    <2> DEFINE r == Head(queue)
    <2>1. r \in Requests /\ pc = "admit" /\ todo' = todo BY <1>4, HeadOfQueue DEF Admit
    <2>2. todo = << >> BY <1>0, <2>1 DEF SchedulerInv
    <2>3. Len(running) < Bound BY <1>0, <1>4 DEF Admit
    <2>4. running' \in {running, Append(running, r)}
      BY <1>4 DEF Admit, prefill, prefill_zero_tokens, prefill_too_long, prefill_exhausted,
                  prefill_fails, prefill_ok, Rejected
    <2> HIDE DEF r
    <2>5. Len(Append(running, r)) = Len(running) + 1 BY <1>0, <2>1, AppendProperties
    <2>6. Len(todo') = 0 /\ Len(running') <= Len(running) + 1
      BY <1>0, <2>1, <2>2, <2>4, <2>5
    <2> QED BY <1>0, <1>2, <2>3, <2>4, <2>5, <2>6
  <1>5. CASE StartPass \/ decode_ok \/ decode_fails
    <2>1. pc \in {"admit", "decode"} /\ todo' = running /\ running' = << >>
      BY <1>5 DEF StartPass, decode_ok, decode_fails
    <2>2. todo = << >> BY <1>0, <2>1 DEF SchedulerInv
    <2>3. Len(running') = 0 /\ Len(todo') = Len(running) /\ Len(todo) = 0 BY <2>1, <2>2
    <2> QED BY <1>0, <1>1, <1>2, <2>3
  <1>6. CASE Reserve \/ Fail \/ Sample
    <2> DEFINE r == Head(todo)
    <2>1. pc \in {"reserve", "fail", "sample"} /\ todo' = Tail(todo)
          /\ running' \in {running, Append(running, r)}
      BY <1>6 DEF Reserve, Fail, Sample, reserve_context, reserve_exhausted, reserve_ok, Evict
    <2>2. r \in Requests /\ todo # << >> BY <2>1, HeadOfTodo
    <2>3. Len(Tail(todo)) = Len(todo) - 1 BY <1>0, <2>2, HeadTailProperties
    <2> HIDE DEF r
    <2>4. Len(Append(running, r)) = Len(running) + 1 BY <1>0, <2>2, AppendProperties
    <2>5. Len(todo') = Len(todo) - 1 /\ Len(running') \in {Len(running), Len(running) + 1}
      BY <2>1, <2>3, <2>4
    <2>6. Len(running') + Len(todo') <= Len(running) + Len(todo)
      BY <1>0, <2>5
    <2>7. Bound \in Nat /\ Len(running') + Len(todo') \in Int BY <1>0, <2>5
    <2> QED BY <1>0, <1>1, <1>2, <2>6, <2>7
  <1>7. CASE Stop \/ Clients \/ UNCHANGED vars
    BY <1>3, <1>7, ReaderOnly DEF Stop, Clients, submit, DropEngine, vars
  <1> QED BY <1>4, <1>5, <1>6, <1>7 DEF Next, Scheduler

(***************************************************************************)
(* The scheduler never holds more than max_num_seqs sequences at any step  *)
(* of its loop; with max_num_seqs = 0 it holds one.                        *)
(***************************************************************************)
THEOREM BatchStaysBounded == Spec => []BatchBounded
  <1>1. Init => BatchBounded BY EngineAssumption DEF Init, BatchBounded
  <1> QED BY IInvAlways, <1>1, BatchStep, PTL DEF Spec

-----------------------------------------------------------------------------
(* The refinement: every client of PagedEngine sees a Generation. *)

(***************************************************************************)
(* What the reply channel of r holds at each stage, as long as it is read. *)
(* Nothing before prefill; while the sequence runs, a token for each one   *)
(* produced and no error; and the limit that run_loop has still to reach.  *)
(* When it is over: an error, or the whole answer.                         *)
(***************************************************************************)
Reply(r) ==
  /\ state[r] = "new" => reply[r] = "open"
  /\ state[r] \in {"new", "queued"} =>
       sent[r] = << >> /\ sampled[r] = "none" /\ produced[r] = 0
  /\ state[r] = "running" =>
       /\ job[r].max_tokens > 0
       /\ produced[r] = 1 \/ (1 < produced[r] /\ produced[r] < job[r].max_tokens)
  /\ reply[r] = "open" =>
       /\ state[r] = "running" => ~Failed(r) /\ Len(sent[r]) = produced[r]
       /\ state[r] = "done" /\ ~Failed(r) => sampled[r] = "eos" \/ Got(r) >= job[r].max_tokens

ReplyInv == \A r \in Requests : Reply(r)

-----------------------------------------------------------------------------
(* The reply channel. *)

(* What the reader can receive after one more item.                        *)
LEMMA Received ==
  ASSUME TypeOK, NEW r \in Requests, NEW x \in Tokens \cup Errors, sent' = Sent(r, x),
         reply[r] = "open", ~Failed(r)
  PROVE  /\ Len(sent'[r]) = Len(sent[r]) + 1 /\ Len(sent[r]) \in Nat
         /\ Failed(r)' <=> x \in Errors
         /\ Got(r) = Len(sent[r])
         /\ Got(r)' = IF x \in Errors THEN Len(sent[r]) ELSE Len(sent[r]) + 1
  <1> DEFINE s == sent[r]
             n == Len(s)
  <1>1. s \in Seq(Tokens \cup Errors) /\ sent'[r] = Append(s, x) BY DEF TypeOK, Sent
  <1>2. n \in Nat /\ DOMAIN s = 1 .. n BY <1>1, LenProperties
  <1> HIDE DEF s
  <1>3. /\ sent'[r] \in Seq(Tokens \cup Errors) /\ Len(sent'[r]) = n + 1
        /\ DOMAIN sent'[r] = 1 .. (n + 1)
        /\ sent'[r][n + 1] = x /\ \A i \in 1 .. n : sent'[r][i] = s[i]
    BY <1>1, <1>2, AppendProperties, LenProperties
  <1>4. \A i \in 1 .. n : s[i] \notin Errors BY <1>2 DEF Failed, s
  <1> HIDE DEF n
  <1>5. Failed(r)' <=> x \in Errors
    <2>1. ASSUME x \in Errors PROVE Failed(r)'
      <3>1. n + 1 \in DOMAIN sent'[r] BY <1>2, <1>3
      <3> QED BY <1>3, <2>1, <3>1 DEF Failed
    <2>2. ASSUME Failed(r)' PROVE x \in Errors
      <3>1. PICK i \in DOMAIN sent'[r] : sent'[r][i] \in Errors BY <2>2 DEF Failed
      <3>2. i = n + 1 \/ i \in 1 .. n BY <1>2, <1>3, <3>1
      <3> QED BY <1>3, <1>4, <3>1, <3>2
    <2> QED BY <2>1, <2>2
  <1>6. Got(r) = n BY <1>2 DEF Got, s, n
  <1>7. Got(r)' = IF x \in Errors THEN n ELSE n + 1 BY <1>2, <1>3, <1>5 DEF Got
  <1> QED BY <1>2, <1>3, <1>5, <1>6, <1>7 DEF s, n

(* The channels of the others.                                             *)
LEMMA SentOthers ==
  ASSUME TypeOK, NEW r \in Requests, NEW x, sent' = Sent(r, x), NEW q \in Requests, q # r
  PROVE  sent'[q] = sent[q]
  BY DEF TypeOK, Sent

(* Tokens are not errors.                                                  *)
LEMMA TokensNotErrors == Tokens \cap Errors = {} /\ "eos" \in Tokens /\ "tok" \in Tokens
  BY DEF Tokens, Errors

-----------------------------------------------------------------------------
(* Steps of Generation, read off the state of the engine. *)

(* Nothing changes for a client: a stuttering step.                        *)
LEMMA GenUnseen ==
  ASSUME NEW r \in Requests, state[r] = "new" <=> state'[r] = "new", reply'[r] = reply[r],
         Got(r)' = Got(r), sampled'[r] = sampled[r], job'[r] = job[r]
  PROVE  Gen(r)!Step
  <1>1. Status(r)' = Status(r) BY DEF Status
  <1> QED BY <1>1 DEF Gen!Step, Gen!vars

(* An error item is sent, for the reader to find, or to nobody.            *)
LEMMA ErrorSent ==
  ASSUME TypeOK, NEW r \in Requests, Reply(r), state[r] \in {"queued", "running"},
         state'[r] = "done", reply'[r] = reply[r], sampled'[r] = sampled[r],
         job'[r] = job[r], NEW x \in Errors, sent' = Sent(r, x)
  PROVE  Reply(r)' /\ Gen(r)!Step
  <1>1. CASE reply[r] # "open"
    <2>1. sent' = sent BY <1>1 DEF Sent
    <2>2. Got(r)' = Got(r) BY <2>1 DEF Got, Failed
    <2>3. Reply(r)' BY <1>1 DEF Reply
    <2> QED BY <2>2, <2>3, GenUnseen
  <1>2. CASE reply[r] = "open"
    <2>1. ~Failed(r) BY <1>2 DEF Reply, Failed
    <2>2. Failed(r)' /\ Got(r)' = Got(r) BY <1>2, <2>1, Received
    <2>3. Reply(r)' BY <2>2 DEF Reply
    <2> QED BY <2>2, <2>3, GenUnseen
  <1> QED BY <1>1, <1>2

(* A token is sampled: handed out unless it is the EOS of the decode loop, *)
(* which ends the sequence.                                                *)
LEMMA GenSamples ==
  ASSUME TypeOK, NEW r \in Requests, Reply(r), NEW token \in Tokens,
         NEW handed \in BOOLEAN, handed \/ token = "eos",
         sent' = (IF handed THEN Sent(r, token) ELSE sent),
         sampled'[r] = (IF reply[r] = "open" THEN token ELSE sampled[r]),
         reply'[r] = reply[r], job'[r] = job[r],
         job[r].max_tokens \in Nat, produced[r] \in Nat, produced'[r] = produced[r] + 1,
         (state[r] = "queued" /\ produced[r] = 0) \/ state[r] = "running",
         \/ /\ state'[r] = "running" /\ handed /\ job[r].max_tokens > 0
            /\ produced'[r] = 1 \/ produced'[r] < job[r].max_tokens
         \/ state'[r] = "done" /\ (token = "eos" \/ produced[r] + 1 >= job[r].max_tokens)
  PROVE  Reply(r)' /\ Gen(r)!Step
  <1>1. CASE reply[r] # "open"
    <2>1. sent' = sent BY <1>1 DEF Sent
    <2>2. Got(r)' = Got(r) BY <2>1 DEF Got, Failed
    <2>3. Reply(r)' BY <1>1 DEF Reply
    <2> QED BY <1>1, <2>2, <2>3, GenUnseen
  <1>2. CASE reply[r] = "open"
    <2> DEFINE lim == job[r].max_tokens
               bud == IF lim < 2 THEN 2 ELSE lim
    <2>1. ~Failed(r) /\ Len(sent[r]) = produced[r] BY <1>2 DEF Reply, Failed
    <2>2. Got(r) = produced[r] BY <2>1 DEF Got
    <2>3. produced[r] < bud BY DEF Reply
    <2>4. Status(r) = "open" /\ Status(r)' = "open" /\ sampled'[r] = token
      BY <1>2 DEF Status
    <2>5. CASE handed
      <3>1. ~Failed(r)' /\ Got(r)' = produced[r] + 1 /\ Len(sent'[r]) = produced[r] + 1
        BY <1>2, <2>1, <2>5, Received, TokensNotErrors
      <3>2. Gen(r)!Sample(token, TRUE)
        BY <2>2, <2>3, <2>4, <3>1 DEF Gen!Sample, Gen!Budget
      <3>3. Reply(r)' BY <2>4, <3>1 DEF Reply
      <3> QED BY <3>2, <3>3 DEF Gen!Step, Gen!Next, Tokens
    <2>6. CASE ~handed
      <3>1. Failed(r)' = Failed(r) /\ Got(r)' = Got(r) BY <2>6 DEF Got, Failed
      <3>2. Gen(r)!Sample(token, FALSE)
        BY <2>4, <2>6, <3>1 DEF Gen!Sample, Gen!Budget
      <3>3. Reply(r)' BY <2>4, <2>6, <3>1 DEF Reply
      <3> QED BY <2>6, <3>2, <3>3 DEF Gen!Step, Gen!Next, Tokens
    <2> QED BY <2>5, <2>6
  <1> QED BY <1>1, <1>2

(* What no step touches stays as it is promised.                           *)
LEMMA ReplyKept ==
  ASSUME NEW q \in Requests, Reply(q), state'[q] = state[q], reply'[q] = reply[q],
         sent'[q] = sent[q], sampled'[q] = sampled[q], job'[q] = job[q],
         produced'[q] = produced[q]
  PROVE  Reply(q)' /\ Gen(q)!Step
  <1>1. Failed(q)' = Failed(q) BY DEF Failed
  <1>2. Got(q)' = Got(q) BY <1>1 DEF Got
  <1>3. Reply(q)' BY <1>1, <1>2 DEF Reply
  <1> QED BY <1>2, <1>3, GenUnseen

(* submit begins the call.                                                 *)
LEMMA GenSubmit ==
  ASSUME IInv, NEW r \in Requests, Reply(r), NEW j \in Asks[r], submit(r, j)
  PROVE  Reply(r)' /\ Gen(r)!Step
  <1> USE DEF alloc, progress
  <1>0. TypeOK BY DEF IInv
  <1>1. /\ state[r] = "new" /\ state'[r] = "queued" /\ job'[r] = j
        /\ UNCHANGED << reply, sent, sampled, produced >>
    BY <1>0 DEF TypeOK, submit
  <1>2. sent[r] = << >> /\ sampled[r] = "none" /\ produced[r] = 0 /\ reply[r] = "open"
    BY <1>1 DEF Reply
  <1>3. Got(r) = 0 /\ Got(r)' = 0 BY <1>1, <1>2 DEF Failed, Got
  <1>4. Status(r) = "idle" /\ Status(r)' = "open" BY <1>1, <1>2 DEF Status
  <1>5. Reply(r)' BY <1>1, <1>2 DEF Reply
  <1>6. Gen(r)!Begin BY <1>1, <1>2, <1>3, <1>4 DEF Gen!Begin
  <1> QED BY <1>5, <1>6 DEF Gen!Step, Gen!Next

(* The reader is done with the answer.                                     *)
LEMMA GenClose ==
  ASSUME TypeOK, NEW r \in Requests, Reply(r), Reading(r), Close(r, "failed")
         \/ Close(r, "cut") \/ (state[r] = "done" /\ ~Failed(r) /\ Close(r, "complete"))
  PROVE  Reply(r)' /\ Gen(r)!Step
  <1>1. PICK how \in Ends : reply' = [reply EXCEPT ![r] = how]
                            /\ how \in {"failed", "cut", "complete"}
                            /\ (how = "complete" => state[r] = "done" /\ ~Failed(r))
    BY DEF Close, Ends
  <1>2. UNCHANGED << sent, sampled, job, state, produced >> BY DEF Close, progress
  <1>3. reply'[r] = how /\ reply[r] = "open" /\ state[r] # "new"
    BY <1>1 DEF TypeOK, Reading
  <1>4. Got(r)' = Got(r) BY <1>2 DEF Got, Failed
  <1>5. Status(r) = "open" /\ Status(r)' = how BY <1>2, <1>3 DEF Status
  <1>6. Reply(r)' BY <1>1, <1>2, <1>3 DEF Reply
  <1>7. CASE how = "failed"
    <2>1. Gen(r)!Fail BY <1>2, <1>4, <1>5, <1>7 DEF Gen!Fail
    <2> QED BY <1>6, <2>1 DEF Gen!Step, Gen!Next
  <1>8. CASE how = "cut"
    <2>1. Gen(r)!Cut BY <1>2, <1>4, <1>5, <1>8 DEF Gen!Cut
    <2> QED BY <1>6, <2>1 DEF Gen!Step, Gen!Next
  <1>9. CASE how = "complete"
    <2>1. sampled[r] = "eos" \/ Got(r) >= job[r].max_tokens BY <1>1, <1>3, <1>9 DEF Reply
    <2>2. Gen(r)!Complete BY <1>2, <1>4, <1>5, <1>9, <2>1 DEF Gen!Complete
    <2> QED BY <1>6, <2>2 DEF Gen!Step, Gen!Next
  <1> QED BY <1>1, <1>7, <1>8, <1>9

(* The client goes away, or the reader ends: a step of that call.          *)
LEMMA GenReader ==
  ASSUME TypeOK, NEW r \in Requests, Reply(r), Reader(r)
  PROVE  /\ Reply(r)' /\ Gen(r)!Step
         /\ \A q \in Requests : q # r =>
              reply'[q] = reply[q] /\ sent'[q] = sent[q] /\ sampled'[q] = sampled[q]
  <1>1. CASE Disconnect(r)
    <2>1. /\ reply'[r] = "left" /\ sent'[r] = << >> /\ sampled'[r] = "none"
          /\ reply[r] = "open" /\ state[r] # "new" /\ UNCHANGED << state, job, produced >>
          /\ \A q \in Requests : q # r =>
               reply'[q] = reply[q] /\ sent'[q] = sent[q] /\ sampled'[q] = sampled[q]
      BY <1>1 DEF TypeOK, Disconnect, Reading
    <2>2. Status(r) = "open" /\ Status(r)' = "left" BY <2>1 DEF Status
    <2>3. Got(r)' = 0 BY <2>1 DEF Got, Failed
    <2>4. Reply(r)' BY <2>1 DEF Reply
    <2>5. Gen(r)!Leave BY <2>1, <2>2, <2>3 DEF Gen!Leave
    <2> QED BY <2>1, <2>4, <2>5 DEF Gen!Step, Gen!Next
  <1>2. CASE read_end(r) \/ relay_fails(r)
    <2>1. /\ Reading(r)
          /\ \/ Close(r, "failed") \/ Close(r, "cut")
             \/ (state[r] = "done" /\ ~Failed(r) /\ Close(r, "complete"))
      BY <1>2 DEF read_end, relay_fails
    <2>2. Reply(r)' /\ Gen(r)!Step BY <2>1, GenClose
    <2>3. \A q \in Requests : q # r =>
            reply'[q] = reply[q] /\ sent'[q] = sent[q] /\ sampled'[q] = sampled[q]
      BY <2>1 DEF TypeOK, Close, progress
    <2> QED BY <2>2, <2>3
  <1> QED BY <1>1, <1>2 DEF Reader

(* prefill, whatever its outcome, is a step of the call it works on.       *)
LEMMA GenPrefill ==
  ASSUME IInv, NEW r \in Requests, Reply(r), state[r] = "queued", prefill(r),
         UNCHANGED << job, reply >>
  PROVE  /\ Reply(r)' /\ Gen(r)!Step
         /\ \A q \in Requests : q # r =>
              /\ state'[q] = state[q] /\ sent'[q] = sent[q]
              /\ sampled'[q] = sampled[q] /\ produced'[q] = produced[q]
  <1> USE DEF alloc, progress
  <1>0. TypeOK /\ sent \in [Requests -> Seq(Tokens \cup Errors)]
        /\ state \in [Requests -> {"new", "queued", "running", "done"}]
        /\ sampled \in [Requests -> Tokens \cup {"none"}]
        /\ produced \in [Requests -> Nat]
    BY DEF IInv, TypeOK
  <1>1. job[r].max_tokens \in Nat BY JobType
  <1>2. ASSUME Rejected(r)
        PROVE  /\ state'[r] = "done" /\ sampled'[r] = sampled[r]
               /\ \A q \in Requests : q # r =>
                    /\ state'[q] = state[q] /\ sampled'[q] = sampled[q]
                    /\ produced'[q] = produced[q]
    BY <1>0, <1>2 DEF Rejected
  <1>3. ASSUME NEW x \in Errors, Rejected(r), sent' = Sent(r, x)
        PROVE  /\ Reply(r)' /\ Gen(r)!Step
               /\ \A q \in Requests : q # r =>
                    /\ state'[q] = state[q] /\ sent'[q] = sent[q]
                    /\ sampled'[q] = sampled[q] /\ produced'[q] = produced[q]
    <2>1. Reply(r)' /\ Gen(r)!Step BY <1>0, <1>2, <1>3, ErrorSent
    <2>2. \A q \in Requests : q # r => sent'[q] = sent[q] BY <1>0, <1>3, SentOthers
    <2> QED BY <1>2, <1>3, <2>1, <2>2
  <1>4. CASE prefill_zero_tokens(r)
    <2>1. Rejected(r) /\ sent' = sent /\ job[r].max_tokens = 0
      BY <1>4 DEF prefill_zero_tokens
    <2>2. sent[r] = << >> BY DEF Reply
    <2>3. Got(r) = 0 /\ Got(r)' = 0 BY <2>1, <2>2 DEF Failed, Got
    <2>4. Reply(r)' BY <1>2, <2>1, <2>3 DEF Reply
    <2> QED BY <1>2, <2>1, <2>3, <2>4, GenUnseen
  <1>5. CASE prefill_too_long(r) \/ prefill_exhausted(r) \/ prefill_fails(r)
    BY <1>3, <1>5 DEF prefill_too_long, prefill_exhausted, prefill_fails, Errors
  <1>6. CASE prefill_ok(r)
    <2>1. PICK x \in Tokens :
            /\ sampled' = [sampled EXCEPT ![r] = IF reply[r] = "open" THEN x ELSE @]
            /\ sent' = Sent(r, x)
      BY <1>6 DEF prefill_ok
    <2>2. job[r].max_tokens > 0 /\ state' = [state EXCEPT ![r] = "running"]
          /\ produced' = [produced EXCEPT ![r] = 1]
      BY <1>6 DEF prefill_ok
    <2>3. sampled'[r] = (IF reply[r] = "open" THEN x ELSE sampled[r])
          /\ state'[r] = "running" /\ produced'[r] = 1
          /\ \A q \in Requests : q # r => /\ state'[q] = state[q]
                                         /\ sampled'[q] = sampled[q]
                                         /\ produced'[q] = produced[q]
      BY <1>0, <2>1, <2>2
    <2>4. produced[r] = 0 BY DEF Reply
    <2>5. Reply(r)' /\ Gen(r)!Step
      <3> DEFINE h == TRUE
      <3>1. h \in BOOLEAN /\ (h \/ x = "eos") /\ h OBVIOUS
      <3>2. sent' = (IF h THEN Sent(r, x) ELSE sent) BY <2>1
      <3>3. reply'[r] = reply[r] /\ job'[r] = job[r] OBVIOUS
      <3>4. produced[r] \in Nat /\ produced'[r] = produced[r] + 1 BY <2>3, <2>4
      <3> HIDE DEF h
      <3> QED BY <1>0, <1>1, <2>2, <2>3, <2>4, <3>1, <3>2, <3>3, <3>4, GenSamples
    <2>6. \A q \in Requests : q # r => sent'[q] = sent[q] BY <1>0, <2>1, SentOthers
    <2> QED BY <2>3, <2>5, <2>6
  <1> QED BY <1>4, <1>5, <1>6 DEF prefill

(* A sequence that is evicted, or whose batch failed, gets its error.      *)
LEMMA GenLeave ==
  ASSUME IInv, NEW r \in Requests, Reply(r), state[r] = "running", Leave(r),
         NEW x \in Errors, sent' = Sent(r, x),
         UNCHANGED << job, reply, sampled, produced >>
  PROVE  /\ Reply(r)' /\ Gen(r)!Step
         /\ \A q \in Requests : q # r => state'[q] = state[q] /\ sent'[q] = sent[q]
  <1>0. TypeOK BY DEF IInv
  <1>1. state'[r] = "done" /\ \A q \in Requests : q # r => state'[q] = state[q]
    BY <1>0 DEF TypeOK, Leave
  <1>2. Reply(r)' /\ Gen(r)!Step BY <1>0, <1>1, ErrorSent
  <1>3. \A q \in Requests : q # r => sent'[q] = sent[q] BY <1>0, SentOthers
  <1> QED BY <1>1, <1>2, <1>3

(* One turn of the sampling loop.                                          *)
LEMMA GenSample ==
  ASSUME IInv, NEW r \in Requests, r = Head(todo), Reply(r), state[r] = "running", Sample
  PROVE  /\ Reply(r)' /\ Gen(r)!Step
         /\ \A q \in Requests : q # r =>
              /\ state'[q] = state[q] /\ sent'[q] = sent[q]
              /\ sampled'[q] = sampled[q] /\ produced'[q] = produced[q]
  <1> USE DEF alloc, progress
  <1>0. TypeOK /\ sent \in [Requests -> Seq(Tokens \cup Errors)]
        /\ state \in [Requests -> {"new", "queued", "running", "done"}]
        /\ sampled \in [Requests -> Tokens \cup {"none"}]
        /\ produced \in [Requests -> Nat]
    BY DEF IInv, TypeOK
  <1>1. job[r].max_tokens \in Nat /\ produced[r] \in Nat BY <1>0, JobType
  <1> DEFINE limited == produced[r] + 1 >= job[r].max_tokens
  <1>2. PICK x \in Tokens :
          /\ produced' = [produced EXCEPT ![r] = @ + 1]
          /\ sampled' = [sampled EXCEPT ![r] = IF reply[r] = "open" THEN x ELSE @]
          /\ sent' = IF x = "eos" THEN sent ELSE Sent(r, x)
          /\ IF x = "eos" \/ limited
             THEN Leave(r) ELSE state' = state
    BY DEF Sample
  <1>3. UNCHANGED << job, reply >> BY DEF Sample
  <1>4. /\ produced'[r] = produced[r] + 1
        /\ sampled'[r] = (IF reply[r] = "open" THEN x ELSE sampled[r])
        /\ state'[r] = IF x = "eos" \/ limited THEN "done" ELSE "running"
        /\ \A q \in Requests : q # r => /\ state'[q] = state[q]
                                       /\ sampled'[q] = sampled[q]
                                       /\ produced'[q] = produced[q]
    BY <1>0, <1>2 DEF Leave
  <1>5. \A q \in Requests : q # r => sent'[q] = sent[q]
    BY <1>0, <1>2, SentOthers
  <1>6. Reply(r)' /\ Gen(r)!Step
    <2> DEFINE h == x # "eos"
    <2>1. h \in BOOLEAN /\ (h \/ x = "eos") OBVIOUS
    <2>2. sent' = (IF h THEN Sent(r, x) ELSE sent) BY <1>2
    <2>3. \/ /\ state'[r] = "running" /\ h /\ job[r].max_tokens > 0
             /\ produced'[r] = 1 \/ produced'[r] < job[r].max_tokens
          \/ state'[r] = "done" /\ (x = "eos" \/ produced[r] + 1 >= job[r].max_tokens)
      BY <1>1, <1>4
    <2> HIDE DEF h
    <2> QED BY <1>0, <1>1, <1>3, <1>4, <2>1, <2>2, <2>3, GenSamples
  <1> QED BY <1>4, <1>5, <1>6

-----------------------------------------------------------------------------
(* Every step of the engine is, for each client, a step of its call or     *)
(* none, and keeps the reply channels as they should be.                   *)
LEMMA GenStep ==
  ASSUME IInv, ReplyInv, [Next]_vars
  PROVE  ReplyInv' /\ \A q \in Requests : Gen(q)!Step
  <1> USE DEF alloc, progress
  <1>0. TypeOK /\ \A q \in Requests : Reply(q) BY DEF IInv, ReplyInv
  <1>1. SUFFICES \A q \in Requests : Reply(q)' /\ Gen(q)!Step BY DEF ReplyInv
  <1>2. ASSUME NEW r \in Requests, Reply(r)' /\ Gen(r)!Step,
               \A q \in Requests : q # r =>
                  /\ state'[q] = state[q] /\ reply'[q] = reply[q]
                  /\ sent'[q] = sent[q] /\ sampled'[q] = sampled[q]
                  /\ job'[q] = job[q] /\ produced'[q] = produced[q]
        PROVE  \A q \in Requests : Reply(q)' /\ Gen(q)!Step
    BY <1>0, <1>2, ReplyKept
  <1>3. ASSUME UNCHANGED << state, reply, sent, sampled, job, produced >>
        PROVE  \A q \in Requests : Reply(q)' /\ Gen(q)!Step
    BY <1>0, <1>3, ReplyKept
  <1>4. ASSUME NEW r \in Requests, NEW j \in Asks[r], submit(r, j)
        PROVE  \A q \in Requests : Reply(q)' /\ Gen(q)!Step
    <2>1. Reply(r)' /\ Gen(r)!Step BY <1>0, <1>4, GenSubmit
    <2>2. \A q \in Requests : q # r => state'[q] = state[q] /\ job'[q] = job[q]
      BY <1>0, <1>4 DEF submit, TypeOK
    <2> QED BY <1>2, <1>4, <2>1, <2>2 DEF submit
  <1>5. ASSUME NEW r \in Requests, Reader(r)
        PROVE  \A q \in Requests : Reply(q)' /\ Gen(q)!Step
    BY <1>0, <1>2, <1>5, GenReader, ReaderOnly
  <1>6. CASE Admit
    <2>1. PICK r \in Requests : r = Head(queue) /\ state[r] = "queued"
      BY <1>6, HeadOfQueue DEF Admit
    <2>2. prefill(r) /\ UNCHANGED << job, reply >> BY <1>6, <2>1 DEF Admit
    <2> QED BY <1>0, <1>2, <2>1, <2>2, GenPrefill
  <1>7. ASSUME NEW r \in Requests, state[r] = "running", Leave(r), NEW x \in Errors,
               sent' = Sent(r, x), UNCHANGED << job, reply, sampled, produced >>
        PROVE  \A q \in Requests : Reply(q)' /\ Gen(q)!Step
    BY <1>0, <1>2, <1>7, GenLeave
  <1>8. CASE Reserve
    <2>1. PICK r \in Requests : r = Head(todo) /\ state[r] = "running"
      BY <1>8, HeadOfTodo DEF Reserve
    <2>2. CASE reserve_context(r) \/ reserve_exhausted(r)
      <3>1. PICK x \in Errors : Leave(r) /\ sent' = Sent(r, x)
        BY <2>2 DEF reserve_context, reserve_exhausted, Evict, Errors
      <3> QED BY <1>7, <1>8, <2>1, <3>1 DEF Reserve
    <2>3. CASE reserve_ok(r) BY <1>3, <1>8, <2>3 DEF Reserve, reserve_ok
    <2> QED BY <1>8, <2>1, <2>2, <2>3 DEF Reserve
  <1>9. CASE Fail
    <2>1. PICK r \in Requests : r = Head(todo) /\ state[r] = "running"
      BY <1>9, HeadOfTodo DEF Fail
    <2>2. Leave(r) /\ sent' = Sent(r, "forward") /\ "forward" \in Errors
      BY <1>9, <2>1 DEF Fail, Errors
    <2> QED BY <1>7, <1>9, <2>1, <2>2 DEF Fail
  <1>10. CASE Sample
    <2>1. PICK r \in Requests : r = Head(todo) /\ state[r] = "running"
      BY <1>10, HeadOfTodo DEF Sample
    <2>2. UNCHANGED << job, reply >> BY <1>10 DEF Sample
    <2> QED BY <1>0, <1>2, <1>10, <2>1, <2>2, GenSample
  <1>11. CASE DropEngine \/ StartPass \/ Stop \/ decode_ok \/ decode_fails \/ UNCHANGED vars
    BY <1>3, <1>11 DEF DropEngine, StartPass, Stop, decode_ok, decode_fails, vars
  <1> QED BY <1>4, <1>5, <1>6, <1>8, <1>9, <1>10, <1>11 DEF Next, Scheduler, Clients

(* The reply channels are as promised in every reachable state.            *)
LEMMA ReplyInvAlways == Spec => []ReplyInv
  <1>1. Init => ReplyInv BY DEF Init, ReplyInv, Reply, Failed
  <1>2. IInv /\ ReplyInv /\ [Next]_vars => ReplyInv' BY GenStep
  <1> QED BY IInvAlways, <1>1, <1>2, PTL DEF Spec

(***************************************************************************)
(* What the client of each call sees is a Generation, up to its concession *)
(* Cut: tokens one by one within max_tokens (or 2), then one end.  Chat    *)
(* and the relay report "stop" only when EOS was sampled or max_tokens     *)
(* were produced, or when the relay task panicked; an error of the engine  *)
(* or of a decode is the last thing the client sees.                       *)
(***************************************************************************)
THEOREM AnswersAreGenerations == Spec => ImplementsGeneration
  <1> DEFINE Steps == \A r \in Requests : Gen(r)!Step
             Starts == \A r \in Requests : Gen(r)!Init
  <1>1. Init => Starts BY DEF Init, Gen!Init, Status, Got, Failed
  <1>2. IInv /\ ReplyInv /\ [Next]_vars => [Steps]_vars BY GenStep
  <1>3. Starts /\ [][Steps]_vars => ImplementsGeneration BY DEF ImplementsGeneration
  <1> HIDE DEF Steps, Starts
  <1> QED BY IInvAlways, ReplyInvAlways, <1>1, <1>2, <1>3, PTL DEF Spec
=============================================================================
