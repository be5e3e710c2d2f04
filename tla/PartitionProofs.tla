-------------------------- MODULE PartitionProofs --------------------------
(***************************************************************************)
(* Proofs about the layer partition of Partition and Solver, for clusters  *)
(* and models of any size: sorting, the dynamic program and the ring.      *)
(***************************************************************************)
EXTENDS Solver, WellFoundedInduction, SequenceTheorems, TLAPS

-----------------------------------------------------------------------------
(* Numbers, induction and recursion. *)

(* A set of naturals that is not empty has a least element.                *)
LEMMA LeastNatural ==
  ASSUME NEW S \in SUBSET Nat, S # {}
  PROVE  Min(S) \in S /\ \A y \in S : Min(S) <= y
  <1> DEFINE R == OpToRel(<, Nat)
  <1>1. IsWellFoundedOn(R, Nat) BY NatLessThanWellFounded
  <1>2. \A x, y \in Nat : x < y => << x, y >> \in R BY DEF OpToRel
  <1> HIDE DEF R
  <1>3. PICK x \in S : \A y \in S : ~(<< y, x >> \in R) BY <1>1, WFMin
  <1>4. ASSUME NEW y \in S PROVE x <= y
    <2>1. ~(y < x) BY <1>2, <1>3, Zenon
    <2> QED BY <2>1
  <1> QED BY <1>3, <1>4 DEF Min

(* What holds of 0 and, with a number, of the next one, holds of all up to *)
(* n: T are the numbers it holds of.                                       *)
LEMMA Upwards ==
  ASSUME NEW n \in Nat, NEW T, 0 \in T, \A k \in 0 .. (n - 1) : k \in T => k + 1 \in T
  PROVE  0 .. n \subseteq T
  <1> DEFINE S == {k \in 0 .. n : k \notin T}
  <1> SUFFICES ASSUME S # {} PROVE FALSE OBVIOUS
  <1> DEFINE m == Min(S)
  <1>1. S \in SUBSET Nat OBVIOUS
  <1>2. m \in S /\ \A y \in S : m <= y BY <1>1, LeastNatural
  <1>3. m \in 1 .. n BY <1>2
  <1>4. m - 1 \in 0 .. (n - 1) /\ m - 1 \notin S BY <1>2, <1>3
  <1>5. m - 1 \in T BY <1>4
  <1>6. (m - 1) + 1 \in T BY <1>4, <1>5
  <1> QED BY <1>2, <1>3, <1>6

(* A bounded set of naturals that is not empty has a greatest element.     *)
LEMMA GreatestNatural ==
  ASSUME NEW n \in Nat, NEW S \in SUBSET (0 .. n), S # {}
  PROVE  Max(S) \in S /\ \A y \in S : y <= Max(S)
  <1> DEFINE T == {k \in Nat : \A x \in S : x <= k}
             m == Min(T)
  <1>1. n \in T /\ T \in SUBSET Nat OBVIOUS
  <1>2. m \in T /\ \A y \in T : m <= y BY <1>1, LeastNatural
  <1> HIDE DEF m
  <1>3. m \in S
    <2> SUFFICES ASSUME m \notin S PROVE FALSE OBVIOUS
    <2>1. m \in Nat /\ \A x \in S : x \in Nat /\ x < m BY <1>2
    <2>2. PICK z \in S : z \in Nat /\ z < m BY <2>1
    <2>3. m - 1 \in T BY <2>1, <2>2
    <2> QED BY <1>2, <2>1, <2>3
  <1>4. m \in S /\ \A y \in S : y <= m BY <1>2, <1>3
  <1>5. \E x \in S : \A y \in S : x >= y BY <1>4
  <1>6. Max(S) \in S /\ \A y \in S : Max(S) >= y BY <1>5 DEF Max
  <1> QED BY <1>6

\* f starts with a, and g makes each value from the one before.
Iterates(f, n, a, g) == f = [k \in 0 .. n |-> IF k = 0 THEN a ELSE g[k][f[k - 1]]]

(* A definition by recursion over 0 .. n, whose step is a function of the  *)
(* values S, has a solution.                                               *)
LEMMA Recursion ==
  ASSUME NEW n \in Nat, NEW S, NEW a \in S, NEW g \in [1 .. n -> [S -> S]]
  PROVE  \E f \in [0 .. n -> S] : Iterates(f, n, a, g)
  <1> DEFINE Solves(f, m) ==
               f = [k \in 0 .. m |-> IF k = 0 THEN a ELSE g[k][f[k - 1]]]
             T == {m \in 0 .. n : \E f \in [0 .. m -> S] : Solves(f, m)}
  <1>1. 0 \in T
    <2> DEFINE f == [k \in 0 .. 0 |-> a]
    <2>1. f \in [0 .. 0 -> S] OBVIOUS
    <2>2. Solves(f, 0) OBVIOUS
    <2>3. 0 \in 0 .. n OBVIOUS
    <2> HIDE DEF f, Solves
    <2> QED BY <2>1, <2>2, <2>3
  <1>2. ASSUME NEW m \in 0 .. (n - 1), m \in T PROVE m + 1 \in T
    <2>1. PICK f \in [0 .. m -> S] : Solves(f, m) BY <1>2
    <2> DEFINE h == [k \in 0 .. (m + 1) |-> IF k = m + 1 THEN g[m + 1][f[m]] ELSE f[k]]
    <2>2. m + 1 \in 1 .. n /\ m \in 0 .. m /\ g[m + 1] \in [S -> S] /\ f[m] \in S OBVIOUS
    <2>3. g[m + 1][f[m]] \in S BY <2>2
    <2>4. h \in [0 .. (m + 1) -> S] BY <2>3
    <2>5. ASSUME NEW k \in 0 .. (m + 1)
          PROVE  h[k] = IF k = 0 THEN a ELSE g[k][h[k - 1]]
      <3>1. CASE k = m + 1
        <4>1. k # 0 /\ k - 1 \in 0 .. (m + 1) /\ k - 1 # m + 1 /\ k - 1 = m BY <3>1
        <4> QED BY <3>1, <4>1
      <3>2. CASE k # m + 1
        <4>1. k \in 0 .. m /\ h[k] = f[k] BY <3>2
        <4>2. k # 0 => k - 1 \in 0 .. (m + 1) /\ k - 1 # m + 1 BY <4>1
        <4>3. k # 0 => h[k - 1] = f[k - 1] BY <4>2
        <4>4. f[k] = IF k = 0 THEN a ELSE g[k][f[k - 1]] BY <2>1, <4>1
        <4> QED BY <4>1, <4>3, <4>4
      <3> QED BY <3>1, <3>2
    <2>6. Solves(h, m + 1) BY <2>5
    <2>7. m + 1 \in 0 .. n OBVIOUS
    <2> HIDE DEF h, Solves
    <2> QED BY <2>4, <2>6, <2>7
  <1>3. n \in T
    <2> HIDE DEF T
    <2>1. 0 .. n \subseteq T BY <1>1, <1>2, Upwards
    <2> QED BY <2>1
  <1> QED BY <1>3 DEF Iterates

-----------------------------------------------------------------------------
(* Sorting. *)

Sorts(p, n, key) ==
  /\ p \in Bijection(1 .. n, 1 .. n)
  /\ \A i, j \in 1 .. n : i < j => Before(key, p[i], p[j])

\* t is s with its elements arranged by p.
Arranges(p, n, s, t) == t = [i \in 1 .. n |-> s[p[i]]]

(* Some position is after all others in the order.                         *)
LEMMA LastInOrder ==
  ASSUME NEW n \in Nat \ {0}, NEW key \in [1 .. n -> Nat]
  PROVE  \E m \in 1 .. n : \A j \in 1 .. n : j # m => Before(key, j, m)
  <1> DEFINE IsLast(k) == \E m \in 1 .. k : \A j \in 1 .. k : j # m => Before(key, j, m)
             T == {k \in 0 .. (n - 1) : IsLast(k + 1)}
  <1>1. 0 \in T
    <2>1. IsLast(1) OBVIOUS
    <2> QED BY <2>1
  <1>2. ASSUME NEW k \in 0 .. ((n - 1) - 1), k \in T PROVE k + 1 \in T
    <2>1. PICK m \in 1 .. (k + 1) : \A j \in 1 .. (k + 1) : j # m => Before(key, j, m) BY <1>2
    <2>2. k + 2 \in 1 .. n /\ m \in 1 .. n /\ key[m] \in Nat /\ key[k + 2] \in Nat OBVIOUS
    <2>3. \A j \in 1 .. (k + 2) : j = k + 2 \/ (j \in 1 .. (k + 1) /\ j \in 1 .. n /\ key[j] \in Nat)
      OBVIOUS
    <2>4. CASE key[m] <= key[k + 2]
      <3>1. ASSUME NEW j \in 1 .. (k + 2), j # k + 2 PROVE Before(key, j, k + 2)
        <4>1. j \in 1 .. (k + 1) /\ key[j] \in Nat BY <2>3, <3>1
        <4>2. j = m \/ Before(key, j, m) BY <2>1, <4>1
        <4> QED BY <2>2, <2>4, <4>1, <4>2 DEF Before
      <3>2. k + 2 \in 1 .. (k + 2) OBVIOUS
      <3>3. IsLast(k + 2) BY <3>1, <3>2
      <3>4. (k + 1) + 1 = k + 2 /\ k + 1 \in 0 .. (n - 1) OBVIOUS
      <3> HIDE DEF IsLast
      <3> QED BY <3>3, <3>4
    <2>5. CASE key[m] > key[k + 2]
      <3>1. ASSUME NEW j \in 1 .. (k + 2), j # m PROVE Before(key, j, m)
        BY <2>1, <2>2, <2>3, <2>5, <3>1 DEF Before
      <3>2. m \in 1 .. (k + 2) OBVIOUS
      <3>3. IsLast(k + 2) BY <3>1, <3>2
      <3>4. (k + 1) + 1 = k + 2 /\ k + 1 \in 0 .. (n - 1) OBVIOUS
      <3> HIDE DEF IsLast
      <3> QED BY <3>3, <3>4
    <2> QED BY <2>2, <2>4, <2>5
  <1>3. n - 1 \in T
    <2> HIDE DEF T
    <2>1. n - 1 \in Nat OBVIOUS
    <2>2. 0 .. (n - 1) \subseteq T BY <1>1, <1>2, <2>1, Upwards
    <2> QED BY <2>1, <2>2
  <1>4. IsLast(n) BY <1>3
  <1> QED BY <1>4

(* A permutation of n positions that sorts the others, continued with the  *)
(* last one, sorts n + 1.                                                  *)
LEMMA SortOneMore ==
  ASSUME NEW n \in Nat, NEW key \in [1 .. (n + 1) -> Nat], NEW m \in 1 .. (n + 1),
         \A j \in 1 .. (n + 1) : j # m => Before(key, j, m),
         NEW q, Sorts(q, n, [i \in 1 .. n |-> IF i < m THEN key[i] ELSE key[i + 1]])
  PROVE  \E p : Sorts(p, n + 1, key)
  <1> DEFINE t == [i \in 1 .. n |-> IF i < m THEN i ELSE i + 1]
             k == [i \in 1 .. n |-> IF i < m THEN key[i] ELSE key[i + 1]]
             p == [i \in 1 .. (n + 1) |-> IF i = n + 1 THEN m ELSE t[q[i]]]
  <1>1. /\ q \in [1 .. n -> 1 .. n]
        /\ \A w \in 1 .. n : \E v \in 1 .. n : q[v] = w
        /\ \A i, j \in 1 .. n : i < j => Before(k, q[i], q[j])
    BY DEF Sorts, Bijection, Surjection, Injection
  <1>2. \A i \in 1 .. n : t[i] \in 1 .. (n + 1) /\ t[i] # m /\ k[i] = key[t[i]] OBVIOUS
  <1>3. \A i, j \in 1 .. n : i < j => t[i] < t[j] OBVIOUS
  <1>4. \A w \in 1 .. (n + 1) : w # m => \E v \in 1 .. n : t[v] = w
    <2> SUFFICES ASSUME NEW w \in 1 .. (n + 1), w # m PROVE \E v \in 1 .. n : t[v] = w OBVIOUS
    <2>1. CASE w < m
      <3>1. w \in 1 .. n /\ t[w] = w BY <2>1
      <3> QED BY <3>1
    <2>2. CASE w > m
      <3>1. w - 1 \in 1 .. n /\ t[w - 1] = w BY <2>2
      <3> QED BY <3>1
    <2> QED BY <2>1, <2>2
  <1>5. \A i, j \in 1 .. n : Before(k, i, j) => Before(key, t[i], t[j])
    <2> HIDE DEF t, k
    <2> QED BY <1>2, <1>3 DEF Before
  <1>6. /\ \A i \in 1 .. n : i \in 1 .. (n + 1) /\ i # n + 1 /\ q[i] \in 1 .. n
        /\ \A i \in 1 .. (n + 1) : i = n + 1 \/ i \in 1 .. n
        /\ n + 1 \in 1 .. (n + 1)
    <2>1. \A i \in 1 .. n : q[i] \in 1 .. n BY <1>1
    <2>2. \A i \in 1 .. n : i \in 1 .. (n + 1) /\ i # n + 1 OBVIOUS
    <2>3. \A i \in 1 .. (n + 1) : i = n + 1 \/ i \in 1 .. n OBVIOUS
    <2> QED BY <2>1, <2>2, <2>3
  <1>7. \A i \in 1 .. n : p[i] = t[q[i]]
    <2> HIDE DEF t
    <2> QED BY <1>6
  <1>8. p[n + 1] = m OBVIOUS
  <1>9. p \in [1 .. (n + 1) -> 1 .. (n + 1)]
    <2> HIDE DEF t
    <2> QED BY <1>2, <1>6
  <1> HIDE DEF t, k, p
  <1>10. ASSUME NEW i \in 1 .. (n + 1), NEW j \in 1 .. (n + 1), i < j
         PROVE  Before(key, p[i], p[j])
    <2>1. i \in 1 .. n BY <1>10
    <2>2. CASE j = n + 1
      <3>0. q[i] \in 1 .. n /\ p[i] = t[q[i]] BY <1>6, <1>7, <2>1
      <3>1. p[i] \in 1 .. (n + 1) /\ p[i] # m BY <1>2, <3>0
      <3> QED BY <1>8, <2>2, <3>1
    <2>3. CASE j \in 1 .. n
      <3>1. Before(k, q[i], q[j]) BY <1>1, <1>10, <2>1, <2>3
      <3> QED BY <1>5, <1>6, <1>7, <2>1, <2>3, <3>1
    <2> QED BY <1>6, <2>2, <2>3
  <1>11. ASSUME NEW w \in 1 .. (n + 1) PROVE \E v \in 1 .. (n + 1) : p[v] = w
    <2>1. CASE w = m BY <1>6, <1>8, <2>1
    <2>2. CASE w # m
      <3>1. PICK u \in 1 .. n : t[u] = w BY <1>4, <2>2
      <3>2. PICK v \in 1 .. n : q[v] = u BY <1>1
      <3> QED BY <1>6, <1>7, <3>1, <3>2
    <2> QED BY <2>1, <2>2
  <1>12. IsInjective(p)
    <2> SUFFICES ASSUME NEW i \in 1 .. (n + 1), NEW j \in 1 .. (n + 1), p[i] = p[j], i # j
                 PROVE  FALSE
      BY <1>9, Zenon DEF IsInjective
    <2>1. Before(key, p[i], p[j]) \/ Before(key, p[j], p[i]) BY <1>10
    <2>2. p[i] \in 1 .. (n + 1) /\ key[p[i]] \in Nat BY <1>9
    <2> QED BY <2>1, <2>2 DEF Before
  <1>13. Sorts(p, n + 1, key)
    BY <1>9, <1>10, <1>11, <1>12, Zenon DEF Sorts, Bijection, Injection, Surjection
  <1> QED BY <1>13

(* Every sequence can be sorted.                                           *)
LEMMA SortExists ==
  ASSUME NEW n \in Nat, NEW key \in [1 .. n -> Nat]
  PROVE  \E p : Sorts(p, n, key)
  <1> DEFINE T == {m \in 0 .. n : \A f \in [1 .. m -> Nat] : \E p : Sorts(p, m, f)}
  <1>1. 0 \in T
    <2> SUFFICES ASSUME NEW f \in [1 .. 0 -> Nat] PROVE \E p : Sorts(p, 0, f) OBVIOUS
    <2> DEFINE p == [i \in 1 .. 0 |-> i]
    <2>1. p \in [1 .. 0 -> 1 .. 0] /\ \A i \in 1 .. 0 : FALSE OBVIOUS
    <2> HIDE DEF p
    <2>2. Sorts(p, 0, f)
      BY <2>1, Zenon DEF Sorts, Bijection, Injection, Surjection, IsInjective
    <2> QED BY <2>2
  <1>2. ASSUME NEW m \in 0 .. (n - 1), m \in T PROVE m + 1 \in T
    <2> SUFFICES ASSUME NEW f \in [1 .. (m + 1) -> Nat] PROVE \E p : Sorts(p, m + 1, f) OBVIOUS
    <2>1. m \in Nat /\ m + 1 \in Nat \ {0} OBVIOUS
    <2>2. PICK l \in 1 .. (m + 1) : \A j \in 1 .. (m + 1) : j # l => Before(f, j, l)
      BY <2>1, LastInOrder
    <2> DEFINE g == [i \in 1 .. m |-> IF i < l THEN f[i] ELSE f[i + 1]]
    <2>3. g \in [1 .. m -> Nat] OBVIOUS
    <2>4. PICK q : Sorts(q, m, g)
      <3> HIDE DEF g
      <3> QED BY <1>2, <2>3
    <2> QED BY <2>1, <2>2, <2>4, SortOneMore
  <1>3. n \in T
    <2> HIDE DEF T
    <2>1. 0 .. n \subseteq T BY <1>1, <1>2, Upwards
    <2> QED BY <2>1
  <1> QED BY <1>3

(* sort_by returns what a sorting permutation makes of its argument.       *)
LEMMA SortBy ==
  ASSUME NEW n \in Nat, NEW s, DOMAIN s = 1 .. n, NEW key \in [1 .. n -> Nat]
  PROVE  \E p : Sorts(p, n, key) /\ Arranges(p, n, s, sort_by(s, key))
  <1> DEFINE q == sorting(1 .. n, key)
  <1>1. \E p \in Bijection(1 .. n, 1 .. n) :
          \A i, j \in 1 .. n : i < j => Before(key, p[i], p[j])
    BY SortExists, Zenon DEF Sorts
  <1>2. Sorts(q, n, key) BY <1>1, Zenon DEF Sorts, sorting
  <1>3. Arranges(q, n, s, sort_by(s, key)) BY Zenon DEF sort_by, Arranges
  <1> HIDE DEF q
  <1> QED BY <1>2, <1>3

\* p sorts key, and q sorts k, which has the values of key in the order r.
SortBoth(n, key, r, p, k, q) ==
  /\ key \in [1 .. n -> Nat] /\ \A i, j \in 1 .. n : i # j => key[i] # key[j]
  /\ r \in Bijection(1 .. n, 1 .. n)
  /\ k = [i \in 1 .. n |-> key[r[i]]]
  /\ Sorts(p, n, key) /\ Sorts(q, n, k)

(* With different keys there is one sorted order, whatever permutation r   *)
(* of the positions was sorted.                                            *)
LEMMA SortUnique ==
  ASSUME NEW n \in Nat, NEW key, NEW r, NEW p, NEW k, NEW q, SortBoth(n, key, r, p, k, q)
  PROVE  \A i \in 1 .. n : p[i] = r[q[i]]
  <1> DEFINE S == {i \in 1 .. n : p[i] # r[q[i]]}
             m == Min(S)
             u == [i \in 1 .. n |-> r[q[i]]]
  <1> SUFFICES ASSUME S # {} PROVE FALSE OBVIOUS
  <1>1. S \in SUBSET Nat OBVIOUS
  <1>2. m \in S /\ \A y \in S : m <= y BY <1>1, LeastNatural
  <1> USE DEF SortBoth
  <1>3. /\ p \in [1 .. n -> 1 .. n] /\ q \in [1 .. n -> 1 .. n] /\ r \in [1 .. n -> 1 .. n]
        /\ \A w \in 1 .. n : \E v \in 1 .. n : p[v] = w
        /\ \A w \in 1 .. n : \E v \in 1 .. n : q[v] = w
        /\ \A w \in 1 .. n : \E v \in 1 .. n : r[v] = w
    BY Zenon DEF Sorts, Bijection, Surjection, Injection
  <1>4. u \in [1 .. n -> 1 .. n] BY <1>3
  <1>5. \A w \in 1 .. n : \E v \in 1 .. n : u[v] = w
    <2> SUFFICES ASSUME NEW w \in 1 .. n PROVE \E v \in 1 .. n : u[v] = w OBVIOUS
    <2>1. PICK x \in 1 .. n : r[x] = w BY <1>3
    <2>2. PICK y \in 1 .. n : q[y] = x BY <1>3
    <2> QED BY <2>1, <2>2
  <1>6. \A i, j \in 1 .. n : i < j => key[p[i]] < key[p[j]]
    <2> SUFFICES ASSUME NEW i \in 1 .. n, NEW j \in 1 .. n, i < j
                 PROVE  key[p[i]] < key[p[j]]
      OBVIOUS
    <2>1. p[i] \in 1 .. n /\ p[j] \in 1 .. n BY <1>3
    <2>2. Before(key, p[i], p[j]) BY DEF Sorts
    <2>3. p[i] # p[j] => key[p[i]] # key[p[j]] BY <2>1
    <2> QED BY <2>1, <2>2, <2>3 DEF Before
  <1>7. \A i, j \in 1 .. n : i < j => key[u[i]] < key[u[j]]
    <2> SUFFICES ASSUME NEW i \in 1 .. n, NEW j \in 1 .. n, i < j
                 PROVE  key[r[q[i]]] < key[r[q[j]]]
      OBVIOUS
    <2>1. q[i] \in 1 .. n /\ q[j] \in 1 .. n BY <1>3
    <2>2. Before(k, q[i], q[j]) BY DEF Sorts
    <2>3. k[q[i]] = key[r[q[i]]] /\ k[q[j]] = key[r[q[j]]] BY <2>1
    <2>4. CASE k[q[i]] < k[q[j]] BY <2>3, <2>4
    <2>5. CASE k[q[i]] = k[q[j]] /\ q[i] < q[j]
      <3>1. r[q[i]] \in 1 .. n /\ r[q[j]] \in 1 .. n BY <1>3, <2>1
      <3>2. r[q[i]] = r[q[j]] BY <2>3, <2>5, <3>1
      <3>3. \A a, b \in 1 .. n : r[a] = r[b] => a = b
        BY <1>3, Zenon DEF Bijection, Injection, IsInjective
      <3>4. q[i] = q[j] BY <2>1, <3>2, <3>3
      <3> QED BY <2>1, <2>5, <3>4
    <2> QED BY <2>2, <2>4, <2>5 DEF Before
  <1>8. m \in 1 .. n /\ p[m] # u[m] /\ \A i \in 1 .. n : i < m => p[i] = u[i]
    <2>1. m \in 1 .. n /\ p[m] # u[m] BY <1>2
    <2>2. ASSUME NEW i \in 1 .. n, i < m PROVE p[i] = u[i]
      <3>1. i \notin S BY <1>2, <2>1, <2>2
      <3> QED BY <3>1
    <2> QED BY <2>1, <2>2
  <1> HIDE DEF m, u, S
  <1>9. p[m] \in 1 .. n /\ u[m] \in 1 .. n BY <1>3, <1>4, <1>8
  <1>10. PICK a \in 1 .. n : u[a] = p[m] BY <1>5, <1>9
  <1>11. PICK b \in 1 .. n : p[b] = u[m] BY <1>3, <1>9
  <1>12. a > m
    <2>1. a # m BY <1>8, <1>10
    <2>2. ~(a < m)
      <3> SUFFICES ASSUME a < m PROVE FALSE OBVIOUS
      <3>1. p[a] = p[m] BY <1>8, <1>10
      <3>2. key[p[a]] < key[p[m]] BY <1>6, <1>8
      <3> QED BY <1>9, <3>1, <3>2
    <2> QED BY <1>8, <2>1, <2>2
  <1>13. b > m
    <2>1. b # m BY <1>8, <1>11
    <2>2. ~(b < m)
      <3> SUFFICES ASSUME b < m PROVE FALSE OBVIOUS
      <3>1. u[b] = u[m] BY <1>8, <1>11
      <3>2. key[u[b]] < key[u[m]] BY <1>7, <1>8
      <3> QED BY <1>9, <3>1, <3>2
    <2> QED BY <1>8, <2>1, <2>2
  <1>14. key[u[m]] < key[p[m]] BY <1>7, <1>8, <1>10, <1>12
  <1>15. key[p[m]] < key[u[m]] BY <1>6, <1>8, <1>11, <1>13
  <1> QED BY <1>9, <1>14, <1>15

\* The capabilities of nodes with different ids.
Clusters == {c \in Seq(Capability) : \A i, j \in DOMAIN c : i # j => c[i].node # c[j].node}

(* What is known of a capability.                                          *)
LEMMA ClusterFacts ==
  ASSUME NEW c \in Clusters
  PROVE  /\ Len(c) \in Nat /\ DOMAIN c = 1 .. Len(c) /\ c \in [1 .. Len(c) -> Capability]
         /\ c \in Seq(Capability)
         /\ \A i \in 1 .. Len(c) :
              /\ c[i] \in Capability /\ c[i].node \in Nat /\ c[i].node # Nobody
              /\ c[i].mem \in Nat /\ c[i].score \in Nat \ {0}
         /\ \A i, j \in 1 .. Len(c) : i # j => c[i].node # c[j].node
  <1>1. /\ c \in Seq(Capability) /\ \A i, j \in DOMAIN c : i # j => c[i].node # c[j].node
    BY Zenon DEF Clusters
  <1>2. Len(c) \in Nat /\ DOMAIN c = 1 .. Len(c) /\ c \in [1 .. Len(c) -> Capability]
    BY <1>1
  <1>3. \A x \in Capability : /\ x.node \in Nat /\ x.node # Nobody
                              /\ x.mem \in Nat /\ x.score \in Nat \ {0}
    BY DEF Capability, Ids
  <1>4. \A i \in 1 .. Len(c) : c[i] \in Capability BY <1>2
  <1> QED BY <1>1, <1>2, <1>3, <1>4

(* The canonical order has the same capabilities, by increasing id.        *)
LEMMA Canonical ==
  ASSUME NEW c \in Clusters
  PROVE  /\ canonical(c) \in Clusters /\ Len(canonical(c)) = Len(c)
         /\ {canonical(c)[i] : i \in 1 .. Len(c)} = {c[i] : i \in 1 .. Len(c)}
         /\ \A i, j \in 1 .. Len(c) : i < j => canonical(c)[i].node < canonical(c)[j].node
  <1> DEFINE n == Len(c)
             key == [i \in 1 .. n |-> c[i].node]
             s == canonical(c)
  <1>1. /\ n \in Nat /\ DOMAIN c = 1 .. n /\ c \in [1 .. n -> Capability]
        /\ \A i \in 1 .. n : c[i] \in Capability /\ c[i].node \in Nat
    BY ClusterFacts
  <1>2. key \in [1 .. n -> Nat] BY <1>1
  <1> HIDE DEF n
  <1>3. PICK p : Sorts(p, n, key) /\ Arranges(p, n, c, sort_by(c, key))
    <2> HIDE DEF key
    <2> QED BY <1>1, <1>2, SortBy, Zenon
  <1>4. s = [i \in 1 .. n |-> c[p[i]]] BY <1>1, <1>3, Zenon DEF canonical, Arranges
  <1>5. /\ p \in [1 .. n -> 1 .. n]
        /\ \A w \in 1 .. n : \E v \in 1 .. n : p[v] = w
    BY <1>3, Zenon DEF Sorts, Bijection, Surjection, Injection
  <1> HIDE DEF s
  <1>6. s \in Seq(Capability) /\ Len(s) = n /\ DOMAIN s = 1 .. n
    BY <1>1, <1>4, <1>5
  <1>7. \A i, j \in 1 .. n : i < j => s[i].node < s[j].node
    <2> SUFFICES ASSUME NEW i \in 1 .. n, NEW j \in 1 .. n, i < j
                 PROVE  s[i].node < s[j].node
      OBVIOUS
    <2>1. p[i] \in 1 .. n /\ p[j] \in 1 .. n /\ s[i] = c[p[i]] /\ s[j] = c[p[j]] BY <1>4, <1>5
    <2>2. Before(key, p[i], p[j]) BY <1>3 DEF Sorts
    <2>3. key[p[i]] = c[p[i]].node /\ key[p[j]] = c[p[j]].node BY <2>1
    <2>4. p[i] < p[j] => c[p[i]].node # c[p[j]].node BY <1>1, <2>1 DEF Clusters
    <2> HIDE DEF key
    <2> QED BY <2>1, <2>2, <2>3, <2>4 DEF Before
  <1>8. \A i, j \in 1 .. n : i # j => s[i].node # s[j].node
    <2> SUFFICES ASSUME NEW i \in 1 .. n, NEW j \in 1 .. n, i # j
                 PROVE  s[i].node # s[j].node
      OBVIOUS
    <2>1. s[i].node \in Nat /\ s[j].node \in Nat BY <1>1, <1>4, <1>5
    <2>2. s[i].node < s[j].node \/ s[j].node < s[i].node BY <1>1, <1>7
    <2> QED BY <2>1, <2>2
  <1>9. s \in Clusters BY <1>6, <1>8 DEF Clusters
  <1>10. {s[i] : i \in 1 .. n} = {c[i] : i \in 1 .. n}
    <2>1. \A i \in 1 .. n : s[i] \in {c[j] : j \in 1 .. n} BY <1>4, <1>5
    <2>2. \A i \in 1 .. n : c[i] \in {s[j] : j \in 1 .. n}
      <3> SUFFICES ASSUME NEW i \in 1 .. n PROVE c[i] \in {s[j] : j \in 1 .. n} OBVIOUS
      <3>1. PICK v \in 1 .. n : p[v] = i BY <1>5
      <3>2. s[v] = c[i] BY <1>4, <3>1
      <3> QED BY <3>2
    <2> QED BY <2>1, <2>2
  <1> QED BY <1>6, <1>7, <1>9, <1>10 DEF n, s

(* Capabilities in the order of node ids stay as they are.                 *)
LEMMA CanonicalSorted ==
  ASSUME NEW c \in Clusters, \A i, j \in 1 .. Len(c) : i < j => c[i].node < c[j].node
  PROVE  canonical(c) = c
  <1> DEFINE n == Len(c)
             key == [i \in 1 .. n |-> c[i].node]
             id == [i \in 1 .. n |-> i]
  <1>1. /\ n \in Nat /\ DOMAIN c = 1 .. n /\ c = [i \in 1 .. n |-> c[i]]
        /\ \A i \in 1 .. n : c[i].node \in Nat
        /\ \A i, j \in 1 .. n : i # j => c[i].node # c[j].node
        /\ \A i, j \in 1 .. n : i < j => c[i].node < c[j].node
    BY ClusterFacts
  <1> HIDE DEF n
  <1>2. key \in [1 .. n -> Nat] /\ \A i, j \in 1 .. n : i # j => key[i] # key[j] BY <1>1
  <1>3. PICK p : Sorts(p, n, key) /\ Arranges(p, n, c, sort_by(c, key))
    <2> HIDE DEF key
    <2> QED BY <1>1, <1>2, SortBy, Zenon
  <1>4. id \in Bijection(1 .. n, 1 .. n)
    BY DEF Bijection, Injection, Surjection, IsInjective
  <1>5. Sorts(id, n, key)
    <2>1. \A i, j \in 1 .. n : i < j => Before(key, id[i], id[j]) BY <1>1 DEF Before
    <2> HIDE DEF id
    <2> QED BY <1>4, <2>1, Zenon DEF Sorts
  <1>6. key = [i \in 1 .. n |-> key[id[i]]] OBVIOUS
  <1>7. \A i \in 1 .. n : p[i] = id[id[i]]
    <2> HIDE DEF key, id
    <2>1. SortBoth(n, key, id, p, key, id) BY <1>2, <1>3, <1>4, <1>5, <1>6, Zenon DEF SortBoth
    <2> QED BY <1>1, <2>1, SortUnique
  <1>8. \A i \in 1 .. n : p[i] = i BY <1>7
  <1>9. canonical(c) = [i \in 1 .. n |-> c[p[i]]]
    BY <1>1, <1>3, Zenon DEF canonical, Arranges
  <1> QED BY <1>1, <1>8, <1>9

(* The order in which the capabilities were found does not matter.         *)
LEMMA CanonicalOrderFree ==
  ASSUME NEW c \in Clusters, NEW r \in Bijection(DOMAIN c, DOMAIN c)
  PROVE  canonical([i \in DOMAIN c |-> c[r[i]]]) = canonical(c)
  <1> DEFINE n == Len(c)
             key == [i \in 1 .. n |-> c[i].node]
             d == [i \in 1 .. n |-> c[r[i]]]
             dkey == [i \in 1 .. n |-> key[r[i]]]
  <1>1. /\ n \in Nat /\ DOMAIN c = 1 .. n /\ c \in [1 .. n -> Capability]
        /\ \A i \in 1 .. n : c[i].node \in Nat
    BY ClusterFacts
  <1> HIDE DEF n
  <1>2. /\ r \in Bijection(1 .. n, 1 .. n) /\ r \in [1 .. n -> 1 .. n]
    BY <1>1, Zenon DEF Bijection, Injection
  <1>3. key \in [1 .. n -> Nat] /\ dkey \in [1 .. n -> Nat] BY <1>1, <1>2
  <1>4. DOMAIN d = 1 .. n /\ [i \in 1 .. n |-> d[i].node] = dkey BY <1>1, <1>2
  <1>5. PICK p : Sorts(p, n, key) /\ Arranges(p, n, c, sort_by(c, key))
    <2> HIDE DEF key
    <2> QED BY <1>1, <1>3, SortBy, Zenon
  <1>6. PICK q : Sorts(q, n, dkey) /\ Arranges(q, n, d, sort_by(d, dkey))
    <2> HIDE DEF dkey, d
    <2> QED BY <1>1, <1>3, <1>4, SortBy, Zenon
  <1>7. \A i, j \in 1 .. n : i # j => key[i] # key[j] BY <1>1 DEF Clusters
  <1>8. \A i \in 1 .. n : p[i] = r[q[i]]
    <2>1. dkey = [i \in 1 .. n |-> key[r[i]]] OBVIOUS
    <2> HIDE DEF key, dkey
    <2>2. SortBoth(n, key, r, p, dkey, q) BY <1>2, <1>3, <1>5, <1>6, <1>7, <2>1 DEF SortBoth
    <2> QED BY <1>1, <2>2, SortUnique
  <1>9. q \in [1 .. n -> 1 .. n] BY <1>6, Zenon DEF Sorts, Bijection, Injection
  <1>10. [i \in 1 .. n |-> d[q[i]]] = [i \in 1 .. n |-> c[p[i]]] BY <1>8, <1>9
  <1>11. canonical(c) = sort_by(c, key) BY <1>1, Zenon DEF canonical
  <1>12. canonical(d) = sort_by(d, dkey) BY <1>4, Zenon DEF canonical
  <1> HIDE DEF key, dkey
  <1>13. canonical(d) = canonical(c)
    <2> HIDE DEF d
    <2> QED BY <1>5, <1>6, <1>10, <1>11, <1>12, Zenon DEF Arranges
  <1> QED BY <1>1, <1>13

-----------------------------------------------------------------------------
(* The dynamic program. *)

(* The order of arrival does not matter for the plan.                      *)
LEMMA AgreedOrderFree ==
  ASSUME NEW c \in Clusters, NEW r \in Bijection(DOMAIN c, DOMAIN c)
  PROVE  agreed_manifest([i \in DOMAIN c |-> c[r[i]]]) = agreed_manifest(c)
  BY CanonicalOrderFree, Zenon DEF agreed_manifest

(* Division rounds down.                                                   *)
LEMMA RoundsDown ==
  ASSUME NEW x \in Nat, NEW b \in Nat \ {0}
  PROVE  /\ x \div b \in Nat /\ x \div b <= x
         /\ \A l \in Nat : l <= x \div b <=> l * b <= x
  OBVIOUS

(* A stage cost is less than INF.                                          *)
LEMMA StageCost ==
  ASSUME NEW cap \in Capability, NEW l \in 0 .. NLayers
  PROVE  stage_cost(cap, l) \in 0 .. INF /\ stage_cost(cap, l) # INF
  <1>1. NLayers \in Nat /\ cap.score \in Nat \ {0} BY PartitionAssumption DEF Capability
  <1>2. l * 1000 \in Nat /\ l * 1000 <= NLayers * 1000 BY <1>1
  <1>3. (l * 1000) \div cap.score \in Nat /\ (l * 1000) \div cap.score <= l * 1000
    BY <1>1, <1>2, RoundsDown
  <1> QED BY <1>1, <1>2, <1>3 DEF stage_cost, INF

(* max_layers is how many layers the memory of a node holds.               *)
LEMMA MaxLayers ==
  ASSUME NEW c \in Clusters, NEW k \in 1 .. Len(c)
  PROVE  /\ max_layers(c, k) \in Nat /\ overhead(k) \in Nat
         /\ \A l \in Nat : l <= max_layers(c, k)
                             <=> l = 0 \/ l * LayerBytes + overhead(k) <= c[k].mem
  <1>1. c[k].mem \in Nat /\ LayerBytes \in Nat \ {0} BY ClusterFacts, PartitionAssumption
  <1>2. overhead(k) \in Nat BY PartitionAssumption DEF overhead
  <1> DEFINE m == c[k].mem
             o == overhead(k)
  <1>3. max_layers(c, k) = IF m <= o THEN 0 ELSE (m - o) \div LayerBytes BY DEF max_layers
  <1> HIDE DEF m, o
  <1>4. m \in Nat /\ o \in Nat BY <1>1, <1>2 DEF m, o
  <1>5. CASE m <= o
    <2>1. ASSUME NEW l \in Nat, l # 0 PROVE ~(l * LayerBytes + o <= m)
      <3>1. l * LayerBytes \in Nat /\ l * LayerBytes >= 1 BY <1>1, <2>1
      <3> QED BY <1>4, <1>5, <3>1
    <2> QED BY <1>3, <1>4, <1>5, <2>1 DEF m, o
  <1>6. CASE m > o
    <2>1. m - o \in Nat BY <1>4, <1>6
    <2> DEFINE q == (m - o) \div LayerBytes
    <2>2. q \in Nat /\ \A l \in Nat : l <= q <=> l * LayerBytes <= m - o
      BY <1>1, <2>1, RoundsDown
    <2>3. max_layers(c, k) = q BY <1>3, <1>4, <1>6
    <2> HIDE DEF q
    <2>4. \A l \in Nat : l <= q <=> l * LayerBytes + o <= m
      <3> SUFFICES ASSUME NEW l \in Nat PROVE l <= q <=> l * LayerBytes + o <= m OBVIOUS
      <3>1. l * LayerBytes \in Nat BY <1>1
      <3> QED BY <1>4, <2>2, <3>1
    <2>5. 0 <= q BY <2>2
    <2> QED BY <1>4, <2>2, <2>3, <2>4, <2>5 DEF m, o
  <1> QED BY <1>4, <1>5, <1>6

Rows == [0 .. NLayers -> 0 .. INF]

\* The cost of giving layers j .. i-1 to node k, the layers before costing row[j].
Candidate(c, k, row, i, j) == Larger(row[j], stage_cost(c[k], i - j))

(* The transition takes the best candidate there is.                       *)
LEMMA NextRow ==
  ASSUME NEW c \in Clusters, NEW k \in 1 .. Len(c), NEW row \in Rows, NEW i \in 0 .. NLayers
  PROVE  LET v == next_row(c, k, row)[i] IN
         /\ v \in 0 .. INF
         /\ \A j \in Reach(c, k, i) : v <= Candidate(c, k, row, i, j)
         /\ v = INF \/ \E j \in Reach(c, k, i) : v = Candidate(c, k, row, i, j)
  <1> DEFINE R == Reach(c, k, i)
             Cand(j) == Candidate(c, k, row, i, j)
             S == {INF} \cup {Cand(j) : j \in R}
  <1>0. NLayers \in Nat /\ INF \in Nat BY PartitionAssumption DEF INF
  <1>1. next_row(c, k, row)[i] = Min(S) BY Zenon DEF next_row, Candidate
  <1>2. ASSUME NEW j \in R PROVE Cand(j) \in 0 .. INF
    <2>1. j \in 0 .. i BY DEF Reach
    <2>2. j \in 0 .. NLayers /\ i - j \in 0 .. NLayers BY <1>0, <2>1
    <2>3. row[j] \in 0 .. INF BY <2>2 DEF Rows
    <2>4. stage_cost(c[k], i - j) \in 0 .. INF BY <2>2, StageCost, ClusterFacts
    <2> QED BY <1>0, <2>3, <2>4 DEF Candidate, Larger
  <1>3. S \in SUBSET Nat /\ S # {} /\ INF \in S BY <1>0, <1>2
  <1>4. Min(S) \in S /\ \A y \in S : Min(S) <= y BY <1>3, LeastNatural
  <1>5. \A j \in R : Cand(j) \in S OBVIOUS
  <1>6. Min(S) = INF \/ \E j \in R : Min(S) = Cand(j) BY <1>4
  <1>7. Min(S) \in 0 .. INF BY <1>0, <1>2, <1>6
  <1> HIDE DEF Cand, S
  <1>8. \A j \in R : Min(S) <= Cand(j) BY <1>4, <1>5
  <1> QED BY <1>1, <1>6, <1>7, <1>8 DEF Cand

(* cost is what its recursion says.                                        *)
LEMMA CostRows ==
  ASSUME NEW c \in Clusters
  PROVE  /\ cost(c) \in [0 .. Len(c) -> Rows] /\ cost(c)[0] = first_row
         /\ \A k \in 1 .. Len(c) : cost(c)[k] = next_row(c, k, cost(c)[k - 1])
  <1> DEFINE n == Len(c)
             g == [k \in 1 .. n |-> [row \in Rows |-> next_row(c, k, row)]]
  <1>1. n \in Nat BY ClusterFacts
  <1>2. first_row \in Rows BY PartitionAssumption DEF Rows, first_row, INF
  <1>3. \A k \in 1 .. n, row \in Rows : next_row(c, k, row) \in Rows
    <2> SUFFICES ASSUME NEW k \in 1 .. n, NEW row \in Rows PROVE next_row(c, k, row) \in Rows
      OBVIOUS
    <2>1. \A i \in 0 .. NLayers : next_row(c, k, row)[i] \in 0 .. INF BY NextRow
    <2>2. next_row(c, k, row) = [i \in 0 .. NLayers |-> next_row(c, k, row)[i]]
      BY DEF next_row
    <2> QED BY <2>1, <2>2 DEF Rows
  <1>4. g \in [1 .. n -> [Rows -> Rows]] BY <1>3
  <1> HIDE DEF n
  <1>5. PICK f \in [0 .. n -> Rows] : Iterates(f, n, first_row, g)
    <2> HIDE DEF g
    <2> QED BY <1>1, <1>2, <1>4, Recursion
  <1> DEFINE Solves(h) == h = [k \in 0 .. n |-> IF k = 0 THEN first_row ELSE next_row(c, k, h[k - 1])]
  <1>6. Solves(f)
    <2> SUFFICES ASSUME NEW k \in 0 .. n
                 PROVE  f[k] = IF k = 0 THEN first_row ELSE next_row(c, k, f[k - 1])
      OBVIOUS
    <2>1. k # 0 => k \in 1 .. n /\ f[k - 1] \in Rows BY <1>1
    <2>2. k # 0 => g[k][f[k - 1]] = next_row(c, k, f[k - 1]) BY <2>1
    <2>3. f[k] = IF k = 0 THEN first_row ELSE g[k][f[k - 1]]
      <3> HIDE DEF g
      <3> QED BY <1>5 DEF Iterates
    <2> QED BY <2>2, <2>3
  <1>7. cost(c) = CHOOSE h : Solves(h) BY Zenon DEF cost, n
  <1>8. Solves(cost(c)) BY <1>6, <1>7
  <1> DEFINE h == cost(c)
  <1> HIDE DEF h
  <1>9. h = [k \in 0 .. n |-> IF k = 0 THEN first_row ELSE next_row(c, k, h[k - 1])]
    BY <1>8 DEF h
  <1>10. h[0] = first_row BY <1>1, <1>9
  <1>11. \A k \in 1 .. n : h[k] = next_row(c, k, h[k - 1]) BY <1>1, <1>9
  <1> DEFINE T == {k \in 0 .. n : h[k] \in Rows}
  <1>12. 0 \in T BY <1>1, <1>2, <1>10
  <1>13. ASSUME NEW k \in 0 .. (n - 1), k \in T PROVE k + 1 \in T
    <2>1. k + 1 \in 1 .. n /\ (k + 1) - 1 = k /\ h[k] \in Rows BY <1>1, <1>13
    <2> QED BY <1>3, <1>11, <2>1
  <1>14. 0 .. n \subseteq T
    <2> HIDE DEF T
    <2> QED BY <1>1, <1>12, <1>13, Upwards
  <1>15. h \in [0 .. n -> Rows] BY <1>9, <1>14
  <1> QED BY <1>10, <1>11, <1>15 DEF h, n

\* A plan: cut[i-1] .. cut[i]-1 are the layers of the i-th node, whose memory
\* holds them.
Fits(c, cut) ==
  /\ cut \in [0 .. Len(c) -> 0 .. NLayers] /\ cut[0] = 0 /\ cut[Len(c)] = NLayers
  /\ \A i \in 1 .. Len(c) : cut[i - 1] <= cut[i] /\ cut[i] - cut[i - 1] <= max_layers(c, i)

(* A cut of a plan is one the transition considers.                        *)
LEMMA FitsReach ==
  ASSUME NEW c \in Clusters, NEW cut, Fits(c, cut), NEW i \in 1 .. Len(c)
  PROVE  /\ cut[i] \in 0 .. NLayers /\ cut[i - 1] \in 0 .. NLayers
         /\ cut[i] - cut[i - 1] \in 0 .. NLayers
         /\ cut[i - 1] \in Reach(c, i, cut[i])
  <1>1. Len(c) \in Nat /\ NLayers \in Nat BY ClusterFacts, PartitionAssumption
  <1>2. i \in 0 .. Len(c) /\ i - 1 \in 0 .. Len(c) BY <1>1
  <1>3. /\ cut[i] \in 0 .. NLayers /\ cut[i - 1] \in 0 .. NLayers
        /\ cut[i - 1] <= cut[i] /\ cut[i] - cut[i - 1] <= max_layers(c, i)
    BY <1>2 DEF Fits
  <1> QED BY <1>1, <1>3 DEF Reach

(* No plan is better than cost says: if none of its stages costs more than *)
(* b, then cost is at most b.                                              *)
LEMMA CostLeast ==
  ASSUME NEW c \in Clusters, NEW cut, Fits(c, cut), NEW b \in Nat,
         \A i \in 1 .. Len(c) : stage_cost(c[i], cut[i] - cut[i - 1]) <= b
  PROVE  cost(c)[Len(c)][NLayers] <= b
  <1> DEFINE n == Len(c)
             h == cost(c)
             T == {k \in 0 .. n : h[k][cut[k]] <= b}
  <1>0. n \in Nat /\ NLayers \in Nat /\ INF \in Nat BY ClusterFacts, PartitionAssumption DEF INF
  <1>1. /\ h \in [0 .. n -> Rows] /\ h[0] = first_row
        /\ \A k \in 1 .. n : h[k] = next_row(c, k, h[k - 1])
    BY CostRows
  <1>2. 0 \in T
    <2>1. cut[0] = 0 /\ first_row[0] = 0 BY <1>0 DEF Fits, first_row
    <2> QED BY <1>0, <1>1, <2>1
  <1>3. ASSUME NEW k \in 0 .. (n - 1), k \in T PROVE k + 1 \in T
    <2> DEFINE i == k + 1
    <2>1. i \in 1 .. n /\ i - 1 = k /\ k \in 0 .. n BY <1>0
    <2> HIDE DEF i, h, n
    <2>2. h[k] \in Rows /\ h[i] = next_row(c, i, h[k]) BY <1>1, <2>1
    <2>3. /\ cut[i] \in 0 .. NLayers /\ cut[k] \in 0 .. NLayers
          /\ cut[i] - cut[k] \in 0 .. NLayers /\ cut[k] \in Reach(c, i, cut[i])
      BY <2>1, FitsReach DEF n
    <2>4. h[i][cut[i]] <= Candidate(c, i, h[k], cut[i], cut[k])
      BY <2>1, <2>2, <2>3, NextRow DEF n
    <2>5. h[k][cut[k]] <= b /\ h[k][cut[k]] \in Nat BY <1>0, <1>3, <2>2, <2>3 DEF Rows
    <2>6. stage_cost(c[i], cut[i] - cut[k]) <= b BY <2>1 DEF n
    <2>7. stage_cost(c[i], cut[i] - cut[k]) \in Nat
      <3>1. c[i] \in Capability BY <2>1, ClusterFacts DEF n
      <3>2. stage_cost(c[i], cut[i] - cut[k]) \in 0 .. INF BY <2>3, <3>1, StageCost
      <3> QED BY <1>0, <3>2
    <2>8. Candidate(c, i, h[k], cut[i], cut[k]) \in Nat /\ Candidate(c, i, h[k], cut[i], cut[k]) <= b
      BY <2>5, <2>6, <2>7 DEF Candidate, Larger
    <2>9. i \in 0 .. n BY <1>0, <2>1
    <2>10. h[i] \in Rows BY <1>1, <2>9
    <2>11. h[i][cut[i]] \in Nat BY <1>0, <2>3, <2>10 DEF Rows
    <2>12. h[i][cut[i]] <= b BY <2>4, <2>8, <2>11
    <2> QED BY <2>9, <2>12 DEF i
  <1>4. n \in T
    <2> HIDE DEF T, n
    <2>1. 0 .. n \subseteq T BY <1>0, <1>2, <1>3, Upwards
    <2> QED BY <1>0, <2>1
  <1> QED BY <1>4 DEF Fits

(* A cluster that a plan fits has the capacity.                            *)
LEMMA TotalCap ==
  ASSUME NEW c \in Clusters, NEW cut, Fits(c, cut)
  PROVE  total_cap(c) \in Nat /\ NLayers <= total_cap(c)
  <1> DEFINE n == Len(c)
             g == [k \in 1 .. n |-> [x \in Nat |-> x + max_layers(c, k)]]
             Solves(h) == h = [k \in 0 .. n |-> IF k = 0 THEN 0 ELSE h[k - 1] + max_layers(c, k)]
  <1>0. n \in Nat /\ NLayers \in Nat BY ClusterFacts, PartitionAssumption
  <1>1. \A k \in 1 .. n : max_layers(c, k) \in Nat BY MaxLayers
  <1>2. g \in [1 .. n -> [Nat -> Nat]] BY <1>1
  <1> HIDE DEF n
  <1>3. PICK f \in [0 .. n -> Nat] : Iterates(f, n, 0, g)
    <2> HIDE DEF g
    <2> QED BY <1>0, <1>2, Recursion
  <1>4. Solves(f)
    <2> SUFFICES ASSUME NEW k \in 0 .. n
                 PROVE  f[k] = IF k = 0 THEN 0 ELSE f[k - 1] + max_layers(c, k)
      OBVIOUS
    <2>1. k # 0 => k \in 1 .. n /\ f[k - 1] \in Nat BY <1>0
    <2>2. k # 0 => g[k][f[k - 1]] = f[k - 1] + max_layers(c, k) BY <2>1
    <2>3. f[k] = IF k = 0 THEN 0 ELSE g[k][f[k - 1]]
      <3> HIDE DEF g
      <3> QED BY <1>3 DEF Iterates
    <2> QED BY <2>2, <2>3
  <1> DEFINE h == CHOOSE h : Solves(h)
  <1>5. total_cap(c) = h[n] BY Zenon DEF total_cap, n
  <1>6. Solves(h) BY <1>4
  <1> HIDE DEF h
  <1>7. h[0] = 0 /\ \A k \in 1 .. n : h[k] = h[k - 1] + max_layers(c, k) BY <1>0, <1>6
  <1> DEFINE T == {k \in 0 .. n : h[k] \in Nat /\ cut[k] <= h[k]}
  <1>8. 0 \in T BY <1>0, <1>7 DEF Fits
  <1>9. ASSUME NEW k \in 0 .. (n - 1), k \in T PROVE k + 1 \in T
    <2> DEFINE i == k + 1
    <2>1. i \in 1 .. n /\ i - 1 = k /\ k \in 0 .. n /\ i \in 0 .. n BY <1>0
    <2> HIDE DEF i
    <2>2. cut[i] \in Nat /\ cut[k] \in Nat BY <1>0, <2>1, FitsReach DEF n
    <2>3. cut[i] - cut[k] <= max_layers(c, i) /\ max_layers(c, i) \in Nat
      BY <1>1, <2>1 DEF Fits, n
    <2>4. h[k] \in Nat /\ cut[k] <= h[k] /\ h[i] = h[k] + max_layers(c, i) BY <1>7, <1>9, <2>1
    <2>5. h[i] \in Nat /\ cut[i] <= h[i] BY <2>2, <2>3, <2>4
    <2> QED BY <2>1, <2>5 DEF i
  <1>10. n \in T
    <2> HIDE DEF T
    <2>1. 0 .. n \subseteq T BY <1>0, <1>8, <1>9, Upwards
    <2> QED BY <1>0, <2>1
  <1>11. cut[n] = NLayers BY DEF Fits, n
  <1> QED BY <1>5, <1>10, <1>11

(* back finds a candidate that attains the cost, if it is not INF.         *)
LEMMA Back ==
  ASSUME NEW c \in Clusters, NEW k \in 1 .. Len(c), NEW i \in 0 .. NLayers
  PROVE  LET h == cost(c)
             j == back(c, cost(c), k, i)
         IN  /\ j \in 0 .. NLayers
             /\ h[k][i] # INF => /\ j \in Reach(c, k, i)
                                 /\ h[k - 1][j] <= h[k][i]
                                 /\ stage_cost(c[k], i - j) <= h[k][i]
  <1> DEFINE h == cost(c)
             R == Reach(c, k, i)
             S == {j \in R : Candidate(c, k, h[k - 1], i, j) = h[k][i]}
             b == back(c, cost(c), k, i)
  <1>0. NLayers \in Nat /\ INF \in Nat /\ Len(c) \in Nat
    BY PartitionAssumption, ClusterFacts DEF INF
  <1>1. k \in 0 .. Len(c) /\ k - 1 \in 0 .. Len(c) BY <1>0
  <1>2. h \in [0 .. Len(c) -> Rows] /\ h[k] = next_row(c, k, h[k - 1]) BY CostRows
  <1>3. h[k - 1] \in Rows /\ h[k][i] \in Nat BY <1>0, <1>1, <1>2 DEF Rows
  <1>4. b = IF h[k][i] = INF \/ S = {} THEN 0 ELSE Min(S) BY Zenon DEF back, Candidate
  <1>5. R \in SUBSET (0 .. i) /\ S \in SUBSET Nat /\ S \subseteq R BY <1>0 DEF Reach
  <1>6. h[k][i] = INF \/ S # {}
    <2>1. h[k][i] = INF \/ \E j \in R : h[k][i] = Candidate(c, k, h[k - 1], i, j)
      <3> HIDE DEF h
      <3> QED BY <1>2, <1>3, NextRow
    <2> QED BY <2>1
  <1> HIDE DEF h, b
  <1>7. CASE h[k][i] = INF
    <2>1. b = 0 BY <1>4, <1>7
    <2> QED BY <1>0, <1>7, <2>1 DEF h, b
  <1>8. CASE h[k][i] # INF
    <2>1. b = Min(S) BY <1>4, <1>6, <1>8
    <2>2. b \in S BY <1>5, <1>6, <1>8, <2>1, LeastNatural
    <2>3. b \in R /\ Candidate(c, k, h[k - 1], i, b) = h[k][i] BY <2>2
    <2>4. b \in 0 .. NLayers /\ i - b \in 0 .. NLayers BY <1>0, <1>5, <2>3
    <2>5. h[k - 1][b] \in Nat BY <1>0, <1>3, <2>4 DEF Rows
    <2>6. stage_cost(c[k], i - b) \in Nat BY <1>0, <2>4, StageCost, ClusterFacts
    <2>7. h[k - 1][b] <= h[k][i] /\ stage_cost(c[k], i - b) <= h[k][i]
      BY <1>3, <2>3, <2>5, <2>6 DEF Candidate, Larger
    <2> QED BY <2>3, <2>4, <2>7 DEF h, b
  <1> QED BY <1>7, <1>8

(* Backtracking from a cost that is not INF gives a plan none of whose     *)
(* stages costs more.                                                      *)
LEMMA Backtracking ==
  ASSUME NEW c \in Clusters, cost(c)[Len(c)][NLayers] # INF
  PROVE  LET cut == cuts(c, cost(c)) IN
         /\ Fits(c, cut)
         /\ \A i \in 1 .. Len(c) :
              stage_cost(c[i], cut[i] - cut[i - 1]) <= cost(c)[Len(c)][NLayers]
  <1> DEFINE n == Len(c)
             h == cost(c)
             B(k, i) == back(c, cost(c), k, i)
             g == [d \in 1 .. n |-> [i \in 0 .. NLayers |-> B(n - d + 1, i)]]
             Solves(f) == f = [d \in 0 .. n |-> IF d = 0 THEN NLayers ELSE B(n - d + 1, f[d - 1])]
  <1>0. n \in Nat /\ NLayers \in Nat /\ INF \in Nat BY ClusterFacts, PartitionAssumption DEF INF
  <1>1. \A k \in 1 .. n, i \in 0 .. NLayers :
          /\ B(k, i) \in 0 .. NLayers
          /\ h[k][i] # INF => /\ B(k, i) \in Reach(c, k, i)
                              /\ h[k - 1][B(k, i)] <= h[k][i]
                              /\ stage_cost(c[k], i - B(k, i)) <= h[k][i]
    BY Back
  <1>2. \A d \in 1 .. n : n - d + 1 \in 1 .. n BY <1>0
  <1>3. h \in [0 .. n -> Rows] /\ h[0] = first_row BY CostRows
  <1>4. h[n][NLayers] # INF OBVIOUS
  <1>5. ASSUME NEW f, Solves(f) PROVE cuts(c, cost(c)) = [k \in 0 .. n |-> (CHOOSE f2 : Solves(f2))[n - k]]
    BY Zenon DEF cuts
  <1> HIDE DEF h, B, n
  <1>6. g \in [1 .. n -> [0 .. NLayers -> 0 .. NLayers]] BY <1>1, <1>2
  <1>7. PICK f \in [0 .. n -> 0 .. NLayers] : Iterates(f, n, NLayers, g)
    <2>1. NLayers \in 0 .. NLayers BY <1>0
    <2> HIDE DEF g
    <2> QED BY <1>0, <1>6, <2>1, Recursion
  <1>8. Solves(f)
    <2> SUFFICES ASSUME NEW d \in 0 .. n
                 PROVE  f[d] = IF d = 0 THEN NLayers ELSE B(n - d + 1, f[d - 1])
      OBVIOUS
    <2>1. d # 0 => d \in 1 .. n /\ f[d - 1] \in 0 .. NLayers BY <1>0
    <2>2. d # 0 => g[d][f[d - 1]] = B(n - d + 1, f[d - 1]) BY <2>1
    <2>3. f[d] = IF d = 0 THEN NLayers ELSE g[d][f[d - 1]]
      <3> HIDE DEF g
      <3> QED BY <1>7 DEF Iterates
    <2> QED BY <2>2, <2>3
  <1> DEFINE rev == CHOOSE f2 : Solves(f2)
             cut == [k \in 0 .. n |-> rev[n - k]]
  <1>9. Solves(rev) BY <1>8
  <1>10. cuts(c, cost(c)) = cut BY <1>5, <1>8, Zenon
  <1> HIDE DEF rev
  <1>11. rev[0] = NLayers /\ \A d \in 1 .. n : rev[d] = B(n - d + 1, rev[d - 1]) BY <1>0, <1>9
  <1> DEFINE Good(k) == /\ cut[k] \in 0 .. NLayers
                        /\ h[k][cut[k]] # INF /\ h[k][cut[k]] <= h[n][NLayers]
             T == {d \in 0 .. n : Good(n - d)}
  <1>12. cut[n] = NLayers /\ \A k \in 1 .. n : cut[k - 1] = B(k, cut[k])
    <2>1. cut[n] = NLayers BY <1>0, <1>11
    <2>2. ASSUME NEW k \in 1 .. n PROVE cut[k - 1] = B(k, cut[k])
      <3> DEFINE d == n - k + 1
      <3>1. /\ d \in 1 .. n /\ n - d + 1 = k /\ d - 1 = n - k /\ n - (k - 1) = d
            /\ k \in 0 .. n /\ k - 1 \in 0 .. n
        BY <1>0
      <3> HIDE DEF d
      <3>2. rev[d] = B(k, rev[n - k]) BY <1>11, <3>1
      <3>3. cut[k] = rev[n - k] /\ cut[k - 1] = rev[d] BY <3>1
      <3> QED BY <3>2, <3>3
    <2> QED BY <2>1, <2>2
  <1>13. cut = [k \in 0 .. n |-> cut[k]] OBVIOUS
  <1> HIDE DEF cut
  <1>14. \A k \in 0 .. n, i \in 0 .. NLayers : h[k][i] \in Nat
    <2> SUFFICES ASSUME NEW k \in 0 .. n, NEW i \in 0 .. NLayers PROVE h[k][i] \in Nat OBVIOUS
    <2>1. h[k] \in Rows BY <1>3
    <2> QED BY <1>0, <2>1 DEF Rows
  <1>15. 0 \in T
    <2>1. n - 0 = n /\ 0 \in 0 .. n /\ n \in 0 .. n /\ NLayers \in 0 .. NLayers BY <1>0
    <2>2. Good(n) BY <1>4, <1>12, <1>14, <2>1
    <2> HIDE DEF Good
    <2> QED BY <2>1, <2>2
  <1>16. ASSUME NEW k \in 1 .. n, Good(k) PROVE Good(k - 1)
    <2>1. k - 1 \in 0 .. n /\ k \in 0 .. n BY <1>0
    <2>2. /\ cut[k - 1] \in 0 .. NLayers /\ h[k - 1][cut[k - 1]] <= h[k][cut[k]]
      BY <1>1, <1>12, <1>16
    <2>3. /\ h[k - 1][cut[k - 1]] \in Nat /\ h[k][cut[k]] \in Nat /\ h[n][NLayers] \in Nat
      <3>1. h[k - 1][cut[k - 1]] \in Nat BY <1>14, <2>1, <2>2, Zenon
      <3>2. h[k][cut[k]] \in Nat BY <1>14, <1>16, <2>1, Zenon
      <3>3. n \in 0 .. n /\ NLayers \in 0 .. NLayers BY <1>0
      <3>4. h[n][NLayers] \in Nat BY <1>14, <3>3, Zenon
      <3> QED BY <3>1, <3>2, <3>4
    <2>4. h[k][cut[k]] < INF
      <3>1. h[k] \in Rows BY <1>3, <2>1
      <3>2. h[k][cut[k]] \in 0 .. INF BY <1>16, <3>1 DEF Rows
      <3> QED BY <1>0, <1>16, <3>2
    <2>5. h[k][cut[k]] <= h[n][NLayers] BY <1>16
    <2>6. h[k - 1][cut[k - 1]] < INF /\ h[k - 1][cut[k - 1]] <= h[n][NLayers]
      <3> DEFINE x == h[k - 1][cut[k - 1]]  y == h[k][cut[k]]  z == h[n][NLayers]
      <3>1. x \in Nat /\ y \in Nat /\ z \in Nat /\ x <= y /\ y < INF /\ y <= z
        BY ONLY <2>2, <2>3, <2>4, <2>5
      <3> HIDE DEF x, y, z
      <3>2. x < INF /\ x <= z BY ONLY <1>0, <3>1
      <3> QED BY ONLY <3>2 DEF x, z
    <2>7. h[k - 1][cut[k - 1]] # INF BY ONLY <1>0, <2>3, <2>6
    <2> QED BY <2>2, <2>6, <2>7
  <1>17. ASSUME NEW d \in 0 .. (n - 1), d \in T PROVE d + 1 \in T
    <2>1. n - d \in 1 .. n /\ (n - d) - 1 = n - (d + 1) /\ d + 1 \in 0 .. n BY <1>0
    <2>2. Good(n - d) BY <1>17
    <2> HIDE DEF Good
    <2>3. Good((n - d) - 1) BY <1>16, <2>1, <2>2
    <2> QED BY <2>1, <2>3
  <1>18. \A k \in 0 .. n : Good(k)
    <2> SUFFICES ASSUME NEW k \in 0 .. n PROVE Good(k) BY Zenon
    <2>1. 0 .. n \subseteq T
      <3> HIDE DEF T
      <3> QED BY <1>0, <1>15, <1>17, Upwards
    <2>2. n - k \in 0 .. n /\ n - (n - k) = k BY <1>0
    <2>3. n - k \in T
      <3> HIDE DEF T
      <3> QED BY <2>1, <2>2
    <2> HIDE DEF Good
    <2> QED BY <2>2, <2>3
  <1>19. cut[0] = 0
    <2>1. 0 \in 0 .. n BY <1>0
    <2>2. Good(0) BY <1>18, <2>1
    <2>3. first_row[cut[0]] # INF BY <1>3, <2>2
    <2> QED BY <2>2, <2>3 DEF first_row
  <1>20. ASSUME NEW i \in 1 .. n
         PROVE  /\ cut[i - 1] <= cut[i] /\ cut[i] - cut[i - 1] <= max_layers(c, i)
                /\ stage_cost(c[i], cut[i] - cut[i - 1]) <= h[n][NLayers]
    <2>1. i \in 0 .. n /\ i - 1 \in 0 .. n BY <1>0
    <2>2. Good(i) /\ cut[i - 1] \in 0 .. NLayers BY <1>18, <2>1
    <2>3. /\ cut[i - 1] \in Reach(c, i, cut[i])
          /\ stage_cost(c[i], cut[i] - cut[i - 1]) <= h[i][cut[i]]
      BY <1>1, <1>12, <2>2
    <2>4. cut[i - 1] <= cut[i] /\ cut[i] - cut[i - 1] <= max_layers(c, i)
      BY <1>0, <2>2, <2>3 DEF Reach
    <2>5. cut[i] - cut[i - 1] \in 0 .. NLayers BY <1>0, <2>2, <2>4
    <2>6. stage_cost(c[i], cut[i] - cut[i - 1]) \in 0 .. INF
      <3>1. c[i] \in Capability BY ClusterFacts DEF n
      <3> QED BY <2>5, <3>1, StageCost
    <2>7. h[i][cut[i]] \in Nat /\ h[n][NLayers] \in Nat BY <1>0, <1>14, <2>1, <2>2
    <2>8. stage_cost(c[i], cut[i] - cut[i - 1]) \in Nat /\ h[i][cut[i]] <= h[n][NLayers]
      BY <1>0, <2>2, <2>6
    <2>9. stage_cost(c[i], cut[i] - cut[i - 1]) <= h[n][NLayers] BY ONLY <2>3, <2>7, <2>8
    <2> QED BY <2>4, <2>9
  <1>21. cut \in [0 .. n -> 0 .. NLayers] BY <1>13, <1>18
  <1>22. Fits(c, cut) BY <1>12, <1>19, <1>20, <1>21 DEF Fits, n
  <1> QED BY <1>10, <1>20, <1>22 DEF h, n

\* The manifest of a plan.
Planned(c, cut) == Assignments([i \in DOMAIN c |-> c[i].node],
                               [i \in DOMAIN c |-> << cut[i - 1], cut[i] >>])

\* No stage of the plan costs more than b.
Within(c, cut, b) == \A i \in 1 .. Len(c) : stage_cost(c[i], cut[i] - cut[i - 1]) <= b

(* auto_partition fails if no plan fits.                                   *)
LEMMA AutoFails ==
  ASSUME NEW c \in Clusters, NLayers = 0 \/ \A cut : ~Fits(c, cut)
  PROVE  auto_partition(c) = Err
  <1>1. CASE NLayers = 0 BY <1>1, Zenon DEF auto_partition
  <1>2. CASE \A cut : ~Fits(c, cut)
    <2>1. cost(c)[Len(c)][NLayers] = INF
      <3> SUFFICES ASSUME cost(c)[Len(c)][NLayers] # INF PROVE FALSE OBVIOUS
      <3>1. Fits(c, cuts(c, cost(c))) BY Backtracking
      <3> QED BY <1>2, <3>1
    <2> QED BY <2>1, Zenon DEF auto_partition
  <1> QED BY <1>1, <1>2

(* Otherwise it returns a plan, and one that is as good as any.            *)
LEMMA AutoSolves ==
  ASSUME NEW c \in Clusters, NLayers # 0, NEW p, Fits(c, p)
  PROVE  \E cut : /\ Fits(c, cut) /\ auto_partition(c) = Planned(c, cut)
                  /\ \A q, b : Fits(c, q) /\ b \in Nat /\ Within(c, q, b) => Within(c, cut, b)
  <1> DEFINE n == Len(c)
             h == cost(c)
             cut == cuts(c, cost(c))
  <1>0. n \in Nat /\ NLayers \in Nat \ {0} /\ INF \in Nat \ {0}
    BY ClusterFacts, PartitionAssumption DEF INF
  <1>1. n # 0 BY <1>0 DEF Fits
  <1>2. ASSUME NEW i \in 1 .. n, NEW q, Fits(c, q)
        PROVE  /\ stage_cost(c[i], q[i] - q[i - 1]) \in Nat
               /\ stage_cost(c[i], q[i] - q[i - 1]) <= INF - 1
    <2>1. c[i] \in Capability BY ClusterFacts
    <2>2. q[i] - q[i - 1] \in 0 .. NLayers BY <1>2, FitsReach
    <2>3. /\ stage_cost(c[i], q[i] - q[i - 1]) \in 0 .. INF
          /\ stage_cost(c[i], q[i] - q[i - 1]) # INF
      BY <2>1, <2>2, StageCost
    <2> QED BY ONLY <1>0, <2>3
  <1>3. h[n][NLayers] <= INF - 1
    <2>1. INF - 1 \in Nat BY <1>0
    <2>2. \A i \in 1 .. Len(c) : stage_cost(c[i], p[i] - p[i - 1]) <= INF - 1 BY <1>2
    <2> QED BY <2>1, <2>2, CostLeast
  <1>4. h[n][NLayers] \in Nat
    <2>1. h \in [0 .. n -> Rows] BY CostRows
    <2>2. n \in 0 .. n /\ NLayers \in 0 .. NLayers BY <1>0
    <2>3. h[n] \in Rows BY <2>1, <2>2
    <2> QED BY <1>0, <2>2, <2>3 DEF Rows
  <1>5. h[n][NLayers] # INF BY ONLY <1>0, <1>3, <1>4
  <1>6. total_cap(c) \in Nat /\ NLayers <= total_cap(c) BY TotalCap
  <1>7. ~(total_cap(c) < NLayers) BY ONLY <1>0, <1>6
  <1>8. auto_partition(c) = Planned(c, cut)
    BY <1>1, <1>5, <1>7, Zenon DEF auto_partition, Planned
  <1>9. Fits(c, cut) /\ \A i \in 1 .. n : stage_cost(c[i], cut[i] - cut[i - 1]) <= h[n][NLayers]
    BY <1>5, Backtracking
  <1> HIDE DEF cut, h
  <1>10. ASSUME NEW q, NEW b, Fits(c, q), b \in Nat, Within(c, q, b)
         PROVE  Within(c, cut, b)
    <2>1. h[n][NLayers] <= b BY <1>10, CostLeast DEF Within, h
    <2> SUFFICES ASSUME NEW i \in 1 .. n PROVE stage_cost(c[i], cut[i] - cut[i - 1]) <= b
      BY DEF Within
    <2>2. stage_cost(c[i], cut[i] - cut[i - 1]) \in Nat BY <1>2, <1>9
    <2>3. stage_cost(c[i], cut[i] - cut[i - 1]) <= h[n][NLayers] BY <1>9
    <2> QED BY ONLY <1>4, <1>10, <2>1, <2>2, <2>3
  <1> QED BY <1>8, <1>9, <1>10

-----------------------------------------------------------------------------
(* The ring. *)

\* The nodes of a pipeline, with ids of their own, and the ranges they get.
Pipeline(nodes, ranges) ==
  /\ nodes \in Seq(Ids) /\ Len(nodes) > 0
  /\ \A i, j \in 1 .. Len(nodes) : i # j => nodes[i] # nodes[j]
  /\ ranges \in [1 .. Len(nodes) -> (0 .. NLayers) \X (0 .. NLayers)]

(* The fields of a manifest.                                               *)
LEMMA ManifestFields ==
  ASSUME NEW nodes, NEW ranges, Pipeline(nodes, ranges)
  PROVE  LET m == Assignments(nodes, ranges)
             n == Len(nodes)
         IN  /\ n \in Nat \ {0} /\ m \in Seq(NodeAssignment) /\ Len(m) = n /\ DOMAIN m = 1 .. n
             /\ \A i \in 1 .. n :
                  /\ nodes[i] \in Nat /\ nodes[i] # Nobody
                  /\ m[i].node = nodes[i]
                  /\ m[i].start = ranges[i][1] /\ m[i].end = ranges[i][2]
                  /\ m[i].hosts_embedding <=> i = 1
                  /\ m[i].hosts_output <=> i = n
                  /\ m[i].next = IF i = n THEN Nobody ELSE nodes[i + 1]
  <1> DEFINE n == Len(nodes)
             m == Assignments(nodes, ranges)
  <1>1. n \in Nat \ {0} /\ nodes \in [1 .. n -> Ids] /\ DOMAIN nodes = 1 .. n BY DEF Pipeline
  <1>2. \A i \in 1 .. n : nodes[i] \in Ids /\ nodes[i] \in Nat /\ nodes[i] # Nobody BY <1>1 DEF Ids
  <1>3. \A i \in 1 .. n : ranges[i][1] \in 0 .. NLayers /\ ranges[i][2] \in 0 .. NLayers
    <2> SUFFICES ASSUME NEW i \in 1 .. n
                 PROVE  ranges[i][1] \in 0 .. NLayers /\ ranges[i][2] \in 0 .. NLayers
      OBVIOUS
    <2>1. ranges[i] \in (0 .. NLayers) \X (0 .. NLayers) BY DEF Pipeline
    <2> QED BY <2>1
  <1> DEFINE a(i) == [node |-> nodes[i], start |-> ranges[i][1], end |-> ranges[i][2],
                      hosts_embedding |-> i = 1, hosts_output |-> i = n,
                      previous |-> IF i = 1 THEN Nobody ELSE nodes[i - 1],
                      next |-> IF i = n THEN Nobody ELSE nodes[i + 1]]
  <1>4. m = [i \in 1 .. n |-> a(i)] BY <1>1 DEF Assignments
  <1> HIDE DEF m, n
  <1>5. ASSUME NEW i \in 1 .. n PROVE a(i) \in NodeAssignment
    <2>1. i # 1 => i - 1 \in 1 .. n BY <1>1
    <2>2. i # n => i + 1 \in 1 .. n BY <1>1
    <2> DEFINE pv == IF i = 1 THEN Nobody ELSE nodes[i - 1]
               nx == IF i = n THEN Nobody ELSE nodes[i + 1]
               em == (i = 1)
               ou == (i = n)
    <2>3. pv \in Ids \cup {Nobody} /\ nx \in Ids \cup {Nobody} BY <1>2, <2>1, <2>2
    <2>4. em \in BOOLEAN /\ ou \in BOOLEAN OBVIOUS
    <2>5. nodes[i] \in Ids /\ ranges[i][1] \in 0 .. NLayers /\ ranges[i][2] \in 0 .. NLayers
      BY <1>2, <1>3
    <2> HIDE DEF pv, nx, em, ou
    <2>6. [node |-> nodes[i], start |-> ranges[i][1], end |-> ranges[i][2],
           hosts_embedding |-> em, hosts_output |-> ou, previous |-> pv, next |-> nx]
            \in NodeAssignment
      BY <2>3, <2>4, <2>5 DEF NodeAssignment
    <2> QED BY <2>6 DEF pv, nx, em, ou
  <1>6. m \in Seq(NodeAssignment) /\ Len(m) = n /\ DOMAIN m = 1 .. n
    <2> HIDE DEF a
    <2> QED BY <1>1, <1>4, <1>5
  <1>7. ASSUME NEW i \in 1 .. n
        PROVE  /\ m[i].node = nodes[i]
               /\ m[i].start = ranges[i][1] /\ m[i].end = ranges[i][2]
               /\ m[i].hosts_embedding <=> i = 1
               /\ m[i].hosts_output <=> i = n
               /\ m[i].next = IF i = n THEN Nobody ELSE nodes[i + 1]
    <2>1. m[i] = a(i) BY <1>4
    <2>2. /\ m[i].node = nodes[i] /\ m[i].start = ranges[i][1] /\ m[i].end = ranges[i][2]
          /\ m[i].next = IF i = n THEN Nobody ELSE nodes[i + 1]
      BY <2>1
    <2> DEFINE em == (i = 1)
               ou == (i = n)
    <2>3. m[i] = [node |-> nodes[i], start |-> ranges[i][1], end |-> ranges[i][2],
                  hosts_embedding |-> em, hosts_output |-> ou,
                  previous |-> IF i = 1 THEN Nobody ELSE nodes[i - 1],
                  next |-> IF i = n THEN Nobody ELSE nodes[i + 1]]
      BY <2>1, Zenon
    <2> HIDE DEF em, ou
    <2>4. m[i].hosts_embedding = em /\ m[i].hosts_output = ou BY <2>3
    <2> QED BY <2>2, <2>4, Zenon DEF em, ou
  <1> QED BY <1>1, <1>2, <1>6, <1>7 DEF m, n

(* for_node finds the assignment of a node.                                *)
LEMMA ForNode ==
  ASSUME NEW nodes, NEW ranges, Pipeline(nodes, ranges), NEW i \in 1 .. Len(nodes)
  PROVE  LET m == Assignments(nodes, ranges) IN for_node(m, nodes[i]) = m[i]
  <1> DEFINE m == Assignments(nodes, ranges)
             n == Len(nodes)
             Is(k) == m[k].node = nodes[i] /\ \A j \in 1 .. (k - 1) : m[j].node # nodes[i]
  <1>1. n \in Nat /\ DOMAIN m = 1 .. n /\ \A k \in 1 .. n : m[k].node = nodes[k] BY ManifestFields
  <1>2. \A k, j \in 1 .. n : k # j => nodes[k] # nodes[j] BY DEF Pipeline
  <1> HIDE DEF m, n
  <1>3. i \in 1 .. n BY DEF n
  <1>4. \A k \in 1 .. n : Is(k) => k = i BY <1>1, <1>2, <1>3
  <1>5. Is(i)
    <2>1. \A j \in 1 .. (i - 1) : j \in 1 .. n /\ j # i BY <1>1, <1>3
    <2> QED BY <1>1, <1>2, <1>3, <2>1
  <1>6. for_node(m, nodes[i]) = m[CHOOSE k \in DOMAIN m : Is(k)] BY Zenon DEF for_node
  <1> HIDE DEF Is
  <1>7. (CHOOSE k \in DOMAIN m : Is(k)) = i BY <1>1, <1>3, <1>4, <1>5
  <1> QED BY <1>6, <1>7 DEF m

(* for_node finds an assignment of a node the manifest has.                *)
LEMMA ForNodeFinds ==
  ASSUME NEW m, NEW n \in Nat, DOMAIN m = 1 .. n, NEW w \in Nodes(m)
  PROVE  \E i \in 1 .. n : m[i].node = w /\ for_node(m, w) = m[i]
  <1> DEFINE S == {i \in 1 .. n : m[i].node = w}
             first == CHOOSE i \in DOMAIN m : m[i].node = w /\ \A j \in 1 .. (i - 1) : m[j].node # w
  <1>1. S \in SUBSET Nat /\ S # {} BY DEF Nodes
  <1>2. Min(S) \in S /\ \A y \in S : Min(S) <= y BY <1>1, LeastNatural
  <1>3. PICK k \in S : \A y \in S : k <= y BY <1>2
  <1>4. \A j \in 1 .. (k - 1) : m[j].node # w
    <2> SUFFICES ASSUME NEW j \in 1 .. (k - 1), m[j].node = w PROVE FALSE OBVIOUS
    <2>1. j \in S /\ j < k /\ k \in Nat OBVIOUS
    <2>2. k <= j BY <1>3, <2>1
    <2> QED BY <2>1, <2>2
  <1>5. k \in DOMAIN m /\ m[k].node = w OBVIOUS
  <1>6. first \in DOMAIN m /\ m[first].node = w BY <1>4, <1>5, Zenon
  <1>7. for_node(m, w) = m[first] BY Zenon DEF for_node
  <1> HIDE DEF first
  <1> QED BY <1>6, <1>7

\* A manual partition is the ranges r, sorted by p into q, and they follow each
\* other through the layers.
Accepts(c, r, p, q) ==
  LET n == Len(r) IN
  /\ p \in Bijection(1 .. n, 1 .. n) /\ q = [i \in 1 .. n |-> r[p[i]]]
  /\ \A i \in 1 .. n : /\ q[i].start = (IF i = 1 THEN 0 ELSE q[i - 1].end)
                       /\ q[i].start < q[i].end
                       /\ q[i].start \in 0 .. NLayers /\ q[i].end \in 0 .. NLayers
  /\ n # 0 => q[n].end = NLayers
  /\ manual_partition(c, r) =
       Assignments([i \in 1 .. n |-> q[i].node], [i \in 1 .. n |-> << q[i].start, q[i].end >>])

(* So is every one that is accepted.                                       *)
LEMMA ManualSorted ==
  ASSUME NEW c, NEW r \in Seq(ManualRange), manual_partition(c, r) # Err
  PROVE  \E p, q : Accepts(c, r, p, q)
  <1> USE DEF ManualRange
  <1> DEFINE R == ManualRange
             n == Len(r)
             key == [i \in DOMAIN r |-> r[i].start]
             sorted == sort_by(r, key)
             nodes == [i \in DOMAIN sorted |-> sorted[i].node]
             ranges == [i \in DOMAIN sorted |-> << sorted[i].start, sorted[i].end >>]
             m == Assignments(nodes, ranges)
  <1>1. n \in Nat /\ DOMAIN r = 1 .. n /\ r \in [1 .. n -> R]
    <2>1. r \in Seq(R) OBVIOUS
    <2> HIDE DEF R
    <2> QED BY <2>1, LenProperties
  <1>2. manual_partition(c, r) = IF ~Contiguous(sorted) \/ ~FitsMemory(c, sorted) THEN Err ELSE m
    BY Zenon DEF manual_partition
  <1> HIDE DEF n
  <1>3. key \in [1 .. n -> Nat] BY <1>1
  <1>4. PICK p : Sorts(p, n, key) /\ Arranges(p, n, r, sorted)
    <2> HIDE DEF key
    <2> QED BY <1>1, <1>3, SortBy, Zenon
  <1>5. p \in [1 .. n -> 1 .. n] BY <1>4, Zenon DEF Sorts, Bijection, Injection
  <1>6. sorted = [i \in 1 .. n |-> r[p[i]]] BY <1>4, Zenon DEF Arranges
  <1>7. Contiguous(sorted) /\ manual_partition(c, r) = m BY <1>2
  <1> HIDE DEF sorted
  <1>8. /\ sorted \in [1 .. n -> R] /\ Len(sorted) = n /\ DOMAIN sorted = 1 .. n
    BY <1>1, <1>5, <1>6
  <1>9. \A i \in 1 .. n : sorted[i].start \in Nat /\ sorted[i].end \in Nat BY <1>8
  <1>10. \A i \in 1 .. n : /\ sorted[i].start = (IF i = 1 THEN 0 ELSE sorted[i - 1].end)
                           /\ sorted[i].start < sorted[i].end
    BY <1>7, <1>8 DEF Contiguous
  <1>11. n # 0 => sorted[n].end = NLayers
    <2>1. n # 0 => sorted # << >> BY <1>8
    <2> QED BY <1>7, <1>8, <2>1 DEF Contiguous
  <1> DEFINE T == {k \in 0 .. (n - 1) : sorted[n - k].end <= NLayers}
  <1>12. ASSUME n # 0 PROVE \A i \in 1 .. n : sorted[i].end <= NLayers
    <2>1. n - 1 \in Nat /\ 0 \in 0 .. (n - 1) /\ n - 0 = n BY <1>1, <1>12
    <2>2. 0 \in T BY <1>11, <1>12, <2>1, PartitionAssumption
    <2>3. ASSUME NEW k \in 0 .. ((n - 1) - 1), k \in T PROVE k + 1 \in T
      <3> DEFINE j == n - k
      <3>1. /\ j \in 1 .. n /\ j # 1 /\ j - 1 \in 1 .. n /\ n - (k + 1) = j - 1
            /\ k + 1 \in 0 .. (n - 1)
        BY <1>1
      <3>2. sorted[j].end <= NLayers BY <2>3
      <3> HIDE DEF j
      <3>3. sorted[j - 1].end = sorted[j].start /\ sorted[j].start < sorted[j].end
        BY <1>10, <3>1
      <3>4. sorted[j - 1].end \in Nat /\ sorted[j].end \in Nat /\ NLayers \in Nat
        BY <1>9, <3>1, PartitionAssumption
      <3>5. sorted[j - 1].end <= NLayers BY <3>2, <3>3, <3>4
      <3> QED BY <3>1, <3>5
    <2> HIDE DEF T
    <2>4. 0 .. (n - 1) \subseteq T BY <2>1, <2>2, <2>3, Upwards
    <2>5. ASSUME NEW i \in 1 .. n PROVE sorted[i].end <= NLayers
      <3>1. n - i \in 0 .. (n - 1) /\ n - (n - i) = i BY <1>1
      <3>2. n - i \in T BY <2>4, <3>1
      <3> QED BY <3>1, <3>2 DEF T
    <2> QED BY <2>5
  <1>13. ASSUME NEW i \in 1 .. n
         PROVE  sorted[i].start \in 0 .. NLayers /\ sorted[i].end \in 0 .. NLayers
    <2>1. sorted[i].end <= NLayers BY <1>1, <1>12
    <2>2. /\ sorted[i].start \in Nat /\ sorted[i].end \in Nat /\ NLayers \in Nat
          /\ sorted[i].start < sorted[i].end
      BY <1>9, <1>10, PartitionAssumption
    <2> QED BY <2>1, <2>2
  <1>14. p \in Bijection(1 .. n, 1 .. n) BY <1>4, Zenon DEF Sorts
  <1>15. manual_partition(c, r) =
           Assignments([i \in 1 .. n |-> sorted[i].node],
                       [i \in 1 .. n |-> << sorted[i].start, sorted[i].end >>])
    BY <1>7, <1>8, Zenon
  <1>16. Accepts(c, r, p, sorted)
    BY <1>6, <1>10, <1>11, <1>13, <1>14, <1>15, Zenon DEF n, Accepts
  <1> QED BY <1>16, Zenon

(* The ranges of an accepted manual partition lie within the layers.       *)
LEMMA ManualEnds ==
  ASSUME NEW c, NEW r \in Seq(ManualRange), manual_partition(c, r) # Err
  PROVE  LET m == manual_partition(c, r) IN
         /\ DOMAIN m = 1 .. Len(r)
         /\ \A i \in 1 .. Len(r) : m[i].start \in 0 .. NLayers /\ m[i].end \in 0 .. NLayers
  <1> USE DEF ManualRange
  <1> DEFINE n == Len(r)
  <1>1. PICK p, q : Accepts(c, r, p, q) BY ManualSorted
  <1> DEFINE nodes == [i \in 1 .. n |-> q[i].node]
             ranges == [i \in 1 .. n |-> << q[i].start, q[i].end >>]
             m == Assignments(nodes, ranges)
  <1>2. DOMAIN nodes = 1 .. n /\ \A i \in 1 .. n : ranges[i][1] = q[i].start /\ ranges[i][2] = q[i].end
    OBVIOUS
  <1>3. DOMAIN m = 1 .. n /\ \A i \in 1 .. n : m[i].start = q[i].start /\ m[i].end = q[i].end
    <2> HIDE DEF nodes, ranges
    <2> QED BY <1>2 DEF Assignments
  <1> HIDE DEF m
  <1>4. manual_partition(c, r) = m BY <1>1 DEF Accepts, m
  <1>5. \A i \in 1 .. n : q[i].start \in 0 .. NLayers /\ q[i].end \in 0 .. NLayers
    BY <1>1, Zenon DEF Accepts, n
  <1> QED BY <1>3, <1>4, <1>5

\* A plan takes the layers in order, from the first to the last.
InOrder(nodes, ranges) ==
  /\ Pipeline(nodes, ranges)
  /\ ranges[1][1] = 0 /\ ranges[Len(nodes)][2] = NLayers
  /\ \A i \in 1 .. Len(nodes) : ranges[i][1] <= ranges[i][2]
  /\ \A i \in 2 .. Len(nodes) : ranges[i][1] = ranges[i - 1][2]

Listed(nodes) == {nodes[i] : i \in 1 .. Len(nodes)}

(* An accepted manual partition that names each node once is such a plan.  *)
LEMMA ManualPlan ==
  ASSUME NEW c, NEW r \in Seq(ManualRange), manual_partition(c, r) # Err,
         Len(r) > 0, \A i, j \in DOMAIN r : i # j => r[i].node # r[j].node
  PROVE  \E nodes, ranges :
           /\ InOrder(nodes, ranges) /\ manual_partition(c, r) = Assignments(nodes, ranges)
           /\ Listed(nodes) = Nodes(r)
  <1> USE DEF ManualRange
  <1> DEFINE R == ManualRange
             n == Len(r)
  <1>1. n \in Nat /\ n > 0 /\ DOMAIN r = 1 .. n /\ r \in [1 .. n -> R]
    <2>1. r \in Seq(R) OBVIOUS
    <2> HIDE DEF R
    <2> QED BY <2>1, LenProperties
  <1>2. PICK p, q : Accepts(c, r, p, q) BY ManualSorted
  <1> DEFINE nodes == [i \in 1 .. n |-> q[i].node]
             ranges == [i \in 1 .. n |-> << q[i].start, q[i].end >>]
  <1>3. /\ p \in [1 .. n -> 1 .. n] /\ \A i, j \in 1 .. n : i # j => p[i] # p[j]
        /\ \A k \in 1 .. n : \E i \in 1 .. n : p[i] = k
    BY <1>2 DEF Accepts, n, Bijection, Injection, Surjection, IsInjective
  <1>4. \A i \in 1 .. n : q[i] = r[p[i]] /\ q[i] \in R BY <1>1, <1>2, <1>3 DEF Accepts
  <1> DEFINE Follow ==
               /\ \A i \in 1 .. n : /\ q[i].start = (IF i = 1 THEN 0 ELSE q[i - 1].end)
                                    /\ q[i].start < q[i].end
                                    /\ q[i].start \in 0 .. NLayers /\ q[i].end \in 0 .. NLayers
               /\ q[n].end = NLayers
  <1>5. Follow /\ manual_partition(c, r) = Assignments(nodes, ranges)
    BY <1>1, <1>2 DEF Accepts
  <1> HIDE DEF n
  <1>6. /\ nodes \in Seq(Ids) /\ Len(nodes) = n
        /\ ranges \in [1 .. n -> (0 .. NLayers) \X (0 .. NLayers)]
    <2>1. \A i \in 1 .. n : q[i].node \in Ids BY <1>4
    <2>2. nodes \in [1 .. n -> Ids] BY <2>1
    <2>3. ranges \in [1 .. n -> (0 .. NLayers) \X (0 .. NLayers)] BY <1>5
    <2> HIDE DEF nodes, ranges
    <2> QED BY <1>1, <2>2, <2>3
  <1>7. \A i \in 1 .. n : /\ nodes[i] = r[p[i]].node /\ ranges[i][1] = q[i].start
                          /\ ranges[i][2] = q[i].end
    BY <1>4
  <1>8. manual_partition(c, r) = Assignments(nodes, ranges) BY <1>5
  <1> HIDE DEF nodes, ranges
  <1>9. \A i, j \in 1 .. n : i # j => nodes[i] # nodes[j] 
    <2> SUFFICES ASSUME NEW i \in 1 .. n, NEW j \in 1 .. n, i # j PROVE nodes[i] # nodes[j] OBVIOUS
    <2>1. p[i] \in DOMAIN r /\ p[j] \in DOMAIN r /\ p[i] # p[j] BY <1>1, <1>3
    <2>2. r[p[i]].node # r[p[j]].node BY <2>1
    <2>3. nodes[i] = r[p[i]].node /\ nodes[j] = r[p[j]].node BY <1>7
    <2> QED BY <2>2, <2>3
  <1>10. Pipeline(nodes, ranges) BY <1>1, <1>6, <1>9, Zenon DEF Pipeline
  <1>11. ranges[1][1] = 0 /\ ranges[n][2] = NLayers BY <1>1, <1>5, <1>7
  <1>12. \A i \in 1 .. n : ranges[i][1] <= ranges[i][2]
    <2> SUFFICES ASSUME NEW i \in 1 .. n PROVE ranges[i][1] <= ranges[i][2] OBVIOUS
    <2>1. /\ q[i].start < q[i].end /\ q[i].start \in 0 .. NLayers
          /\ q[i].end \in 0 .. NLayers /\ NLayers \in Nat
      BY <1>5, PartitionAssumption
    <2>2. ranges[i][1] = q[i].start /\ ranges[i][2] = q[i].end BY <1>7
    <2>3. q[i].start <= q[i].end BY <2>1
    <2> QED BY <2>2, <2>3
  <1>13. \A i \in 2 .. n : ranges[i][1] = ranges[i - 1][2]
    <2> SUFFICES ASSUME NEW i \in 2 .. n PROVE ranges[i][1] = ranges[i - 1][2] OBVIOUS
    <2>1. i \in 1 .. n /\ i # 1 /\ i - 1 \in 1 .. n BY <1>1
    <2> QED BY <1>5, <1>7, <2>1
  <1>14. InOrder(nodes, ranges) BY <1>6, <1>10, <1>11, <1>12, <1>13 DEF InOrder
  <1>15. {nodes[i] : i \in 1 .. n} = {r[i].node : i \in DOMAIN r}
    <2>1. ASSUME NEW i \in 1 .. n PROVE nodes[i] \in {r[k].node : k \in 1 .. n} BY <1>3, <1>7
    <2>2. ASSUME NEW k \in 1 .. n PROVE r[k].node \in {nodes[i] : i \in 1 .. n}
      <3>1. PICK i \in 1 .. n : p[i] = k BY <1>3
      <3> QED BY <1>7, <3>1
    <2> QED BY <1>1, <2>1, <2>2
  <1> QED BY <1>6, <1>8, <1>14, <1>15 DEF Listed, Nodes

\* The ids visited before the d-th turn of the walk.
Prefix(nodes, d) == [i \in 1 .. (IF d < Len(nodes) THEN d + 1 ELSE Len(nodes)) |-> nodes[i]]

(* A turn of the walk goes to the next node, until it has been at the last.*)
LEMMA Visit ==
  ASSUME NEW nodes, NEW ranges, Pipeline(nodes, ranges), NEW d \in Nat
  PROVE  visit(Assignments(nodes, ranges), Prefix(nodes, d)) = Prefix(nodes, d + 1)
  <1> DEFINE m == Assignments(nodes, ranges)
             n == Len(nodes)
             l == IF d < n THEN d + 1 ELSE n
             P == Prefix(nodes, d)
  <1>1. /\ n \in Nat \ {0} /\ DOMAIN m = 1 .. n
        /\ \A i \in 1 .. n : /\ nodes[i] \in Nat /\ nodes[i] # Nobody /\ m[i].node = nodes[i]
                             /\ m[i].next = IF i = n THEN Nobody ELSE nodes[i + 1]
    BY ManifestFields
  <1>2. \A k, j \in 1 .. n : k # j => nodes[k] # nodes[j] BY DEF Pipeline
  <1>3. l \in 1 .. n /\ (l # n => l + 1 \in 1 .. n /\ l = d + 1 /\ d < n) BY <1>1
  <1>4. P = [i \in 1 .. l |-> nodes[i]] BY DEF Prefix
  <1>5. for_node(m, nodes[l]) = m[l] BY <1>3, ForNode
  <1>6. Prefix(nodes, d + 1) = [i \in 1 .. (IF l # n THEN l + 1 ELSE n) |-> nodes[i]]
    <2>1. (IF d + 1 < n THEN (d + 1) + 1 ELSE n) = (IF l # n THEN l + 1 ELSE n) BY <1>1
    <2>2. Prefix(nodes, d + 1) = [i \in 1 .. (IF d + 1 < n THEN (d + 1) + 1 ELSE n) |-> nodes[i]]
      BY Zenon DEF Prefix
    <2> QED BY <2>1, <2>2
  <1> HIDE DEF m, n, l, P
  <1>7. /\ P \in Seq(Nat) /\ Len(P) = l /\ DOMAIN P = 1 .. l /\ P[l] = nodes[l] /\ P[1] = nodes[1]
    BY <1>1, <1>3, <1>4
  <1>8. P # << Err >>
    <2>1. P[1] \in Nat BY <1>1, <1>3, <1>7
    <2> QED BY <2>1, PartitionAssumption
  <1>9. for_node(m, P[Len(P)]).next = m[l].next BY <1>5, <1>7
  <1>10. CASE l = n
    <2>1. for_node(m, P[Len(P)]).next = Nobody BY <1>1, <1>3, <1>9, <1>10
    <2>2. visit(m, P) = P BY <1>8, <2>1, Zenon DEF visit
    <2>3. Prefix(nodes, d + 1) = P BY <1>4, <1>6, <1>10
    <2> QED BY <2>2, <2>3 DEF m, P
  <1>11. CASE l # n
    <2> DEFINE nx == for_node(m, P[Len(P)]).next
    <2>1. l + 1 \in 1 .. n BY <1>3, <1>11
    <2>2. nx = nodes[l + 1] /\ nx # Nobody BY <1>1, <1>3, <1>9, <1>11, <2>1
    <2>3. nx \in Nodes(m)
      <3>1. m[l + 1].node = nx BY <1>1, <2>1, <2>2
      <3> QED BY <1>1, <2>1, <3>1 DEF Nodes
    <2>4. nx \notin Range(P)
      <3>1. \A i \in 1 .. l : i \in 1 .. n /\ i # l + 1 BY <1>1, <1>3
      <3>2. \A i \in 1 .. l : nodes[i] # nx BY <1>2, <2>1, <2>2, <3>1
      <3>3. \A i \in 1 .. l : P[i] = nodes[i] BY <1>4
      <3>4. \A i \in DOMAIN P : P[i] # nx BY <1>7, <3>2, <3>3
      <3> QED BY <3>4, Zenon DEF Range
    <2> HIDE DEF nx
    <2>5. visit(m, P) = Append(P, nx)
      BY <1>8, <2>2, <2>3, <2>4, Zenon DEF visit, nx
    <2>6. Append(P, nx) = [i \in 1 .. (l + 1) |-> nodes[i]]
      <3>1. Append(P, nx) = [i \in 1 .. (l + 1) |-> IF i = l + 1 THEN nx ELSE P[i]]
        <4>1. P \in Seq(Nat) /\ nx \in Nat /\ l \in Nat BY <1>1, <1>3, <1>7, <2>1, <2>2
        <4>2. /\ Append(P, nx) \in Seq(Nat) /\ Len(Append(P, nx)) = l + 1
              /\ \A i \in 1 .. l : Append(P, nx)[i] = P[i]
              /\ Append(P, nx)[l + 1] = nx
          BY <1>7, <4>1, AppendProperties
        <4> DEFINE A == Append(P, nx)
        <4> HIDE DEF A
        <4>3. /\ A \in Seq(Nat) /\ Len(A) = l + 1
              /\ \A i \in 1 .. l : A[i] = P[i]
              /\ A[l + 1] = nx
          BY <4>2 DEF A
        <4>4. A = [i \in 1 .. (l + 1) |-> A[i]] BY <4>3
        <4>5. \A i \in 1 .. (l + 1) : i = l + 1 \/ i \in 1 .. l BY <4>1
        <4>6. \A i \in 1 .. (l + 1) : A[i] = IF i = l + 1 THEN nx ELSE P[i] BY <4>3, <4>5
        <4>7. A = [i \in 1 .. (l + 1) |-> IF i = l + 1 THEN nx ELSE P[i]] BY <4>4, <4>6
        <4> QED BY <4>7 DEF A
      <3>2. \A i \in 1 .. (l + 1) : (IF i = l + 1 THEN nx ELSE P[i]) = nodes[i]
        BY <1>3, <1>4, <2>2
      <3> QED BY <3>1, <3>2
    <2>7. Prefix(nodes, d + 1) = [i \in 1 .. (l + 1) |-> nodes[i]] BY <1>6, <1>11
    <2> QED BY <2>5, <2>6, <2>7 DEF m, P
  <1> QED BY <1>10, <1>11

(* pipeline_order is the order of the nodes.                               *)
LEMMA PipelineOrder ==
  ASSUME NEW nodes, NEW ranges, Pipeline(nodes, ranges)
  PROVE  pipeline_order(Assignments(nodes, ranges)) = nodes
  <1> DEFINE m == Assignments(nodes, ranges)
             n == Len(nodes)
             heads == {i \in DOMAIN m : m[i].hosts_embedding}
             a == << m[Min(heads)].node >>
             Solves(f) == f = [d \in 0 .. (Len(m) + 1) |-> IF d = 0 THEN a ELSE visit(m, f[d - 1])]
             f == [d \in 0 .. (n + 1) |-> Prefix(nodes, d)]
  <1>1. /\ n \in Nat \ {0} /\ DOMAIN m = 1 .. n /\ Len(m) = n /\ m[1].node = nodes[1]
        /\ \A i \in 1 .. n : nodes[i] \in Nat /\ (m[i].hosts_embedding <=> i = 1)
    BY ManifestFields
  <1>2. heads = {1}
    <2>1. 1 \in 1 .. n BY <1>1
    <2>2. \A i \in DOMAIN m : m[i].hosts_embedding <=> i = 1 BY <1>1, Zenon
    <2> HIDE DEF m
    <2> QED BY <1>1, <2>1, <2>2
  <1>3. Min(heads) = 1
    <2>1. {1} \in SUBSET Nat /\ {1} # {} OBVIOUS
    <2>2. Min({1}) \in {1} BY <2>1, LeastNatural
    <2> QED BY <1>2, <2>2
  <1>4. \A d \in Nat : visit(m, Prefix(nodes, d)) = Prefix(nodes, d + 1) BY Visit
  <1>5. pipeline_order(m) =
          LET order == (CHOOSE w : Solves(w))[Len(m) + 1]
          IN  IF heads = {} THEN Err
              ELSE IF order = << Err >> \/ Len(order) # Len(m) THEN Err ELSE order
    BY Zenon DEF pipeline_order
  <1>6. a = << nodes[1] >> BY <1>1, <1>3
  <1>7. a = Prefix(nodes, 0)
    <2>1. (IF 0 < n THEN 0 + 1 ELSE n) = 1 BY <1>1
    <2>2. Prefix(nodes, 0) = [i \in 1 .. (IF 0 < n THEN 0 + 1 ELSE n) |-> nodes[i]] BY Zenon DEF Prefix
    <2>3. Prefix(nodes, 0) = [i \in 1 .. 1 |-> nodes[i]] BY <2>1, <2>2
    <2>4. << nodes[1] >> = [i \in 1 .. 1 |-> nodes[i]] OBVIOUS
    <2> QED BY <1>6, <2>3, <2>4
  <1> HIDE DEF a, m, heads, n
  <1>8. Solves(f)
    <2> SUFFICES ASSUME NEW d \in 0 .. (n + 1)
                 PROVE  f[d] = IF d = 0 THEN a ELSE visit(m, f[d - 1])
      BY <1>1
    <2>1. CASE d = 0 BY <1>7, <2>1
    <2>2. CASE d # 0
      <3>1. d - 1 \in Nat /\ d - 1 \in 0 .. (n + 1) /\ (d - 1) + 1 = d BY <1>1, <2>2
      <3>2. f[d - 1] = Prefix(nodes, d - 1) /\ f[d] = Prefix(nodes, d) BY <3>1
      <3> HIDE DEF f
      <3> QED BY <1>4, <2>2, <3>1, <3>2
    <2> QED BY <2>1, <2>2
  <1> DEFINE w == CHOOSE w : Solves(w)
  <1>9. Solves(w)
    <2> HIDE DEF f
    <2> QED BY <1>8
  <1> HIDE DEF w
  <1>10. w[0] = a /\ \A d \in 1 .. (n + 1) : w[d] = visit(m, w[d - 1])
    <2>1. w = [d \in 0 .. (n + 1) |-> IF d = 0 THEN a ELSE visit(m, w[d - 1])] BY <1>1, <1>9
    <2>2. 0 \in 0 .. (n + 1) /\ \A d \in 1 .. (n + 1) : d # 0 /\ d \in 0 .. (n + 1) BY <1>1
    <2>3. w[0] = a BY <2>1, <2>2
    <2>4. ASSUME NEW d \in 1 .. (n + 1) PROVE w[d] = visit(m, w[d - 1])
      <3>1. d # 0 /\ d \in 0 .. (n + 1) BY <2>2
      <3> QED BY <2>1, <3>1
    <2> QED BY <2>3, <2>4
  <1> DEFINE T == {d \in 0 .. (n + 1) : w[d] = Prefix(nodes, d)}
  <1>11. 0 \in T BY <1>1, <1>7, <1>10
  <1>12. ASSUME NEW d \in 0 .. ((n + 1) - 1), d \in T PROVE d + 1 \in T
    <2>1. d \in Nat /\ d + 1 \in 1 .. (n + 1) /\ (d + 1) - 1 = d BY <1>1
    <2>2. w[d + 1] = visit(m, Prefix(nodes, d)) BY <1>10, <1>12, <2>1
    <2>3. w[d + 1] = Prefix(nodes, d + 1) BY <1>4, <2>1, <2>2
    <2>4. d + 1 \in 0 .. (n + 1) BY <1>1, <2>1
    <2> QED BY <2>3, <2>4
  <1>13. n + 1 \in T
    <2> HIDE DEF T
    <2>1. n + 1 \in Nat BY <1>1
    <2>2. 0 .. (n + 1) \subseteq T BY <1>11, <1>12, <2>1, Upwards
    <2> QED BY <2>1, <2>2
  <1>14. Prefix(nodes, n + 1) = nodes
    <2>1. (IF n + 1 < n THEN (n + 1) + 1 ELSE n) = n BY <1>1
    <2>2. Prefix(nodes, n + 1) = [i \in 1 .. (IF n + 1 < n THEN (n + 1) + 1 ELSE n) |-> nodes[i]]
      BY Zenon DEF Prefix, n
    <2>3. nodes = [i \in 1 .. n |-> nodes[i]] BY DEF Pipeline, n
    <2> QED BY <2>1, <2>2, <2>3
  <1>15. w[Len(m) + 1] = nodes BY <1>1, <1>13, <1>14
  <1>16. nodes # << Err >>
    <2>1. nodes[1] \in Nat BY <1>1
    <2> QED BY <2>1, PartitionAssumption
  <1>17. heads # {} BY <1>2
  <1>18. (CHOOSE v : Solves(v))[Len(m) + 1] = nodes BY <1>15, Zenon DEF w
  <1>19. pipeline_order(m) =
           IF nodes = << Err >> \/ Len(nodes) # Len(m) THEN Err ELSE nodes
    BY <1>5, <1>17, <1>18, Zenon
  <1>20. Len(nodes) = Len(m) BY <1>1 DEF n
  <1> QED BY <1>16, <1>19, <1>20 DEF m

-----------------------------------------------------------------------------
(* The manifest of a plan. *)

\* The nodes of a cluster, in pipeline order.
NodesOf(c) == [i \in DOMAIN c |-> c[i].node]

(* The layers of a plan follow each other along its ring, which goes       *)
(* through every node of the cluster once.                                 *)
LEMMA PlannedRing ==
  ASSUME NEW c \in Clusters, Len(c) > 0, NEW cut, Fits(c, cut)
  PROVE  LET m == Planned(c, cut)
             n == Len(c)
         IN  /\ m \in Seq(NodeAssignment) /\ Len(m) = n /\ DOMAIN m = 1 .. n
             /\ \A i \in 1 .. n : /\ m[i].node = c[i].node
                                  /\ m[i].start = cut[i - 1] /\ m[i].end = cut[i]
                                  /\ m[i].hosts_embedding <=> i = 1
                                  /\ m[i].hosts_output <=> i = n
                                  /\ for_node(m, c[i].node) = m[i]
             /\ pipeline_order(m) = NodesOf(c)
  <1> DEFINE n == Len(c)
             nodes == NodesOf(c)
             ranges == [i \in DOMAIN c |-> << cut[i - 1], cut[i] >>]
             m == Planned(c, cut)
  <1>1. /\ n \in Nat \ {0} /\ DOMAIN c = 1 .. n
        /\ \A i \in 1 .. n : c[i].node \in Ids
        /\ \A i, j \in 1 .. n : i # j => c[i].node # c[j].node
    BY ClusterFacts DEF Ids
  <1>2. \A i \in 1 .. n : cut[i - 1] \in 0 .. NLayers /\ cut[i] \in 0 .. NLayers BY FitsReach
  <1> HIDE DEF n
  <1>3. /\ nodes \in Seq(Ids) /\ Len(nodes) = n
        /\ \A i \in 1 .. n : nodes[i] = c[i].node
    BY <1>1 DEF NodesOf
  <1>4. ranges \in [1 .. n -> (0 .. NLayers) \X (0 .. NLayers)] BY <1>1, <1>2
  <1>5. \A i \in 1 .. n : ranges[i][1] = cut[i - 1] /\ ranges[i][2] = cut[i] BY <1>1
  <1>6. m = Assignments(nodes, ranges) BY Zenon DEF Planned, NodesOf
  <1> HIDE DEF m, nodes, ranges
  <1>7. Pipeline(nodes, ranges)
    <2>1. Len(nodes) > 0 BY <1>1, <1>3
    <2>2. \A i, j \in 1 .. n : i # j => nodes[i] # nodes[j] BY <1>1, <1>3
    <2> QED BY <1>3, <1>4, <2>1, <2>2, Zenon DEF Pipeline
  <1>8. /\ m \in Seq(NodeAssignment) /\ Len(m) = n /\ DOMAIN m = 1 .. n
        /\ \A i \in 1 .. n : /\ m[i].node = nodes[i]
                             /\ m[i].start = ranges[i][1] /\ m[i].end = ranges[i][2]
                             /\ m[i].hosts_embedding <=> i = 1
                             /\ m[i].hosts_output <=> i = n
    <2>1. /\ Len(nodes) = n
          /\ m = Assignments(nodes, ranges)
      BY <1>3, <1>6, Zenon
    <2> QED BY <1>7, <2>1, ManifestFields
  <1>9. \A i \in 1 .. n : for_node(m, nodes[i]) = m[i] BY <1>3, <1>6, <1>7, ForNode, Zenon
  <1>10. pipeline_order(m) = nodes BY <1>6, <1>7, PipelineOrder, Zenon
  <1>11. \A i \in 1 .. n : /\ m[i].node = c[i].node
                           /\ m[i].start = cut[i - 1] /\ m[i].end = cut[i]
                           /\ m[i].hosts_embedding <=> i = 1
                           /\ m[i].hosts_output <=> i = n
                           /\ for_node(m, c[i].node) = m[i]
    <2>1. \A i \in 1 .. n : nodes[i] = c[i].node BY <1>3, Zenon
    <2>2. ASSUME NEW i \in 1 .. n
          PROVE  /\ m[i].node = c[i].node
                 /\ m[i].start = cut[i - 1] /\ m[i].end = cut[i]
                 /\ for_node(m, c[i].node) = m[i]
      BY <1>5, <1>8, <1>9, <2>1
    <2>3. \A i \in 1 .. n : /\ m[i].hosts_embedding <=> i = 1
                            /\ m[i].hosts_output <=> i = n
      BY <1>8, Zenon
    <2> QED BY <2>2, <2>3, Zenon
  <1> QED BY <1>8, <1>10, <1>11, Zenon DEF m, n, nodes

(* What agreed_manifest returns when it does not fail: the manifest of a   *)
(* plan of the capabilities in id order.                                   *)
LEMMA AgreedPlan ==
  ASSUME NEW c \in Clusters, agreed_manifest(c) # Err
  PROVE  /\ Len(c) > 0 /\ NLayers # 0
         /\ \E cut : Fits(canonical(c), cut) /\ agreed_manifest(c) = Planned(canonical(c), cut)
  <1> DEFINE s == canonical(c)
  <1>1. s \in Clusters /\ Len(s) = Len(c) BY Canonical
  <1>2. agreed_manifest(c) = auto_partition(s) BY Zenon DEF agreed_manifest
  <1> HIDE DEF s
  <1>3. Len(s) # 0
    <2>1. auto_partition(s) # Err BY <1>2
    <2> QED BY <2>1, Zenon DEF auto_partition
  <1>4. NLayers # 0 /\ \E p : Fits(s, p) BY <1>1, <1>2, AutoFails, Zenon
  <1>5. \E cut : Fits(s, cut) /\ auto_partition(s) = Planned(s, cut)
    BY <1>1, <1>4, AutoSolves, Zenon
  <1>6. Len(c) > 0 BY <1>1, <1>3, ClusterFacts
  <1> QED BY <1>2, <1>4, <1>5, <1>6, Zenon DEF s

(* The agreed manifest takes the layers in order, over the nodes it is for. *)
LEMMA AgreedInOrder ==
  ASSUME NEW d \in Clusters, agreed_manifest(d) # Err
  PROVE  \E nodes, ranges :
           /\ InOrder(nodes, ranges) /\ agreed_manifest(d) = Assignments(nodes, ranges)
           /\ {nodes[i] : i \in 1 .. Len(nodes)} = {d[i].node : i \in DOMAIN d}
  <1> DEFINE c == canonical(d)
             n == Len(d)
             nodes == NodesOf(c)
  <1>1. PICK cut : Fits(c, cut) /\ agreed_manifest(d) = Planned(c, cut) BY AgreedPlan, Zenon
  <1> DEFINE ranges == [i \in DOMAIN c |-> << cut[i - 1], cut[i] >>]
  <1>2. n > 0 /\ c \in Clusters /\ Len(c) = n BY AgreedPlan, Canonical
  <1>3. {c[i] : i \in 1 .. n} = {d[i] : i \in 1 .. n} BY Canonical
  <1>4. DOMAIN d = 1 .. n BY ClusterFacts
  <1> HIDE DEF c
  <1>5. \A i \in 1 .. n : cut[i - 1] \in 0 .. NLayers /\ cut[i] \in 0 .. NLayers
    BY <1>1, <1>2, FitsReach
  <1>6. /\ n \in Nat /\ DOMAIN c = 1 .. n
        /\ \A i \in 1 .. n : c[i].node \in Ids
        /\ \A i, j \in 1 .. n : i # j => c[i].node # c[j].node
    BY <1>2, ClusterFacts DEF Ids
  <1> HIDE DEF n
  <1>7. /\ nodes \in Seq(Ids) /\ Len(nodes) = n
        /\ \A i, j \in 1 .. n : i # j => nodes[i] # nodes[j]
        /\ \A i \in 1 .. n : nodes[i] = c[i].node
    BY <1>6 DEF NodesOf
  <1>8. ranges \in [1 .. n -> (0 .. NLayers) \X (0 .. NLayers)] BY <1>5, <1>6
  <1>9. \A i \in 1 .. n : ranges[i][1] = cut[i - 1] /\ ranges[i][2] = cut[i] BY <1>6
  <1>10. agreed_manifest(d) = Assignments(nodes, ranges) BY <1>1, Zenon DEF Planned, NodesOf
  <1> HIDE DEF nodes, ranges
  <1>11. Pipeline(nodes, ranges)
    <2>1. Len(nodes) > 0 BY <1>2, <1>7
    <2> QED BY <1>7, <1>8, <2>1, Zenon DEF Pipeline
  <1>12. ranges[1][1] = 0 /\ ranges[n][2] = NLayers
    <2>1. cut[0] = 0 /\ cut[n] = NLayers BY <1>1, <1>2 DEF Fits
    <2>2. 1 \in 1 .. n /\ n \in 1 .. n /\ 1 - 1 = 0 BY <1>2, <1>6
    <2> QED BY <1>9, <2>1, <2>2
  <1>13. \A i \in 2 .. n : ranges[i][1] = ranges[i - 1][2]
    <2>1. \A i \in 2 .. n : i \in 1 .. n /\ i - 1 \in 1 .. n BY <1>6
    <2> QED BY <1>9, <2>1
  <1>14. \A i \in 1 .. n : ranges[i][1] <= ranges[i][2] BY <1>1, <1>2, <1>9 DEF Fits
  <1>15. InOrder(nodes, ranges) BY <1>7, <1>11, <1>12, <1>13, <1>14 DEF InOrder
  <1>16. {nodes[i] : i \in 1 .. n} = {x.node : x \in {c[i] : i \in 1 .. n}} BY <1>7
  <1>17. {d[i].node : i \in 1 .. n} = {x.node : x \in {d[i] : i \in 1 .. n}} OBVIOUS
  <1>18. {nodes[i] : i \in 1 .. Len(nodes)} = {d[i].node : i \in DOMAIN d}
    BY <1>3, <1>4, <1>7, <1>16, <1>17 DEF n
  <1> QED BY <1>10, <1>15, <1>18

-----------------------------------------------------------------------------
(* The solver at work. *)

(* The instances are clusters with at least one node.                      *)
LEMMA InputFacts ==
  ASSUME NEW c \in Inputs
  PROVE  c \in Clusters /\ Len(c) > 0
  <1>1. PICK n \in 1 .. MaxNodes : c \in InputsOf(n) BY Zenon DEF Inputs
  <1>2. /\ c \in [1 .. n -> [node : 1 .. n, mem : Mems, score : Scores]]
        /\ IsInjective([i \in 1 .. n |-> c[i].node])
    BY <1>1 DEF InputsOf
  <1>3. n \in Nat \ {0} BY SolverAssumption
  <1>4. \A i, j \in 1 .. n : i # j => c[i].node # c[j].node BY <1>2 DEF IsInjective
  <1>5. \A x \in [node : 1 .. n, mem : Mems, score : Scores] : x \in Capability
    <2>1. Mems \subseteq Nat /\ Scores \subseteq Nat \ {0} BY SolverAssumption
    <2>2. \A k \in 1 .. n : k \in Ids BY <1>3 DEF Ids, Nobody
    <2> QED BY <2>1, <2>2 DEF Capability
  <1>6. c \in [1 .. n -> Capability] BY <1>2, <1>5
  <1>7. c \in Seq(Capability) /\ Len(c) = n /\ DOMAIN c = 1 .. n BY <1>3, <1>6
  <1> QED BY <1>3, <1>4, <1>7 DEF Clusters

\* The answers are those of the solver.
SolverInv ==
  /\ caps \in Inputs
  /\ auto = Pending \/ auto = agreed_manifest(caps)
  /\ manual = Pending \/ \E r \in Overrides : manual = manual_partition(caps, r)

LEMMA SolverInvariant == SolverSpec => []SolverInv
  <1>1. SolverInit => SolverInv BY DEF SolverInit, SolverInv
  <1>2. SolverInv /\ [SolverNext]_solver => SolverInv'
    <2> SUFFICES ASSUME SolverInv, [SolverNext]_solver PROVE SolverInv' OBVIOUS
    <2>1. CASE Solve BY <2>1, Zenon DEF SolverInv, Solve
    <2>2. CASE SolveManual BY <2>2, Zenon DEF SolverInv, SolveManual
    <2>3. CASE UNCHANGED solver BY <2>3, Zenon DEF SolverInv, solver
    <2> QED BY <2>1, <2>2, <2>3 DEF SolverNext
  <1> QED BY <1>1, <1>2, PTL DEF SolverSpec

(* The plans of the reference are those the dynamic program considers.     *)
LEMMA PlansFit ==
  ASSUME caps \in Clusters, NEW cut
  PROVE  cut \in Plans <=> Fits(Sorted, cut)
  <1> DEFINE n == Len(caps)
             s == Sorted
  <1>1. s \in Clusters /\ Len(s) = n BY Canonical DEF Sorted
  <1>2. n \in Nat /\ DOMAIN caps = 1 .. n BY ClusterFacts
  <1> HIDE DEF n, s
  <1>3. \A i \in 1 .. n : /\ max_layers(s, i) \in Nat /\ overhead(i) \in Nat
                          /\ \A l \in Nat : l <= max_layers(s, i)
                                              <=> l = 0 \/ l * LayerBytes + overhead(i) <= s[i].mem
    BY <1>1, MaxLayers
  <1> DEFINE P(i) == \/ cut[i] = cut[i - 1]
                     \/ /\ cut[i] > cut[i - 1]
                        /\ (cut[i] - cut[i - 1]) * LayerBytes + overhead(i) <= s[i].mem
             F(i) == cut[i - 1] <= cut[i] /\ cut[i] - cut[i - 1] <= max_layers(s, i)
             B == /\ cut \in [0 .. n -> 0 .. NLayers] /\ cut[0] = 0 /\ cut[n] = NLayers
  <1>4. cut \in Plans <=> B /\ \A i \in 1 .. n : P(i) BY <1>2, Zenon DEF Plans, n, s
  <1>5. Fits(s, cut) <=> B /\ \A i \in 1 .. n : F(i) BY <1>1, Zenon DEF Fits
  <1>6. ASSUME B, NEW i \in 1 .. n PROVE P(i) <=> F(i)
    <2> DEFINE x == cut[i - 1]
               y == cut[i]
               d == cut[i] - cut[i - 1]
    <2>1. x \in Nat /\ y \in Nat
      <3>1. i \in 0 .. n /\ i - 1 \in 0 .. n BY <1>2
      <3> QED BY <1>6, <3>1, PartitionAssumption
    <2>2. y >= x => d \in Nat /\ (d = 0 <=> y = x) BY <2>1
    <2>3. y >= x => (d <= max_layers(s, i) <=> d = 0 \/ d * LayerBytes + overhead(i) <= s[i].mem)
      BY <1>3, <2>2, Zenon
    <2> QED
      <3> DEFINE M == d * LayerBytes + overhead(i) <= s[i].mem
                 L == d <= max_layers(s, i)
      <3>1. P(i) <=> y = x \/ (y > x /\ M) OBVIOUS
      <3>2. F(i) <=> x <= y /\ L OBVIOUS
      <3>3. y >= x => (L <=> d = 0 \/ M) BY <2>3
      <3> HIDE DEF M, L, P, F, d, x, y
      <3> QED BY <2>1, <2>2, <3>1, <3>2, <3>3
  <1> HIDE DEF P, F, B
  <1>7. cut \in Plans <=> Fits(s, cut) BY <1>4, <1>5, <1>6, Zenon
  <1> QED BY <1>7 DEF s

(* Two quotients that are in order after rounding down are in order up to  *)
(* less than one.                                                          *)
LEMMA RoundedOrder ==
  ASSUME NEW a \in Nat, NEW b \in Nat, NEW s \in Nat \ {0}, NEW t \in Nat \ {0},
         a \div s <= b \div t
  PROVE  a * t < b * s + s * t
  <1> DEFINE x == a \div s
             y == b \div t
  <1>1. x \in Nat /\ y \in Nat /\ x <= y BY RoundsDown
  <1>2. ~((x + 1) * s <= a)
    <2>1. x + 1 \in Nat /\ ~(x + 1 <= x) BY <1>1
    <2> QED BY <2>1, RoundsDown
  <1>3. y * t <= b BY <1>1, RoundsDown
  <1> HIDE DEF x, y
  <1>4. x * s \in Nat /\ a < x * s + s BY <1>1, <1>2
  <1>5. a * t < (x * s + s) * t
    <2> DEFINE w == x * s + s
    <2>1. w \in Nat /\ a < w BY <1>4
    <2> HIDE DEF w
    <2>2. w - a - 1 \in Nat BY <2>1
    <2>3. (w - a - 1) * t \in Nat BY <2>2
    <2>4. w * t = a * t + t + (w - a - 1) * t BY <2>1
    <2>5. a * t \in Nat /\ w * t \in Nat BY <2>1
    <2>6. a * t < w * t BY <2>3, <2>4, <2>5
    <2> QED BY <2>6 DEF w
  <1>6. (x * s + s) * t = x * (s * t) + s * t BY <1>1
  <1>7. x * (s * t) <= y * (s * t)
    <2>1. s * t \in Nat /\ y - x \in Nat BY <1>1
    <2>2. (y - x) * (s * t) \in Nat BY <2>1
    <2>3. y * (s * t) = x * (s * t) + (y - x) * (s * t) BY <1>1, <2>1
    <2>4. x * (s * t) \in Nat BY <1>1, <2>1
    <2> QED BY <2>2, <2>3, <2>4
  <1>8. y * (s * t) <= b * s
    <2> DEFINE z == y * t
    <2>1. z \in Nat /\ b - z \in Nat BY <1>1, <1>3
    <2>2. z * s = y * (s * t) BY <1>1
    <2> HIDE DEF z
    <2>3. (b - z) * s \in Nat /\ z * s \in Nat BY <2>1
    <2>4. b * s = z * s + (b - z) * s BY <2>1
    <2> QED BY <2>2, <2>3, <2>4
  <1>9. /\ a * t \in Nat /\ b * s \in Nat /\ s * t \in Nat
        /\ x * (s * t) \in Nat /\ y * (s * t) \in Nat
    BY <1>1
  <1> QED BY <1>5, <1>6, <1>7, <1>8, <1>9

(* A plan has a stage that costs no less than any other of it.             *)
LEMMA SlowestStage ==
  ASSUME caps \in Clusters, Len(caps) > 0, NEW cut, Fits(Sorted, cut)
  PROVE  \E j \in 1 .. Len(caps) :
           /\ stage_cost(Sorted[j], cut[j] - cut[j - 1]) \in Nat
           /\ Within(Sorted, cut, stage_cost(Sorted[j], cut[j] - cut[j - 1]))
  <1> DEFINE n == Len(caps)
             s == Sorted
             cost_of(i) == stage_cost(s[i], cut[i] - cut[i - 1])
             S == {cost_of(i) : i \in 1 .. n}
             x == Max(S)
  <1>1. s \in Clusters /\ Len(s) = n BY Canonical DEF Sorted
  <1>2. n \in Nat /\ n > 0 BY ClusterFacts
  <1> HIDE DEF n
  <1> HIDE DEF s
  <1>4. \A i \in 1 .. n : cost_of(i) \in 0 .. INF
    <2> SUFFICES ASSUME NEW i \in 1 .. n PROVE cost_of(i) \in 0 .. INF OBVIOUS
    <2>1. s[i] \in Capability BY <1>1, ClusterFacts
    <2>2. cut[i] - cut[i - 1] \in 0 .. NLayers BY <1>1, FitsReach DEF s
    <2> QED BY <2>1, <2>2, StageCost
  <1>5. INF \in Nat BY PartitionAssumption DEF INF
  <1>0. \A b : Within(s, cut, b) <=> \A i \in 1 .. n : cost_of(i) <= b
    BY <1>1, Zenon DEF Within
  <1> HIDE DEF cost_of
  <1>6. S \in SUBSET (0 .. INF) BY <1>4
  <1>7. cost_of(1) \in S BY <1>2
  <1>8. x \in S /\ \A y \in S : y <= x
    <2> HIDE DEF S
    <2> QED BY <1>5, <1>6, <1>7, GreatestNatural
  <1> HIDE DEF x
  <1>9. PICK j \in 1 .. n : x = cost_of(j) BY <1>8
  <1>10. cost_of(j) \in Nat BY <1>4, <1>5
  <1>11. \A i \in 1 .. n : cost_of(i) <= cost_of(j) BY <1>8, <1>9
  <1>12. Within(s, cut, cost_of(j)) BY <1>0, <1>11
  <1> QED BY <1>10, <1>12 DEF s, n, cost_of

(* PlansAreOptimal: agreed_manifest, for any cluster, model and memory,    *)
(* fails exactly when no plan fits, and otherwise returns a plan whose     *)
(* slowest stage is, in layers / score, less than 1/1000 above that of any *)
(* other plan: the tables of the dynamic program hold the least of the     *)
(* rounded costs, the backtracking recovers a plan that attains the last   *)
(* of them, and rounding hides less than one unit of cost.                 *)
THEOREM PlansAreOptimal == SolverSpec => []PlanOptimal
  <1>1. SolverInv => PlanOptimal
    <2> SUFFICES ASSUME SolverInv, auto # Pending
                 PROVE  IF NLayers = 0 \/ Plans = {} THEN auto = Err
                        ELSE /\ auto # Err
                             /\ \E cut \in Plans :
                                  /\ \A p \in Plans, i \in DOMAIN caps :
                                       \E j \in DOMAIN caps : NearlyAsFast(cut, i, p, j)
                                  /\ DOMAIN auto = DOMAIN caps
                                  /\ \A i \in DOMAIN auto :
                                       /\ auto[i].node = Sorted[i].node
                                       /\ auto[i].start = cut[i - 1] /\ auto[i].end = cut[i]
      BY DEF PlanOptimal
    <2>1. caps \in Clusters /\ Len(caps) > 0 BY InputFacts DEF SolverInv
    <2>2. Sorted \in Clusters /\ Len(Sorted) = Len(caps) BY <2>1, Canonical DEF Sorted
    <2>3. auto = auto_partition(Sorted) BY Zenon DEF SolverInv, agreed_manifest, Sorted
    <2>4. \A cut : cut \in Plans <=> Fits(Sorted, cut) BY <2>1, PlansFit
    <2>5. CASE NLayers = 0 \/ Plans = {}
      <3>1. NLayers = 0 \/ \A cut : ~Fits(Sorted, cut) BY <2>4, <2>5
      <3>2. auto_partition(Sorted) = Err BY <2>2, <3>1, AutoFails
      <3> QED BY <2>3, <2>5, <3>2
    <2>6. CASE ~(NLayers = 0 \/ Plans = {})
      <3>1. PICK p : Fits(Sorted, p) BY <2>4, <2>6
      <3>2. PICK cut : /\ Fits(Sorted, cut) /\ auto_partition(Sorted) = Planned(Sorted, cut)
                       /\ \A q, b : Fits(Sorted, q) /\ b \in Nat /\ Within(Sorted, q, b)
                                      => Within(Sorted, cut, b)
        BY <2>2, <2>6, <3>1, AutoSolves
      <3>3. /\ auto \in Seq(NodeAssignment) /\ DOMAIN auto = 1 .. Len(caps)
            /\ \A i \in 1 .. Len(caps) : /\ auto[i].node = Sorted[i].node
                                         /\ auto[i].start = cut[i - 1] /\ auto[i].end = cut[i]
        <4>1. Len(Sorted) > 0 /\ auto = Planned(Sorted, cut) BY <2>1, <2>2, <2>3, <3>2
        <4>2. LET m == Planned(Sorted, cut) IN
              /\ m \in Seq(NodeAssignment) /\ DOMAIN m = 1 .. Len(Sorted)
              /\ \A i \in 1 .. Len(Sorted) : /\ m[i].node = Sorted[i].node
                                             /\ m[i].start = cut[i - 1] /\ m[i].end = cut[i]
          BY <2>2, <3>2, <4>1, PlannedRing
        <4> QED BY <2>2, <4>1, <4>2, Zenon
      <3>4. auto # Err BY <3>3, PartitionAssumption
      <3>5. DOMAIN caps = 1 .. Len(caps) BY <2>1, ClusterFacts
      <3>6. ASSUME NEW q \in Plans, NEW i \in DOMAIN caps
            PROVE  \E j \in DOMAIN caps : NearlyAsFast(cut, i, q, j)
        <4>1. Fits(Sorted, q) BY <2>4
        <4> DEFINE l == cut[i] - cut[i - 1]
        <4>2. PICK j \in 1 .. Len(caps) :
                /\ stage_cost(Sorted[j], q[j] - q[j - 1]) \in Nat
                /\ Within(Sorted, q, stage_cost(Sorted[j], q[j] - q[j - 1]))
          BY <2>1, <4>1, SlowestStage
        <4> DEFINE m == q[j] - q[j - 1]
                   s == Sorted[i].score
                   t == Sorted[j].score
        <4>3. Within(Sorted, cut, stage_cost(Sorted[j], m)) BY <3>2, <4>1, <4>2
        <4>4. stage_cost(Sorted[i], l) <= stage_cost(Sorted[j], m)
          BY <2>2, <3>5, <4>3, Zenon DEF Within
        <4>5. (l * 1000) \div s <= (m * 1000) \div t BY <4>4 DEF stage_cost
        <4>6. l \in Nat
          <5>1. l \in 0 .. NLayers BY <2>2, <3>2, <3>5, FitsReach
          <5> QED BY <5>1, PartitionAssumption
        <4>7. m \in Nat
          <5>1. m \in 0 .. NLayers BY <2>2, <4>1, FitsReach
          <5> QED BY <5>1, PartitionAssumption
        <4>8. s \in Nat \ {0} /\ t \in Nat \ {0}
          <5>1. Sorted[i] \in Capability /\ Sorted[j] \in Capability BY <2>2, <3>5, ClusterFacts
          <5> QED BY <5>1 DEF Capability
        <4>9. NearlyAsFast(cut, i, q, j) <=> 1000 * l * t < 1000 * m * s + s * t
          BY DEF NearlyAsFast
        <4> HIDE DEF l, m, s, t
        <4> DEFINE a == l * 1000
                   b == m * 1000
        <4>10. a \in Nat /\ b \in Nat BY <4>6, <4>7
        <4>11. 1000 * l * t = a * t /\ 1000 * m * s = b * s BY ONLY <4>6, <4>7, <4>8 DEF a, b
        <4> HIDE DEF a, b
        <4>12. a \div s <= b \div t BY <4>5 DEF a, b
        <4>13. a * t < b * s + s * t BY ONLY <4>8, <4>10, <4>12, RoundedOrder
        <4> QED BY <3>5, <4>9, <4>11, <4>13
      <3>7. cut \in Plans BY <2>4, <3>2
      <3> QED BY <2>6, <3>3, <3>4, <3>5, <3>6, <3>7, Zenon
    <2> QED BY <2>5, <2>6
  <1> QED BY <1>1, SolverInvariant, PTL

(* AgreementFreeOfOrder: the order in which a node found its peers does    *)
(* not change the manifest it derives, however many there are, since node  *)
(* ids are distinct and sorting by them has one outcome.                   *)
THEOREM AgreementFreeOfOrder == SolverSpec => []AgreementOrderFree
  <1>1. SolverInv => AgreementOrderFree
    <2> SUFFICES ASSUME SolverInv, auto # Pending,
                        NEW p \in Bijection(DOMAIN caps, DOMAIN caps)
                 PROVE  agreed_manifest([i \in DOMAIN caps |-> caps[p[i]]]) = auto
      BY DEF AgreementOrderFree
    <2>1. caps \in Clusters BY InputFacts DEF SolverInv
    <2>2. auto = agreed_manifest(caps) BY DEF SolverInv
    <2> QED BY <2>1, <2>2, AgreedOrderFree
  <1> QED BY <1>1, SolverInvariant, PTL

(* An assignment of a pipeline whose ranges follow each other is a ring.   *)
LEMMA PipelineRing ==
  ASSUME NEW nodes, NEW ranges, Pipeline(nodes, ranges),
         ranges[1][1] = 0, ranges[Len(nodes)][2] = NLayers,
         \A i \in 2 .. Len(nodes) : ranges[i][1] = ranges[i - 1][2]
  PROVE  Ring(Assignments(nodes, ranges))
  <1> DEFINE m == Assignments(nodes, ranges)
             n == Len(nodes)
  <1>1. /\ n \in Nat \ {0} /\ Len(m) = n /\ DOMAIN m = 1 .. n
        /\ \A i \in 1 .. n : /\ m[i].node = nodes[i]
                             /\ m[i].start = ranges[i][1] /\ m[i].end = ranges[i][2]
                             /\ m[i].hosts_embedding <=> i = 1
                             /\ m[i].hosts_output <=> i = n
    BY ManifestFields
  <1>2. pipeline_order(m) = nodes BY PipelineOrder
  <1>3. nodes = [i \in 1 .. n |-> nodes[i]] BY DEF Pipeline
  <1>4. n \in Nat \ {0} BY <1>1, Zenon
  <1>5. \A i \in 2 .. n : ranges[i][1] = ranges[i - 1][2] OBVIOUS
  <1>6. ranges[1][1] = 0 /\ ranges[n][2] = NLayers OBVIOUS
  <1> HIDE DEF m, n
  <1>7. nodes = [i \in DOMAIN m |-> m[i].node] BY <1>1, <1>3
  <1>8. 1 \in 1 .. n /\ n \in 1 .. n BY <1>4
  <1>9. m[1].hosts_embedding /\ m[n].hosts_output BY <1>1, <1>8, Zenon
  <1>10. m[1].start = 0 /\ m[n].end = NLayers BY <1>1, <1>6, <1>8, Zenon
  <1>11. ASSUME NEW i \in 2 .. n PROVE m[i].start = m[i - 1].end
    <2>1. i \in 1 .. n /\ i - 1 \in 1 .. n BY <1>4
    <2>2. m[i].start = ranges[i][1] /\ m[i - 1].end = ranges[i - 1][2] BY <1>1, <2>1, Zenon
    <2> QED BY <1>5, <2>2
  <1>12. Len(m) = n BY <1>1
  <1>13. Ring(m) BY <1>2, <1>7, <1>9, <1>10, <1>11, <1>12, Zenon DEF Ring
  <1> QED BY <1>13 DEF m

(* So is an accepted manual partition that names each node once.           *)
LEMMA ManualRing ==
  ASSUME NEW c, NEW r \in Overrides, manual_partition(c, r) # Err, manual_partition(c, r) # << >>,
         IsInjective([i \in DOMAIN manual_partition(c, r) |-> manual_partition(c, r)[i].node])
  PROVE  Ring(manual_partition(c, r))
  <1> DEFINE Ranges == [node : 1 .. MaxNodes, start : 0 .. NLayers, end : 0 .. NLayers]
             key == [i \in DOMAIN r |-> r[i].start]
             sorted == sort_by(r, key)
             nodes == [i \in DOMAIN sorted |-> sorted[i].node]
             ranges == [i \in DOMAIN sorted |-> << sorted[i].start, sorted[i].end >>]
             m == Assignments(nodes, ranges)
  <1>1. PICK n \in 0 .. MaxRanges : r \in [1 .. n -> Ranges] BY Zenon DEF Overrides
  <1>2. n \in Nat BY SolverAssumption
  <1>3. key \in [1 .. n -> Nat] BY <1>1, PartitionAssumption
  <1>4. PICK p : Sorts(p, n, key) /\ Arranges(p, n, r, sorted)
    <2> HIDE DEF key
    <2>1. DOMAIN r = 1 .. n BY <1>1, Zenon
    <2> QED BY <1>2, <1>3, <2>1, SortBy, Zenon
  <1>5. p \in [1 .. n -> 1 .. n] BY <1>4, Zenon DEF Sorts, Bijection, Injection
  <1>6. sorted = [i \in 1 .. n |-> r[p[i]]] BY <1>4, Zenon DEF Arranges
  <1>7. manual_partition(c, r) = IF ~Contiguous(sorted) \/ ~FitsMemory(c, sorted) THEN Err ELSE m
    BY Zenon DEF manual_partition
  <1>8. Contiguous(sorted) /\ manual_partition(c, r) = m BY <1>7
  <1> HIDE DEF sorted
  <1>9. sorted \in [1 .. n -> Ranges] /\ Len(sorted) = n BY <1>1, <1>2, <1>5, <1>6
  <1>10. \A i \in 1 .. n : sorted[i].node \in Ids /\ sorted[i].start \in 0 .. NLayers
                           /\ sorted[i].end \in 0 .. NLayers
    BY <1>9, SolverAssumption DEF Ids, Nobody
  <1>11. /\ nodes \in Seq(Ids) /\ Len(nodes) = n /\ DOMAIN nodes = 1 .. n
         /\ ranges \in [1 .. n -> (0 .. NLayers) \X (0 .. NLayers)]
    BY <1>2, <1>9, <1>10
  <1>12. DOMAIN m = 1 .. n /\ \A i \in 1 .. n : m[i].node = nodes[i]
    <2> HIDE DEF nodes, ranges
    <2> QED BY <1>11 DEF Assignments
  <1>13. n > 0
    <2>1. CASE n = 0
      <3>1. m = << >> BY <1>12, <2>1 DEF Assignments
      <3> QED BY <1>8, <3>1
    <2> QED BY <1>2, <2>1
  <1>14. \A i, j \in 1 .. n : i # j => nodes[i] # nodes[j]
    <2> HIDE DEF m, nodes
    <2>1. IsInjective([i \in 1 .. n |-> m[i].node]) BY <1>8, <1>12, Zenon
    <2>2. [i \in 1 .. n |-> m[i].node] = nodes BY <1>11, <1>12
    <2>3. IsInjective(nodes) BY <2>1, <2>2, Zenon
    <2> QED BY <1>11, <2>3 DEF IsInjective
  <1>15. Pipeline(nodes, ranges)
    <2> HIDE DEF nodes, ranges
    <2> QED BY <1>11, <1>13, <1>14, Zenon DEF Pipeline
  <1>16. /\ \A i \in 1 .. n : sorted[i].start = (IF i = 1 THEN 0 ELSE sorted[i - 1].end)
         /\ sorted[n].end = NLayers
    <2>1. sorted # << >> BY <1>9, <1>13
    <2> QED BY <1>8, <1>9, <2>1 DEF Contiguous
  <1>17. \A i \in 1 .. n : ranges[i][1] = sorted[i].start /\ ranges[i][2] = sorted[i].end
    BY <1>9
  <1>18. /\ ranges[1][1] = 0 /\ ranges[n][2] = NLayers
         /\ \A i \in 2 .. n : ranges[i][1] = ranges[i - 1][2]
    <2> HIDE DEF ranges
    <2>1. 1 \in 1 .. n /\ n \in 1 .. n BY <1>2, <1>13
    <2>2. \A i \in 2 .. n : i \in 1 .. n /\ i # 1 /\ i - 1 \in 1 .. n BY <1>2
    <2> QED BY <1>16, <1>17, <2>1, <2>2
  <1> HIDE DEF nodes, ranges
  <1>19. Ring(m) BY <1>11, <1>15, <1>18, PipelineRing
  <1> QED BY <1>8, <1>19

(* RingsInLayerOrder: the ring of every derived manifest, and of every     *)
(* accepted manual partition that names each node once, goes from the      *)
(* embedding host to the output host through layers 0 .. NLayers-1, for    *)
(* any number of nodes and layers; pipeline_order finds no missing or      *)
(* cyclic link on it.                                                      *)
THEOREM RingsInLayerOrder == SolverSpec => []RingInLayerOrder
  <1>1. SolverInv => (Solved(auto) => Ring(auto))
    <2> SUFFICES ASSUME SolverInv, Solved(auto) PROVE Ring(auto) OBVIOUS
    <2>1. caps \in Clusters BY InputFacts DEF SolverInv
    <2>2. auto = agreed_manifest(caps) /\ auto # Err BY DEF SolverInv, Solved
    <2>3. PICK nodes, ranges : InOrder(nodes, ranges) /\ auto = Assignments(nodes, ranges)
      BY <2>1, <2>2, AgreedInOrder
    <2> QED BY <2>3, PipelineRing DEF InOrder
  <1>2. SolverInv => (Solved(manual) /\ IsInjective([i \in DOMAIN manual |-> manual[i].node])
                        => Ring(manual))
    <2> SUFFICES ASSUME SolverInv, Solved(manual),
                        IsInjective([i \in DOMAIN manual |-> manual[i].node])
                 PROVE  Ring(manual)
      OBVIOUS
    <2>1. PICK r \in Overrides : manual = manual_partition(caps, r) BY DEF SolverInv, Solved
    <2> DEFINE x == manual_partition(caps, r)
    <2>2. x # Err /\ x # << >> /\ IsInjective([i \in DOMAIN x |-> x[i].node])
      BY <2>1, Zenon DEF Solved, Pending
    <2>3. Ring(x) BY <2>2, ManualRing
    <2> QED BY <2>1, <2>3
  <1>3. SolverInv => RingInLayerOrder BY <1>1, <1>2, Zenon DEF RingInLayerOrder
  <1> QED BY <1>3, SolverInvariant, PTL
=============================================================================
