--------------------------- MODULE GatewayProofs ---------------------------
(***************************************************************************)
(* Proofs about Gateway, for any number of requests, providers, rules and  *)
(* reloads: the load of a provider is the number of requests it serves,    *)
(* failover tries each candidate once and gives none up early, and the     *)
(* dashboard's counters are those of the requests that were answered.      *)
(***************************************************************************)
EXTENDS Gateway, FiniteSetTheorems, NaturalsInduction, SequenceTheorems, TLAPS

\* Lists of providers without repetition.
Distinct == {s \in Seq(Providers) : \A i, j \in DOMAIN s : i # j => s[i] # s[j]}

Calls == [provider : Providers, error : ProviderErrors \cup {None}]

Retried(e) == e \in ProviderErrors /\ retryable(e)

Stage(c) == IF Left(c) = {} THEN "log" ELSE c.todo[Min(Left(c))]

\* The calls k of a request whose candidates in tried failed over.
FailedOver(c, k) ==
  /\ Len(k) = Cardinality(c.tried)
  /\ \A i \in DOMAIN k : Retried(k[i].error) /\ \E j \in c.tried : k[i].provider = c.cands[j]
  /\ k = << >> => c.provider = None
  /\ k # << >> => c.provider = k[Len(k)].provider /\ c.last_err = k[Len(k)].error

\* The call of c is pending: the last of k, and the others failed over.
Pending(c, k) ==
  /\ c.at \in DOMAIN c.cands \ c.tried /\ c.provider = c.cands[c.at]
  /\ Len(k) = Cardinality(c.tried) + 1
  /\ k[Len(k)] = [provider |-> c.provider, error |-> None]
  /\ \A i \in 1 .. (Len(k) - 1) :
       Retried(k[i].error) /\ \E j \in c.tried : k[i].provider = c.cands[j]

\* The request is past forward, or never gets there.
Settled(c, k) ==
  /\ \A i \in 1 .. (Len(k) - 1) : Retried(k[i].error)
  /\ k # << >> /\ c.error # None =>
       /\ \/ c.error = k[Len(k)].error
          \/ k[Len(k)].error = None /\ c.error = GatewayErr("Internal")
       /\ Retried(k[Len(k)].error) => Len(k) = Len(c.cands)

\* Where a request is in its life: before forward, at it, or past it.
Waiting(c) == c.pc = "idle" \/ (c.pc = "stages" /\ Stage(c) \notin {"forward", "log"})
Forwarding(c) == (c.pc = "stages" /\ Stage(c) = "forward") \/ c.pc \in {"picked", "call"}
Past(c) == (c.pc = "stages" /\ Stage(c) = "log") \/ c.pc \in {"stream", "failed", "done", "gone"}

Busy(c) == \/ c.pc = "call"
           \/ c.response = "stream" /\ c.pc \in {"stages", "stream", "failed"}

\* The terminal stages count c, as a request its provider answered.
Counted(c) == /\ c.provider \in Providers
              /\ \/ c.pc \in {"done", "stream", "failed"}
                 \/ c.pc = "gone" /\ c.response # "pending"

\* forward is the last stage but for the log.
ForwardLast(c) ==
  \A i, j \in DOMAIN c.todo : c.todo[i] = "forward" /\ i < j => c.todo[j] = "log"

\* A request with context c, calls k and n tokens reported: its parts are of
\* their types and neither its candidates nor its calls name a provider twice.
Basic(c, k, n) ==
  /\ c \in Contexts /\ k \in Seq(Calls) /\ n \in Nat /\ ForwardLast(c)
  /\ c.cands \in Distinct /\ c.at \in 0 .. Len(c.cands) /\ c.tried \subseteq DOMAIN c.cands
  /\ \A i, j \in DOMAIN k : i # j => k[i].provider # k[j].provider

\* What its calls have to do with where it is.
Phase(c, k) ==
  /\ c.pc = "idle" => c = Fresh
  /\ Waiting(c) => k = << >> /\ c.tried = {} /\ c.at = 0 /\ c.provider = None
  /\ Waiting(c) \/ Forwarding(c) => c.response = "pending" /\ c.error = None
  /\ c.pc \in {"picked", "call"} => Stage(c) = "forward" /\ c.at \in DOMAIN c.cands \ c.tried
  /\ Forwarding(c) /\ c.pc # "call" => FailedOver(c, k)
  /\ c.pc = "call" => Pending(c, k)
  /\ Past(c) => Settled(c, k)

\* What its answer has to do with the tokens reported.
Report(c, n) ==
  /\ c.pc \in {"stream", "failed"} => c.response = "stream"
  /\ c.response = "stream" => c.provider \in Providers
  /\ c.response = "pending" /\ c.error = None => n = 0 /\ c.credited = 0
  /\ c.response = "stream" => c.credited = n

Req(c, k, n) == Basic(c, k, n) /\ Phase(c, k) /\ Report(c, n)

SlotsInv ==
  /\ built \in Gens /\ slot \in [DOMAIN Pipelines[0] -> Gens]
  /\ \A route \in DOMAIN slot : route \in DOMAIN Pipelines[slot[route]]
  /\ swapping \subseteq DOMAIN Pipelines[built] \cap DOMAIN slot

CounterTypes ==
  /\ load \in [Gens -> [Providers -> Nat]]
  /\ metrics \in [Gens -> [Providers -> [out : Nat, requests : Nat, errors : Nat]]]
  /\ DOMAIN activity = Gens

Inv ==
  /\ SlotsInv /\ CounterTypes
  /\ ctx \in [Requests -> Contexts]
  /\ calls \in [Requests -> Seq(Calls)] /\ reported \in [Requests -> Nat]
  /\ \A r \in Requests : Req(ctx[r], calls[r], reported[r])
  /\ LoadExact /\ RequestsAccounted /\ TokensCredited

-----------------------------------------------------------------------------
(* Folds.                                                                  *)

(* A set of naturals has a least element.                                  *)
LEMMA LeastOfNaturals ==
  ASSUME NEW S \in SUBSET Nat, S # {}
  PROVE  Min(S) \in S /\ \A y \in S : Min(S) <= y
  <1> DEFINE R == OpToRel(<, Nat)
  <1>1. IsWellFoundedOn(R, Nat) BY NatLessThanWellFounded
  <1>2. \A x, y \in Nat : x < y => << x, y >> \in R BY DEF OpToRel
  <1> HIDE DEF R
  <1>3. PICK x \in S : \A y \in S : ~(<< y, x >> \in R) BY <1>1, WFMin
  <1>4. ASSUME NEW y \in S PROVE x <= y
    <2>1. ~(y < x) BY <1>2, <1>3, Zenon
    <2> QED BY <2>1
  <1> QED BY <1>3, <1>4 DEF Min

(* What holds of 0 and, with a number, of the next one, holds of all up to *)
(* n: T are the numbers it holds of.                                       *)
LEMMA UpTo ==
  ASSUME NEW n \in Nat, NEW T, 0 \in T, \A k \in 0 .. (n - 1) : k \in T => k + 1 \in T
  PROVE  0 .. n \subseteq T
  <1> DEFINE S == {k \in 0 .. n : k \notin T}
  <1> SUFFICES S = {} OBVIOUS
  <1> SUFFICES ASSUME S # {} PROVE FALSE OBVIOUS
  <1> DEFINE m == Min(S)
  <1>1. S \in SUBSET Nat OBVIOUS
  <1>2. m \in S /\ \A y \in S : m <= y BY <1>1, LeastOfNaturals
  <1>3. m \in 1 .. n BY <1>2
  <1>4. m - 1 \in 0 .. (n - 1) /\ m - 1 \notin S BY <1>2, <1>3
  <1>5. m - 1 \in T BY <1>4
  <1>6. (m - 1) + 1 \in T BY <1>4, <1>5
  <1> QED BY <1>2, <1>3, <1>6

(* A set of positions has a greatest one, and the others are before it.    *)
LEMMA LastPosition ==
  ASSUME NEW n \in Nat, NEW s \in SUBSET (1 .. n), s # {}
  PROVE  Max(s) \in s /\ s \ {Max(s)} \subseteq 1 .. (Max(s) - 1)
  <1> DEFINE T == {k \in Nat : \A x \in s : x <= k}
             m == Min(T)
  <1>1. n \in T /\ T \in SUBSET Nat OBVIOUS
  <1>2. m \in T /\ \A y \in T : m <= y BY <1>1, LeastOfNaturals
  <1>3. m \in s
    <2> SUFFICES ASSUME m \notin s PROVE FALSE OBVIOUS
    <2> HIDE DEF m
    <2>1. m \in Nat /\ \A x \in s : x \in Nat /\ x >= 1 /\ x < m BY <1>2
    <2>2. m - 1 \in Nat /\ \A x \in s : x <= m - 1
      <3> PICK z \in s : TRUE OBVIOUS
      <3>1. z \in Nat /\ z >= 1 /\ z < m BY <2>1
      <3> QED BY ONLY <2>1, <3>1
    <2>3. m - 1 \in T BY <2>2
    <2> QED BY <1>2, <2>1, <2>3
  <1>4. m \in s /\ \A y \in s : m >= y BY <1>2, <1>3
  <1> HIDE DEF m
  <1>5. Max(s) \in s /\ \A y \in s : Max(s) >= y BY <1>4 DEF Max
  <1>6. \A y \in s : y \in Nat /\ y >= 1 OBVIOUS
  <1> HIDE DEF T
  <1>7. ASSUME NEW y \in s, y # Max(s) PROVE y \in 1 .. (Max(s) - 1)
    <2>1. y \in Nat /\ y >= 1 /\ Max(s) \in Nat /\ Max(s) >= y BY <1>5, <1>6
    <2> QED BY ONLY <1>7, <2>1
  <1> QED BY <1>5, <1>7

\* One step of the fold of candidates.
Listed(g, model, acc, rule) ==
  IF model \in rule.models /\ ~Contains(acc, rule.provider) THEN Append(acc, rule.provider) ELSE acc

\* f computes the fold over the rules in each set of D.
Folds(g, model, f, D) ==
  f = [s \in D |-> IF s = {} THEN << >>
                   ELSE Listed(g, model, f[s \ {Max(s)}], Rules[g][Max(s)])]

(* candidates is a function that does.                                     *)
LEMMA CandidatesFold ==
  ASSUME NEW g, NEW model
  PROVE  candidates(g, model) =
           (CHOOSE f : Folds(g, model, f, SUBSET (DOMAIN Rules[g])))[DOMAIN Rules[g]]
  BY Zenon DEF candidates, FoldLeft, MapThenFoldSet, Folds, Listed

(* A step keeps the list without repetition.                               *)
LEMMA ListedDistinct ==
  ASSUME NEW g, NEW model, NEW acc \in Distinct,
         NEW rule \in [models : SUBSET Models, provider : Providers]
  PROVE  Listed(g, model, acc, rule) \in Distinct
  <1> DEFINE p == rule.provider
  <1>1. p \in Providers OBVIOUS
  <1>2. CASE ~Contains(acc, p)
    <2>1. /\ acc \in Seq(Providers) /\ Append(acc, p) \in Seq(Providers)
          /\ DOMAIN acc = 1 .. Len(acc) /\ DOMAIN Append(acc, p) = 1 .. (Len(acc) + 1)
          /\ Len(acc) \in Nat /\ \A k \in 1 .. Len(acc) : Append(acc, p)[k] = acc[k]
          /\ Append(acc, p)[Len(acc) + 1] = p
      BY <1>1 DEF Distinct
    <2>2. \A k \in 1 .. Len(acc) : acc[k] # p BY <1>2 DEF Contains
    <2>3. \A k, j \in 1 .. Len(acc) : k # j => acc[k] # acc[j] BY <2>1 DEF Distinct
    <2> HIDE DEF p
    <2>4. \A k, j \in 1 .. (Len(acc) + 1) : k # j => Append(acc, p)[k] # Append(acc, p)[j]
      BY <2>1, <2>2, <2>3
    <2>5. Append(acc, p) \in Distinct BY <2>1, <2>4 DEF Distinct
    <2> QED BY <2>5 DEF Listed, p
  <1>3. CASE Contains(acc, p) BY <1>3 DEF Listed
  <1> QED BY <1>2, <1>3

(* Whatever the rules of a configuration, candidates lists each provider   *)
(* once.                                                                   *)
LEMMA CandidatesOnce ==
  ASSUME NEW g \in Gens, NEW model
  PROVE  candidates(g, model) \in Distinct
  <1> DEFINE n == Len(Rules[g])
             Val(f, s) == IF s = {} THEN << >>
                          ELSE Listed(g, model, f[s \ {Max(s)}], Rules[g][Max(s)])
             F(f, k) == Folds(g, model, f, SUBSET (1 .. k))
             T == {k \in 0 .. n : \E f : F(f, k)}
  <1>1. /\ Rules[g] \in Seq([models : SUBSET Models, provider : Providers])
        /\ n \in Nat /\ DOMAIN Rules[g] = 1 .. n
        /\ \A i \in 1 .. n : Rules[g][i] \in [models : SUBSET Models, provider : Providers]
    <2>1. Rules[g] \in Seq([models : SUBSET Models, provider : Providers])
      BY GatewayAssumption
    <2>2. n \in Nat /\ DOMAIN Rules[g] = 1 .. n BY ONLY <2>1
    <2>3. \A i \in 1 .. n : Rules[g][i] \in [models : SUBSET Models, provider : Providers]
      BY ONLY <2>1, ElementOfSeq, Zenon
    <2> QED BY <2>1, <2>2, <2>3
  <1> HIDE DEF n
  <1>2. \E f : F(f, n)
    <2>1. 0 \in T
      <3> DEFINE f == [s \in SUBSET (1 .. 0) |-> << >>]
      <3>1. \A s \in SUBSET (1 .. 0) : s = {} OBVIOUS
      <3>2. f = [s \in SUBSET (1 .. 0) |-> Val(f, s)] BY <3>1
      <3>3. F(f, 0) BY <3>2 DEF Folds
      <3> QED BY <1>1, <3>3
    <2>2. ASSUME NEW k \in 0 .. (n - 1), k \in T PROVE k + 1 \in T
      <3> PICK e : F(e, k) BY <2>2
      <3> DEFINE f == [s \in SUBSET (1 .. (k + 1)) |-> Val(e, s)]
      <3>1. \A t \in SUBSET (1 .. k) : e[t] = Val(e, t) BY DEF Folds
      <3>2. \A t \in SUBSET (1 .. k) : f[t] = e[t]
        <4>1. \A t \in SUBSET (1 .. k) : t \in SUBSET (1 .. (k + 1)) OBVIOUS
        <4> HIDE DEF Val
        <4> QED BY <3>1, <4>1
      <3>3. ASSUME NEW s \in SUBSET (1 .. (k + 1)) PROVE Val(e, s) = Val(f, s)
        <4>1. CASE s = {} BY <4>1
        <4>2. CASE s # {}
          <5>1. k + 1 \in Nat BY <1>1
          <5>2. Max(s) \in s /\ s \ {Max(s)} \subseteq 1 .. (Max(s) - 1)
            BY <4>2, <5>1, LastPosition
          <5>3. s \ {Max(s)} \in SUBSET (1 .. k)
            <6>1. Max(s) \in 1 .. (k + 1) BY <5>2
            <6> QED BY <1>1, <5>2, <6>1
          <5>4. f[s \ {Max(s)}] = e[s \ {Max(s)}] BY <3>2, <5>3
          <5> HIDE DEF f
          <5> QED BY <4>2, <5>4
        <4> QED BY <4>1, <4>2
      <3>4. f = [s \in SUBSET (1 .. (k + 1)) |-> Val(f, s)]
        <4> HIDE DEF Val
        <4> QED BY <3>3
      <3>5. F(f, k + 1) BY <3>4 DEF Folds
      <3>6. k + 1 \in 0 .. n BY <1>1
      <3> HIDE DEF f
      <3> QED BY <3>5, <3>6
    <2>3. 0 .. n \subseteq T
      <3> HIDE DEF T
      <3> QED BY <1>1, <2>1, <2>2, UpTo
    <2>4. n \in T
      <3> HIDE DEF T
      <3> QED BY <1>1, <2>3
    <2> HIDE DEF F
    <2> QED BY <2>4
  <1> DEFINE c == CHOOSE f : F(f, n)
  <1>3. F(c, n) BY <1>2
  <1>4. candidates(g, model) = c[1 .. n]
    BY <1>1, CandidatesFold
  <1> HIDE DEF c
  <1>5. \A s \in SUBSET (1 .. n) : c[s] = Val(c, s) BY <1>3 DEF Folds
  <1> DEFINE D == {k \in 0 .. n : \A s \in SUBSET (1 .. k) : c[s] \in Distinct}
  <1>6. << >> \in Distinct BY DEF Distinct
  <1>7. 0 \in D
    <2>1. \A s \in SUBSET (1 .. 0) : s = {} OBVIOUS
    <2>2. {} \in SUBSET (1 .. n) OBVIOUS
    <2>3. c[{}] = << >> BY <1>5, <2>2
    <2>4. \A s \in SUBSET (1 .. 0) : c[s] \in Distinct BY <1>6, <2>1, <2>3
    <2> QED BY <1>1, <2>4
  <1>8. ASSUME NEW k \in 0 .. (n - 1), k \in D PROVE k + 1 \in D
    <2>1. k + 1 \in 0 .. n /\ k + 1 \in Nat BY <1>1
    <2> SUFFICES ASSUME NEW s \in SUBSET (1 .. (k + 1)) PROVE c[s] \in Distinct BY <2>1
    <2>2. s \in SUBSET (1 .. n) BY <1>1
    <2>3. CASE s = {} BY <1>5, <1>6, <2>2, <2>3
    <2>4. CASE s # {}
      <3>1. Max(s) \in s /\ s \ {Max(s)} \subseteq 1 .. (Max(s) - 1)
        BY <2>1, <2>4, LastPosition
      <3>2. s \ {Max(s)} \in SUBSET (1 .. k) /\ Max(s) \in 1 .. n BY <1>1, <2>2, <3>1
      <3>3. c[s \ {Max(s)}] \in Distinct BY <1>8, <3>2
      <3>4. Listed(g, model, c[s \ {Max(s)}], Rules[g][Max(s)]) \in Distinct
        BY <1>1, <3>2, <3>3, ListedDistinct
      <3> QED BY <1>5, <2>2, <2>4, <3>4
    <2> QED BY <2>3, <2>4
  <1>9. 0 .. n \subseteq D
    <2> HIDE DEF D
    <2> QED BY <1>1, <1>7, <1>8, UpTo
  <1>10. n \in D /\ 1 .. n \in SUBSET (1 .. n) BY <1>1, <1>9
  <1> QED BY <1>4, <1>10

\* The sum TokensCredited is about, and a function that computes it for each
\* set of D.
Total(v, S) == FoldSet(LAMBDA r, acc : acc + v[r], 0, S)
Pick(s) == CHOOSE x \in s : TRUE
Sums(v, f, D) == f = [s \in D |-> IF s = {} THEN 0 ELSE f[s \ {Pick(s)}] + v[Pick(s)]]

(* Total is computed by one.                                               *)
LEMMA TotalFold ==
  ASSUME NEW v, NEW S
  PROVE  Total(v, S) = (CHOOSE f : Sums(v, f, SUBSET S))[S]
  BY Zenon DEF Total, FoldSet, MapThenFoldSet, Sums, Pick

(* Taking the picked element out of a finite set.                          *)
LEMMA PickOut ==
  ASSUME NEW S, IsFiniteSet(S), NEW s \in SUBSET S, s # {}
  PROVE  /\ Pick(s) \in s /\ s \ {Pick(s)} \in SUBSET S
         /\ Cardinality(s) \in Nat \ {0}
         /\ \A x \in s : Cardinality(s \ {x}) = Cardinality(s) - 1
  <1>1. IsFiniteSet(s) BY FS_Subset
  <1>2. Cardinality(s) \in Nat /\ Cardinality(s) # 0 BY <1>1, FS_CardinalityType, FS_EmptySet
  <1>3. \A x \in s : Cardinality(s \ {x}) = Cardinality(s) - 1 BY <1>1, FS_RemoveElement
  <1> QED BY <1>2, <1>3 DEF Pick

(* It exists.                                                              *)
LEMMA SumsExist ==
  ASSUME NEW v, NEW S, IsFiniteSet(S)
  PROVE  \E f : Sums(v, f, SUBSET S)
  <1> DEFINE n == Cardinality(S)
             D(k) == {s \in SUBSET S : Cardinality(s) <= k}
             Val(f, s) == IF s = {} THEN 0 ELSE f[s \ {Pick(s)}] + v[Pick(s)]
             T == {k \in 0 .. n : \E f : Sums(v, f, D(k))}
  <1>1. n \in Nat BY FS_CardinalityType
  <1>2. \A s \in SUBSET S : Cardinality(s) \in 0 .. n BY <1>1, FS_Subset, FS_CardinalityType
  <1>3. 0 \in T
    <2> DEFINE f == [s \in D(0) |-> 0]
    <2>1. \A s \in D(0) : s = {} BY <1>2, PickOut
    <2>2. f = [s \in D(0) |-> Val(f, s)] BY <2>1
    <2>3. Sums(v, f, D(0)) BY <2>2 DEF Sums
    <2> HIDE DEF f, D
    <2> QED BY <1>1, <2>3
  <1>4. ASSUME NEW k \in 0 .. (n - 1), k \in T PROVE k + 1 \in T
    <2> PICK e : Sums(v, e, D(k)) BY <1>4
    <2> DEFINE f == [s \in D(k + 1) |-> Val(e, s)]
    <2>1. \A t \in D(k) : e[t] = Val(e, t)
      <3> HIDE DEF D
      <3> QED BY DEF Sums
    <2>2. \A t \in D(k) : t \in D(k + 1) BY <1>1, <1>2
    <2>3. \A t \in D(k) : f[t] = e[t]
      <3> HIDE DEF Val, D
      <3> QED BY <2>1, <2>2
    <2>4. ASSUME NEW s \in D(k + 1) PROVE Val(e, s) = Val(f, s)
      <3>1. CASE s = {} BY <3>1
      <3>2. CASE s # {}
        <4>1. s \in SUBSET S /\ Cardinality(s) <= k + 1 OBVIOUS
        <4>2. /\ s \ {Pick(s)} \in SUBSET S /\ Cardinality(s \ {Pick(s)}) = Cardinality(s) - 1
              /\ Cardinality(s) \in Nat
          BY <3>2, <4>1, PickOut
        <4>3. s \ {Pick(s)} \in D(k) BY <1>1, <4>1, <4>2
        <4>4. f[s \ {Pick(s)}] = e[s \ {Pick(s)}] BY <2>3, <4>3
        <4> HIDE DEF f
        <4> QED BY <3>2, <4>4
      <3> QED BY <3>1, <3>2
    <2>5. f = [s \in D(k + 1) |-> Val(f, s)]
      <3> HIDE DEF Val, D
      <3> QED BY <2>4
    <2>6. Sums(v, f, D(k + 1))
      <3> HIDE DEF D
      <3> QED BY <2>5 DEF Sums
    <2>7. k + 1 \in 0 .. n BY <1>1
    <2> HIDE DEF f, D
    <2> QED BY <2>6, <2>7
  <1>5. 0 .. n \subseteq T
    <2> HIDE DEF T, n
    <2> QED BY <1>1, <1>3, <1>4, UpTo
  <1>6. n \in T
    <2> HIDE DEF T
    <2> QED BY <1>1, <1>5
  <1>7. D(n) = SUBSET S BY <1>1, <1>2
  <1> HIDE DEF D
  <1> QED BY <1>6, <1>7

\* f sums v over the sets in R, and h sums w, the same in S, over those in S.
BothSum(v, w, R, S, f, h) ==
  /\ IsFiniteSet(R) /\ S \in SUBSET R
  /\ Sums(v, f, SUBSET R) /\ Sums(w, h, SUBSET S) /\ \A x \in S : v[x] = w[x]

(* The sum is determined by the values in the set.                         *)
LEMMA SumsAgree ==
  ASSUME NEW v, NEW w, NEW R, NEW S, NEW f, NEW h, BothSum(v, w, R, S, f, h)
  PROVE  f[S] = h[S]
  <1> USE DEF BothSum
  <1> DEFINE n == Cardinality(S)
             T == {k \in 0 .. n : \A s \in SUBSET S : Cardinality(s) = k => f[s] = h[s]}
  <1>0. IsFiniteSet(S) BY FS_Subset
  <1>1. n \in Nat BY <1>0, FS_CardinalityType
  <1>2. /\ \A s \in SUBSET S : f[s] = IF s = {} THEN 0 ELSE f[s \ {Pick(s)}] + v[Pick(s)]
        /\ \A s \in SUBSET S : h[s] = IF s = {} THEN 0 ELSE h[s \ {Pick(s)}] + w[Pick(s)]
    <2>1. \A s \in SUBSET S : s \in SUBSET R OBVIOUS
    <2> QED BY <2>1 DEF Sums
  <1>3. 0 \in T
    <2>1. ASSUME NEW s \in SUBSET S, Cardinality(s) = 0 PROVE f[s] = h[s]
      <3>1. s = {} BY <1>0, <2>1, PickOut
      <3> QED BY <1>2, <3>1
    <2> QED BY <1>1, <2>1
  <1>4. ASSUME NEW k \in 0 .. (n - 1), k \in T PROVE k + 1 \in T
    <2>1. k + 1 \in 0 .. n BY <1>1
    <2>2. ASSUME NEW s \in SUBSET S, Cardinality(s) = k + 1 PROVE f[s] = h[s]
      <3>0. k + 1 # 0 /\ Cardinality({}) = 0 BY <1>1, FS_EmptySet
      <3>1. s # {} BY <2>2, <3>0
      <3>2. /\ Pick(s) \in s /\ s \ {Pick(s)} \in SUBSET S
            /\ Cardinality(s \ {Pick(s)}) = Cardinality(s) - 1
        BY <1>0, <3>1, PickOut
      <3>3. Cardinality(s \ {Pick(s)}) = k BY <1>1, <2>2, <3>2
      <3>4. f[s \ {Pick(s)}] = h[s \ {Pick(s)}] BY <1>4, <3>2, <3>3
      <3> QED BY <1>2, <3>1, <3>2, <3>4
    <2> HIDE DEF n
    <2> QED BY <2>1, <2>2
  <1>5. 0 .. n \subseteq T
    <2> HIDE DEF T, n
    <2> QED BY <1>1, <1>3, <1>4, UpTo
  <1>6. n \in T
    <2> HIDE DEF T
    <2> QED BY <1>1, <1>5
  <1> QED BY <1>6

(* It does not depend on the order in which elements are picked.           *)
LEMMA SumsAnyOrder ==
  ASSUME NEW R, IsFiniteSet(R), NEW v \in [R -> Nat], NEW f, Sums(v, f, SUBSET R)
  PROVE  \A s \in SUBSET R : f[s] \in Nat /\ \A x \in s : f[s] = f[s \ {x}] + v[x]
  <1> DEFINE n == Cardinality(R)
             Fine(s) == f[s] \in Nat /\ \A x \in s : f[s] = f[s \ {x}] + v[x]
             T == {k \in 0 .. n : \A s \in SUBSET R : Cardinality(s) <= k => Fine(s)}
  <1>1. n \in Nat BY FS_CardinalityType
  <1>2. \A s \in SUBSET R : f[s] = IF s = {} THEN 0 ELSE f[s \ {Pick(s)}] + v[Pick(s)]
    BY DEF Sums
  <1>3. 0 \in T
    <2>1. ASSUME NEW s \in SUBSET R, Cardinality(s) <= 0 PROVE Fine(s)
      <3>1. s = {}
        <4> SUFFICES ASSUME s # {} PROVE FALSE OBVIOUS
        <4>1. Cardinality(s) \in Nat \ {0} BY PickOut
        <4> QED BY <2>1, <4>1
      <3> QED BY <1>2, <3>1
    <2> HIDE DEF Fine
    <2> QED BY <1>1, <2>1
  <1>4. ASSUME NEW k \in 0 .. (n - 1), k \in T PROVE k + 1 \in T
    <2>1. k + 1 \in 0 .. n BY <1>1
    <2>2. ASSUME NEW s \in SUBSET R, Cardinality(s) = k + 1 PROVE Fine(s)
      <3>0. k + 1 # 0 /\ Cardinality({}) = 0 BY <1>1, FS_EmptySet
      <3>1. s # {} BY <2>2, <3>0
      <3> DEFINE c == Pick(s)
      <3>2. /\ c \in s /\ \A x \in s : s \ {x} \in SUBSET R /\ Cardinality(s \ {x}) = k
        BY <1>1, <2>2, <3>1, PickOut
      <3>3. \A x \in s : Fine(s \ {x})
        <4>1. k <= k BY <1>1
        <4> HIDE DEF Fine
        <4> QED BY <1>4, <3>2, <4>1
      <3>4. f[s] = f[s \ {c}] + v[c] BY <1>2, <3>1
      <3> HIDE DEF c
      <3>5. f[s] \in Nat
        <4>1. f[s \ {c}] \in Nat /\ v[c] \in Nat BY <3>2, <3>3
        <4> QED BY <3>4, <4>1
      <3>6. ASSUME NEW x \in s PROVE f[s] = f[s \ {x}] + v[x]
        <4>1. CASE x = c BY <3>4, <4>1
        <4>2. CASE x # c
          <5>1. x \in s \ {c} /\ c \in s \ {x} BY <3>2, <4>2
          <5>2. (s \ {c}) \ {x} = (s \ {x}) \ {c} OBVIOUS
          <5>3. PICK b : b = f[(s \ {c}) \ {x}] OBVIOUS
          <5>4. f[s \ {c}] = b + v[x] /\ f[s \ {x}] = b + v[c]
            BY <3>2, <3>3, <5>1, <5>2, <5>3
          <5>5. v[x] \in Nat /\ v[c] \in Nat /\ f[s \ {c}] \in Nat /\ f[s \ {x}] \in Nat
            BY <3>2, <3>3
          <5>6. b \in Nat
            <6> DEFINE t == (s \ {c}) \ {x}
            <6>1. t \in SUBSET R /\ Cardinality(t) <= k
              <7>1. s \ {c} \in SUBSET R /\ s \ {c} # {} /\ Cardinality(s \ {c}) = k
                BY <3>2, <5>1
              <7>2. Cardinality(t) = Cardinality(s \ {c}) - 1 BY <5>1, <7>1, PickOut
              <7> QED BY <1>1, <7>1, <7>2
            <6>2. Fine(t)
              <7> HIDE DEF Fine, t
              <7> QED BY <1>4, <6>1
            <6> QED BY <5>3, <6>2
          <5> QED BY <3>4, <5>4, <5>5, <5>6
        <4> QED BY <4>1, <4>2
      <3> QED BY <3>5, <3>6
    <2>3. ASSUME NEW s \in SUBSET R, Cardinality(s) <= k + 1 PROVE Fine(s)
      <3>1. Cardinality(s) \in Nat BY FS_Subset, FS_CardinalityType
      <3>2. Cardinality(s) = k + 1 \/ Cardinality(s) <= k BY <1>1, <2>3, <3>1
      <3> HIDE DEF Fine
      <3> QED BY <1>4, <2>2, <3>2
    <2> HIDE DEF Fine, n
    <2> QED BY <2>1, <2>3
  <1>5. 0 .. n \subseteq T
    <2> HIDE DEF T, n
    <2> QED BY <1>1, <1>3, <1>4, UpTo
  <1>6. ASSUME NEW s \in SUBSET R PROVE Fine(s)
    <2>1. Cardinality(s) \in 0 .. n BY <1>1, FS_Subset, FS_CardinalityType
    <2>2. Cardinality(s) \in T /\ Cardinality(s) <= Cardinality(s)
      <3> HIDE DEF T
      <3> QED BY <1>5, <2>1
    <2> HIDE DEF Fine
    <2> QED BY <2>2
  <1> QED BY <1>6

(* What a request adds to the sum it is part of.                           *)
LEMMA TotalAdds ==
  ASSUME NEW v \in [Requests -> Nat], NEW S \in SUBSET Requests
  PROVE  Total(v, S) \in Nat /\ \A x \in S : Total(v, S) = Total(v, S \ {x}) + v[x]
  <1>0. IsFiniteSet(Requests) BY GatewayAssumption
  <1>1. PICK f : Sums(v, f, SUBSET Requests) BY <1>0, SumsExist
  <1>2. ASSUME NEW s \in SUBSET Requests PROVE Total(v, s) = f[s]
    <2>1. IsFiniteSet(s) /\ s \in SUBSET Requests BY <1>0, FS_Subset
    <2>2. PICK h : Sums(v, h, SUBSET s) /\ Total(v, s) = h[s] BY <2>1, SumsExist, TotalFold
    <2>3. Total(v, s) = h[s] BY <2>2
    <2>4. BothSum(v, v, Requests, s, f, h) BY <1>0, <1>1, <2>1, <2>2 DEF BothSum
    <2>5. f[s] = h[s] BY ONLY <2>4, SumsAgree
    <2> QED BY <2>3, <2>5
  <1>3. \A s \in SUBSET Requests : f[s] \in Nat /\ \A x \in s : f[s] = f[s \ {x}] + v[x]
    BY <1>0, <1>1, SumsAnyOrder
  <1>4. \A x \in S : S \ {x} \in SUBSET Requests OBVIOUS
  <1> QED BY <1>2, <1>3, <1>4

(* The sum depends on the requests in it only.                             *)
LEMMA TotalSame ==
  ASSUME NEW v, NEW w, NEW S \in SUBSET Requests, \A x \in S : v[x] = w[x]
  PROVE  Total(v, S) = Total(w, S)
  <1>0. IsFiniteSet(S) BY GatewayAssumption, FS_Subset
  <1> DEFINE f == CHOOSE f : Sums(v, f, SUBSET S)
             h == CHOOSE h : Sums(w, h, SUBSET S)
  <1>1. Sums(v, f, SUBSET S) /\ Sums(w, h, SUBSET S) BY <1>0, SumsExist
  <1>2. Total(v, S) = f[S] /\ Total(w, S) = h[S] BY TotalFold
  <1> HIDE DEF f, h
  <1>3. BothSum(v, w, S, S, f, h) BY <1>0, <1>1 DEF BothSum
  <1> QED BY <1>2, <1>3, SumsAgree

(* The sum over no request.                                                *)
LEMMA TotalEmpty ==
  ASSUME NEW v
  PROVE  Total(v, {}) = 0
  <1>1. IsFiniteSet({}) BY FS_EmptySet
  <1>2. PICK h : Sums(v, h, SUBSET {}) /\ Total(v, {}) = h[{}] BY <1>1, SumsExist, TotalFold
  <1>3. {} \in SUBSET {} OBVIOUS
  <1> QED BY <1>2, <1>3 DEF Sums

-----------------------------------------------------------------------------
(* Contexts.                                                               *)

(* The constants.                                                          *)
LEMMA Constants ==
  /\ IsFiniteSet(Requests) /\ MaxTokens \in Nat /\ MaxReloads \in Nat
  /\ None \notin Counts /\ None \notin Providers /\ None \notin Errors /\ None # Partial
  /\ Partial \notin Counts /\ 0 \in Counts /\ Counts \subseteq Nat
  /\ 0 \in Gens /\ Gens \subseteq Nat
  BY GatewayAssumption DEF Counts, Gens

(* The errors have statuses of errors.                                     *)
LEMMA ErrorStatus ==
  /\ \A kind \in {"BadRequest", "Unauthorized", "PayloadTooLarge", "NoRouteForModel", "Internal"} :
       GatewayErr(kind) \in Errors
  /\ ProviderErrors \subseteq Errors
  /\ \A e \in Errors : http_status(e) >= 400
  /\ \A e \in ProviderErrors : e.status \in Nat /\ e.status <= 599
  <1>0. \A st \in Statuses : st \in Nat /\ st >= 400 /\ st <= 599
    <2>1. Statuses \subseteq 400 .. 599 BY GatewayAssumption
    <2> QED BY ONLY <2>1
  <1>1. \A e \in ProviderErrors : (e.kind = "Status" /\ e.status \in Statuses)
                                  \/ (e.kind \in ErrorKinds /\ e.status = 0)
    BY DEF ProviderErrors
  <1>2. ASSUME NEW e \in Errors PROVE http_status(e) >= 400
    <2>1. CASE e.kind = "Status"
      <3>1. e \in ProviderErrors BY <2>1 DEF Errors
      <3>2. e.status \in Statuses BY <1>1, <2>1, <3>1, GatewayAssumption
      <3>3. e.status >= 400 BY <1>0, <3>2
      <3> QED BY <2>1, <3>3 DEF http_status
    <2>2. CASE e.kind # "Status" BY <2>2 DEF http_status
    <2> QED BY <2>1, <2>2
  <1>3. \A e \in ProviderErrors : e.status \in Nat /\ e.status <= 599
    <2> SUFFICES ASSUME NEW e \in ProviderErrors PROVE e.status \in Nat /\ e.status <= 599
      OBVIOUS
    <2>1. e.status \in Statuses \/ e.status = 0 BY <1>1
    <2>2. PICK st : st = e.status OBVIOUS
    <2>3. st \in Statuses \/ st = 0 BY <2>1, <2>2
    <2>4. st \in Nat /\ st <= 599 BY ONLY <1>0, <2>3
    <2> QED BY <2>2, <2>4
  <1> QED BY <1>2, <1>3 DEF Errors, GatewayErr

(* The stage that is next.                                                 *)
LEMMA StageFacts ==
  ASSUME NEW c \in Contexts
  PROVE  /\ Left(c) # {} => /\ Min(Left(c)) \in 1 .. Len(c.todo)
                            /\ Stage(c) = c.todo[Min(Left(c))] /\ Stage(c) # "log"
         /\ Left(c) = {} <=> Stage(c) = "log"
         /\ c.todo \in Seq(StageIds) /\ Stage(c) \in StageIds
  <1>1. c.todo \in Seq(StageIds) BY DEF Contexts
  <1>2. Left(c) \in SUBSET Nat /\ Left(c) \subseteq 1 .. Len(c.todo) BY <1>1 DEF Left
  <1>3. Left(c) # {} => Min(Left(c)) \in Left(c) BY <1>2, LeastOfNaturals
  <1>4. \A i \in Left(c) : c.todo[i] # "log" /\ c.todo[i] \in StageIds
    BY <1>1 DEF Left, is_terminal
  <1> QED BY <1>1, <1>2, <1>3, <1>4 DEF Stage, StageIds

(* A stage lets the request pass.                                          *)
LEMMA ContinueFacts ==
  ASSUME NEW c \in Contexts, Stage(c) # "log", ForwardLast(c)
  PROVE  LET d == Continue(c) IN
         /\ d \in Contexts /\ d.pc = "stages" /\ ForwardLast(d)
         /\ Stage(c) = "forward" => Stage(d) = "log"
         /\ \E todo \in Seq(StageIds) : d = [c EXCEPT !.pc = "stages", !.todo = todo]
         /\ d.body = c.body /\ d.gen = c.gen /\ d.cands = c.cands /\ d.tried = c.tried
         /\ d.at = c.at /\ d.last_err = c.last_err /\ d.provider = c.provider
         /\ d.error = c.error /\ d.response = c.response /\ d.usage = c.usage
         /\ d.credited = c.credited /\ d.frames = c.frames
  <1> DEFINE m == Min(Left(c))
             n == Len(c.todo)
             t == SubSeq(c.todo, m + 1, n)
             d == [c EXCEPT !.pc = "stages", !.todo = t]
  <1>1. m \in 1 .. n /\ Stage(c) = c.todo[m] /\ c.todo \in Seq(StageIds) BY StageFacts
  <1>2. Continue(c) = d BY <1>1 DEF Continue, Contexts
  <1> HIDE DEF m
  <1>3. /\ t \in Seq(StageIds) /\ Len(t) = n - m /\ DOMAIN t = 1 .. (n - m) /\ n \in Nat
        /\ \A i \in 1 .. (n - m) : t[i] = c.todo[m + i] /\ m + i \in 1 .. n
    <2>1. n \in Nat /\ m \in Nat BY <1>1
    <2>2. m + 1 \in 1 .. (n + 1) BY <1>1, <2>1
    <2>3. t \in Seq(StageIds) /\ Len(t) = n - m
      BY <1>1, <2>1, <2>2, SubSeqProperties
    <2>4. \A i \in 1 .. (n - m) : t[i] = c.todo[m + i] /\ m + i \in 1 .. n
      BY <1>1, <2>1, <2>2, SubSeqProperties
    <2> QED BY <2>1, <2>3, <2>4
  <1> HIDE DEF t
  <1>4. /\ d \in Contexts /\ d.pc = "stages" /\ d.todo = t
        /\ d.body = c.body /\ d.gen = c.gen /\ d.cands = c.cands /\ d.tried = c.tried
        /\ d.at = c.at /\ d.last_err = c.last_err /\ d.provider = c.provider
        /\ d.error = c.error /\ d.response = c.response /\ d.usage = c.usage
        /\ d.credited = c.credited /\ d.frames = c.frames
    <2>1. d \in Contexts BY ONLY c \in Contexts, <1>3 DEF Contexts
    <2> QED BY ONLY c \in Contexts, <2>1 DEF Contexts
  <1>5. \E todo \in Seq(StageIds) : d = [c EXCEPT !.pc = "stages", !.todo = todo] BY <1>3
  <1> HIDE DEF d
  <1>6. ForwardLast(d)
    <2>1. SUFFICES ASSUME NEW i \in DOMAIN t, NEW j \in DOMAIN t, t[i] = "forward", i < j
                   PROVE  t[j] = "log"
      BY ONLY <1>4, <2>1 DEF ForwardLast
    <2>2. i \in 1 .. (n - m) /\ j \in 1 .. (n - m) /\ DOMAIN c.todo = 1 .. n BY <1>1, <1>3
    <2>3. /\ m + i \in DOMAIN c.todo /\ m + j \in DOMAIN c.todo
          /\ t[i] = c.todo[m + i] /\ t[j] = c.todo[m + j]
      BY ONLY <1>3, <2>2
    <2>4. m + i < m + j BY ONLY <1>1, <1>3, <2>1, <2>2
    <2>5. c.todo[m + j] = "log" BY ONLY ForwardLast(c), <2>1, <2>3, <2>4 DEF ForwardLast
    <2> QED BY ONLY <2>3, <2>5
  <1>7. ASSUME Stage(c) = "forward" PROVE Stage(d) = "log"
    <2>1. ASSUME NEW i \in DOMAIN t PROVE t[i] = "log"
      <3>1. i \in 1 .. (n - m) /\ m \in Nat /\ i \in Nat /\ DOMAIN c.todo = 1 .. n BY <1>1, <1>3
      <3>2. m + i \in DOMAIN c.todo /\ m \in DOMAIN c.todo /\ m < m + i BY <1>1, <1>3, <3>1
      <3>3. c.todo[m + i] = "log" BY <1>1, <1>7, <3>2 DEF ForwardLast
      <3> QED BY <1>3, <3>1, <3>3
    <2>2. Left(d) = {} BY <1>4, <2>1 DEF Left, is_terminal
    <2> QED BY <2>2 DEF Stage
  <1> QED BY <1>2, <1>4, <1>5, <1>6, <1>7

(* A stage fails the request.                                              *)
LEMMA FailingFacts ==
  ASSUME NEW c \in Contexts, NEW e \in Errors
  PROVE  LET d == Failing(c, e) IN
         /\ d \in Contexts /\ d.pc = "stages" /\ ForwardLast(d) /\ Stage(d) = "log"
         /\ d.body = c.body /\ d.gen = c.gen /\ d.cands = c.cands /\ d.tried = c.tried
         /\ d.at = c.at /\ d.last_err = c.last_err /\ d.provider = c.provider
         /\ d.error = e /\ d.response = c.response /\ d.usage = c.usage
         /\ d.credited = c.credited /\ d.frames = c.frames
  <1> DEFINE d == Failing(c, e)
  <1>1. d = [c EXCEPT !.pc = "stages", !.todo = << >>, !.error = e] BY DEF Failing
  <1> HIDE DEF d
  <1>2. /\ d \in Contexts /\ d.pc = "stages" /\ d.todo = << >> /\ d.error = e
    <2>1. << >> \in Seq(StageIds) OBVIOUS
    <2> QED BY ONLY c \in Contexts, e \in Errors, <1>1, <2>1 DEF Contexts
  <1>3. /\ d.body = c.body /\ d.gen = c.gen /\ d.cands = c.cands /\ d.tried = c.tried
        /\ d.at = c.at /\ d.last_err = c.last_err /\ d.provider = c.provider
        /\ d.response = c.response /\ d.usage = c.usage
        /\ d.credited = c.credited /\ d.frames = c.frames
    BY ONLY c \in Contexts, <1>1 DEF Contexts
  <1>4. ForwardLast(d) BY <1>2 DEF ForwardLast
  <1>5. Stage(d) = "log" BY <1>2 DEF Stage, Left
  <1> QED BY <1>2, <1>3, <1>4, <1>5 DEF d

(* Three ways to be a request: not dispatched yet, at forward between two  *)
(* attempts, and past it.                                                  *)
LEMMA UndispatchedReq ==
  ASSUME NEW d, Basic(d, << >>, 0), d.pc = "stages", d.tried = {}, d.at = 0, d.provider = None,
         d.error = None, d.response = "pending", d.credited = 0
  PROVE  Req(d, << >>, 0)
  <1>1. Cardinality({}) = 0 /\ Len(<< >>) = 0 BY FS_EmptySet
  <1>2. Forwarding(d) => FailedOver(d, << >>) BY <1>1 DEF FailedOver
  <1>3. Settled(d, << >>) BY <1>1 DEF Settled
  <1>4. Phase(d, << >>) BY <1>2, <1>3 DEF Phase
  <1>5. Report(d, 0) BY DEF Report
  <1> QED BY <1>4, <1>5 DEF Req

LEMMA ForwardingReq ==
  ASSUME NEW d, NEW k, NEW n, Basic(d, k, n), d.pc \in {"stages", "picked"},
         Stage(d) = "forward", d.pc = "picked" => d.at \in DOMAIN d.cands \ d.tried,
         d.error = None, d.response = "pending", FailedOver(d, k), Report(d, n)
  PROVE  Req(d, k, n)
  BY DEF Req, Phase, Waiting, Forwarding, Past

LEMMA PastReq ==
  ASSUME NEW d, NEW k, NEW n, Basic(d, k, n), Past(d), Settled(d, k), Report(d, n)
  PROVE  Req(d, k, n)
  BY DEF Req, Phase, Waiting, Forwarding, Past

-----------------------------------------------------------------------------
(* Counters.                                                               *)

(* A request joins or leaves a set of requests.                            *)
LEMMA JoinOrLeave ==
  ASSUME NEW A \in SUBSET Requests, NEW B \in SUBSET Requests, NEW r \in Requests,
         \A q \in Requests : q # r => (q \in A <=> q \in B)
  PROVE  /\ Cardinality(A) \in Nat /\ Cardinality(B) \in Nat
         /\ (r \in A <=> r \in B) => Cardinality(A) = Cardinality(B)
         /\ r \notin A /\ r \in B => Cardinality(B) = Cardinality(A) + 1
         /\ r \in A /\ r \notin B => Cardinality(B) = Cardinality(A) - 1
  <1>1. IsFiniteSet(A) /\ IsFiniteSet(B) BY Constants, FS_Subset
  <1>2. Cardinality(A) \in Nat /\ Cardinality(B) \in Nat BY <1>1, FS_CardinalityType
  <1>3. (r \in A <=> r \in B) => A = B OBVIOUS
  <1>4. r \notin A /\ r \in B => B = A \cup {r} OBVIOUS
  <1>5. r \in A /\ r \notin B => B = A \ {r} OBVIOUS
  <1>6. r \notin A => Cardinality(A \cup {r}) = Cardinality(A) + 1 BY <1>1, FS_AddElement
  <1>7. r \in A => Cardinality(A \ {r}) = Cardinality(A) - 1 BY <1>1, FS_RemoveElement
  <1> QED BY <1>2, <1>3, <1>4, <1>5, <1>6, <1>7

\* A step of request r.
Only(r) ==
  /\ ctx' \in [Requests -> Contexts]
  /\ calls' \in [Requests -> Seq(Calls)] /\ reported' \in [Requests -> Nat]
  /\ \A q \in Requests : q # r => /\ ctx'[q] = ctx[q] /\ calls'[q] = calls[q]
                                   /\ reported'[q] = reported[q]
  /\ Req(ctx'[r], calls'[r], reported'[r])

\* Its place in the load of a provider, in the requests counted and in the
\* tokens credited, and what the step does to the counters.
Loading(r) ==
  LET c == ctx[r]
      d == ctx'[r]
  IN  \/ /\ load' = load /\ (Busy(c) <=> Busy(d))
         /\ Busy(c) => d.gen = c.gen /\ d.provider = c.provider
      \/ /\ ~Busy(c) /\ Busy(d) /\ d.provider \in Providers
         /\ load' = [load EXCEPT ![d.gen][d.provider] = @ + 1]
      \/ /\ Busy(c) /\ ~Busy(d) /\ c.provider \in Providers
         /\ load' = [load EXCEPT ![c.gen][c.provider] = @ - 1]

Counting(r) ==
  LET c == ctx[r]
      d == ctx'[r]
  IN  \/ /\ Counted(c) <=> Counted(d)
         /\ Counted(c) => d.gen = c.gen /\ d.provider = c.provider /\ d.error = c.error
         /\ \A g \in Gens, p \in Providers :
              /\ metrics'[g][p].requests = metrics[g][p].requests
              /\ metrics'[g][p].errors = metrics[g][p].errors
      \/ /\ ~Counted(c) /\ Counted(d)
         /\ \A g \in Gens, p \in Providers :
              LET here == g = d.gen /\ p = d.provider IN
              /\ metrics'[g][p].requests = metrics[g][p].requests + (IF here THEN 1 ELSE 0)
              /\ metrics'[g][p].errors =
                   metrics[g][p].errors + (IF here /\ d.error # None THEN 1 ELSE 0)

Crediting(r) ==
  LET c == ctx[r]
      d == ctx'[r]
  IN  \E n \in Nat :
        /\ reported'[r] = reported[r] + n
        /\ reported[r] = 0 \/ (d.gen = c.gen /\ d.provider = c.provider)
        /\ \A g \in Gens, p \in Providers :
             metrics'[g][p].out =
               metrics[g][p].out + (IF g = d.gen /\ p = d.provider THEN n ELSE 0)

(* Whatever a request does, the load of a provider is that of the requests *)
(* in flight.                                                              *)
LEMMA LoadKept ==
  ASSUME Inv, NEW r \in Requests, Only(r), Loading(r)
  PROVE  LoadExact' /\ load' \in [Gens -> [Providers -> Nat]]
  <1> DEFINE c == ctx[r]
             d == ctx'[r]
             A(g, p) == {q \in Requests : ctx[q].gen = g /\ ctx[q].provider = p /\ Busy(ctx[q])}
             B(g, p) == {q \in Requests : ctx'[q].gen = g /\ ctx'[q].provider = p
                                           /\ Busy(ctx'[q])}
  <1>1. \A g, p : InFlight(g, p) = A(g, p) /\ InFlight(g, p)' = B(g, p) BY DEF InFlight, Busy
  <1>2. \A g, p : r \in A(g, p) <=> c.gen = g /\ c.provider = p /\ Busy(c) OBVIOUS
  <1>3. \A g, p : r \in B(g, p) <=> d.gen = g /\ d.provider = p /\ Busy(d) OBVIOUS
  <1>4. \A g, p : \A q \in Requests : q # r => (q \in A(g, p) <=> q \in B(g, p))
    BY DEF Only
  <1>5. \A g, p : A(g, p) \in SUBSET Requests /\ B(g, p) \in SUBSET Requests OBVIOUS
  <1>6. \A g \in Gens, p \in Providers : load[g][p] = Cardinality(A(g, p))
    BY <1>1 DEF Inv, LoadExact
  <1>7. load \in [Gens -> [Providers -> Nat]] /\ c.gen \in Gens /\ d.gen \in Gens
    BY DEF Inv, CounterTypes, Only, Req, Basic, Contexts
  <1> HIDE DEF A, B
  <1>8. ASSUME NEW g \in Gens, NEW p \in Providers
        PROVE  /\ Cardinality(A(g, p)) \in Nat /\ Cardinality(B(g, p)) \in Nat
               /\ (r \in A(g, p) <=> r \in B(g, p)) => Cardinality(A(g, p)) = Cardinality(B(g, p))
               /\ r \notin A(g, p) /\ r \in B(g, p)
                    => Cardinality(B(g, p)) = Cardinality(A(g, p)) + 1
               /\ r \in A(g, p) /\ r \notin B(g, p)
                    => Cardinality(B(g, p)) = Cardinality(A(g, p)) - 1
    BY <1>4, <1>5, JoinOrLeave
  <1>9. ASSUME NEW g \in Gens, NEW p \in Providers
        PROVE  load'[g][p] = Cardinality(B(g, p)) /\ Cardinality(B(g, p)) \in Nat
    <2>1. CASE /\ load' = load /\ (Busy(c) <=> Busy(d))
               /\ Busy(c) => d.gen = c.gen /\ d.provider = c.provider
      BY <1>2, <1>3, <1>6, <1>8, <2>1
    <2>2. CASE /\ ~Busy(c) /\ Busy(d) /\ d.provider \in Providers
               /\ load' = [load EXCEPT ![d.gen][d.provider] = @ + 1]
      <3>1. load'[g][p] = IF g = d.gen /\ p = d.provider THEN load[g][p] + 1 ELSE load[g][p]
        BY <1>7, <2>2
      <3> QED BY <1>2, <1>3, <1>6, <1>8, <2>2, <3>1
    <2>3. CASE /\ Busy(c) /\ ~Busy(d) /\ c.provider \in Providers
               /\ load' = [load EXCEPT ![c.gen][c.provider] = @ - 1]
      <3>1. load'[g][p] = IF g = c.gen /\ p = c.provider THEN load[g][p] - 1 ELSE load[g][p]
        BY <1>7, <2>3
      <3> QED BY <1>2, <1>3, <1>6, <1>8, <2>3, <3>1
    <2> QED BY <2>1, <2>2, <2>3 DEF Loading
  <1>10. LoadExact' BY <1>1, <1>9 DEF LoadExact
  <1>11. load' \in [Gens -> [Providers -> Nat]]
    <2>1. \E e \in [Gens -> [Providers -> Int]] : load' = e
      BY <1>7 DEF Loading
    <2>2. PICK e \in [Gens -> [Providers -> Int]] : load' = e BY <2>1
    <2>3. \A g \in Gens, p \in Providers : e[g][p] \in Nat BY <1>9, <2>2
    <2> QED BY <2>2, <2>3
  <1> QED BY <1>10, <1>11

(* Nor does it miscount the requests answered.                             *)
LEMMA CountsKept ==
  ASSUME Inv, NEW r \in Requests, Only(r), Counting(r)
  PROVE  RequestsAccounted'
  <1> DEFINE c == ctx[r]
             d == ctx'[r]
             A(g, p) == {q \in Requests : ctx[q].gen = g /\ ctx[q].provider = p /\ Counted(ctx[q])}
             B(g, p) == {q \in Requests : ctx'[q].gen = g /\ ctx'[q].provider = p
                                           /\ Counted(ctx'[q])}
             AE(g, p) == {q \in A(g, p) : ctx[q].error # None}
             BE(g, p) == {q \in B(g, p) : ctx'[q].error # None}
  <1>1. ASSUME NEW g \in Gens, NEW p \in Providers
        PROVE  /\ metrics[g][p].requests = Cardinality(A(g, p))
               /\ metrics[g][p].errors = Cardinality(AE(g, p))
    <2> DEFINE ended == {q \in Requests : /\ ctx[q].gen = g /\ ctx[q].provider = p
                                          /\ \/ ctx[q].pc \in {"done", "stream", "failed"}
                                             \/ ctx[q].pc = "gone" /\ ctx[q].response # "pending"}
    <2>1. ended = A(g, p) BY DEF Counted
    <2>2. {q \in ended : ctx[q].error # None} = AE(g, p) BY <2>1
    <2>3. /\ metrics[g][p].requests = Cardinality(ended)
          /\ metrics[g][p].errors = Cardinality({q \in ended : ctx[q].error # None})
      BY DEF Inv, RequestsAccounted
    <2> QED BY ONLY <2>1, <2>2, <2>3
  <1>2. \A g, p : /\ r \in A(g, p) <=> c.gen = g /\ c.provider = p /\ Counted(c)
                  /\ r \in AE(g, p) <=> c.gen = g /\ c.provider = p /\ Counted(c) /\ c.error # None
                  /\ r \in B(g, p) <=> d.gen = g /\ d.provider = p /\ Counted(d)
                  /\ r \in BE(g, p) <=> d.gen = g /\ d.provider = p /\ Counted(d) /\ d.error # None
    OBVIOUS
  <1>3. /\ \A g, p : \A q \in Requests : q # r => (q \in A(g, p) <=> q \in B(g, p))
        /\ \A g, p : \A q \in Requests : q # r => (q \in AE(g, p) <=> q \in BE(g, p))
    BY DEF Only
  <1>4. \A g, p : /\ A(g, p) \in SUBSET Requests /\ B(g, p) \in SUBSET Requests
                  /\ AE(g, p) \in SUBSET Requests /\ BE(g, p) \in SUBSET Requests
    OBVIOUS
  <1>5. \A g \in Gens, p \in Providers :
          /\ metrics'[g][p].requests = Cardinality(B(g, p))
          /\ metrics'[g][p].errors = Cardinality(BE(g, p))
    <2> HIDE DEF A, B, AE, BE, c, d
    <2> SUFFICES ASSUME NEW g \in Gens, NEW p \in Providers
                 PROVE  /\ metrics'[g][p].requests = Cardinality(B(g, p))
                        /\ metrics'[g][p].errors = Cardinality(BE(g, p))
      OBVIOUS
    <2>1. /\ Cardinality(A(g, p)) \in Nat
          /\ (r \in A(g, p) <=> r \in B(g, p)) => Cardinality(A(g, p)) = Cardinality(B(g, p))
          /\ r \notin A(g, p) /\ r \in B(g, p)
               => Cardinality(B(g, p)) = Cardinality(A(g, p)) + 1
      <3>1. \A q \in Requests : q # r => (q \in A(g, p) <=> q \in B(g, p)) BY <1>3
      <3>2. A(g, p) \in SUBSET Requests /\ B(g, p) \in SUBSET Requests BY <1>4
      <3> QED BY <3>1, <3>2, JoinOrLeave
    <2>2. /\ Cardinality(AE(g, p)) \in Nat
          /\ (r \in AE(g, p) <=> r \in BE(g, p)) => Cardinality(AE(g, p)) = Cardinality(BE(g, p))
          /\ r \notin AE(g, p) /\ r \in BE(g, p)
               => Cardinality(BE(g, p)) = Cardinality(AE(g, p)) + 1
      <3>1. \A q \in Requests : q # r => (q \in AE(g, p) <=> q \in BE(g, p)) BY <1>3
      <3>2. AE(g, p) \in SUBSET Requests /\ BE(g, p) \in SUBSET Requests BY <1>4
      <3> QED BY <3>1, <3>2, JoinOrLeave
    <2>3. CASE /\ Counted(c) <=> Counted(d)
               /\ Counted(c) => d.gen = c.gen /\ d.provider = c.provider /\ d.error = c.error
               /\ metrics'[g][p].requests = metrics[g][p].requests
               /\ metrics'[g][p].errors = metrics[g][p].errors
      <3>1. (r \in A(g, p) <=> r \in B(g, p)) /\ (r \in AE(g, p) <=> r \in BE(g, p))
        BY <1>2, <2>3
      <3> QED BY <1>1, <2>1, <2>2, <2>3, <3>1
    <2>4. CASE /\ ~Counted(c) /\ Counted(d)
               /\ metrics'[g][p].requests =
                    metrics[g][p].requests + (IF g = d.gen /\ p = d.provider THEN 1 ELSE 0)
               /\ metrics'[g][p].errors =
                    metrics[g][p].errors
                      + (IF (g = d.gen /\ p = d.provider) /\ d.error # None THEN 1 ELSE 0)
      <3>1. /\ r \notin A(g, p) /\ r \notin AE(g, p)
            /\ r \in B(g, p) <=> g = d.gen /\ p = d.provider
            /\ r \in BE(g, p) <=> (g = d.gen /\ p = d.provider) /\ d.error # None
        BY <1>2, <2>4
      <3>2. metrics'[g][p].requests = Cardinality(A(g, p)) + (IF r \in B(g, p) THEN 1 ELSE 0)
        BY <1>1, <2>4, <3>1
      <3>3. metrics'[g][p].errors = Cardinality(AE(g, p)) + (IF r \in BE(g, p) THEN 1 ELSE 0)
        BY <1>1, <2>4, <3>1
      <3> QED BY ONLY <2>1, <2>2, <3>1, <3>2, <3>3
    <2> QED BY <2>3, <2>4 DEF Counting, c, d
  <1>6. ASSUME NEW g \in Gens, NEW p \in Providers
        PROVE  LET ended == {q \in Requests : /\ ctx'[q].gen = g /\ ctx'[q].provider = p
                                              /\ \/ ctx'[q].pc \in {"done", "stream", "failed"}
                                                 \/ ctx'[q].pc = "gone" /\ ctx'[q].response # "pending"}
               IN  /\ metrics'[g][p].requests = Cardinality(ended)
                   /\ metrics'[g][p].errors = Cardinality({q \in ended : ctx'[q].error # None})
    <2> DEFINE ended == {q \in Requests : /\ ctx'[q].gen = g /\ ctx'[q].provider = p
                                          /\ \/ ctx'[q].pc \in {"done", "stream", "failed"}
                                             \/ ctx'[q].pc = "gone" /\ ctx'[q].response # "pending"}
    <2>1. ended = B(g, p) BY DEF Counted
    <2>2. {q \in ended : ctx'[q].error # None} = BE(g, p) BY <2>1
    <2>3. /\ metrics'[g][p].requests = Cardinality(B(g, p))
          /\ metrics'[g][p].errors = Cardinality(BE(g, p))
      BY <1>5
    <2> QED BY ONLY <2>1, <2>2, <2>3
  <1> QED BY <1>6 DEF RequestsAccounted

\* RequestsAccounted, of any counters and contexts.
Accounted(m, c) ==
  \A g \in Gens, p \in Providers :
    LET ended == {r \in Requests : /\ c[r].gen = g /\ c[r].provider = p
                                   /\ \/ c[r].pc \in {"done", "stream", "failed"}
                                      \/ c[r].pc = "gone" /\ c[r].response # "pending"}
    IN  /\ m[g][p].requests = Cardinality(ended)
        /\ m[g][p].errors = Cardinality({r \in ended : c[r].error # None})

LEMMA CountsAccounted == RequestsAccounted <=> Accounted(metrics, ctx)
  BY Zenon DEF RequestsAccounted, Accounted

\* TokensCredited, by Total.
Credited(m, c, v) ==
  \A g \in Gens, p \in Providers :
    m[g][p].out = Total(v, {q \in Requests : c[q].gen = g /\ c[q].provider = p})

LEMMA TotalsCredited == TokensCredited <=> Credited(metrics, ctx, reported)
  BY Zenon DEF TokensCredited, Credited, Total

(* Nor the tokens.                                                         *)
LEMMA TokensKept ==
  ASSUME Inv, NEW r \in Requests, Only(r), Crediting(r)
  PROVE  TokensCredited'
  <1> DEFINE c == ctx[r]
             d == ctx'[r]
             v == reported
             w == reported'
             A(g, p) == {q \in Requests : ctx[q].gen = g /\ ctx[q].provider = p}
             B(g, p) == {q \in Requests : ctx'[q].gen = g /\ ctx'[q].provider = p}
  <1>1. \A g \in Gens, p \in Providers : metrics[g][p].out = Total(v, A(g, p))
    BY Zenon DEF Inv, TokensCredited, Total
  <1>2. v \in [Requests -> Nat] /\ w \in [Requests -> Nat] /\ v[r] \in Nat
    BY DEF Inv, Only
  <1>3. PICK n \in Nat :
          /\ w[r] = v[r] + n
          /\ v[r] = 0 \/ (d.gen = c.gen /\ d.provider = c.provider)
          /\ \A g \in Gens, p \in Providers :
               metrics'[g][p].out =
                 metrics[g][p].out + (IF g = d.gen /\ p = d.provider THEN n ELSE 0)
    BY DEF Crediting
  <1>4. \A g, p : A(g, p) \ {r} = B(g, p) \ {r} BY DEF Only
  <1>5. \A q \in Requests \ {r} : v[q] = w[q] BY DEF Only
  <1>6. \A g, p : /\ r \in A(g, p) <=> c.gen = g /\ c.provider = p
                  /\ r \in B(g, p) <=> d.gen = g /\ d.provider = p
                  /\ A(g, p) \in SUBSET Requests /\ B(g, p) \in SUBSET Requests
    OBVIOUS
  <1> HIDE DEF A, B, v, w, c, d
  <1>7. ASSUME NEW g \in Gens, NEW p \in Providers
        PROVE  metrics'[g][p].out = Total(w, B(g, p))
    <2> DEFINE X == A(g, p)
               Y == B(g, p)
               b == Total(v, X \ {r})
    <2>1. X \in SUBSET Requests /\ Y \in SUBSET Requests /\ X \ {r} = Y \ {r}
          /\ X \ {r} \in SUBSET Requests
      BY <1>4, <1>6
    <2>2. b = Total(w, Y \ {r})
      <3>1. \A q \in X \ {r} : v[q] = w[q] BY <1>5, <2>1
      <3>2. Total(v, X \ {r}) = Total(w, X \ {r}) BY <2>1, <3>1, TotalSame
      <3> QED BY <2>1, <3>2
    <2>3. b \in Nat BY <1>2, <2>1, TotalAdds
    <2>4. Total(v, X) = b + (IF r \in X THEN v[r] ELSE 0)
      <3>1. CASE r \in X BY <1>2, <2>1, <3>1, TotalAdds
      <3>2. CASE r \notin X
        <4>1. X \ {r} = X BY <3>2
        <4> QED BY <2>3, <3>2, <4>1
      <3> QED BY <3>1, <3>2
    <2>5. Total(w, Y) = b + (IF r \in Y THEN w[r] ELSE 0)
      <3>1. CASE r \in Y
        <4>1. Total(w, Y) = Total(w, Y \ {r}) + w[r] BY <1>2, <2>1, <3>1, TotalAdds
        <4> HIDE DEF b
        <4> QED BY <2>2, <3>1, <4>1
      <3>2. CASE r \notin Y
        <4>1. Y \ {r} = Y BY <3>2
        <4>2. Total(w, Y \ {r}) = Total(w, Y) BY ONLY <4>1
        <4> HIDE DEF X, Y, b
        <4> QED BY <2>2, <2>3, <3>2, <4>2
      <3> QED BY <3>1, <3>2
    <2>6. /\ r \in X <=> c.gen = g /\ c.provider = p
          /\ r \in Y <=> d.gen = g /\ d.provider = p
          /\ metrics[g][p].out = Total(v, X)
          /\ metrics'[g][p].out =
               metrics[g][p].out + (IF g = d.gen /\ p = d.provider THEN n ELSE 0)
      BY <1>1, <1>3, <1>6
    <2>7. v[r] \in Nat /\ w[r] = v[r] + n
          /\ (v[r] = 0 \/ (d.gen = c.gen /\ d.provider = c.provider))
      BY <1>2, <1>3
    <2> HIDE DEF X, Y, b
    <2>8. metrics'[g][p].out = Total(w, Y)
      <3>1. CASE r \in Y
        <4>1. metrics'[g][p].out = (b + (IF r \in X THEN v[r] ELSE 0)) + n BY <2>4, <2>6, <3>1
        <4>2. (IF r \in X THEN v[r] ELSE 0) = v[r] BY <2>6, <2>7, <3>1
        <4>3. Total(w, Y) = b + w[r] BY <2>5, <3>1
        <4> QED BY <2>3, <2>7, <4>1, <4>2, <4>3
      <3>2. CASE r \notin Y
        <4>1. metrics'[g][p].out = (b + (IF r \in X THEN v[r] ELSE 0)) + 0 BY <2>4, <2>6, <3>2
        <4>2. (IF r \in X THEN v[r] ELSE 0) = 0 BY <2>6, <2>7, <3>2
        <4>3. Total(w, Y) = b + 0 BY <2>5, <3>2
        <4> QED BY <2>3, <4>1, <4>2, <4>3
      <3> QED BY <3>1, <3>2
    <2> QED BY <2>8 DEF Y
  <1>8. \A g \in Gens, p \in Providers :
          metrics'[g][p].out =
            Total(reported', {q \in Requests : ctx'[q].gen = g /\ ctx'[q].provider = p})
    BY <1>7 DEF B, w
  <1>9. TokensCredited' <=> Credited(metrics, ctx, reported)' BY TotalsCredited, PTL
  <1> QED BY <1>8, <1>9 DEF Credited

(* A step of a request keeps the invariant.                                *)
LEMMA RequestStep ==
  ASSUME Inv, NEW r \in Requests, UNCHANGED reload_vars, Only(r),
         Loading(r), Counting(r), Crediting(r), DOMAIN activity' = Gens,
         metrics' \in [Gens -> [Providers -> [out : Nat, requests : Nat, errors : Nat]]]
  PROVE  Inv'
  <1>1. LoadExact' /\ load' \in [Gens -> [Providers -> Nat]] BY LoadKept
  <1>2. RequestsAccounted' BY CountsKept
  <1>3. TokensCredited' BY TokensKept
  <1>4. SlotsInv' BY DEF Inv, SlotsInv, reload_vars
  <1>5. CounterTypes' BY <1>1 DEF CounterTypes
  <1>6. \A q \in Requests : Req(ctx'[q], calls'[q], reported'[q]) BY DEF Inv, Only
  <1> QED BY <1>1, <1>2, <1>3, <1>4, <1>5, <1>6 DEF Inv, Only

(* One that touches no counter, of a request that is served no differently *)
(* after it.                                                               *)
LEMMA QuietStep ==
  ASSUME Inv, NEW r \in Requests, NEW d, ctx' = [ctx EXCEPT ![r] = d],
         UNCHANGED << reload_vars, shared, calls, reported >>,
         Req(d, calls[r], reported[r]), Busy(ctx[r]) <=> Busy(d), Counted(ctx[r]) <=> Counted(d),
         Busy(ctx[r]) \/ Counted(ctx[r]) \/ reported[r] # 0
           => d.gen = ctx[r].gen /\ d.provider = ctx[r].provider /\ d.error = ctx[r].error
  PROVE  Inv'
  <1>1. /\ load' = load /\ metrics' = metrics /\ activity' = activity
        /\ calls' = calls /\ reported' = reported
    BY DEF shared
  <1>2. ctx'[r] = d /\ ctx' \in [Requests -> Contexts] /\ \A q \in Requests : q # r => ctx'[q] = ctx[q]
    BY DEF Inv, Req, Basic
  <1>3. Only(r) BY <1>1, <1>2 DEF Only, Inv
  <1>4. Loading(r) BY <1>1, <1>2 DEF Loading
  <1>5. Counting(r) BY <1>1, <1>2 DEF Counting
  <1>6. metrics \in [Gens -> [Providers -> [out : Nat, requests : Nat, errors : Nat]]]
        /\ DOMAIN activity = Gens /\ reported[r] \in Nat
    BY DEF Inv, CounterTypes, Req, Basic
  <1>7. Crediting(r)
    <2>1. \A g \in Gens, p \in Providers : metrics[g][p].out \in Nat BY <1>6
    <2>2. \A m \in Nat : m = m + 0 OBVIOUS
    <2>3. reported'[r] = reported[r] + 0 BY <1>1, <1>6, <2>2
    <2>4. \A g \in Gens, p \in Providers :
            metrics'[g][p].out
              = metrics[g][p].out + (IF g = d.gen /\ p = d.provider THEN 0 ELSE 0)
      BY <1>1, <2>1, <2>2
    <2>5. reported[r] = 0 \/ (d.gen = ctx[r].gen /\ d.provider = ctx[r].provider) OBVIOUS
    <2> HIDE DEF Busy, Counted
    <2> QED BY <1>2, <2>3, <2>4, <2>5 DEF Crediting
  <1>8. UNCHANGED reload_vars OBVIOUS
  <1> QED BY <1>1, <1>3, <1>4, <1>5, <1>6, <1>7, <1>8, RequestStep

(* One of a request that is not served: no call of it is pending.          *)
LEMMA UnservedStep ==
  ASSUME Inv, NEW r \in Requests, NEW d, ctx' = [ctx EXCEPT ![r] = d],
         UNCHANGED << reload_vars, shared, history >>,
         ctx[r].pc \in {"idle", "stages", "picked"}, ctx[r].response = "pending",
         ctx[r].error = None, d.pc \in {"stages", "picked"} \/ (d.pc = "done" /\ d.provider = None),
         d.response = "pending", Req(d, calls[r], reported[r])
  PROVE  Inv'
  <1>1. ~Busy(ctx[r]) /\ ~Busy(d) BY DEF Busy
  <1>2. ~Counted(ctx[r]) /\ ~Counted(d) BY Constants DEF Counted
  <1>3. reported[r] = 0 BY DEF Inv, Req, Report
  <1> QED BY <1>1, <1>2, <1>3, QuietStep DEF history

(* What Inv says of a request, and of one that has not been dispatched.    *)
LEMMA ReqFacts ==
  ASSUME Inv, NEW r \in Requests
  PROVE  /\ Req(ctx[r], calls[r], reported[r]) /\ ctx[r] \in Contexts
         /\ NextStage(r) = Stage(ctx[r]) /\ ForwardLast(ctx[r])
  BY DEF Inv, Req, Basic, NextStage, Stage

LEMMA WaitingFacts ==
  ASSUME Inv, NEW r \in Requests, Waiting(ctx[r])
  PROVE  /\ calls[r] = << >> /\ reported[r] = 0
         /\ ctx[r].tried = {} /\ ctx[r].at = 0 /\ ctx[r].provider = None /\ ctx[r].error = None
         /\ ctx[r].response = "pending" /\ ctx[r].credited = 0
  BY ReqFacts DEF Req, Phase, Report

(* A new request.                                                          *)
Received(pc, b, g, todo, e) ==
  [pc |-> pc, body |-> b, gen |-> g, todo |-> todo, cands |-> << >>,
   tried |-> {}, at |-> 0, last_err |-> None, provider |-> None, error |-> e,
   response |-> "pending", usage |-> None, credited |-> 0, frames |-> << >>]

LEMMA ReceivedFresh ==
  ASSUME NEW b, NEW g, NEW todo
  PROVE  [Fresh EXCEPT !.pc = "stages", !.body = b, !.gen = g, !.todo = todo]
           = Received("stages", b, g, todo, None)
  <1>1. PICK d : d = [Fresh EXCEPT !.pc = "stages", !.body = b, !.gen = g, !.todo = todo] OBVIOUS
  <1>2. d = [pc |-> "stages", body |-> b, gen |-> g, todo |-> todo, cands |-> << >>,
             tried |-> {}, at |-> 0, last_err |-> None, provider |-> None, error |-> None,
             response |-> "pending", usage |-> None, credited |-> 0, frames |-> << >>]
    BY ONLY <1>1 DEF Fresh
  <1> QED BY ONLY <1>1, <1>2, Zenon DEF Received

LEMMA RefusedFresh ==
  ASSUME NEW b, NEW e
  PROVE  [Fresh EXCEPT !.pc = "done", !.body = b, !.error = e] = Received("done", b, 0, << >>, e)
  <1>1. PICK d : d = [Fresh EXCEPT !.pc = "done", !.body = b, !.error = e] OBVIOUS
  <1>2. d = [pc |-> "done", body |-> b, gen |-> 0, todo |-> << >>, cands |-> << >>,
             tried |-> {}, at |-> 0, last_err |-> None, provider |-> None, error |-> e,
             response |-> "pending", usage |-> None, credited |-> 0, frames |-> << >>]
    BY ONLY <1>1 DEF Fresh
  <1> QED BY ONLY <1>1, <1>2, Zenon DEF Received

Receivable(pc, b, g, todo, e) ==
  /\ pc \in {"idle", "stages", "done"} /\ b \in Bodies \cup {None} /\ g \in Gens
  /\ todo \in Seq(StageIds) /\ e \in Errors \cup {None}

LEMMA FreshFacts ==
  ASSUME NEW b, NEW g, NEW todo, NEW pc, NEW e, Receivable(pc, b, g, todo, e),
         NEW d, d = Received(pc, b, g, todo, e)
  PROVE  /\ d \in Contexts /\ d.pc = pc /\ d.gen = g /\ d.todo = todo /\ d.cands = << >>
         /\ d.tried = {} /\ d.at = 0 /\ d.provider = None /\ d.error = e
         /\ d.response = "pending" /\ d.credited = 0
  <1>1. /\ << >> \in Seq(Providers) /\ << >> \in Seq({"event", "error", "[DONE]", ": done"})
        /\ {} \in SUBSET Nat /\ 0 \in Nat /\ None \in ProviderErrors \cup {None}
        /\ None \in Providers \cup {None} /\ None \in Counts \cup {None}
        /\ "pending" \in {"pending", "full", "stream"}
        /\ pc \in {"idle", "stages", "picked", "call", "stream", "failed", "done", "gone"}
        /\ b \in Bodies \cup {None} /\ g \in Gens /\ todo \in Seq(StageIds)
        /\ e \in Errors \cup {None}
    BY DEF Receivable
  <1>2. d = [pc |-> pc, body |-> b, gen |-> g, todo |-> todo, cands |-> << >>,
             tried |-> {}, at |-> 0, last_err |-> None, provider |-> None, error |-> e,
             response |-> "pending", usage |-> None, credited |-> 0, frames |-> << >>]
    BY DEF Received
  <1>3. d \in Contexts
    BY ONLY <1>1, <1>2 DEF Contexts
  <1>4. /\ d.pc = pc /\ d.gen = g /\ d.todo = todo /\ d.cands = << >>
        /\ d.tried = {} /\ d.at = 0 /\ d.provider = None /\ d.error = e
        /\ d.response = "pending" /\ d.credited = 0
    BY ONLY <1>2
  <1> QED BY <1>3, <1>4

LEMMA FreshBasic ==
  ASSUME NEW d \in Contexts, ForwardLast(d), d.cands = << >>, d.tried = {}, d.at = 0
  PROVE  Basic(d, << >>, 0)
  <1>1. << >> \in Distinct /\ << >> \in Seq(Calls) BY DEF Distinct
  <1> QED BY <1>1 DEF Basic

LEMMA HandleStep ==
  ASSUME Inv, NEW r \in Requests, NEW b \in Asks[r], handle(r, b)
  PROVE  Inv'
  <1> DEFINE g == slot[b.route]
             t == Pipelines[g][b.route]
             d == [Fresh EXCEPT !.pc = "stages", !.body = b, !.gen = g, !.todo = t]
  <1>1. b \in Bodies BY GatewayAssumption
  <1>2. g \in Gens /\ b.route \in DOMAIN Pipelines[g] BY DEF Inv, SlotsInv, handle
  <1>3. /\ t \in Seq(StageIds)
        /\ \A i, j \in DOMAIN t : t[i] = "forward" /\ i < j => t[j] = "log"
    BY <1>2, GatewayAssumption
  <1>4. ctx' = [ctx EXCEPT ![r] = d] BY DEF handle
  <1>5. d = Received("stages", b, g, t, None) BY ONLY ReceivedFresh
  <1> HIDE DEF d, t, g
  <1>6. /\ d \in Contexts /\ d.pc = "stages" /\ d.todo = t /\ d.cands = << >>
        /\ d.tried = {} /\ d.at = 0 /\ d.provider = None /\ d.error = None
        /\ d.response = "pending" /\ d.credited = 0
    <2>1. Receivable("stages", b, g, t, None) BY <1>1, <1>2, <1>3 DEF Receivable
    <2> QED BY ONLY <1>5, <2>1, FreshFacts
  <1>7. ForwardLast(d) BY <1>3, <1>6 DEF ForwardLast
  <1>8. Basic(d, << >>, 0) BY <1>6, <1>7, FreshBasic
  <1>9. Req(d, << >>, 0) BY <1>6, <1>8, UndispatchedReq
  <1>10. ctx[r].pc = "idle" /\ UNCHANGED << reload_vars, shared, history >> BY DEF handle
  <1>11. Waiting(ctx[r]) BY <1>10 DEF Waiting
  <1> QED BY <1>4, <1>6, <1>9, <1>10, <1>11, WaitingFacts, UnservedStep

LEMMA HandleNoPipelineStep ==
  ASSUME Inv, NEW r \in Requests, NEW b \in Asks[r], handle_no_pipeline(r, b)
  PROVE  Inv'
  <1> DEFINE e == GatewayErr("Internal")
             d == [Fresh EXCEPT !.pc = "done", !.body = b, !.error = e]
  <1>1. b \in Bodies BY GatewayAssumption
  <1>2. e \in Errors /\ 0 \in Gens /\ << >> \in Seq(StageIds) BY ErrorStatus, Constants
  <1>3. ctx' = [ctx EXCEPT ![r] = d] BY DEF handle_no_pipeline
  <1>4. d = Received("done", b, 0, << >>, e) BY ONLY RefusedFresh
  <1> HIDE DEF d, e
  <1>5. /\ d \in Contexts /\ d.pc = "done" /\ d.todo = << >> /\ d.cands = << >>
        /\ d.tried = {} /\ d.at = 0 /\ d.provider = None /\ d.error = e
        /\ d.response = "pending" /\ d.credited = 0
    <2>1. Receivable("done", b, 0, << >>, e) BY <1>1, <1>2 DEF Receivable
    <2> QED BY ONLY <1>4, <2>1, FreshFacts
  <1>6. ForwardLast(d) BY <1>5 DEF ForwardLast
  <1>7. Basic(d, << >>, 0) BY <1>5, <1>6, FreshBasic
  <1>8. Past(d) /\ Settled(d, << >>) /\ Report(d, 0) BY <1>5 DEF Past, Settled, Report
  <1>9. Req(d, << >>, 0) BY <1>7, <1>8, PastReq
  <1>10. ctx[r].pc = "idle" /\ UNCHANGED << reload_vars, shared, history >>
    BY DEF handle_no_pipeline
  <1>11. Waiting(ctx[r]) BY <1>10 DEF Waiting
  <1> QED BY <1>3, <1>5, <1>9, <1>10, <1>11, WaitingFacts, UnservedStep

(* The stages before forward let the request pass or fail it.              *)
LEMMA PassStep ==
  ASSUME Inv, NEW r \in Requests, ctx[r].pc = "stages", Stage(ctx[r]) \notin {"forward", "log"},
         UNCHANGED << reload_vars, shared, history >>, NEW pool \in Distinct,
         \/ ctx' = [ctx EXCEPT ![r] = Continue(@)]
         \/ ctx' = [ctx EXCEPT ![r] = [Continue(@) EXCEPT !.cands = pool]] /\ pool # << >>
         \/ \E e \in Errors : ctx' = [ctx EXCEPT ![r] = Failing(@, e)]
  PROVE  Inv'
  <1> DEFINE c == ctx[r]
  <1>1. /\ c \in Contexts /\ ForwardLast(c) /\ Basic(c, << >>, 0)
        /\ calls[r] = << >> /\ reported[r] = 0
        /\ c.tried = {} /\ c.at = 0 /\ c.provider = None /\ c.error = None
        /\ c.response = "pending" /\ c.credited = 0
    <2>1. Waiting(c) BY DEF Waiting
    <2> QED BY <2>1, ReqFacts, WaitingFacts DEF Req
  <1>2. CASE ctx' = [ctx EXCEPT ![r] = Continue(@)]
    <2> DEFINE d == Continue(c)
    <2>1. ctx' = [ctx EXCEPT ![r] = d] BY <1>2
    <2>2. /\ d \in Contexts /\ d.pc = "stages" /\ ForwardLast(d) /\ d.cands = c.cands
          /\ d.tried = {} /\ d.at = 0 /\ d.provider = None /\ d.error = None
          /\ d.response = "pending" /\ d.credited = 0
      BY <1>1, ContinueFacts
    <2> HIDE DEF d, c
    <2>3. Basic(d, << >>, 0) BY <1>1, <2>2 DEF Basic
    <2>4. Req(d, << >>, 0) BY <2>2, <2>3, UndispatchedReq
    <2> QED BY <1>1, <2>1, <2>2, <2>4, UnservedStep DEF c
  <1>3. CASE ctx' = [ctx EXCEPT ![r] = [Continue(@) EXCEPT !.cands = pool]] /\ pool # << >>
    <2> DEFINE m == Continue(c)
               d == [m EXCEPT !.cands = pool]
    <2>1. ctx' = [ctx EXCEPT ![r] = d] BY <1>3
    <2>2. /\ m \in Contexts /\ m.pc = "stages" /\ ForwardLast(m)
          /\ m.tried = {} /\ m.at = 0 /\ m.provider = None /\ m.error = None
          /\ m.response = "pending" /\ m.credited = 0
      BY <1>1, ContinueFacts
    <2> HIDE DEF m, c
    <2>3. pool \in Seq(Providers) BY DEF Distinct
    <2>4. /\ d \in Contexts /\ d.pc = "stages" /\ d.todo = m.todo /\ d.cands = pool
          /\ d.tried = {} /\ d.at = 0 /\ d.provider = None /\ d.error = None
          /\ d.response = "pending" /\ d.credited = 0
      BY ONLY <2>2, <2>3 DEF Contexts
    <2> HIDE DEF d
    <2>5. d.at \in 0 .. Len(pool) BY <2>3, <2>4
    <2>6. Basic(d, << >>, 0) BY <1>1, <2>2, <2>4, <2>5 DEF Basic, ForwardLast
    <2>7. Req(d, << >>, 0) BY <2>4, <2>6, UndispatchedReq
    <2> QED BY <1>1, <2>1, <2>4, <2>7, UnservedStep DEF c
  <1>4. ASSUME NEW e \in Errors, ctx' = [ctx EXCEPT ![r] = Failing(@, e)] PROVE Inv'
    <2> DEFINE d == Failing(c, e)
    <2>1. ctx' = [ctx EXCEPT ![r] = d] BY <1>4
    <2>2. /\ d \in Contexts /\ d.pc = "stages" /\ ForwardLast(d) /\ d.cands = c.cands
          /\ d.tried = {} /\ d.at = c.at /\ d.provider = None /\ Stage(d) = "log"
          /\ d.response = "pending" /\ d.credited = 0
      BY <1>1, FailingFacts
    <2> HIDE DEF d, c
    <2>3. Basic(d, << >>, 0) BY <1>1, <2>2 DEF Basic
    <2>4. Past(d) /\ Settled(d, << >>) /\ Report(d, 0) BY <2>2 DEF Past, Settled, Report
    <2>5. Req(d, << >>, 0) BY <2>3, <2>4, PastReq
    <2> QED BY <1>1, <2>1, <2>2, <2>5, UnservedStep DEF c
  <1> QED BY <1>2, <1>3, <1>4

LEMMA DecidesStep ==
  ASSUME Inv, NEW r \in Requests, auth(r) \/ content_policy(r)
  PROVE  Inv'
  <1> DEFINE kinds == {"Unauthorized", "PayloadTooLarge", "BadRequest"}
  <1>1. PICK stage \in {"auth", "content_policy"} :
          /\ At(r, stage) /\ UNCHANGED << reload_vars, shared, history >>
          /\ \/ ctx' = [ctx EXCEPT ![r] = Continue(@)]
             \/ \E kind \in kinds : ctx' = [ctx EXCEPT ![r] = Failing(@, GatewayErr(kind))]
    BY DEF auth, content_policy, Decides
  <1>2. ctx[r].pc = "stages" /\ Stage(ctx[r]) \notin {"forward", "log"}
    BY <1>1, ReqFacts DEF At
  <1>3. \A kind \in kinds : GatewayErr(kind) \in Errors BY ErrorStatus
  <1>4. << >> \in Distinct BY DEF Distinct
  <1>5. \/ ctx' = [ctx EXCEPT ![r] = Continue(@)]
        \/ \E e \in Errors : ctx' = [ctx EXCEPT ![r] = Failing(@, e)]
    BY <1>1, <1>3
  <1> QED BY <1>1, <1>2, <1>4, <1>5, PassStep

LEMMA ModelRouteStep ==
  ASSUME Inv, NEW r \in Requests, model_route(r)
  PROVE  Inv'
  <1> DEFINE pool == candidates(ctx[r].gen, ctx[r].body.model)
             e == GatewayErr("NoRouteForModel")
  <1>1. ctx[r].pc = "stages" /\ Stage(ctx[r]) \notin {"forward", "log"}
    BY ReqFacts DEF model_route, At
  <1>2. UNCHANGED << reload_vars, shared, history >> BY DEF model_route
  <1>3. ctx[r].gen \in Gens BY ReqFacts DEF Contexts
  <1>4. pool \in Distinct BY <1>3, CandidatesOnce
  <1>5. e \in Errors BY ErrorStatus
  <1>6. \/ pool = << >> /\ ctx' = [ctx EXCEPT ![r] = Failing(@, e)]
        \/ ctx' = [ctx EXCEPT ![r] = [Continue(@) EXCEPT !.cands = pool]] /\ pool # << >>
    BY DEF model_route
  <1> HIDE DEF pool, e
  <1> QED BY <1>1, <1>2, <1>4, <1>5, <1>6, PassStep

(* A request at forward, between two attempts.                             *)
LEMMA ForwardFacts ==
  ASSUME Inv, NEW r \in Requests, ctx[r].pc \in {"stages", "picked"},
         Stage(ctx[r]) = "forward"
  PROVE  /\ FailedOver(ctx[r], calls[r]) /\ Basic(ctx[r], calls[r], 0)
         /\ ctx[r].response = "pending" /\ ctx[r].error = None
         /\ reported[r] = 0 /\ ctx[r].credited = 0
  <1>1. Forwarding(ctx[r]) BY DEF Forwarding
  <1>2. /\ FailedOver(ctx[r], calls[r]) /\ ctx[r].response = "pending" /\ ctx[r].error = None
        /\ reported[r] = 0 /\ ctx[r].credited = 0
    BY <1>1, ReqFacts DEF Req, Phase, Report
  <1> QED BY <1>2, ReqFacts DEF Req

(* forward fails the request: it has no candidate, or none is left.        *)
LEMMA ForwardFailsStep ==
  ASSUME Inv, NEW r \in Requests, At(r, "forward"), NEW e \in Errors,
         ctx' = [ctx EXCEPT ![r] = Failing(@, e)], UNCHANGED << reload_vars, shared, history >>,
         calls[r] # << >> => /\ e = calls[r][Len(calls[r])].error
                             /\ Len(calls[r]) = Len(ctx[r].cands)
  PROVE  Inv'
  <1> DEFINE c == ctx[r]
             d == Failing(c, e)
             k == calls[r]
  <1>1. c.pc = "stages" /\ Stage(c) = "forward" /\ c \in Contexts BY ReqFacts DEF At
  <1>2. FailedOver(c, k) /\ Basic(c, k, 0) /\ c.response = "pending" /\ c.error = None
        /\ reported[r] = 0 /\ c.credited = 0
    BY <1>1, ForwardFacts
  <1>3. ctx' = [ctx EXCEPT ![r] = d] OBVIOUS
  <1>4. /\ d \in Contexts /\ d.pc = "stages" /\ ForwardLast(d) /\ Stage(d) = "log"
        /\ d.cands = c.cands /\ d.tried = c.tried /\ d.at = c.at /\ d.error = e
        /\ d.response = "pending" /\ d.credited = 0
    BY <1>1, <1>2, FailingFacts
  <1>5. k \in Seq(Calls) /\ \A i \in DOMAIN k : Retried(k[i].error) BY <1>2 DEF Basic, FailedOver
  <1> HIDE DEF d, c, k
  <1>6. Basic(d, k, 0) BY <1>2, <1>4 DEF Basic
  <1>7. Settled(d, k)
    <2>1. \A i \in 1 .. (Len(k) - 1) : i \in DOMAIN k BY <1>5
    <2> QED BY <1>4, <1>5, <2>1 DEF Settled, k, c
  <1>8. Past(d) /\ Report(d, 0) BY <1>4 DEF Past, Report
  <1>9. Req(d, k, 0) BY <1>6, <1>7, <1>8, PastReq
  <1> QED BY <1>1, <1>2, <1>3, <1>4, <1>9, UnservedStep DEF c, k

LEMMA ForwardNoBindingStep ==
  ASSUME Inv, NEW r \in Requests, forward_no_binding(r)
  PROVE  Inv'
  <1> DEFINE e == GatewayErr("Internal")
  <1>1. /\ At(r, "forward") /\ ctx[r].cands = << >>
        /\ ctx' = [ctx EXCEPT ![r] = Failing(@, e)] /\ UNCHANGED << reload_vars, shared, history >>
    BY DEF forward_no_binding
  <1>2. e \in Errors BY ErrorStatus
  <1>3. FailedOver(ctx[r], calls[r]) /\ Basic(ctx[r], calls[r], 0)
    BY <1>1, ReqFacts, ForwardFacts DEF At
  <1>4. ctx[r].tried = {} BY <1>1, <1>3 DEF Basic
  <1>5. Len(calls[r]) = 0 /\ calls[r] \in Seq(Calls)
    BY <1>3, <1>4, FS_EmptySet DEF FailedOver, Basic
  <1>6. calls[r] = << >> BY <1>5
  <1> HIDE DEF e
  <1> QED BY <1>1, <1>2, <1>6, ForwardFailsStep

LEMMA PoolExhaustedStep ==
  ASSUME Inv, NEW r \in Requests, pool_exhausted(r)
  PROVE  Inv'
  <1> DEFINE c == ctx[r]
             k == calls[r]
  <1>1. /\ At(r, "forward") /\ c.cands # << >> /\ Untried(r) = {}
        /\ ctx' = [ctx EXCEPT ![r] = Failing(@, c.last_err)]
        /\ UNCHANGED << reload_vars, shared, history >>
    BY DEF pool_exhausted
  <1>2. FailedOver(c, k) /\ Basic(c, k, 0)
    BY <1>1, ReqFacts, ForwardFacts DEF At
  <1>3. /\ c.cands \in Seq(Providers) /\ k \in Seq(Calls) /\ Len(c.cands) \in Nat \ {0}
        /\ DOMAIN c.cands = 1 .. Len(c.cands)
    BY <1>1, <1>2 DEF Basic, Distinct
  <1>4. c.tried = 1 .. Len(c.cands) BY <1>1, <1>2, <1>3 DEF Untried, Basic
  <1>5. Len(k) = Len(c.cands)
    <2>1. Cardinality(1 .. Len(c.cands)) = Len(c.cands) BY <1>3, FS_Interval
    <2> QED BY <1>2, <1>4, <2>1 DEF FailedOver
  <1>6. k # << >> /\ Len(k) \in DOMAIN k BY <1>3, <1>5
  <1>7. c.last_err = k[Len(k)].error /\ Retried(k[Len(k)].error) BY <1>2, <1>6 DEF FailedOver
  <1>8. c.last_err \in Errors BY <1>7, ErrorStatus DEF Retried
  <1> QED BY <1>1, <1>5, <1>7, <1>8, ForwardFailsStep

(* There is a least busy candidate among those left.                       *)
LEMMA LeastBusy ==
  ASSUME NEW S \in SUBSET Nat, S # {}, NEW v \in [S -> Nat]
  PROVE  \E i \in S : \A j \in S : v[i] < v[j] \/ (v[i] = v[j] /\ i <= j)
  <1> DEFINE B == {v[i] : i \in S}
             b == Min(B)
             I == {i \in S : v[i] = b}
             m == Min(I)
  <1>0. B \in SUBSET Nat /\ B # {} OBVIOUS
  <1>1. b \in B /\ \A y \in B : b <= y
    <2> HIDE DEF B
    <2> QED BY <1>0, LeastOfNaturals
  <1>2. I \in SUBSET Nat /\ I # {} BY <1>1
  <1>3. m \in I /\ \A y \in I : m <= y
    <2> HIDE DEF I
    <2> QED BY <1>2, LeastOfNaturals
  <1>4. \A j \in S : b <= v[j] /\ (v[j] = b => m <= j) BY <1>1, <1>3
  <1>5. m \in S /\ v[m] = b BY <1>3
  <1> HIDE DEF m, b
  <1>6. \A j \in S : v[m] < v[j] \/ (v[m] = v[j] /\ m <= j)
    BY <1>4, <1>5
  <1> QED BY <1>5, <1>6

LEMMA PickStep ==
  ASSUME Inv, NEW r \in Requests, pick(r)
  PROVE  Inv'
  <1> DEFINE c == ctx[r]
             k == calls[r]
             S == Untried(r)
             busy(i) == load[c.gen][c.cands[i]]
             idx == CHOOSE i \in S : \A j \in S :
                      busy(i) < busy(j) \/ (busy(i) = busy(j) /\ i <= j)
             d == [c EXCEPT !.pc = "picked", !.at = idx]
  <1>1. At(r, "forward") /\ S # {} /\ UNCHANGED << reload_vars, shared, history >>
        /\ ctx' = [ctx EXCEPT ![r].pc = "picked", ![r].at = idx]
    BY DEF pick
  <1>2. c.pc = "stages" /\ Stage(c) = "forward" /\ c \in Contexts BY <1>1, ReqFacts DEF At
  <1>3. FailedOver(c, k) /\ Basic(c, k, 0) /\ c.response = "pending" /\ c.error = None
        /\ reported[r] = 0 /\ c.credited = 0
    BY <1>2, ForwardFacts
  <1>4. c.cands \in Seq(Providers) /\ c.gen \in Gens BY <1>2 DEF Contexts
  <1>5. S \in SUBSET Nat /\ S = DOMAIN c.cands \ c.tried BY <1>4 DEF Untried
  <1>6. \A i \in S : busy(i) \in Nat
    <2>1. \A i \in S : c.cands[i] \in Providers BY <1>4, <1>5
    <2> QED BY <1>4, <2>1 DEF Inv, CounterTypes
  <1>7. \E i \in S : \A j \in S : busy(i) < busy(j) \/ (busy(i) = busy(j) /\ i <= j)
    <2> DEFINE v == [i \in S |-> busy(i)]
    <2> HIDE DEF busy, S
    <2>1. v \in [S -> Nat] /\ \A i \in S : v[i] = busy(i) BY <1>6
    <2> HIDE DEF v
    <2>2. \E i \in S : \A j \in S : v[i] < v[j] \/ (v[i] = v[j] /\ i <= j)
      BY <1>1, <1>5, <2>1, LeastBusy
    <2> QED BY <2>1, <2>2
  <1>8. idx \in S
    <2> HIDE DEF S, busy
    <2> QED BY <1>7
  <1> HIDE DEF idx
  <1>9. ctx' = [ctx EXCEPT ![r] = d] BY <1>1
  <1> HIDE DEF c, S
  <1>10. idx \in Nat BY <1>5, <1>8
  <1>11. /\ d \in Contexts /\ d.pc = "picked" /\ d.at = idx /\ d.todo = c.todo
         /\ d.cands = c.cands /\ d.tried = c.tried /\ d.last_err = c.last_err
         /\ d.provider = c.provider
         /\ d.error = c.error /\ d.response = c.response /\ d.credited = c.credited
    BY ONLY <1>2, <1>10 DEF Contexts
  <1> HIDE DEF d
  <1>12. Stage(d) = "forward" /\ ForwardLast(d) BY <1>2, <1>3, <1>11 DEF Stage, Left, Basic, ForwardLast
  <1>13. d.at \in DOMAIN d.cands \ d.tried BY <1>5, <1>8, <1>11
  <1>14. d.at \in 0 .. Len(d.cands) BY <1>4, <1>11, <1>13
  <1>15. Basic(d, k, 0) BY <1>3, <1>11, <1>12, <1>14 DEF Basic
  <1>16. FailedOver(d, k) BY <1>3, <1>11 DEF FailedOver
  <1>17. Report(d, 0) BY <1>3, <1>11 DEF Report
  <1>18. Req(d, k, 0) BY <1>3, <1>11, <1>12, <1>13, <1>15, <1>16, <1>17, ForwardingReq
  <1>19. /\ ctx[r].pc \in {"idle", "stages", "picked"} /\ ctx[r].response = "pending"
         /\ ctx[r].error = None /\ reported[r] = 0
    BY <1>2, <1>3 DEF c
  <1>20. d.pc \in {"stages", "picked"} /\ d.response = "pending" BY <1>3, <1>11
  <1>21. UNCHANGED << reload_vars, shared, history >> BY <1>1
  <1> QED BY <1>9, <1>18, <1>19, <1>20, <1>21, UnservedStep DEF k

LEMMA CallReq ==
  ASSUME NEW d, NEW k, NEW n, Basic(d, k, n), d.pc = "call", Stage(d) = "forward",
         d.error = None, d.response = "pending", Pending(d, k), Report(d, n)
  PROVE  Req(d, k, n)
  BY DEF Req, Phase, Waiting, Forwarding, Past, Pending

(* A step that changes the load, but neither what is counted nor what is   *)
(* credited.                                                               *)
LEMMA LoadStep ==
  ASSUME Inv, NEW r \in Requests, NEW d, NEW k, ctx' = [ctx EXCEPT ![r] = d],
         calls' = [calls EXCEPT ![r] = k],
         UNCHANGED << reload_vars, metrics, activity, reported >>,
         Req(d, k, reported[r]), Loading(r), Counted(ctx[r]) <=> Counted(d),
         Counted(ctx[r]) => d.error = ctx[r].error, d.gen = ctx[r].gen,
         d.provider = ctx[r].provider \/ (reported[r] = 0 /\ ~Counted(ctx[r]))
  PROVE  Inv'
  <1>1. ctx'[r] = d /\ ctx' \in [Requests -> Contexts] /\ \A q \in Requests : q # r => ctx'[q] = ctx[q]
    BY DEF Inv, Req, Basic
  <1>2. /\ calls'[r] = k /\ calls' \in [Requests -> Seq(Calls)]
        /\ \A q \in Requests : q # r => calls'[q] = calls[q]
    BY DEF Inv, Req, Basic
  <1>3. Only(r) BY <1>1, <1>2 DEF Only, Inv
  <1>4. Counting(r) BY <1>1 DEF Counting
  <1>5. metrics \in [Gens -> [Providers -> [out : Nat, requests : Nat, errors : Nat]]]
        /\ DOMAIN activity = Gens /\ reported[r] \in Nat
    BY DEF Inv, CounterTypes
  <1>6. Crediting(r)
    <2>1. \A g \in Gens, p \in Providers : metrics[g][p].out \in Nat BY <1>5
    <2>2. \A m \in Nat : m = m + 0 OBVIOUS
    <2>3. reported'[r] = reported[r] + 0 BY <1>5, <2>2
    <2>4. \A g \in Gens, p \in Providers :
            metrics'[g][p].out
              = metrics[g][p].out + (IF g = d.gen /\ p = d.provider THEN 0 ELSE 0)
      BY <2>1, <2>2
    <2>5. reported[r] = 0 \/ (d.gen = ctx[r].gen /\ d.provider = ctx[r].provider) OBVIOUS
    <2> QED BY <1>1, <2>3, <2>4, <2>5 DEF Crediting
  <1> QED BY <1>3, <1>4, <1>5, <1>6, RequestStep

LEMMA AcquireStep ==
  ASSUME Inv, NEW r \in Requests, acquire(r)
  PROVE  Inv'
  <1> DEFINE c == ctx[r]
             k == calls[r]
             p == c.cands[c.at]
             d == [c EXCEPT !.pc = "call", !.provider = p]
             a == [provider |-> p, error |-> None]
             kk == Append(k, a)
  <1>1. /\ c.pc = "picked" /\ ctx' = [ctx EXCEPT ![r] = d] /\ calls' = [calls EXCEPT ![r] = kk]
        /\ load' = [load EXCEPT ![c.gen][p] = @ + 1]
        /\ UNCHANGED << reload_vars, metrics, activity, reported >>
    BY DEF acquire
  <1>2. /\ c \in Contexts /\ Stage(c) = "forward" /\ c.at \in DOMAIN c.cands \ c.tried
        /\ ForwardLast(c)
    BY <1>1, ReqFacts DEF Req, Phase
  <1>3. FailedOver(c, k) /\ Basic(c, k, 0) /\ c.response = "pending" /\ c.error = None
        /\ reported[r] = 0 /\ c.credited = 0
    BY <1>1, <1>2, ForwardFacts
  <1>4. c.cands \in Distinct /\ c.cands \in Seq(Providers) BY <1>3 DEF Basic, Distinct
  <1>5. p \in Providers BY <1>2, <1>4
  <1> HIDE DEF p, c
  <1>6. /\ d \in Contexts /\ d.pc = "call" /\ d.provider = p /\ d.todo = c.todo /\ d.gen = c.gen
        /\ d.cands = c.cands /\ d.tried = c.tried /\ d.at = c.at
        /\ d.error = c.error /\ d.response = c.response /\ d.credited = c.credited
    BY ONLY <1>2, <1>5 DEF Contexts
  <1> HIDE DEF d, k
  <1>7. a \in Calls /\ a.provider = p BY <1>5 DEF Calls
  <1> HIDE DEF a
  <1>8. /\ k \in Seq(Calls) /\ kk \in Seq(Calls) /\ Len(k) \in Nat /\ Len(kk) = Len(k) + 1
        /\ DOMAIN k = 1 .. Len(k) /\ DOMAIN kk = 1 .. (Len(k) + 1)
        /\ kk[Len(k) + 1] = a /\ \A i \in 1 .. Len(k) : kk[i] = k[i]
    BY <1>3, <1>7 DEF Basic
  <1> HIDE DEF kk
  <1>9. \A i \in 1 .. Len(k) : /\ Retried(kk[i].error)
                                 /\ \E j \in c.tried : kk[i].provider = c.cands[j]
    BY <1>3, <1>8 DEF FailedOver
  <1>10. \A i \in 1 .. Len(k) : kk[i].provider # p
    <2> SUFFICES ASSUME NEW i \in 1 .. Len(k) PROVE kk[i].provider # p OBVIOUS
    <2>1. PICK j \in c.tried : kk[i].provider = c.cands[j] BY <1>9
    <2>2. j \in DOMAIN c.cands /\ j # c.at BY <1>2, <1>3 DEF Basic
    <2>3. c.cands[j] # c.cands[c.at] BY <1>2, <1>4, <2>2 DEF Distinct
    <2> QED BY <2>1, <2>3 DEF p
  <1>11. \A i, j \in DOMAIN kk : i # j => kk[i].provider # kk[j].provider
    <2>1. \A i, j \in 1 .. Len(k) : i # j => kk[i].provider # kk[j].provider
      BY <1>3, <1>8 DEF Basic
    <2>2. \A i \in DOMAIN kk : i \in 1 .. Len(k) \/ i = Len(k) + 1 BY <1>8
    <2> QED BY <1>7, <1>8, <1>10, <2>1, <2>2
  <1>12. Stage(d) = "forward" /\ ForwardLast(d) BY <1>2, <1>6 DEF Stage, Left, ForwardLast
  <1>13. Basic(d, kk, 0) BY <1>3, <1>6, <1>8, <1>11, <1>12 DEF Basic
  <1>14. Pending(d, kk)
    <2>1. Len(k) = Cardinality(c.tried) BY <1>3 DEF FailedOver
    <2>2. 1 .. (Len(kk) - 1) = 1 .. Len(k) BY <1>8
    <2>3. kk[Len(kk)] = [provider |-> d.provider, error |-> None] BY <1>6, <1>8 DEF a
    <2> QED BY <1>2, <1>6, <1>8, <1>9, <2>1, <2>2, <2>3 DEF Pending, p
  <1>15. Report(d, 0) BY <1>3, <1>6 DEF Report
  <1>16. Req(d, kk, 0) BY <1>3, <1>6, <1>12, <1>13, <1>14, <1>15, CallReq
  <1>17. ~Busy(c) /\ Busy(d) /\ ~Counted(c) /\ ~Counted(d)
    BY <1>1, <1>3, <1>6 DEF Busy, Counted
  <1>18. ctx'[r] = d BY <1>1 DEF Inv
  <1>19. Loading(r) BY <1>1, <1>5, <1>6, <1>17, <1>18 DEF Loading, c
  <1> QED BY <1>1, <1>3, <1>6, <1>16, <1>17, <1>19, LoadStep DEF c

(* A request whose call is pending.                                        *)
LEMMA CallFacts ==
  ASSUME Inv, NEW r \in Requests, ctx[r].pc = "call"
  PROVE  LET c == ctx[r]
             k == calls[r]
         IN  /\ c \in Contexts /\ ForwardLast(c) /\ Stage(c) = "forward"
             /\ Basic(c, k, 0) /\ Pending(c, k) /\ c.provider \in Providers
             /\ c.response = "pending" /\ c.error = None /\ c.credited = 0 /\ reported[r] = 0
             /\ Busy(c) /\ ~Counted(c) /\ k \in Seq(Calls) /\ Len(k) \in Nat \ {0}
             /\ IsFiniteSet(c.tried)
  <1> DEFINE c == ctx[r]
             k == calls[r]
  <1>1. /\ c \in Contexts /\ ForwardLast(c) /\ Stage(c) = "forward" /\ Pending(c, k)
        /\ c.response = "pending" /\ c.error = None /\ c.credited = 0 /\ reported[r] = 0
        /\ Basic(c, k, 0)
    BY ReqFacts DEF Req, Phase, Report, Forwarding
  <1>2. c.cands \in Seq(Providers) /\ k \in Seq(Calls) /\ c.tried \subseteq DOMAIN c.cands
    BY <1>1 DEF Basic, Distinct
  <1>3. c.provider \in Providers BY <1>1, <1>2 DEF Pending
  <1>4. IsFiniteSet(c.tried) /\ Cardinality(c.tried) \in Nat
    <2>1. DOMAIN c.cands = 1 .. Len(c.cands) /\ Len(c.cands) \in Nat BY <1>2
    <2>2. IsFiniteSet(1 .. Len(c.cands)) BY <2>1, FS_Interval
    <2>3. c.tried \in SUBSET (1 .. Len(c.cands)) BY <1>2, <2>1
    <2>4. IsFiniteSet(c.tried) BY <2>2, <2>3, FS_Subset
    <2> QED BY <2>4, FS_CardinalityType
  <1>5. Len(k) \in Nat \ {0}
    <2>1. Len(k) = Cardinality(c.tried) + 1 BY <1>1 DEF Pending
    <2> QED BY ONLY <1>4, <2>1
  <1>6. Busy(c) /\ ~Counted(c) BY DEF Busy, Counted
  <1> QED BY <1>1, <1>2, <1>3, <1>4, <1>5, <1>6

\* The calls kk are k with the last one ended by e.
EndedWith(k, kk, e) ==
  /\ k \in Seq(Calls) /\ kk \in Seq(Calls) /\ Len(k) \in Nat \ {0} /\ Len(kk) = Len(k)
  /\ \A i \in 1 .. Len(k) : kk[i].provider = k[i].provider
  /\ \A i \in 1 .. Len(k) : i # Len(k) => kk[i].error = k[i].error
  /\ kk[Len(k)].error = e

(* Its last call ends.                                                     *)
LEMMA EndedFacts ==
  ASSUME Inv, NEW r \in Requests, NEW e \in ProviderErrors, Ended(r, e),
         calls[r] \in Seq(Calls), Len(calls[r]) \in Nat \ {0}
  PROVE  \E kk : calls' = [calls EXCEPT ![r] = kk] /\ EndedWith(calls[r], kk, e)
  <1> DEFINE k == calls[r]
             n == Len(k)
             kk == [k EXCEPT ![n].error = e]
  <1>1. calls' = [calls EXCEPT ![r] = kk] BY DEF Ended
  <1> HIDE DEF k
  <1>2. k \in Seq(Calls) /\ n \in 1 .. n /\ n \in Nat /\ DOMAIN k = 1 .. n BY DEF k
  <1>3. k[n] \in Calls BY <1>2
  <1>4. [k[n] EXCEPT !.error = e] \in Calls BY <1>3 DEF Calls
  <1>5. kk = [k EXCEPT ![n] = [k[n] EXCEPT !.error = e]] OBVIOUS
  <1>6. kk \in Seq(Calls) /\ Len(kk) = n /\ DOMAIN kk = 1 .. n BY <1>2, <1>4, <1>5
  <1>7. kk[n].error = e /\ kk[n].provider = k[n].provider BY <1>2, <1>3, <1>5 DEF Calls
  <1>8. \A i \in 1 .. n : i # n => kk[i] = k[i] BY <1>2, <1>5
  <1> HIDE DEF kk, n
  <1>9. EndedWith(k, kk, e)
    <2>1. n \in Nat \ {0} BY DEF n, k
    <2>2. \A i \in 1 .. n : kk[i].provider = k[i].provider BY <1>7, <1>8
    <2>3. \A i \in 1 .. n : i # n => kk[i].error = k[i].error BY <1>8
    <2> QED BY <1>2, <1>6, <1>7, <2>1, <2>2, <2>3 DEF EndedWith, n
  <1> QED BY <1>1, <1>9 DEF k

LastEnded(c, kk, e) ==
  /\ kk \in Seq(Calls) /\ kk # << >> /\ Len(kk) = Cardinality(c.tried) + 1
  /\ \A i \in 1 .. (Len(kk) - 1) :
       Retried(kk[i].error) /\ \E j \in c.tried : kk[i].provider = c.cands[j]
  /\ kk[Len(kk)].provider = c.cands[c.at] /\ kk[Len(kk)].error = e
  /\ c.provider = c.cands[c.at]
  /\ \A i, j \in DOMAIN kk : i # j => kk[i].provider # kk[j].provider

LEMMA EndedCalls ==
  ASSUME NEW c, NEW k, NEW kk, NEW e, Basic(c, k, 0), Pending(c, k), EndedWith(k, kk, e)
  PROVE  LastEnded(c, kk, e)
  <1> DEFINE n == Len(k)
  <1>1. /\ k \in Seq(Calls) /\ kk \in Seq(Calls) /\ n \in Nat \ {0} /\ Len(kk) = n
        /\ \A i \in 1 .. n : kk[i].provider = k[i].provider
        /\ \A i \in 1 .. n : i # n => kk[i].error = k[i].error
        /\ kk[n].error = e
    BY DEF EndedWith
  <1>2. kk # << >> /\ DOMAIN k = 1 .. n /\ DOMAIN kk = 1 .. n /\ n \in 1 .. n BY <1>1
  <1>3. /\ n = Cardinality(c.tried) + 1 /\ c.provider = c.cands[c.at]
        /\ k[n] = [provider |-> c.provider, error |-> None]
        /\ \A i \in 1 .. (n - 1) :
             Retried(k[i].error) /\ \E j \in c.tried : k[i].provider = c.cands[j]
    BY DEF Pending
  <1>4. \A i, j \in 1 .. n : i # j => k[i].provider # k[j].provider BY <1>2 DEF Basic
  <1> HIDE DEF n
  <1>5. \A i \in 1 .. (n - 1) : i \in 1 .. n /\ i # n BY <1>1
  <1>6. \A i \in 1 .. (n - 1) : kk[i].provider = k[i].provider /\ kk[i].error = k[i].error
    BY <1>1, <1>5
  <1>7. \A i \in 1 .. (n - 1) :
          Retried(kk[i].error) /\ \E j \in c.tried : kk[i].provider = c.cands[j]
    BY <1>3, <1>6
  <1>8. k[n].provider = c.provider BY <1>3
  <1>9. kk[n].provider = c.cands[c.at] BY <1>1, <1>2, <1>3, <1>8
  <1>10. \A i, j \in 1 .. n : i # j => kk[i].provider # kk[j].provider BY <1>1, <1>4
  <1> QED BY <1>1, <1>2, <1>3, <1>7, <1>9, <1>10 DEF LastEnded

LEMMA CallRetryableStep ==
  ASSUME Inv, NEW r \in Requests, NEW e \in ProviderErrors, call_retryable(r, e)
  PROVE  Inv'
  <1> DEFINE c == ctx[r]
             k == calls[r]
             tt == c.tried \cup {c.at}
             d == [c EXCEPT !.pc = "stages", !.tried = tt, !.at = 0, !.last_err = e]
  <1>1. /\ c.pc = "call" /\ retryable(e) /\ ctx' = [ctx EXCEPT ![r] = d] /\ Ended(r, e)
        /\ load' = [load EXCEPT ![c.gen][c.provider] = @ - 1]
        /\ UNCHANGED << reload_vars, metrics, activity, reported >>
    BY DEF call_retryable, Drop
  <1>2. /\ c \in Contexts /\ ForwardLast(c) /\ Stage(c) = "forward"
        /\ Basic(c, k, 0) /\ Pending(c, k) /\ c.provider \in Providers
        /\ c.response = "pending" /\ c.error = None /\ c.credited = 0 /\ reported[r] = 0
        /\ Busy(c) /\ ~Counted(c) /\ k \in Seq(Calls) /\ Len(k) \in Nat \ {0}
        /\ IsFiniteSet(c.tried)
    BY <1>1, CallFacts
  <1>3. PICK kk : calls' = [calls EXCEPT ![r] = kk] /\ EndedWith(k, kk, e)
    BY <1>1, <1>2, EndedFacts
  <1> HIDE DEF c, k
  <1>4. tt \in SUBSET Nat /\ tt \subseteq DOMAIN c.cands
    <2>1. c.cands \in Seq(Providers) BY <1>2 DEF Contexts
    <2>2. c.at \in DOMAIN c.cands /\ c.tried \subseteq DOMAIN c.cands BY <1>2 DEF Pending, Basic
    <2> QED BY <2>1, <2>2
  <1> HIDE DEF tt
  <1>5. /\ d \in Contexts /\ d.pc = "stages" /\ d.provider = c.provider /\ d.todo = c.todo
        /\ d.gen = c.gen /\ d.cands = c.cands /\ d.tried = tt /\ d.at = 0 /\ d.last_err = e
        /\ d.error = c.error /\ d.response = c.response /\ d.credited = c.credited
    <2>1. c \in Contexts /\ tt \in SUBSET Nat BY <1>2, <1>4
    <2>2. d \in Contexts BY ONLY <2>1, e \in ProviderErrors DEF Contexts
    <2> QED BY ONLY <2>1, <2>2 DEF Contexts
  <1> HIDE DEF d
  <1>6. /\ kk \in Seq(Calls) /\ kk # << >> /\ Len(kk) = Cardinality(c.tried) + 1
        /\ \A i \in 1 .. (Len(kk) - 1) :
             Retried(kk[i].error) /\ \E j \in c.tried : kk[i].provider = c.cands[j]
        /\ kk[Len(kk)].provider = c.cands[c.at] /\ kk[Len(kk)].error = e
        /\ c.provider = c.cands[c.at]
        /\ \A i, j \in DOMAIN kk : i # j => kk[i].provider # kk[j].provider
    <2>1. Basic(c, k, 0) /\ Pending(c, k) /\ EndedWith(k, kk, e) BY <1>2, <1>3
    <2>2. LastEnded(c, kk, e) BY ONLY <2>1, EndedCalls
    <2> QED BY ONLY <2>2 DEF LastEnded
  <1>7. \A i \in DOMAIN kk : Retried(kk[i].error) /\ \E j \in tt : kk[i].provider = c.cands[j]
    <2>1. \A i \in DOMAIN kk : i = Len(kk) \/ i \in 1 .. (Len(kk) - 1) BY <1>6
    <2>2. Retried(e) BY <1>1 DEF Retried
    <2> QED BY <1>6, <2>1, <2>2 DEF tt
  <1>8. FailedOver(d, kk)
    <2>1. Cardinality(tt) = Cardinality(c.tried) + 1
      BY <1>2, FS_AddElement DEF Pending, tt
    <2> QED BY <1>5, <1>6, <1>7, <2>1 DEF FailedOver
  <1>9. Stage(d) = "forward" /\ ForwardLast(d) BY <1>2, <1>5 DEF Stage, Left, ForwardLast
  <1>11. Basic(d, kk, 0)
    <2>1. c.cands \in Distinct /\ 0 \in 0 .. Len(c.cands) BY <1>2 DEF Basic, Distinct
    <2> QED BY <1>4, <1>5, <1>6, <1>9, <2>1 DEF Basic
  <1>12. Report(d, 0) BY <1>2, <1>5 DEF Report
  <1>13. Req(d, kk, 0) BY <1>2, <1>5, <1>8, <1>9, <1>11, <1>12, ForwardingReq
  <1>14. ~Busy(d) /\ ~Counted(d) BY <1>2, <1>5 DEF Busy, Counted
  <1>15. ctx'[r] = d BY <1>1 DEF Inv
  <1>16. Loading(r) BY <1>1, <1>2, <1>5, <1>14, <1>15 DEF Loading, c
  <1> QED BY <1>1, <1>2, <1>3, <1>5, <1>13, <1>14, <1>16, LoadStep DEF c

LEMMA CallFatalStep ==
  ASSUME Inv, NEW r \in Requests, NEW e \in ProviderErrors, call_fatal(r, e)
  PROVE  Inv'
  <1> DEFINE c == ctx[r]
             k == calls[r]
             d == Failing(c, e)
  <1>1. /\ c.pc = "call" /\ ~retryable(e) /\ ctx' = [ctx EXCEPT ![r] = d] /\ Ended(r, e)
        /\ load' = [load EXCEPT ![c.gen][c.provider] = @ - 1]
        /\ UNCHANGED << reload_vars, metrics, activity, reported >>
    BY DEF call_fatal, Drop
  <1>2. /\ c \in Contexts /\ ForwardLast(c) /\ Stage(c) = "forward"
        /\ Basic(c, k, 0) /\ Pending(c, k) /\ c.provider \in Providers
        /\ c.response = "pending" /\ c.error = None /\ c.credited = 0 /\ reported[r] = 0
        /\ Busy(c) /\ ~Counted(c) /\ k \in Seq(Calls) /\ Len(k) \in Nat \ {0}
    BY <1>1, CallFacts
  <1>3. PICK kk : calls' = [calls EXCEPT ![r] = kk] /\ EndedWith(k, kk, e)
    BY <1>1, <1>2, EndedFacts
  <1>4. e \in Errors BY ErrorStatus
  <1>5. /\ d \in Contexts /\ d.pc = "stages" /\ ForwardLast(d) /\ Stage(d) = "log"
        /\ d.gen = c.gen /\ d.cands = c.cands /\ d.tried = c.tried /\ d.at = c.at
        /\ d.provider = c.provider /\ d.error = e
        /\ d.response = c.response /\ d.credited = c.credited
    BY <1>2, <1>4, FailingFacts
  <1> HIDE DEF c, k, d
  <1>6. /\ kk \in Seq(Calls) /\ kk # << >> /\ Len(kk) = Cardinality(c.tried) + 1
        /\ \A i \in 1 .. (Len(kk) - 1) :
             Retried(kk[i].error) /\ \E j \in c.tried : kk[i].provider = c.cands[j]
        /\ kk[Len(kk)].provider = c.cands[c.at] /\ kk[Len(kk)].error = e
        /\ c.provider = c.cands[c.at]
        /\ \A i, j \in DOMAIN kk : i # j => kk[i].provider # kk[j].provider
    <2>1. Basic(c, k, 0) /\ Pending(c, k) /\ EndedWith(k, kk, e) BY <1>2, <1>3
    <2>2. LastEnded(c, kk, e) BY ONLY <2>1, EndedCalls
    <2> QED BY ONLY <2>2 DEF LastEnded
  <1>7. ~Retried(e) BY <1>1 DEF Retried
  <1>8. Settled(d, kk) BY <1>5, <1>6, <1>7 DEF Settled
  <1>9. Basic(d, kk, 0) BY <1>2, <1>5, <1>6 DEF Basic
  <1>10. Past(d) /\ Report(d, 0) BY <1>2, <1>5 DEF Past, Report
  <1>11. Req(d, kk, 0) BY <1>8, <1>9, <1>10, PastReq
  <1>12. ~Busy(d) /\ ~Counted(d) BY <1>2, <1>5 DEF Busy, Counted
  <1>13. ctx'[r] = d BY <1>1 DEF Inv
  <1>14. Loading(r) BY <1>1, <1>2, <1>5, <1>12, <1>13 DEF Loading, c
  <1> QED BY <1>1, <1>2, <1>3, <1>5, <1>11, <1>12, <1>14, LoadStep DEF c

(* forward is over, and the call has succeeded.                            *)
LEMMA AnsweredReq ==
  ASSUME NEW c \in Contexts, NEW k, NEW n \in Nat, NEW d \in Contexts, Basic(c, k, 0),
         Pending(c, k), d.pc = "stages", Stage(d) = "log", ForwardLast(d), d.cands = c.cands,
         d.tried = c.tried, d.at = c.at, d.error \in {None, GatewayErr("Internal")}, Report(d, n)
  PROVE  Req(d, k, n)
  <1>1. Basic(d, k, n) BY DEF Basic
  <1>2. Settled(d, k)
    <2>1. k[Len(k)].error = None BY DEF Pending
    <2>2. ~Retried(None) BY Constants DEF Retried, Errors
    <2>3. \A i \in 1 .. (Len(k) - 1) : Retried(k[i].error) BY DEF Pending
    <2> QED BY <2>1, <2>2, <2>3 DEF Settled
  <1>3. Past(d) BY DEF Past
  <1> QED BY <1>1, <1>2, <1>3, PastReq

LEMMA CallOkStreamStep ==
  ASSUME Inv, NEW r \in Requests, call_ok_stream(r)
  PROVE  Inv'
  <1> DEFINE c == ctx[r]
             k == calls[r]
             m == Continue(c)
             d == [m EXCEPT !.response = "stream"]
  <1>1. /\ c.pc = "call" /\ ctx' = [ctx EXCEPT ![r] = d]
        /\ UNCHANGED << reload_vars, shared, history >>
    BY DEF call_ok_stream
  <1>2. /\ c \in Contexts /\ ForwardLast(c) /\ Stage(c) = "forward"
        /\ Basic(c, k, 0) /\ Pending(c, k) /\ c.provider \in Providers
        /\ c.response = "pending" /\ c.error = None /\ c.credited = 0 /\ reported[r] = 0
        /\ Busy(c) /\ ~Counted(c)
    BY <1>1, CallFacts
  <1>3. /\ m \in Contexts /\ m.pc = "stages" /\ ForwardLast(m) /\ Stage(m) = "log"
        /\ m.gen = c.gen /\ m.cands = c.cands /\ m.tried = c.tried /\ m.at = c.at
        /\ m.provider = c.provider /\ m.error = c.error /\ m.credited = c.credited
    BY <1>2, ContinueFacts
  <1> HIDE DEF c, k, m
  <1>4. /\ d \in Contexts /\ d.pc = "stages" /\ d.todo = m.todo
        /\ d.gen = m.gen /\ d.cands = m.cands /\ d.tried = m.tried /\ d.at = m.at
        /\ d.provider = m.provider /\ d.error = m.error /\ d.credited = m.credited
        /\ d.response = "stream"
    BY ONLY <1>3 DEF Contexts
  <1> HIDE DEF d
  <1>5. Stage(d) = "log" /\ ForwardLast(d) BY <1>3, <1>4 DEF Stage, Left, ForwardLast
  <1>6. Report(d, 0) BY <1>2, <1>3, <1>4 DEF Report
  <1>7. Req(d, k, 0)
    <2>1. /\ d.cands = c.cands /\ d.tried = c.tried /\ d.at = c.at /\ d.error = None
      BY <1>2, <1>3, <1>4
    <2> QED BY <1>2, <1>4, <1>5, <1>6, <2>1, AnsweredReq
  <1>8. Busy(d) /\ ~Counted(d) BY <1>4 DEF Busy, Counted
  <1>9. d.gen = c.gen /\ d.provider = c.provider /\ d.error = c.error BY <1>3, <1>4
  <1> QED BY <1>1, <1>2, <1>7, <1>8, <1>9, QuietStep DEF history, c, k

\* What metrics are, and what add_output and record_request make of them.
Counter == [out : Nat, requests : Nat, errors : Nat]
Metered == [Gens -> [Providers -> Counter]]

OutputAdded(m, x, g, p, n) ==
  /\ x \in Metered
  /\ \A h \in Gens, q \in Providers :
       /\ x[h][q].out = m[h][q].out + (IF h = g /\ q = p THEN n ELSE 0)
       /\ x[h][q].requests = m[h][q].requests /\ x[h][q].errors = m[h][q].errors

RequestRecorded(m, x, g, p, n) ==
  /\ x \in Metered
  /\ \A h \in Gens, q \in Providers :
       /\ x[h][q].requests = m[h][q].requests + (IF h = g /\ q = p THEN 1 ELSE 0)
       /\ x[h][q].errors = m[h][q].errors + (IF h = g /\ q = p THEN n ELSE 0)
       /\ x[h][q].out = m[h][q].out

Updated(m, x, g, p, b) ==
  /\ x \in Metered
  /\ \A h \in Gens, q \in Providers : x[h][q] = IF h = g /\ q = p THEN b ELSE m[h][q]

(* They change the counters of one provider.                               *)
LEMMA CounterUpdate ==
  ASSUME NEW m \in Metered, NEW g \in Gens, NEW p \in Providers, NEW b \in Counter, NEW x,
         x = [m EXCEPT ![g] = [m[g] EXCEPT ![p] = b]]
  PROVE  Updated(m, x, g, p, b)
  <1>1. m[g] \in [Providers -> Counter] BY DEF Metered
  <1>2. PICK y : y = [m[g] EXCEPT ![p] = b] OBVIOUS
  <1>3. y \in [Providers -> Counter] /\ \A q \in Providers : y[q] = IF q = p THEN b ELSE m[g][q]
    BY <1>1, <1>2
  <1>4. x = [m EXCEPT ![g] = y] BY <1>2
  <1>5. x \in Metered /\ \A h \in Gens : x[h] = IF h = g THEN y ELSE m[h]
    BY ONLY <1>3, <1>4, m \in Metered DEF Metered
  <1> QED BY <1>3, <1>5 DEF Updated

LEMMA AddOutputFacts ==
  ASSUME NEW m \in Metered, NEW g \in Gens, NEW p \in Providers, NEW n \in Nat, NEW x,
         x = [m EXCEPT ![g][p].out = @ + n]
  PROVE  OutputAdded(m, x, g, p, n)
  <1>1. PICK a : a = m[g][p] OBVIOUS
  <1>2. a \in Counter BY <1>1 DEF Metered
  <1>3. PICK b : b = [a EXCEPT !.out = @ + n] OBVIOUS
  <1>4. x = [m EXCEPT ![g] = [m[g] EXCEPT ![p] = b]] BY <1>1, <1>3
  <1>5. /\ b \in Counter /\ b.out = a.out + n
        /\ b.requests = a.requests /\ b.errors = a.errors
    BY ONLY <1>2, <1>3, n \in Nat DEF Counter
  <1>6. Updated(m, x, g, p, b) BY <1>4, <1>5, CounterUpdate
  <1>7. \A h \in Gens, q \in Providers : m[h][q].out \in Nat BY DEF Metered, Counter
  <1> QED BY <1>1, <1>5, <1>6, <1>7 DEF OutputAdded, Updated

LEMMA RecordRequestFacts ==
  ASSUME NEW m \in Metered, NEW g \in Gens, NEW p \in Providers, NEW n \in Nat, NEW x,
         x = [m EXCEPT ![g][p].requests = @ + 1, ![g][p].errors = @ + n]
  PROVE  RequestRecorded(m, x, g, p, n)
  <1>1. PICK a : a = m[g][p] OBVIOUS
  <1>2. a \in Counter BY <1>1 DEF Metered
  <1>3. PICK b : b = [a EXCEPT !.requests = @ + 1, !.errors = @ + n] OBVIOUS
  <1>4. x = [m EXCEPT ![g] = [m[g] EXCEPT ![p] = b]] BY <1>1, <1>3 DEF Metered
  <1>5. PICK i \in Nat, j \in Nat, o \in Nat :
          /\ a = [out |-> o, requests |-> i, errors |-> j]
    BY <1>2 DEF Counter
  <1>6. b = [out |-> o, requests |-> i + 1, errors |-> j + n] BY ONLY <1>3, <1>5
  <1>7. /\ b \in Counter /\ b.out = a.out
        /\ b.requests = a.requests + 1 /\ b.errors = a.errors + n
    BY <1>5, <1>6 DEF Counter
  <1>8. Updated(m, x, g, p, b) BY <1>4, <1>7, CounterUpdate
  <1>9. \A h \in Gens, q \in Providers : m[h][q].requests \in Nat /\ m[h][q].errors \in Nat
    BY DEF Metered, Counter
  <1>10. ASSUME NEW h \in Gens, NEW q \in Providers
         PROVE  /\ x[h][q].requests = m[h][q].requests + (IF h = g /\ q = p THEN 1 ELSE 0)
                /\ x[h][q].errors = m[h][q].errors + (IF h = g /\ q = p THEN n ELSE 0)
                /\ x[h][q].out = m[h][q].out
    <2>1. CASE h = g /\ q = p
      <3>1. x[h][q] = b /\ m[h][q] = a BY <1>1, <1>8, <2>1 DEF Updated
      <3> QED BY ONLY <1>7, <2>1, <3>1
    <2>2. CASE ~(h = g /\ q = p)
      <3>1. x[h][q] = m[h][q] BY <1>8, <2>2 DEF Updated
      <3> QED BY <1>9, <2>2, <3>1
    <2> QED BY <2>1, <2>2
  <1> QED BY <1>8, <1>10 DEF RequestRecorded, Updated

LEMMA CallOkFullStep ==
  ASSUME Inv, NEW r \in Requests, NEW u \in Usages, call_ok_full(r, u)
  PROVE  Inv'
  <1> DEFINE c == ctx[r]
             k == calls[r]
             full == [Continue(c) EXCEPT !.response = "full", !.usage = u]
             unsent == [Failing(c, GatewayErr("Internal")) EXCEPT !.usage = u]
             credits == u # None /\ c.body.route # "embeddings"
             n == IF credits THEN u ELSE 0
  <1>1. /\ c.pc = "call" /\ u # Partial
        /\ ctx' = [ctx EXCEPT ![r] = full] \/ ctx' = [ctx EXCEPT ![r] = unsent]
        /\ metrics' = IF credits THEN add_output(c.gen, c.provider, u) ELSE metrics
        /\ reported' = IF credits THEN [reported EXCEPT ![r] = u] ELSE reported
        /\ load' = [load EXCEPT ![c.gen][c.provider] = @ - 1]
        /\ UNCHANGED << reload_vars, activity, calls >>
    BY DEF call_ok_full, Drop
  <1>2. /\ c \in Contexts /\ ForwardLast(c) /\ Stage(c) = "forward"
        /\ Basic(c, k, 0) /\ Pending(c, k) /\ c.provider \in Providers
        /\ c.response = "pending" /\ c.error = None /\ c.credited = 0 /\ reported[r] = 0
        /\ Busy(c) /\ ~Counted(c)
    BY <1>1, CallFacts
  <1>3. /\ c.gen \in Gens /\ GatewayErr("Internal") \in Errors
    BY <1>2 DEF Contexts, GatewayErr, Errors
  <1>4. u \in Counts \cup {None} BY <1>1 DEF Usages
  <1>5. n \in Nat BY <1>4, Constants
  <1>6. metrics \in Metered /\ reported \in [Requests -> Nat] /\ DOMAIN activity = Gens
        /\ c.gen \in Gens /\ calls \in [Requests -> Seq(Calls)]
    BY <1>2 DEF Inv, CounterTypes, Metered, Counter, Contexts
  <1>7. /\ metrics' \in Metered
        /\ \A h \in Gens, q \in Providers :
             /\ metrics'[h][q].out
                  = metrics[h][q].out + (IF h = c.gen /\ q = c.provider THEN n ELSE 0)
             /\ metrics'[h][q].requests = metrics[h][q].requests
             /\ metrics'[h][q].errors = metrics[h][q].errors
    <2>1. CASE credits
      <3>1. metrics' = [metrics EXCEPT ![c.gen][c.provider].out = @ + n]
        BY <1>1, <2>1 DEF add_output
      <3> HIDE DEF n, c
      <3>2. OutputAdded(metrics, metrics', c.gen, c.provider, n)
        BY <1>2, <1>5, <1>6, <3>1, AddOutputFacts
      <3> QED BY <3>2 DEF OutputAdded
    <2>2. CASE ~credits
      <3>1. metrics' = metrics /\ n = 0 BY <1>1, <2>2
      <3>2. \A h \in Gens, q \in Providers : metrics[h][q].out \in Nat BY <1>6 DEF Metered, Counter
      <3> HIDE DEF n, c
      <3> QED BY <1>6, <3>1, <3>2
    <2> QED BY <2>1, <2>2
  <1>8. /\ reported' \in [Requests -> Nat] /\ reported'[r] = n
        /\ \A q \in Requests : q # r => reported'[q] = reported[q]
    <2>1. CASE credits
      <3>1. reported' = [reported EXCEPT ![r] = n] BY <1>1, <2>1
      <3> HIDE DEF n
      <3> QED BY <1>5, <1>6, <3>1
    <2>2. CASE ~credits BY <1>1, <1>2, <1>6, <2>2
    <2> QED BY <2>1, <2>2
  <1>9. PICK d : /\ ctx' = [ctx EXCEPT ![r] = d]
                 /\ d \in Contexts /\ d.pc = "stages" /\ Stage(d) = "log" /\ ForwardLast(d)
                 /\ d.gen = c.gen /\ d.cands = c.cands /\ d.tried = c.tried /\ d.at = c.at
                 /\ d.provider = c.provider
                 /\ \/ d.response = "full" /\ d.error = None
                    \/ d.response = "pending" /\ d.error = GatewayErr("Internal")
    <2>1. CASE ctx' = [ctx EXCEPT ![r] = full]
      <3> DEFINE m == Continue(c)
      <3>1. /\ m \in Contexts /\ m.pc = "stages" /\ ForwardLast(m) /\ Stage(m) = "log"
            /\ m.gen = c.gen /\ m.cands = c.cands /\ m.tried = c.tried /\ m.at = c.at
            /\ m.provider = c.provider /\ m.error = c.error
        BY <1>2, ContinueFacts
      <3>2. full = [m EXCEPT !.response = "full", !.usage = u] OBVIOUS
      <3> HIDE DEF c, m, n, full
      <3>3. /\ full \in Contexts /\ full.pc = "stages" /\ full.todo = m.todo
            /\ full.gen = m.gen /\ full.cands = m.cands /\ full.tried = m.tried /\ full.at = m.at
            /\ full.provider = m.provider /\ full.error = m.error /\ full.response = "full"
        BY ONLY <3>1, <3>2, <1>4 DEF Contexts
      <3>4. Stage(full) = "log" /\ ForwardLast(full) BY <3>1, <3>3 DEF Stage, Left, ForwardLast
      <3> QED BY <1>2, <2>1, <3>1, <3>3, <3>4
    <2>2. CASE ctx' = [ctx EXCEPT ![r] = unsent]
      <3> DEFINE m == Failing(c, GatewayErr("Internal"))
      <3>1. /\ m \in Contexts /\ m.pc = "stages" /\ ForwardLast(m) /\ Stage(m) = "log"
            /\ m.gen = c.gen /\ m.cands = c.cands /\ m.tried = c.tried /\ m.at = c.at
            /\ m.provider = c.provider /\ m.error = GatewayErr("Internal")
            /\ m.response = c.response
        BY <1>2, <1>3, FailingFacts
      <3>2. unsent = [m EXCEPT !.usage = u] OBVIOUS
      <3> HIDE DEF c, m, n, unsent
      <3>3. /\ unsent \in Contexts /\ unsent.pc = "stages" /\ unsent.todo = m.todo
            /\ unsent.gen = m.gen /\ unsent.cands = m.cands /\ unsent.tried = m.tried
            /\ unsent.at = m.at /\ unsent.provider = m.provider /\ unsent.error = m.error
            /\ unsent.response = m.response
        BY ONLY <3>1, <3>2, <1>4 DEF Contexts
      <3>4. Stage(unsent) = "log" /\ ForwardLast(unsent) BY <3>1, <3>3 DEF Stage, Left, ForwardLast
      <3> QED BY <1>2, <2>2, <3>1, <3>3, <3>4
    <2> QED BY <1>1, <2>1, <2>2
  <1> HIDE DEF c, k, n
  <1>11. Report(d, n)
    <2>1. GatewayErr("Internal") # None BY <1>3, Constants
    <2> QED BY <1>9, <2>1 DEF Report
  <1>12. Req(d, k, n) BY <1>2, <1>5, <1>9, <1>11, AnsweredReq
  <1>13. ~Busy(d) /\ ~Counted(d) BY <1>9 DEF Busy, Counted
  <1>14. d.gen = c.gen /\ d.provider = c.provider BY <1>9
  <1>15. ctx'[r] = d /\ ctx' \in [Requests -> Contexts] /\ \A q \in Requests : q # r => ctx'[q] = ctx[q]
    BY <1>9 DEF Inv
  <1>16. calls' = calls BY <1>1
  <1>17. Only(r) BY <1>6, <1>8, <1>12, <1>15, <1>16 DEF Only, k
  <1>18. Loading(r) BY <1>1, <1>2, <1>13, <1>15 DEF Loading, c
  <1>19. Counting(r) BY <1>2, <1>7, <1>13, <1>15 DEF Counting, c
  <1>20. Crediting(r)
    <2>1. reported'[r] = reported[r] + n BY <1>2, <1>5, <1>8
    <2> QED BY <1>2, <1>5, <1>7, <1>14, <1>15, <2>1 DEF Crediting, c
  <1>21. UNCHANGED reload_vars /\ DOMAIN activity' = Gens BY <1>1, <1>6
  <1> QED BY <1>7, <1>17, <1>18, <1>19, <1>20, <1>21, RequestStep DEF Metered, Counter

(* A request past forward goes on being past it.                           *)
LEMMA PastStays ==
  ASSUME NEW c, NEW k, NEW n, NEW d \in Contexts, NEW m \in Nat, Basic(c, k, n), Settled(c, k),
         d.todo = c.todo, d.cands = c.cands, d.tried = c.tried, d.at = c.at, d.error = c.error,
         Past(d), Report(d, m)
  PROVE  Req(d, k, m)
  <1>1. Basic(d, k, m) BY DEF Basic, ForwardLast
  <1>2. Settled(d, k) BY DEF Settled
  <1> QED BY <1>1, <1>2, PastReq

LEMMA LogStep ==
  ASSUME Inv, NEW r \in Requests, log(r)
  PROVE  Inv'
  <1> DEFINE c == ctx[r]
             k == calls[r]
             n == reported[r]
             pc == IF c.response = "stream" THEN "stream" ELSE "done"
             d == [c EXCEPT !.pc = pc]
             st == status(c)
             e == IF st >= 400 THEN 1 ELSE 0
  <1>1. /\ At(r, "log") /\ ctx' = [ctx EXCEPT ![r] = d]
        /\ UNCHANGED << reload_vars, load, calls, reported >>
        /\ c.provider = None => UNCHANGED << metrics, activity >>
        /\ c.provider # None =>
             /\ metrics' = [metrics EXCEPT ![c.gen][c.provider].requests = @ + 1,
                                           ![c.gen][c.provider].errors = @ + e]
             /\ DOMAIN activity' = DOMAIN activity
    BY DEF log, record_request
  <1>2. /\ c \in Contexts /\ c.pc = "stages" /\ Stage(c) = "log"
        /\ Basic(c, k, n) /\ Settled(c, k) /\ Report(c, n)
    BY <1>1, ReqFacts DEF At, Req, Phase, Past
  <1>3. /\ metrics \in Metered /\ reported \in [Requests -> Nat] /\ DOMAIN activity = Gens
        /\ c.gen \in Gens /\ calls \in [Requests -> Seq(Calls)] /\ n \in Nat
    BY <1>2 DEF Inv, CounterTypes, Metered, Counter, Contexts
  <1>4. c.error # None <=> st >= 400
    <2>1. c.error \in Errors \cup {None} BY <1>2 DEF Contexts
    <2>2. CASE c.error = None BY <2>2 DEF status
    <2>3. CASE c.error \in Errors
      <3>1. http_status(c.error) >= 400 BY <2>3, ErrorStatus
      <3>2. c.error # None BY <2>3, Constants
      <3> QED BY <3>1, <3>2 DEF status
    <2> QED BY <2>1, <2>2, <2>3
  <1> HIDE DEF st, c, k, n
  <1>5. pc \in {"stream", "done"} /\ (pc = "stream" <=> c.response = "stream") OBVIOUS
  <1> HIDE DEF pc
  <1>6. /\ d \in Contexts /\ d.pc = pc /\ d.todo = c.todo /\ d.gen = c.gen
        /\ d.cands = c.cands /\ d.tried = c.tried /\ d.at = c.at /\ d.provider = c.provider
        /\ d.error = c.error /\ d.response = c.response /\ d.credited = c.credited
    <2>1. pc \in {"idle", "stages", "picked", "call", "stream", "failed", "done", "gone"} BY <1>5
    <2>2. c \in Contexts BY <1>2
    <2>3. d \in Contexts BY ONLY <2>1, <2>2 DEF Contexts
    <2> QED BY ONLY <2>2, <2>3 DEF Contexts
  <1> HIDE DEF d
  <1>7. Past(d) /\ Report(d, n) BY <1>2, <1>5, <1>6 DEF Past, Report
  <1>8. Req(d, k, n) BY <1>2, <1>3, <1>6, <1>7, PastStays
  <1>9. Busy(c) <=> Busy(d) BY <1>2, <1>5, <1>6 DEF Busy
  <1>10. ~Counted(c) /\ (Counted(d) <=> c.provider \in Providers) BY <1>2, <1>5, <1>6 DEF Counted
  <1>11. CASE c.provider = None
    <2>1. ~Counted(d) BY <1>10, <1>11, Constants
    <2>2. UNCHANGED << reload_vars, shared, calls, reported >> BY <1>1, <1>11 DEF shared
    <2> QED BY <1>1, <1>6, <1>8, <1>9, <1>10, <2>1, <2>2, QuietStep DEF c, k, n
  <1>12. CASE c.provider # None
    <2>1. c.provider \in Providers BY <1>2, <1>12 DEF Contexts
    <2>2. /\ metrics' \in Metered
          /\ \A h \in Gens, q \in Providers :
               /\ metrics'[h][q].requests
                    = metrics[h][q].requests + (IF h = c.gen /\ q = c.provider THEN 1 ELSE 0)
               /\ metrics'[h][q].errors
                    = metrics[h][q].errors + (IF h = c.gen /\ q = c.provider THEN e ELSE 0)
               /\ metrics'[h][q].out = metrics[h][q].out
      <3>1. metrics' = [metrics EXCEPT ![c.gen][c.provider].requests = @ + 1,
                                       ![c.gen][c.provider].errors = @ + e]
        BY <1>1, <1>12
      <3>2. e \in Nat OBVIOUS
      <3> HIDE DEF e
      <3>3. RequestRecorded(metrics, metrics', c.gen, c.provider, e)
        BY <1>3, <2>1, <3>1, <3>2, RecordRequestFacts
      <3> QED BY <3>3 DEF RequestRecorded
    <2>3. ctx'[r] = d /\ ctx' \in [Requests -> Contexts] /\ \A q \in Requests : q # r => ctx'[q] = ctx[q]
      BY <1>1, <1>6 DEF Inv
    <2>4. Only(r) BY <1>1, <1>3, <1>8, <2>3 DEF Only, k, n
    <2>5. Loading(r) BY <1>1, <1>6, <1>9, <2>3 DEF Loading, c
    <2>6. Counting(r)
      <3>1. e = IF d.error # None THEN 1 ELSE 0 BY <1>4, <1>6
      <3>2. \A h \in Gens, q \in Providers :
              LET here == h = d.gen /\ q = d.provider IN
              /\ metrics'[h][q].requests = metrics[h][q].requests + (IF here THEN 1 ELSE 0)
              /\ metrics'[h][q].errors =
                   metrics[h][q].errors + (IF here /\ d.error # None THEN 1 ELSE 0)
        <4> HIDE DEF e
        <4> QED BY <1>6, <2>2, <3>1
      <3> QED BY <1>10, <2>1, <2>3, <3>2 DEF Counting, c
    <2>7. Crediting(r)
      <3>1. \A h \in Gens, q \in Providers : metrics[h][q].out \in Nat BY <1>3 DEF Metered, Counter
      <3>2. \A x \in Nat : x = x + 0 OBVIOUS
      <3>3. \A h \in Gens, q \in Providers :
              metrics'[h][q].out =
                metrics[h][q].out + (IF h = d.gen /\ q = d.provider THEN 0 ELSE 0)
        BY <2>2, <3>1, <3>2
      <3>4. reported'[r] = reported[r] + 0 BY <1>1, <1>3, <3>2 DEF n
      <3> QED BY <1>6, <2>3, <3>3, <3>4 DEF Crediting, c
    <2>8. UNCHANGED reload_vars /\ DOMAIN activity' = Gens BY <1>1, <1>3, <1>12
    <2> QED BY <2>2, <2>4, <2>5, <2>6, <2>7, <2>8, RequestStep DEF Metered, Counter
  <1> QED BY <1>11, <1>12

(* A request whose answer is being streamed.                               *)
LEMMA StreamFacts ==
  ASSUME Inv, NEW r \in Requests, ctx[r].pc \in {"stream", "failed"}
  PROVE  LET c == ctx[r]
             k == calls[r]
             n == reported[r]
         IN  /\ c \in Contexts /\ c.response = "stream" /\ c.provider \in Providers
             /\ c.credited = n /\ n \in Nat /\ Basic(c, k, n) /\ Settled(c, k)
             /\ Busy(c) /\ Counted(c)
  <1>1. ctx[r].response = "stream" BY ReqFacts DEF Req, Report
  <1>2. ctx[r].provider \in Providers /\ ctx[r].credited = reported[r]
    BY <1>1, ReqFacts DEF Req, Report
  <1>3. Basic(ctx[r], calls[r], reported[r]) /\ reported[r] \in Nat BY ReqFacts DEF Req, Basic
  <1>4. Settled(ctx[r], calls[r]) BY ReqFacts DEF Req, Phase, Past
  <1>5. Busy(ctx[r]) /\ Counted(ctx[r]) BY <1>1, <1>2 DEF Busy, Counted
  <1> QED BY <1>1, <1>2, <1>3, <1>4, <1>5, ReqFacts

LEMMA FrameAdded ==
  ASSUME NEW c \in Contexts, NEW y \in {"event", "error", "[DONE]", ": done"}
  PROVE  Append(c.frames, y) \in Seq({"event", "error", "[DONE]", ": done"})
  <1>1. PICK F : F = {"event", "error", "[DONE]", ": done"} OBVIOUS
  <1>2. c.frames \in Seq(F) /\ y \in F BY <1>1 DEF Contexts
  <1>3. PICK f : f = c.frames OBVIOUS
  <1>4. f \in Seq(F) /\ y \in F BY <1>2, <1>3
  <1>5. Append(f, y) \in Seq(F) BY ONLY <1>4, AppendProperties
  <1> QED BY ONLY <1>1, <1>3, <1>5

LEMMA StreamErrorStep ==
  ASSUME Inv, NEW r \in Requests, stream_error(r)
  PROVE  Inv'
  <1> DEFINE c == ctx[r]
             k == calls[r]
             n == reported[r]
             f == Append(c.frames, "error")
             d == [c EXCEPT !.pc = "failed", !.frames = f]
  <1>1. /\ c.pc = "stream" /\ ctx' = [ctx EXCEPT ![r] = d]
        /\ UNCHANGED << reload_vars, shared, history >>
    BY DEF stream_error
  <1>2. /\ c \in Contexts /\ c.response = "stream" /\ c.provider \in Providers
        /\ c.credited = n /\ n \in Nat /\ Basic(c, k, n) /\ Settled(c, k)
        /\ Busy(c) /\ Counted(c)
    BY <1>1, StreamFacts
  <1> HIDE DEF c, k, n
  <1>3. f \in Seq({"event", "error", "[DONE]", ": done"}) BY <1>2, FrameAdded
  <1> HIDE DEF f
  <1>4. /\ d \in Contexts /\ d.pc = "failed" /\ d.todo = c.todo /\ d.gen = c.gen
        /\ d.cands = c.cands /\ d.tried = c.tried /\ d.at = c.at /\ d.provider = c.provider
        /\ d.error = c.error /\ d.response = c.response /\ d.credited = c.credited
    BY ONLY <1>2, <1>3 DEF Contexts
  <1> HIDE DEF d
  <1>5. Past(d) /\ Report(d, n) BY <1>2, <1>4 DEF Past, Report
  <1>6. Req(d, k, n) BY <1>2, <1>4, <1>5, PastStays
  <1>7. Busy(d) /\ Counted(d) BY <1>2, <1>4 DEF Busy, Counted
  <1> QED BY <1>1, <1>2, <1>4, <1>6, <1>7, QuietStep DEF history, c, k, n

(* A request that was served is over.                                      *)
LEMMA OverStep ==
  ASSUME Inv, NEW r \in Requests, NEW d \in Contexts, ctx[r].pc \in {"call", "stream", "failed"},
         \/ d.pc = "done" /\ ctx[r].pc # "call"
         \/ d.pc = "gone",
         ctx' = [ctx EXCEPT ![r] = d], Drop(ctx[r].gen, ctx[r].provider),
         UNCHANGED << reload_vars, metrics, activity, history >>,
         d.todo = ctx[r].todo, d.gen = ctx[r].gen, d.cands = ctx[r].cands,
         d.tried = ctx[r].tried, d.at = ctx[r].at, d.provider = ctx[r].provider,
         d.error = ctx[r].error, d.response = ctx[r].response, d.credited = ctx[r].credited
  PROVE  Inv'
  <1> DEFINE c == ctx[r]
             k == calls[r]
             n == reported[r]
  <1>1. /\ Basic(c, k, n) /\ Settled(c, k) /\ n \in Nat /\ c.provider \in Providers
        /\ Busy(c) /\ (Counted(c) <=> c.pc # "call")
        /\ c.response = IF c.pc = "call" THEN "pending" ELSE "stream"
        /\ c.credited = n /\ (c.pc = "call" => n = 0)
    <2>1. CASE c.pc = "call"
      <3>1. Basic(c, k, 0) /\ Pending(c, k) /\ c.provider \in Providers
            /\ c.response = "pending" /\ c.error = None /\ c.credited = 0 /\ n = 0
            /\ Busy(c) /\ ~Counted(c)
        BY <2>1, CallFacts
      <3>2. Settled(c, k) BY <3>1 DEF Pending, Settled
      <3> QED BY <2>1, <3>1, <3>2
    <2>2. CASE c.pc \in {"stream", "failed"} BY <2>2, StreamFacts
    <2> QED BY <2>1, <2>2
  <1>2. d.pc \in {"done", "gone"} /\ (c.pc = "call" => d.pc = "gone") OBVIOUS
  <1>3. Past(d) /\ Report(d, n) BY <1>1, <1>2 DEF Past, Report
  <1>4. Req(d, k, n) BY <1>1, <1>3, PastStays
  <1>5. ~Busy(d) BY <1>2 DEF Busy
  <1>6. Counted(c) <=> Counted(d) BY <1>1, <1>2 DEF Counted
  <1>7. ctx'[r] = d BY DEF Inv
  <1>8. Loading(r) BY <1>1, <1>5, <1>7 DEF Loading, Drop
  <1>9. calls' = [calls EXCEPT ![r] = k] /\ UNCHANGED << reload_vars, metrics, activity, reported >>
    BY DEF history, Inv
  <1> QED BY <1>4, <1>6, <1>8, <1>9, LoadStep

LEMMA StreamEndStep ==
  ASSUME Inv, NEW r \in Requests, stream_end(r)
  PROVE  Inv'
  <1> DEFINE c == ctx[r]
             y == IF c.body.route = "chat" THEN "[DONE]" ELSE ": done"
             f == Append(c.frames, y)
             d == [c EXCEPT !.pc = "done", !.frames = f]
  <1>1. /\ c.pc \in {"stream", "failed"} /\ ctx' = [ctx EXCEPT ![r] = d]
        /\ Drop(c.gen, c.provider) /\ UNCHANGED << reload_vars, metrics, activity, history >>
    BY DEF stream_end
  <1>2. c \in Contexts BY ReqFacts
  <1> HIDE DEF c
  <1>3. f \in Seq({"event", "error", "[DONE]", ": done"})
    <2>1. y \in {"event", "error", "[DONE]", ": done"} OBVIOUS
    <2> HIDE DEF y
    <2> QED BY <1>2, <2>1, FrameAdded
  <1> HIDE DEF f
  <1>4. /\ d \in Contexts /\ d.pc = "done" /\ d.todo = c.todo /\ d.gen = c.gen
        /\ d.cands = c.cands /\ d.tried = c.tried /\ d.at = c.at /\ d.provider = c.provider
        /\ d.error = c.error /\ d.response = c.response /\ d.credited = c.credited
    BY ONLY <1>2, <1>3 DEF Contexts
  <1> HIDE DEF d
  <1>5. ctx[r].pc \in {"call", "stream", "failed"} /\ ctx[r].pc # "call" BY <1>1 DEF c
  <1> QED BY <1>1, <1>4, <1>5, OverStep DEF c

LEMMA ClientGoneStep ==
  ASSUME Inv, NEW r \in Requests, client_gone(r)
  PROVE  Inv'
  <1> DEFINE c == ctx[r]
             d == [c EXCEPT !.pc = "gone"]
  <1>1. /\ c.pc \in {"call", "stream", "failed"} /\ ctx' = [ctx EXCEPT ![r] = d]
        /\ Drop(c.gen, c.provider) /\ UNCHANGED << reload_vars, metrics, activity, history >>
    BY DEF client_gone
  <1>2. c \in Contexts BY ReqFacts
  <1> HIDE DEF c
  <1>3. /\ d \in Contexts /\ d.pc = "gone" /\ d.todo = c.todo /\ d.gen = c.gen
        /\ d.cands = c.cands /\ d.tried = c.tried /\ d.at = c.at /\ d.provider = c.provider
        /\ d.error = c.error /\ d.response = c.response /\ d.credited = c.credited
    BY ONLY <1>2 DEF Contexts
  <1> HIDE DEF d
  <1> QED BY <1>1, <1>3, OverStep DEF c

LEMMA StreamItemStep ==
  ASSUME Inv, NEW r \in Requests, NEW u \in Usages, stream_item(r, u)
  PROVE  Inv'
  <1> DEFINE c == ctx[r]
             k == calls[r]
             n == reported[r]
             f == Append(c.frames, "event")
             us == IF u = None THEN c.usage ELSE Completion(c, u)
             cr == Credit(c, u)
             d == [c EXCEPT !.frames = f, !.usage = us, !.credited = @ + cr]
  <1>1. /\ c.pc = "stream" /\ ctx' = [ctx EXCEPT ![r] = d]
        /\ metrics' = [metrics EXCEPT ![c.gen][c.provider].out = @ + cr]
        /\ reported' = [reported EXCEPT ![r] = IF u \in Counts /\ u > n THEN u ELSE n]
        /\ UNCHANGED << reload_vars, load, activity, calls >>
    BY DEF stream_item, add_output
  <1>2. /\ c \in Contexts /\ c.response = "stream" /\ c.provider \in Providers
        /\ c.credited = n /\ n \in Nat /\ Basic(c, k, n) /\ Settled(c, k)
        /\ Busy(c) /\ Counted(c)
    BY <1>1, StreamFacts
  <1> HIDE DEF c, k, n
  <1>3. f \in Seq({"event", "error", "[DONE]", ": done"}) BY <1>2, FrameAdded
  <1>4. us \in Counts \cup {None}
    <2>1. c.usage \in Counts \cup {None} BY <1>2 DEF Contexts
    <2>2. u \in Counts \cup {None, Partial} BY DEF Usages
    <2> QED BY <2>1, <2>2, Constants DEF Completion
  <1>5. /\ cr \in Nat /\ (IF u \in Counts /\ u > n THEN u ELSE n) = n + cr
    <2>1. \A m \in Counts : m \in Nat BY Constants
    <2>2. CASE u \in Counts /\ u > n
      <3>1. cr = u - n /\ u \in Nat BY <1>2, <2>1, <2>2 DEF Credit
      <3>2. u > n BY <2>2
      <3> HIDE DEF cr
      <3> QED BY <1>2, <2>2, <3>1, <3>2
    <2>3. CASE ~(u \in Counts /\ u > n)
      <3>1. cr = 0 BY <1>2, <2>3 DEF Credit
      <3> HIDE DEF cr
      <3> QED BY <1>2, <2>3, <3>1
    <2> QED BY <2>2, <2>3
  <1> HIDE DEF f, us, cr
  <1>6. PICK w : w = c.credited + cr OBVIOUS
  <1>7. w \in Nat /\ w = n + cr BY <1>2, <1>5, <1>6
  <1>8. d = [c EXCEPT !.frames = f, !.usage = us, !.credited = w] BY <1>6
  <1>9. PICK x : x = d OBVIOUS
  <1>10. x = [c EXCEPT !.frames = f, !.usage = us, !.credited = w] BY <1>8, <1>9
  <1>11. ctx' = [ctx EXCEPT ![r] = x] BY <1>1, <1>9
  <1> HIDE DEF d
  <1>12. w \in Nat BY <1>7
  <1>13. /\ x \in Contexts /\ x.pc = c.pc /\ x.todo = c.todo /\ x.gen = c.gen
         /\ x.cands = c.cands /\ x.tried = c.tried /\ x.at = c.at /\ x.provider = c.provider
         /\ x.error = c.error /\ x.response = c.response /\ x.credited = w
    <2>1. c \in Contexts BY <1>2
    <2> QED BY ONLY <2>1, <1>3, <1>4, <1>12, <1>10 DEF Contexts
  <1>14. Past(x) /\ Report(x, w) BY <1>1, <1>2, <1>13 DEF Past, Report
  <1>15. Req(x, k, w) BY <1>2, <1>12, <1>13, <1>14, PastStays
  <1>16. Busy(x) /\ Counted(x) BY <1>1, <1>2, <1>13 DEF Busy, Counted
  <1>17. /\ metrics \in Metered /\ reported \in [Requests -> Nat] /\ DOMAIN activity = Gens
         /\ c.gen \in Gens /\ calls \in [Requests -> Seq(Calls)]
    BY <1>2 DEF Inv, CounterTypes, Metered, Counter, Contexts
  <1>18. /\ metrics' \in Metered
         /\ \A h \in Gens, q \in Providers :
              /\ metrics'[h][q].out
                   = metrics[h][q].out + (IF h = c.gen /\ q = c.provider THEN cr ELSE 0)
              /\ metrics'[h][q].requests = metrics[h][q].requests
              /\ metrics'[h][q].errors = metrics[h][q].errors
    <2>1. OutputAdded(metrics, metrics', c.gen, c.provider, cr)
      BY <1>1, <1>2, <1>5, <1>17, AddOutputFacts
    <2> QED BY <2>1 DEF OutputAdded
  <1>19. reported' = [reported EXCEPT ![r] = w] BY <1>1, <1>5, <1>7
  <1>20. /\ reported' \in [Requests -> Nat] /\ reported'[r] = w
         /\ \A q \in Requests : q # r => reported'[q] = reported[q]
    BY <1>12, <1>17, <1>19
  <1>21. ctx'[r] = x /\ ctx' \in [Requests -> Contexts] /\ \A q \in Requests : q # r => ctx'[q] = ctx[q]
    BY <1>11, <1>13 DEF Inv
  <1>22. calls' = calls /\ load' = load BY <1>1
  <1>23. Only(r) BY <1>15, <1>17, <1>20, <1>21, <1>22 DEF Only, k
  <1>24. Loading(r) BY <1>2, <1>13, <1>16, <1>21, <1>22 DEF Loading, c
  <1>25. Counting(r) BY <1>2, <1>13, <1>16, <1>18, <1>21 DEF Counting, c
  <1>26. Crediting(r)
    <2>1. reported'[r] = reported[r] + cr BY <1>7, <1>20 DEF n
    <2> QED BY <1>5, <1>13, <1>18, <1>21, <2>1 DEF Crediting, c
  <1>27. UNCHANGED reload_vars /\ DOMAIN activity' = Gens BY <1>1, <1>17
  <1> QED BY <1>18, <1>23, <1>24, <1>25, <1>26, <1>27, RequestStep DEF Metered, Counter

(* A reload changes the slots only.                                        *)
LEMMA ReloadStep ==
  ASSUME Inv, reload \/ \E route \in Routes : swap(route)
  PROVE  Inv'
  <1>1. UNCHANGED << ctx, load, metrics, activity, calls, reported >>
    BY DEF reload, swap, shared, history
  <1>2. SlotsInv'
    <2>1. CASE reload
      <3>1. built \in Gens /\ built < MaxReloads /\ MaxReloads \in Nat
        BY <2>1, Constants DEF Inv, SlotsInv, reload
      <3>2. built + 1 \in Gens BY <3>1 DEF Gens
      <3> QED BY <2>1, <3>2 DEF Inv, SlotsInv, reload
    <2>2. ASSUME NEW route \in Routes, swap(route) PROVE SlotsInv'
      <3>1. route \in DOMAIN Pipelines[built] /\ route \in DOMAIN slot /\ built \in Gens
        BY <2>2 DEF swap, Inv, SlotsInv
      <3> QED BY <2>2, <3>1 DEF swap, Inv, SlotsInv
    <2> QED BY <2>1, <2>2
  <1>3. CounterTypes' BY <1>1 DEF Inv, CounterTypes
  <1>4. LoadExact' BY <1>1 DEF Inv, LoadExact, InFlight
  <1>5. RequestsAccounted'
    <2>1. RequestsAccounted BY DEF Inv
    <2>2. ctx' = ctx /\ metrics' = metrics BY <1>1
    <2>3. Accounted(metrics', ctx') BY <2>1, <2>2, CountsAccounted
    <2>4. RequestsAccounted' <=> Accounted(metrics, ctx)' BY CountsAccounted, PTL
    <2> QED BY <2>3, <2>4
  <1>6. TokensCredited'
    <2>1. Credited(metrics, ctx, reported) BY TotalsCredited DEF Inv
    <2>2. Credited(metrics', ctx', reported') BY <1>1, <2>1
    <2>3. TokensCredited' <=> Credited(metrics, ctx, reported)' BY TotalsCredited, PTL
    <2> QED BY <2>2, <2>3
  <1> QED BY <1>1, <1>2, <1>3, <1>4, <1>5, <1>6 DEF Inv

-----------------------------------------------------------------------------
(* The invariant.                                                          *)

LEMMA InvInit == Init => Inv
  <1> SUFFICES ASSUME Init PROVE Inv OBVIOUS
  <1>1. \A r \in Requests : ctx[r] = Fresh /\ calls[r] = << >> /\ reported[r] = 0 BY DEF Init
  <1>2. Req(Fresh, << >>, 0) /\ Fresh \in Contexts
    <2>1. PICK d : d = Fresh OBVIOUS
    <2>2. d = Received("idle", None, 0, << >>, None) BY <2>1 DEF Fresh, Received
    <2>3. Receivable("idle", None, 0, << >>, None) BY Constants DEF Receivable
    <2>4. /\ d \in Contexts /\ d.pc = "idle" /\ d.gen = 0 /\ d.todo = << >> /\ d.cands = << >>
          /\ d.tried = {} /\ d.at = 0 /\ d.provider = None /\ d.error = None
          /\ d.response = "pending" /\ d.credited = 0
      BY ONLY <2>2, <2>3, FreshFacts
    <2>5. ForwardLast(d) BY <2>4 DEF ForwardLast
    <2>6. Basic(d, << >>, 0) BY <2>4, <2>5, FreshBasic
    <2>7. Phase(d, << >>)
      <3>1. Waiting(d) /\ ~Forwarding(d) /\ ~Past(d) BY <2>4 DEF Waiting, Forwarding, Past
      <3> QED BY <2>1, <2>4, <3>1 DEF Phase
    <2>8. Report(d, 0) BY <2>4 DEF Report
    <2> QED BY <2>1, <2>4, <2>6, <2>7, <2>8 DEF Req
  <1>3. \A r \in Requests : ctx[r].provider \notin Providers
    BY <1>1, Constants DEF Fresh
  <1>4. SlotsInv
    <2>1. \A route \in DOMAIN slot : slot[route] = 0 /\ route \in DOMAIN Pipelines[0] BY DEF Init
    <2> QED BY <2>1, Constants DEF Init, SlotsInv
  <1>5. CounterTypes BY DEF Init, CounterTypes
  <1>6. ctx \in [Requests -> Contexts] /\ calls \in [Requests -> Seq(Calls)]
        /\ reported \in [Requests -> Nat]
    BY <1>2 DEF Init
  <1>7. LoadExact
    <2>1. \A g \in Gens, p \in Providers : InFlight(g, p) = {} BY <1>3 DEF InFlight
    <2>2. \A g \in Gens, p \in Providers : load[g][p] = 0 BY DEF Init
    <2> QED BY <2>1, <2>2, FS_EmptySet DEF LoadExact
  <1>8. RequestsAccounted
    <2> SUFFICES ASSUME NEW g \in Gens, NEW p \in Providers
                 PROVE  LET ended == {r \in Requests :
                                        /\ ctx[r].gen = g /\ ctx[r].provider = p
                                        /\ \/ ctx[r].pc \in {"done", "stream", "failed"}
                                           \/ ctx[r].pc = "gone" /\ ctx[r].response # "pending"}
                        IN  /\ metrics[g][p].requests = Cardinality(ended)
                            /\ metrics[g][p].errors
                                 = Cardinality({r \in ended : ctx[r].error # None})
      BY DEF RequestsAccounted
    <2> DEFINE ended == {r \in Requests :
                           /\ ctx[r].gen = g /\ ctx[r].provider = p
                           /\ \/ ctx[r].pc \in {"done", "stream", "failed"}
                              \/ ctx[r].pc = "gone" /\ ctx[r].response # "pending"}
    <2>1. ended = {} /\ {r \in ended : ctx[r].error # None} = {} BY <1>3
    <2>2. metrics[g][p].requests = 0 /\ metrics[g][p].errors = 0 BY DEF Init
    <2>3. Cardinality({}) = 0 BY FS_EmptySet
    <2> QED BY ONLY <2>1, <2>2, <2>3
  <1>9. TokensCredited
    <2>1. ASSUME NEW g \in Gens, NEW p \in Providers
          PROVE  metrics[g][p].out
                   = Total(reported, {q \in Requests : ctx[q].gen = g /\ ctx[q].provider = p})
      <3>1. {q \in Requests : ctx[q].gen = g /\ ctx[q].provider = p} = {} BY <1>3
      <3>2. Total(reported, {}) = 0 BY TotalEmpty
      <3>3. metrics[g][p].out = 0 BY DEF Init
      <3> QED BY <3>1, <3>2, <3>3
    <2> QED BY <2>1, TotalsCredited DEF Credited
  <1> QED BY <1>1, <1>2, <1>4, <1>5, <1>6, <1>7, <1>8, <1>9 DEF Inv

LEMMA InvNext == Inv /\ [Next]_vars => Inv'
  <1> SUFFICES ASSUME Inv, [Next]_vars PROVE Inv' OBVIOUS
  <1>1. ASSUME NEW r \in Requests, Stages(r) PROVE Inv'
    BY <1>1, DecidesStep, ModelRouteStep, ForwardNoBindingStep, PickStep, PoolExhaustedStep,
       AcquireStep, LogStep DEF Stages
  <1>2. ASSUME NEW r \in Requests, Upstream(r) PROVE Inv'
    BY <1>2, CallRetryableStep, CallFatalStep, CallOkFullStep, StreamItemStep, CallOkStreamStep,
       StreamErrorStep, StreamEndStep DEF Upstream
  <1>3. ASSUME NEW r \in Requests, NEW b \in Asks[r], handle(r, b) \/ handle_no_pipeline(r, b)
        PROVE  Inv'
    BY <1>3, HandleStep, HandleNoPipelineStep
  <1>4. CASE UNCHANGED vars
    <2>1. UNCHANGED << slot, built, swapping, ctx, load, metrics, activity, calls, reported >>
      BY <1>4 DEF vars, reload_vars, shared, history
    <2>2. SlotsInv' BY <2>1 DEF Inv, SlotsInv
    <2>3. CounterTypes' BY <2>1 DEF Inv, CounterTypes
    <2>4. LoadExact' BY <2>1 DEF Inv, LoadExact, InFlight
    <2>5. RequestsAccounted'
      <3>1. RequestsAccounted BY DEF Inv
      <3>2. ctx' = ctx /\ metrics' = metrics BY <2>1
      <3>3. Accounted(metrics', ctx') BY <3>1, <3>2, CountsAccounted
      <3>4. RequestsAccounted' <=> Accounted(metrics, ctx)' BY CountsAccounted, PTL
      <3> QED BY <3>3, <3>4
    <2>6. TokensCredited'
      <3>1. Credited(metrics, ctx, reported) BY TotalsCredited DEF Inv
      <3>2. Credited(metrics', ctx', reported') BY <2>1, <3>1
      <3>3. TokensCredited' <=> Credited(metrics, ctx, reported)' BY TotalsCredited, PTL
      <3> QED BY <3>2, <3>3
    <2> QED BY <2>1, <2>2, <2>3, <2>4, <2>5, <2>6 DEF Inv
  <1> QED BY <1>1, <1>2, <1>3, <1>4, ClientGoneStep, ReloadStep DEF Next

LEMMA Invariance == Spec => []Inv
  BY InvInit, InvNext, PTL DEF Spec

-----------------------------------------------------------------------------
(* The properties.                                                         *)

(***************************************************************************)
(* The in-flight counter of every provider is the number of requests it is *)
(* serving, for any number of requests, providers and reloads.             *)
(***************************************************************************)
THEOREM LoadIsExact == Spec => []LoadExact
  <1>1. Inv => LoadExact BY DEF Inv
  <1> QED BY <1>1, Invariance, PTL

(***************************************************************************)
(* No request is sent to the same provider twice, whatever the rules and   *)
(* however often calls fail over.                                          *)
(***************************************************************************)
THEOREM NoProviderTwice == Spec => []AtMostOncePerProvider
  <1>1. Inv => AtMostOncePerProvider
    BY DEF Inv, Req, Basic, AtMostOncePerProvider
  <1> QED BY <1>1, Invariance, PTL

(***************************************************************************)
(* A dispatched request is answered with a retryable error only after      *)
(* every candidate failed that way, and a call that failed otherwise is    *)
(* its last; its error is that of its last call, unless that succeeded and *)
(* the answer could not be serialised.                                     *)
(***************************************************************************)
THEOREM FailoverIsComplete == Spec => []FailoverComplete
  <1> DEFINE Away(e) == e \in ProviderErrors /\ (e.kind \in {"Connect", "Timeout", "Stream"}
                                                   \/ e.status \in 500 .. 599)
  <1>1. \A e : Away(e) <=> Retried(e)
    <2> SUFFICES ASSUME NEW e \in ProviderErrors
                 PROVE  e.status \in 500 .. 599 <=> e.status >= 500
      BY DEF Retried, retryable
    <2>1. e.status \in Nat /\ e.status <= 599 BY ErrorStatus
    <2> QED BY <2>1
  <1>2. ASSUME Inv, NEW r \in Requests
        PROVE  /\ \A i \in 1 .. (Len(calls[r]) - 1) : Away(calls[r][i].error)
               /\ calls[r] # << >> /\ ctx[r].error # None =>
                    /\ \/ ctx[r].error = calls[r][Len(calls[r])].error
                       \/ /\ calls[r][Len(calls[r])].error = None
                          /\ ctx[r].error = GatewayErr("Internal")
                    /\ Away(calls[r][Len(calls[r])].error) => Len(calls[r]) = Len(ctx[r].cands)
    <2> HIDE DEF Away
    <2>1. calls[r] \in Seq(Calls) BY <1>2 DEF Inv
    <2>2. \A i \in 1 .. (Len(calls[r]) - 1) : i \in DOMAIN calls[r] BY <2>1
    <2>3. Waiting(ctx[r]) \/ Forwarding(ctx[r]) \/ Past(ctx[r])
      BY <1>2, ReqFacts DEF Contexts, Waiting, Forwarding, Past
    <2>4. CASE Past(ctx[r])
      BY <1>1, <1>2, <2>4, ReqFacts DEF Req, Phase, Settled
    <2>5. CASE Waiting(ctx[r])
      <3>1. calls[r] = << >> BY <1>2, <2>5, WaitingFacts
      <3>2. \A i \in 1 .. (Len(calls[r]) - 1) : FALSE BY <3>1
      <3> QED BY <3>1, <3>2
    <2>6. CASE Forwarding(ctx[r])
      <3>1. ctx[r].error = None BY <1>2, <2>6, ReqFacts DEF Req, Phase
      <3>2. CASE ctx[r].pc = "call"
        <4>1. Pending(ctx[r], calls[r]) BY <1>2, <3>2, ReqFacts DEF Req, Phase
        <4> QED BY <1>1, <3>1, <4>1 DEF Pending
      <3>3. CASE ctx[r].pc # "call"
        <4>1. FailedOver(ctx[r], calls[r]) BY <1>2, <2>6, <3>3, ReqFacts DEF Req, Phase
        <4> QED BY <1>1, <2>2, <3>1, <4>1 DEF FailedOver
      <3> QED BY <3>2, <3>3
    <2> QED BY <2>3, <2>4, <2>5, <2>6
  <1>3. Inv => FailoverComplete BY <1>2 DEF FailoverComplete
  <1> QED BY <1>3, Invariance, PTL

(***************************************************************************)
(* The dashboard's request and error counters of a provider are those of   *)
(* the requests it answered last, each counted once.                       *)
(***************************************************************************)
THEOREM RequestsAreAccounted == Spec => []RequestsAccounted
  <1>1. Inv => RequestsAccounted BY DEF Inv
  <1> QED BY <1>1, Invariance, PTL

(***************************************************************************)
(* The output tokens of a provider are the sum of the largest completion   *)
(* counts its chats reported, for any number and order of usage events.    *)
(***************************************************************************)
THEOREM TokensAreCredited == Spec => []TokensCredited
  <1>1. Inv => TokensCredited BY DEF Inv
  <1> QED BY <1>1, Invariance, PTL

(***************************************************************************)
(* The types are kept: the counters never go below zero, and a request is  *)
(* only ever sent to a position of its own candidate list.                 *)
(***************************************************************************)
THEOREM GatewayTypes == Spec => []TypeOK
  <1>1. Inv => TypeOK
    <2> SUFFICES ASSUME Inv PROVE TypeOK OBVIOUS
    <2>1. swapping \subseteq Routes
      <3>1. built \in Gens /\ swapping \subseteq DOMAIN Pipelines[built] BY DEF Inv, SlotsInv
      <3>2. DOMAIN Pipelines[built] \subseteq Routes BY <3>1, GatewayAssumption
      <3> QED BY <3>1, <3>2
    <2>2. \A r \in Requests : ctx[r].at \in 0 .. Len(ctx[r].cands) BY ReqFacts DEF Req, Basic
    <2> QED BY <2>1, <2>2 DEF Inv, SlotsInv, CounterTypes, TypeOK
  <1> QED BY <1>1, Invariance, PTL
=============================================================================
