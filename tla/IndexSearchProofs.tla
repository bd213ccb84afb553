-------------------------- MODULE IndexSearchProofs --------------------------
(***************************************************************************)
(* Proofs about Lists and IndexSearch, for any files, repositories,        *)
(* queries, windows, caps and budgets: what the operators on lists return, *)
(* and that what is found, listed and shown is whole.                      *)
(***************************************************************************)
EXTENDS IndexSearch, FiniteSetTheorems, SequenceTheorems, WellFoundedInduction, TLAPS

-----------------------------------------------------------------------------
(* Numbers and lists.                                                      *)

(* A set of natural numbers has a least one.                               *)
LEMMA LeastNumber ==
  ASSUME NEW S \in SUBSET Nat, S # {}
  PROVE  \E i \in S : \A k \in S : i <= k
<1> DEFINE less == {pair \in Nat \X Nat : pair[1] < pair[2]}
<1>1. IsWellFoundedOn(less, Nat)
  BY NatLessThanWellFounded DEF OpToRel
<1> HIDE DEF less
<1>2. PICK i \in S : \A k \in S : <<k, i>> \notin less
  BY <1>1, WFMin
<1>3. \A k \in S : ~ (k < i)
  BY <1>2 DEF less
<1> QED
  BY <1>3

(* Ranks count: they are numbers up to the size of the set, and the        *)
(* greater number has the greater one.                                     *)
LEMMA RankCounts ==
  ASSUME NEW S \in SUBSET Nat, IsFiniteSet(S), NEW i \in S
  PROVE  /\ Rank(S, i) \in 1..Cardinality(S)
         /\ \A j \in S : i < j => Rank(S, i) < Rank(S, j)
<1> DEFINE Upto(j) == {k \in S : k <= j}
<1>1. \A j \in S : /\ IsFiniteSet(Upto(j)) /\ Cardinality(Upto(j)) \in Nat
                   /\ Cardinality(Upto(j)) <= Cardinality(S)
  BY FS_Subset, FS_CardinalityType
<1>2. Cardinality(S) \in Nat
  BY FS_CardinalityType
<1>3. Cardinality(Upto(i)) # 0
  <2>1. i \in Upto(i)
    OBVIOUS
  <2> QED
    BY <1>1, <2>1, FS_EmptySet
<1>4. ASSUME NEW j \in S, i < j
      PROVE  Cardinality(Upto(i)) < Cardinality(Upto(j))
  <2>1. Upto(i) \in SUBSET Upto(j) /\ j \in Upto(j) /\ j \notin Upto(i)
    <3>1. i \in Nat /\ j \in Nat /\ \A k \in S : k \in Nat
      BY <1>4
    <3>2. \A k \in S : k <= i => k <= j
      BY <1>4, <3>1
    <3>3. j <= j /\ ~ (j <= i)
      BY <1>4, <3>1
    <3> QED
      BY <3>2, <3>3
  <2>2. /\ Cardinality(Upto(i)) <= Cardinality(Upto(j))
        /\ Cardinality(Upto(j)) # Cardinality(Upto(i))
    BY <1>1, <2>1, FS_Subset
  <2> QED
    BY <1>1, <2>2
<1> QED
  BY <1>1, <1>2, <1>3, <1>4 DEF Rank

(* Ascending goes through a set once.                                      *)
LEMMA AscendingEnumerates ==
  ASSUME NEW S \in SUBSET Nat, IsFiniteSet(S)
  PROVE  /\ Cardinality(S) \in Nat
         /\ Ascending(S) \in [1..Cardinality(S) -> S]
         /\ \A m, n \in 1..Cardinality(S) : Ascending(S)[m] = Ascending(S)[n] => m = n
         /\ \A i \in S : \E n \in 1..Cardinality(S) : Ascending(S)[n] = i
<1> DEFINE N == Cardinality(S)
           rank == [i \in S |-> Rank(S, i)]
<1>1. N \in Nat /\ IsFiniteSet(1..N) /\ Cardinality(1..N) = N
  BY FS_CardinalityType, FS_Interval
<1>2. \A i \in S : Rank(S, i) \in 1..N
  BY RankCounts
<1>3. \A i, j \in S : Rank(S, i) = Rank(S, j) => i = j
  <2>1. \A i, j \in S : i < j => Rank(S, i) < Rank(S, j)
    BY RankCounts
  <2>2. \A i \in S : i \in Nat /\ Rank(S, i) \in Nat
    BY <1>1, <1>2
  <2> QED
    BY <2>1, <2>2
<1>4. rank \in Injection(S, 1..N)
  <2>1. rank \in [S -> 1..N]
    BY <1>2
  <2> QED
    BY <1>3, <2>1 DEF Injection, IsInjective
<1>5. rank \in Surjection(S, 1..N)
  BY <1>1, <1>4, FS_Injection
<1>6. \A n \in 1..N : \E i \in S : Rank(S, i) = n
  BY <1>5 DEF Surjection
<1>7. \A n \in 1..N : Ascending(S)[n] \in S /\ Rank(S, Ascending(S)[n]) = n
  BY <1>6 DEF Ascending
<1>8. Ascending(S) \in [1..N -> S]
  BY <1>7 DEF Ascending
<1>9. \A i \in S : Rank(S, i) \in 1..N /\ Ascending(S)[Rank(S, i)] = i
  BY <1>2, <1>3, <1>7
<1> QED
  BY <1>1, <1>7, <1>8, <1>9

(* What holds of 0, and of each number if of the one before, holds of all. *)
LEMMA Counting ==
  ASSUME NEW N \in Nat, NEW good, 0 \in good,
         \A n \in 1..N : n - 1 \in good => n \in good
  PROVE  \A n \in 0..N : n \in good
<1> DEFINE bad == {n \in 0..N : n \notin good}
<1> SUFFICES ASSUME bad # {} PROVE FALSE
  OBVIOUS
<1>1. PICK n \in bad : \A k \in bad : n <= k
  <2>1. bad \in SUBSET Nat
    OBVIOUS
  <2> HIDE DEF bad
  <2> QED
    BY <2>1, LeastNumber
<1>2. n \in 0..N /\ n \notin good
  BY <1>1
<1>3. n # 0
  BY <1>2
<1>4. n \in 1..N /\ n - 1 \in 0..N /\ ~(n <= n - 1)
  BY <1>2, <1>3
<1>5. n - 1 \notin bad
  <2> HIDE DEF bad
  <2> QED
    BY <1>1, <1>4
<1> QED
  BY <1>2, <1>4, <1>5

(* A list can be computed step by step.                                    *)
Computes(f, N, X, start, step) ==
  /\ f \in [0..N -> X] /\ f[0] = start
  /\ \A n \in 1..N : f[n] = step[<<n, f[n - 1]>>]

(* There is a function that follows any rule.                              *)
LEMMA Recursion ==
  ASSUME NEW N \in Nat, NEW X, NEW start \in X, NEW step,
         \A n \in 1..N : \A x \in X : step[<<n, x>>] \in X
  PROVE  \E f : Computes(f, N, X, start, step)
<1> DEFINE Is(f, m) == /\ f \in [0..m -> X] /\ f[0] = start
                       /\ \A n \in 1..m : f[n] = step[<<n, f[n - 1]>>]
           good == {m \in Nat : \E f : Is(f, m)}
<1>1. 0 \in good
  <2> DEFINE f == [n \in 0..0 |-> start]
  <2>1. f \in [0..0 -> X] /\ f[0] = start /\ 1..0 = {}
    OBVIOUS
  <2>2. Is(f, 0)
    BY <2>1
  <2> HIDE DEF f, Is
  <2> QED
    BY <2>2
<1>2. ASSUME NEW m \in 1..N, m - 1 \in good
      PROVE  m \in good
  <2>1. m - 1 \in Nat /\ m \in Nat
    BY <1>2
  <2>2. PICK f : Is(f, m - 1)
    BY <1>2
  <2> DEFINE next == step[<<m, f[m - 1]>>]
             g == [n \in 0..m |-> IF n < m THEN f[n] ELSE next]
  <2>3. f[m - 1] \in X /\ next \in X
    <3>1. f[m - 1] \in X
      BY <2>1, <2>2
    <3> QED
      BY <3>1
  <2>4. g[m] = next /\ \A n \in 0..(m - 1) : g[n] = f[n]
    BY <2>1
  <2>5. g \in [0..m -> X]
    <3>1. \A n \in 0..m : n < m => n \in 0..(m - 1)
      BY <2>1
    <3> HIDE DEF next
    <3> QED
      BY <2>2, <2>3, <3>1
  <2> HIDE DEF g
  <2>6. g[0] = start
    BY <2>1, <2>2, <2>4
  <2>7. ASSUME NEW n \in 1..m
        PROVE  g[n] = step[<<n, g[n - 1]>>]
    <3>1. CASE n = m
      <4>1. g[n - 1] = f[m - 1]
        BY <2>1, <2>4, <3>1
      <4> QED
        BY <2>4, <3>1, <4>1
    <3>2. CASE n # m
      <4>1. n \in 1..(m - 1) /\ n \in 0..(m - 1) /\ n - 1 \in 0..(m - 1)
        BY <2>1, <3>2
      <4> QED
        BY <2>2, <2>4, <4>1
    <3> QED
      BY <3>1, <3>2
  <2>8. Is(g, m)
    BY <2>5, <2>6, <2>7
  <2> HIDE DEF Is
  <2> QED
    BY <2>1, <2>8
<1> HIDE DEF good
<1>3. \A m \in 0..N : m \in good
  BY <1>1, <1>2, Counting
<1>4. N \in good
  BY <1>3
<1> QED
  BY <1>4 DEF good, Computes

(* A function over 1..n is a list.                                         *)
LEMMA ListOf ==
  ASSUME NEW n \in Nat, NEW S, NEW s \in [1..n -> S]
  PROVE  s \in Seq(S) /\ Len(s) = n /\ DOMAIN s = 1..n
<1>1. s \in Seq(S)
  OBVIOUS
<1> QED
  BY <1>1

(* Sums.                                                                   *)
LEMMA SumIs ==
  ASSUME NEW costs \in Seq(Nat)
  PROVE  /\ SumTo(costs) \in [0..Len(costs) -> Nat] /\ SumTo(costs)[0] = 0
         /\ \A n \in 1..Len(costs) : SumTo(costs)[n] = SumTo(costs)[n - 1] + costs[n]
<1> DEFINE N == Len(costs)
           Is(f) == f = [n \in 0..N |-> IF n = 0 THEN 0 ELSE f[n - 1] + costs[n]]
           step == [pair \in (1..N) \X Nat |-> pair[2] + costs[pair[1]]]
<1>1. N \in Nat /\ \A n \in 1..N : costs[n] \in Nat
  OBVIOUS
<1>2. /\ step \in [(1..N) \X Nat -> Nat]
      /\ \A n \in 1..N : \A k \in Nat : step[<<n, k>>] = k + costs[n]
  BY <1>1
<1> HIDE DEF step
<1>3. PICK f \in [0..N -> Nat] : f[0] = 0 /\ \A n \in 1..N : f[n] = step[<<n, f[n - 1]>>]
  <2>1. N \in Nat /\ 0 \in Nat /\ \A n \in 1..N : \A x \in Nat : step[<<n, x>>] \in Nat
    BY <1>1, <1>2
  <2> HIDE DEF N
  <2>2. \E f : Computes(f, N, Nat, 0, step)
    BY <2>1, Recursion
  <2> QED
    BY <2>2 DEF Computes
<1>4. \A n \in 1..N : n - 1 \in 0..N
  BY <1>1
<1>5. \A n \in 1..N : f[n] = f[n - 1] + costs[n]
  BY <1>2, <1>3, <1>4
<1>6. \A n \in 0..N : n # 0 => n \in 1..N
  BY <1>1
<1>7. Is(f)
  BY <1>3, <1>5, <1>6
<1>8. Is(SumTo(costs))
  <2>1. SumTo(costs) = CHOOSE g : Is(g)
    BY DEF SumTo
  <2> QED
    BY <1>7, <2>1
<1> DEFINE sum == SumTo(costs)
<1>9. sum[0] = 0 /\ \A n \in 1..N : sum[n] = sum[n - 1] + costs[n]
  <2> HIDE DEF sum
  <2>1. Is(sum)
    BY <1>8 DEF sum
  <2>2. 0 \in 0..N /\ \A n \in 1..N : n \in 0..N /\ n # 0
    BY <1>1
  <2> QED
    BY <2>1, <2>2
<1> HIDE DEF sum
<1> DEFINE good == {n \in 0..N : sum[n] \in Nat}
<1>10. \A n \in 0..N : n \in good
  <2>1. 0 \in good
    BY <1>1, <1>9
  <2>2. ASSUME NEW n \in 1..N, n - 1 \in good PROVE n \in good
    BY <1>1, <1>9, <2>2
  <2> HIDE DEF good
  <2> QED
    BY <1>1, <2>1, <2>2, Counting
<1>11. sum = [n \in 0..N |-> sum[n]]
  BY <1>8 DEF sum
<1>12. sum \in [0..N -> Nat]
  BY <1>10, <1>11
<1> QED
  BY <1>9, <1>12 DEF sum

(* Lists that begin alike have the same sums.                              *)
LEMMA SumAgree ==
  ASSUME NEW a \in Seq(Nat), NEW b \in Seq(Nat), NEW m \in Nat, m <= Len(a), m <= Len(b),
         \A i \in 1..m : a[i] = b[i]
  PROVE  SumTo(a)[m] = SumTo(b)[m]
<1> DEFINE good == {n \in 0..m : SumTo(a)[n] = SumTo(b)[n]}
<1>1. 0 \in good
  BY SumIs
<1>2. ASSUME NEW n \in 1..m, n - 1 \in good PROVE n \in good
  <2>1. n \in 1..Len(a) /\ n \in 1..Len(b)
    OBVIOUS
  <2> QED
    BY <1>2, <2>1, SumIs
<1> HIDE DEF good
<1>3. \A n \in 0..m : n \in good
  BY <1>1, <1>2, Counting
<1> QED
  BY <1>3 DEF good

-----------------------------------------------------------------------------
(* Lists of lists.                                                         *)

(* The lists of a list, one after the other: of the first 0, 1, 2, ...     *)
Flattens(f, lists, S) ==
  /\ f \in [0..Len(lists) -> Seq(S)] /\ f[0] = <<>>
  /\ \A n \in 1..Len(lists) : f[n] = f[n - 1] \o lists[n]
  /\ FlattenSeq(lists) = f[Len(lists)]

(* FlattenSeq computes that.                                               *)
LEMMA FlattenIs ==
  ASSUME NEW S, NEW lists \in Seq(Seq(S))
  PROVE  \E f : Flattens(f, lists, S)
<1> DEFINE N == Len(lists)
           X == Seq(S)
           Is(g) == g = [i \in 1..N |-> IF i = 1 THEN lists[i] ELSE g[i - 1] \o lists[i]]
           step == [pair \in (1..N) \X X |-> pair[2] \o lists[pair[1]]]
<1>1. N \in Nat /\ \A n \in 1..N : lists[n] \in X
  OBVIOUS
<1>2. \A n \in 1..N : \A x \in X : step[<<n, x>>] = x \o lists[n] /\ x \o lists[n] \in X
  <2>1. \A x, y \in X : x \o y \in X
    OBVIOUS
  <2> HIDE DEF X
  <2> QED
    BY <1>1, <2>1
<1>3. <<>> \in X
  OBVIOUS
<1> HIDE DEF step
<1>4. PICK f : Computes(f, N, X, <<>>, step)
  <2>1. \A n \in 1..N : \A x \in X : step[<<n, x>>] \in X
    BY <1>2
  <2> HIDE DEF N, X
  <2> QED
    BY <1>1, <1>3, <2>1, Recursion
<1>5. /\ f \in [0..N -> X] /\ f[0] = <<>>
      /\ \A n \in 1..N : f[n] = f[n - 1] \o lists[n]
  <2>1. f \in [0..N -> X] /\ f[0] = <<>> /\ \A n \in 1..N : f[n] = step[<<n, f[n - 1]>>]
    BY <1>4 DEF Computes
  <2>2. \A n \in 1..N : n - 1 \in 0..N
    BY <1>1
  <2> HIDE DEF X
  <2>3. \A n \in 1..N : f[n - 1] \in X
    BY <2>1, <2>2
  <2> QED
    BY <1>2, <2>1, <2>3
<1>6. CASE N = 0
  <2>1. FlattenSeq(lists) = lists /\ lists = <<>>
    BY <1>6 DEF FlattenSeq
  <2>2. Flattens(f, lists, S)
    BY <1>5, <1>6, <2>1 DEF Flattens
  <2> QED
    BY <2>2
<1>7. CASE N # 0
  <2>1. FlattenSeq(lists) = (CHOOSE g : Is(g))[N]
    BY <1>7 DEF FlattenSeq
  <2> DEFINE h == [i \in 1..N |-> f[i]]
  <2>2. Is(h)
    <3>1. \A i \in 1..N : i # 1 => i - 1 \in 1..N
      BY <1>1
    <3>2. \A i \in 1..N : h[i] = f[i]
      OBVIOUS
    <3> HIDE DEF h
    <3>3. f[0] = <<>> /\ \A i \in 1..N : i = 1 => f[i] = lists[i]
      <4>1. CASE 1 \in 1..N
        <5>1. f[1] = <<>> \o lists[1] /\ lists[1] \in Seq(S)
          <6>1. 1 - 1 = 0
            OBVIOUS
          <6> QED
            BY <1>1, <1>5, <4>1, <6>1
        <5>2. <<>> \o lists[1] = lists[1]
          BY <5>1, ConcatEmptySeq
        <5> QED
          BY <1>5, <5>1, <5>2
      <4>2. CASE 1 \notin 1..N
        BY <1>5, <4>2
      <4> QED
        BY <4>1, <4>2
    <3>4. \A i \in 1..N : i # 1 => f[i] = h[i - 1] \o lists[i]
      BY <1>5, <3>1, <3>2
    <3>5. \A i \in 1..N : f[i] = IF i = 1 THEN lists[i] ELSE h[i - 1] \o lists[i]
      BY <3>3, <3>4
    <3>6. h = [i \in 1..N |-> f[i]]
      BY DEF h
    <3> HIDE DEF N
    <3> QED
      BY <3>5, <3>6
  <2> DEFINE g == CHOOSE g : Is(g)
  <2>3. Is(g)
    <3> HIDE DEF Is, h
    <3> QED
      BY <2>2
  <2> HIDE DEF g
  <2>4. \A i \in 1..N : g[i] = IF i = 1 THEN lists[i] ELSE g[i - 1] \o lists[i]
    BY <2>3
  <2>5. \A i \in 1..N : f[i] = IF i = 1 THEN lists[i] ELSE f[i - 1] \o lists[i]
    <3>1. \A i \in 1..N : h[i] = IF i = 1 THEN lists[i] ELSE h[i - 1] \o lists[i]
      <4> HIDE DEF h
      <4> QED
        BY <2>2
    <3>2. \A i \in 1..N : h[i] = f[i]
      OBVIOUS
    <3>3. \A i \in 1..N : i # 1 => i - 1 \in 1..N
      BY <1>1
    <3> HIDE DEF h
    <3> QED
      BY <3>1, <3>2, <3>3
  <2> DEFINE good == {n \in 0..N : n = 0 \/ g[n] = f[n]}
  <2>6. 0 \in good
    BY <1>1
  <2>7. ASSUME NEW n \in 1..N, n - 1 \in good PROVE n \in good
    <3>1. n \in 0..N
      OBVIOUS
    <3>2. CASE n = 1
      BY <2>4, <2>5, <3>1, <3>2
    <3>3. CASE n # 1
      <4>1. g[n - 1] = f[n - 1]
        BY <2>7, <3>3
      <4> QED
        BY <2>4, <2>5, <3>1, <3>3, <4>1
    <3> QED
      BY <3>2, <3>3
  <2> HIDE DEF good
  <2>8. \A n \in 0..N : n \in good
    BY <1>1, <2>6, <2>7, Counting
  <2>9. g[N] = f[N]
    <3>1. N \in 0..N
      BY <1>1
    <3> QED
      BY <1>7, <2>8, <3>1 DEF good
  <2>10. Flattens(f, lists, S)
    BY <1>5, <2>1, <2>9 DEF Flattens, g
  <2> QED
    BY <2>10
<1> QED
  BY <1>6, <1>7

(* Two ways to compute that begin alike agree.                             *)
LEMMA FlattenAgree ==
  ASSUME NEW S, NEW a \in Seq(Seq(S)), NEW b \in Seq(Seq(S)), NEW f, NEW g,
         Flattens(f, a, S), Flattens(g, b, S),
         NEW m \in Nat, m <= Len(a), m <= Len(b), \A i \in 1..m : a[i] = b[i]
  PROVE  f[m] = g[m]
<1> DEFINE good == {n \in 0..m : f[n] = g[n]}
<1>1. 0 \in good
  BY DEF Flattens
<1>2. ASSUME NEW n \in 1..m, n - 1 \in good PROVE n \in good
  <2>1. n \in 1..Len(a) /\ n \in 1..Len(b) /\ n \in 0..m
    OBVIOUS
  <2>2. f[n] = f[n - 1] \o a[n] /\ g[n] = g[n - 1] \o b[n]
    BY <2>1 DEF Flattens
  <2>3. f[n - 1] = g[n - 1] /\ a[n] = b[n]
    BY <1>2
  <2> QED
    BY <2>1, <2>2, <2>3
<1> HIDE DEF good
<1>3. \A n \in 0..m : n \in good
  BY <1>1, <1>2, Counting
<1> QED
  BY <1>3 DEF good

(* One list more is appended.                                              *)
LEMMA FlattenAppend ==
  ASSUME NEW S, NEW lists \in Seq(Seq(S)), NEW list \in Seq(S)
  PROVE  FlattenSeq(Append(lists, list)) = FlattenSeq(lists) \o list
<1> DEFINE more == Append(lists, list)
           N == Len(lists)
<1>1. /\ more \in Seq(Seq(S)) /\ Len(more) = N + 1 /\ N \in Nat
      /\ \A i \in 1..N : more[i] = lists[i]
      /\ more[N + 1] = list
  BY AppendProperties
<1> HIDE DEF more
<1>2. PICK f : Flattens(f, lists, S)
  BY FlattenIs
<1>3. PICK g : Flattens(g, more, S)
  BY <1>1, FlattenIs
<1>4. g[N] = f[N]
  <2>1. N <= Len(more) /\ N <= Len(lists)
    BY <1>1
  <2> HIDE DEF N
  <2> QED
    BY <1>1, <1>2, <1>3, <2>1, FlattenAgree
<1>5. g[N + 1] = g[N] \o list
  <2>1. N + 1 \in 1..Len(more) /\ (N + 1) - 1 = N
    BY <1>1
  <2> QED
    BY <1>1, <1>3, <2>1 DEF Flattens
<1> QED
  BY <1>1, <1>2, <1>3, <1>4, <1>5 DEF Flattens, more

(* What a list of two parts has.                                           *)
LEMMA ConcatElements ==
  ASSUME NEW S, NEW s \in Seq(S), NEW t \in Seq(S)
  PROVE  /\ s \o t \in Seq(S) /\ ToSet(s \o t) = ToSet(s) \cup ToSet(t)
         /\ IsInjective(s) /\ IsInjective(t) /\ ToSet(s) \cap ToSet(t) = {}
              => IsInjective(s \o t)
<1> DEFINE M == Len(s)
           N == Len(t)
           r == s \o t
<1>1. /\ M \in Nat /\ N \in Nat /\ DOMAIN s = 1..M /\ DOMAIN t = 1..N
      /\ r \in Seq(S) /\ DOMAIN r = 1..(M + N)
      /\ \A i \in 1..(M + N) : r[i] = IF i <= M THEN s[i] ELSE t[i - M]
  <2>1. r \in Seq(S) /\ Len(r) = M + N
        /\ \A i \in 1..(M + N) : r[i] = IF i <= M THEN s[i] ELSE t[i - M]
    BY ConcatProperties
  <2>2. M \in Nat /\ N \in Nat /\ DOMAIN s = 1..M /\ DOMAIN t = 1..N
    OBVIOUS
  <2>3. DOMAIN r = 1..(M + N)
    <3> HIDE DEF r
    <3> QED
      BY <2>1, LenProperties
  <2> QED
    BY <2>1, <2>2, <2>3
<1> HIDE DEF M, N, r
<1>2. \A i \in 1..(M + N) : \/ i \in 1..M /\ r[i] = s[i]
                            \/ i - M \in 1..N /\ ~(i <= M) /\ r[i] = t[i - M]
  BY <1>1
<1>3. \A i \in 1..M : i \in 1..(M + N) /\ r[i] = s[i]
  BY <1>1
<1>4. \A i \in 1..N : i + M \in 1..(M + N) /\ r[i + M] = t[i]
  <2> SUFFICES ASSUME NEW i \in 1..N PROVE i + M \in 1..(M + N) /\ r[i + M] = t[i]
    OBVIOUS
  <2>1. i + M \in 1..(M + N) /\ ~(i + M <= M) /\ (i + M) - M = i
    BY <1>1
  <2> QED
    BY <1>1, <2>1
<1>5. ToSet(r) = ToSet(s) \cup ToSet(t)
  <2>1. \A x : x \in ToSet(r) <=> \E i \in 1..(M + N) : r[i] = x
    BY <1>1 DEF ToSet
  <2>2. \A x : x \in ToSet(s) <=> \E i \in 1..M : s[i] = x
    BY <1>1 DEF ToSet
  <2>3. \A x : x \in ToSet(t) <=> \E i \in 1..N : t[i] = x
    BY <1>1 DEF ToSet
  <2>4. \A x : x \in ToSet(r) => x \in ToSet(s) \/ x \in ToSet(t)
    BY <1>2, <2>1, <2>2, <2>3
  <2>5. \A x : x \in ToSet(s) => x \in ToSet(r)
    BY <1>3, <2>1, <2>2
  <2>6. \A x : x \in ToSet(t) => x \in ToSet(r)
    BY <1>4, <2>1, <2>3
  <2> QED
    BY <2>4, <2>5, <2>6
<1>6. ASSUME IsInjective(s), IsInjective(t), ToSet(s) \cap ToSet(t) = {}
      PROVE  IsInjective(r)
  <2> SUFFICES ASSUME NEW i \in 1..(M + N), NEW j \in 1..(M + N), r[i] = r[j]
               PROVE  i = j
    BY <1>1 DEF IsInjective
  <2>1. \A k \in 1..M : s[k] \in ToSet(s)
    BY <1>1 DEF ToSet
  <2>2. \A k \in 1..N : t[k] \in ToSet(t)
    BY <1>1 DEF ToSet
  <2>3. CASE i \in 1..M /\ r[i] = s[i] /\ j \in 1..M /\ r[j] = s[j]
    BY <1>1, <1>6, <2>3 DEF IsInjective
  <2>4. CASE i - M \in 1..N /\ r[i] = t[i - M] /\ j - M \in 1..N /\ r[j] = t[j - M]
    <3>1. i - M = j - M
      BY <1>1, <1>6, <2>4 DEF IsInjective
    <3> QED
      BY <1>1, <3>1
  <2>5. CASE i \in 1..M /\ r[i] = s[i] /\ j - M \in 1..N /\ r[j] = t[j - M]
    BY <1>6, <2>1, <2>2, <2>5
  <2>6. CASE i - M \in 1..N /\ r[i] = t[i - M] /\ j \in 1..M /\ r[j] = s[j]
    BY <1>6, <2>1, <2>2, <2>6
  <2> QED
    BY <1>2, <2>3, <2>4, <2>5, <2>6
<1> QED
  BY <1>1, <1>5, <1>6 DEF r

(* What the lists of a list have: each of them, and no other.              *)
LEMMA FlattenElements ==
  ASSUME NEW S, NEW lists \in Seq(Seq(S))
  PROVE  /\ FlattenSeq(lists) \in Seq(S)
         /\ \A x : x \in ToSet(FlattenSeq(lists)) <=> \E i \in 1..Len(lists) : x \in ToSet(lists[i])
<1> DEFINE N == Len(lists)
<1>1. N \in Nat /\ \A n \in 1..N : lists[n] \in Seq(S)
  OBVIOUS
<1>2. PICK f : Flattens(f, lists, S)
  BY FlattenIs
<1>3. /\ f \in [0..N -> Seq(S)] /\ f[0] = <<>> /\ FlattenSeq(lists) = f[N]
      /\ \A n \in 1..N : f[n] = f[n - 1] \o lists[n]
  BY <1>2 DEF Flattens
<1> HIDE DEF N
<1> DEFINE good == {n \in 0..N : \A x : x \in ToSet(f[n]) <=> \E i \in 1..n : x \in ToSet(lists[i])}
<1>4. 0 \in good
  <2>1. \A x : x \notin ToSet(<<>>)
    BY DEF ToSet
  <2> QED
    BY <1>1, <1>3, <2>1
<1>5. ASSUME NEW n \in 1..N, n - 1 \in good PROVE n \in good
  <2>1. n \in 0..N /\ n - 1 \in 0..N /\ \A i : i \in 1..n <=> i \in 1..(n - 1) \/ i = n
    BY <1>1
  <2>2. ToSet(f[n]) = ToSet(f[n - 1]) \cup ToSet(lists[n])
    <3>1. f[n - 1] \in Seq(S) /\ lists[n] \in Seq(S)
      BY <1>1, <1>3, <2>1
    <3>2. ToSet(f[n - 1] \o lists[n]) = ToSet(f[n - 1]) \cup ToSet(lists[n])
      BY <3>1, ConcatElements
    <3> QED
      BY <1>3, <3>2
  <2>3. \A x : x \in ToSet(f[n - 1]) <=> \E i \in 1..(n - 1) : x \in ToSet(lists[i])
    BY <1>5
  <2>4. \A x : x \in ToSet(f[n]) <=> \E i \in 1..n : x \in ToSet(lists[i])
    BY <2>1, <2>2, <2>3
  <2> QED
    BY <2>1, <2>4
<1>6. \A n \in 0..N : n \in good
  <2> HIDE DEF good
  <2> QED
    BY <1>1, <1>4, <1>5, Counting
<1>7. N \in 0..N
  BY <1>1
<1>8. \A x : x \in ToSet(f[N]) <=> \E i \in 1..N : x \in ToSet(lists[i])
  BY <1>6, <1>7
<1>9. f[N] \in Seq(S)
  BY <1>3, <1>7
<1> QED
  BY <1>3, <1>8, <1>9 DEF N

(* Nothing twice: not in a list, nor in two lists.                         *)
LEMMA FlattenInjective ==
  ASSUME NEW S, NEW lists \in Seq(Seq(S)),
         \A i \in 1..Len(lists) : IsInjective(lists[i]),
         \A i, j \in 1..Len(lists) : \A x : x \in ToSet(lists[i]) /\ x \in ToSet(lists[j]) => i = j
  PROVE  IsInjective(FlattenSeq(lists))
<1> DEFINE N == Len(lists)
<1>1. N \in Nat /\ \A n \in 1..N : lists[n] \in Seq(S)
  OBVIOUS
<1>2. PICK f : Flattens(f, lists, S)
  BY FlattenIs
<1>3. /\ f \in [0..N -> Seq(S)] /\ f[0] = <<>> /\ FlattenSeq(lists) = f[N]
      /\ \A n \in 1..N : f[n] = f[n - 1] \o lists[n]
  BY <1>2 DEF Flattens
<1> HIDE DEF N
<1> DEFINE good == {n \in 0..N : /\ IsInjective(f[n])
                                 /\ \A x \in ToSet(f[n]) : \E i \in 1..n : x \in ToSet(lists[i])}
<1>4. 0 \in good
  <2>1. IsInjective(<<>>) /\ ToSet(<<>>) = {}
    BY DEF ToSet, IsInjective
  <2> QED
    BY <1>1, <1>3, <2>1
<1>5. ASSUME NEW n \in 1..N, n - 1 \in good PROVE n \in good
  <2>1. /\ n \in 0..N /\ n - 1 \in 0..N /\ n \in 1..n
        /\ \A i \in 1..(n - 1) : i \in 1..n /\ i \in 1..N /\ i # n
    BY <1>1
  <2>2. f[n - 1] \in Seq(S) /\ lists[n] \in Seq(S) /\ f[n] = f[n - 1] \o lists[n]
    BY <1>1, <1>3, <2>1
  <2>3. IsInjective(f[n - 1]) /\ \A x \in ToSet(f[n - 1]) : \E i \in 1..(n - 1) : x \in ToSet(lists[i])
    BY <1>5
  <2>4. IsInjective(lists[n])
    BY DEF N
  <2>5. ToSet(f[n - 1]) \cap ToSet(lists[n]) = {}
    <3> SUFFICES ASSUME NEW x, x \in ToSet(f[n - 1]), x \in ToSet(lists[n]) PROVE FALSE
      OBVIOUS
    <3>1. PICK i \in 1..(n - 1) : x \in ToSet(lists[i])
      BY <2>3
    <3>2. i \in 1..N /\ i # n
      BY <2>1
    <3> QED
      BY <3>1, <3>2 DEF N
  <2>6. /\ ToSet(f[n - 1] \o lists[n]) = ToSet(f[n - 1]) \cup ToSet(lists[n])
        /\ IsInjective(f[n - 1] \o lists[n])
    BY <2>2, <2>3, <2>4, <2>5, ConcatElements
  <2>7. \A x \in ToSet(f[n]) : \E i \in 1..n : x \in ToSet(lists[i])
    BY <2>1, <2>2, <2>3, <2>6
  <2> QED
    BY <2>1, <2>2, <2>6, <2>7
<1>6. \A n \in 0..N : n \in good
  <2> HIDE DEF good
  <2> QED
    BY <1>1, <1>4, <1>5, Counting
<1>7. N \in 0..N
  BY <1>1
<1> QED
  BY <1>3, <1>6, <1>7

-----------------------------------------------------------------------------
(* Order, and parts of lists.                                              *)

(* Each element of a list with the one before it is in R.                  *)
Chained(list, R) == \A k \in 2..Len(list) : <<list[k - 1], list[k]>> \in R

(* Two chains whose ends fit are a chain.                                  *)
LEMMA ConcatChained ==
  ASSUME NEW S, NEW R, NEW s \in Seq(S), NEW t \in Seq(S), Chained(s, R), Chained(t, R),
         t # <<>>, s # <<>> => <<s[Len(s)], t[1]>> \in R
  PROVE  /\ Chained(s \o t, R) /\ s \o t # <<>>
         /\ (s \o t)[Len(s \o t)] = t[Len(t)]
<1> DEFINE M == Len(s)
           N == Len(t)
           r == s \o t
<1>1. /\ M \in Nat /\ N \in Nat \ {0} /\ (M = 0 <=> s = <<>>)
      /\ r \in Seq(S) /\ Len(r) = M + N
      /\ \A i \in 1..(M + N) : r[i] = IF i <= M THEN s[i] ELSE t[i - M]
  <2>1. r \in Seq(S) /\ Len(r) = M + N
        /\ \A i \in 1..(M + N) : r[i] = IF i <= M THEN s[i] ELSE t[i - M]
    BY ConcatProperties
  <2>2. M \in Nat /\ N \in Nat \ {0} /\ (M = 0 <=> s = <<>>)
    BY EmptySeq
  <2> QED
    BY <2>1, <2>2
<1>2. \A k \in 2..M : <<s[k - 1], s[k]>> \in R
  BY DEF Chained
<1>3. \A k \in 2..N : <<t[k - 1], t[k]>> \in R
  BY DEF Chained
<1>4. M # 0 => <<s[M], t[1]>> \in R
  BY <1>1
<1> HIDE DEF M, N, r
<1>5. ASSUME NEW k \in 2..(M + N)
      PROVE  <<r[k - 1], r[k]>> \in R
  <2>0. k \in 1..(M + N) /\ k - 1 \in 1..(M + N)
    BY <1>1
  <2>1. CASE k <= M
    <3>1. k \in 2..M /\ r[k] = s[k] /\ r[k - 1] = s[k - 1]
      BY <1>1, <2>0, <2>1
    <3> QED
      BY <1>2, <3>1
  <2>2. CASE k = M + 1
    <3>1. r[k - 1] = s[M] /\ r[k] = t[1] /\ M # 0
      BY <1>1, <2>0, <2>2
    <3> QED
      BY <1>4, <3>1
  <2>3. CASE k > M + 1
    <3>1. k - M \in 2..N /\ r[k] = t[k - M] /\ r[k - 1] = t[(k - M) - 1]
      <4>1. ~(k <= M) /\ ~(k - 1 <= M) /\ (k - 1) - M = (k - M) - 1 /\ k - M \in 2..N
        BY <1>1, <2>3
      <4> QED
        BY <1>1, <2>0, <4>1
    <3> QED
      BY <1>3, <3>1
  <2> QED
    BY <1>1, <2>1, <2>2, <2>3
<1>6. r # <<>> /\ r[M + N] = t[N]
  <2>1. M + N \in 1..(M + N) /\ ~(M + N <= M) /\ (M + N) - M = N
    BY <1>1
  <2>2. r # <<>>
    BY <1>1, EmptySeq
  <2> QED
    BY <1>1, <2>1, <2>2
<1> QED
  BY <1>1, <1>5, <1>6 DEF Chained, r, N

(* So are many.                                                            *)
LEMMA FlattenChained ==
  ASSUME NEW S, NEW R, NEW lists \in Seq(Seq(S)),
         \A i \in 1..Len(lists) : lists[i] # <<>> /\ Chained(lists[i], R),
         \A i \in 2..Len(lists) : <<lists[i - 1][Len(lists[i - 1])], lists[i][1]>> \in R
  PROVE  Chained(FlattenSeq(lists), R)
<1> DEFINE N == Len(lists)
<1>1. N \in Nat /\ \A n \in 1..N : lists[n] \in Seq(S)
  OBVIOUS
<1>2. PICK f : Flattens(f, lists, S)
  BY FlattenIs
<1>3. /\ f \in [0..N -> Seq(S)] /\ f[0] = <<>> /\ FlattenSeq(lists) = f[N]
      /\ \A n \in 1..N : f[n] = f[n - 1] \o lists[n]
  BY <1>2 DEF Flattens
<1>4. \A i \in 1..N : lists[i] # <<>> /\ Chained(lists[i], R)
  OBVIOUS
<1>5. \A i \in 2..N : <<lists[i - 1][Len(lists[i - 1])], lists[i][1]>> \in R
  OBVIOUS
<1> HIDE DEF N
<1> DEFINE good == {n \in 0..N : /\ Chained(f[n], R)
                                 /\ n # 0 => f[n] # <<>> /\ f[n][Len(f[n])] = lists[n][Len(lists[n])]}
<1>6. 0 \in good
  <2>1. Chained(<<>>, R)
    BY DEF Chained
  <2> QED
    BY <1>1, <1>3, <2>1
<1>7. ASSUME NEW n \in 1..N, n - 1 \in good PROVE n \in good
  <2>1. n \in 0..N /\ n # 0 /\ n - 1 \in 0..N /\ (n - 1 # 0 => n \in 2..N)
    BY <1>1
  <2>2. f[n - 1] \in Seq(S) /\ lists[n] \in Seq(S) /\ f[n] = f[n - 1] \o lists[n]
    BY <1>1, <1>3, <2>1
  <2>3. Chained(f[n - 1], R) /\ Chained(lists[n], R) /\ lists[n] # <<>>
    BY <1>4, <1>7
  <2>4. f[n - 1] # <<>> => <<f[n - 1][Len(f[n - 1])], lists[n][1]>> \in R
    <3>1. CASE n - 1 = 0
      BY <1>3, <3>1
    <3>2. CASE n - 1 # 0
      <4>1. f[n - 1][Len(f[n - 1])] = lists[n - 1][Len(lists[n - 1])]
        BY <1>7, <3>2
      <4> QED
        BY <1>5, <2>1, <3>2, <4>1
    <3> QED
      BY <3>1, <3>2
  <2>5. PICK a : a = f[n - 1]
    OBVIOUS
  <2>6. /\ Chained(a \o lists[n], R) /\ a \o lists[n] # <<>>
        /\ (a \o lists[n])[Len(a \o lists[n])] = lists[n][Len(lists[n])]
    <3>1. a \in Seq(S) /\ Chained(a, R) /\ (a # <<>> => <<a[Len(a)], lists[n][1]>> \in R)
      BY <2>2, <2>3, <2>4, <2>5
    <3> QED
      BY <2>2, <2>3, <3>1, ConcatChained
  <2>7. f[n] = a \o lists[n]
    BY <2>2, <2>5
  <2> QED
    BY <2>1, <2>6, <2>7
<1>8. \A n \in 0..N : n \in good
  <2> HIDE DEF good
  <2> QED
    BY <1>1, <1>6, <1>7, Counting
<1>9. N \in 0..N
  BY <1>1
<1> QED
  BY <1>3, <1>8, <1>9

(* A list at some of its places.                                           *)
LEMMA SublistIs ==
  ASSUME NEW S, NEW list \in Seq(S), NEW places, places \subseteq 1..Len(list)
  PROVE  /\ Sublist(list, places) \in Seq(S)
         /\ \A x : x \in ToSet(Sublist(list, places)) <=> \E i \in places : list[i] = x
         /\ IsInjective(list) => IsInjective(Sublist(list, places))
<1> DEFINE K == Cardinality(places)
           r == Sublist(list, places)
<1>1. places \in SUBSET Nat /\ IsFiniteSet(places)
  <2>1. Len(list) \in Nat
    OBVIOUS
  <2>2. IsFiniteSet(1..Len(list))
    BY <2>1, FS_Interval
  <2>3. places \in SUBSET (1..Len(list)) /\ places \in SUBSET Nat
    BY <2>1
  <2>4. IsFiniteSet(places)
    BY <2>2, <2>3, FS_Subset
  <2> QED
    BY <2>3, <2>4
<1>2. /\ K \in Nat /\ Ascending(places) \in [1..K -> places]
      /\ \A m, n \in 1..K : Ascending(places)[m] = Ascending(places)[n] => m = n
      /\ \A i \in places : \E n \in 1..K : Ascending(places)[n] = i
  BY <1>1, AscendingEnumerates
<1>3. r = [n \in 1..K |-> list[Ascending(places)[n]]]
  BY DEF Sublist
<1> HIDE DEF r, K
<1>4. \A i \in places : list[i] \in S /\ i \in DOMAIN list
  OBVIOUS
<1>5. r \in [1..K -> S]
  BY <1>2, <1>3, <1>4
<1>6. r \in Seq(S) /\ DOMAIN r = 1..K
  BY <1>2, <1>5, ListOf
<1>7. \A n \in 1..K : r[n] = list[Ascending(places)[n]] /\ Ascending(places)[n] \in places
  BY <1>2, <1>3
<1>8. \A x : x \in ToSet(r) <=> \E i \in places : list[i] = x
  <2>1. \A x : x \in ToSet(r) <=> \E n \in 1..K : r[n] = x
    BY <1>6 DEF ToSet
  <2>2. \A x : x \in ToSet(r) => \E i \in places : list[i] = x
    BY <1>7, <2>1
  <2>3. ASSUME NEW i \in places PROVE list[i] \in ToSet(r)
    <3>1. PICK n \in 1..K : Ascending(places)[n] = i
      BY <1>2
    <3> QED
      BY <1>7, <2>1, <3>1
  <2> QED
    BY <2>2, <2>3
<1>9. ASSUME IsInjective(list) PROVE IsInjective(r)
  <2>1. \A m, n \in 1..K : r[m] = r[n] => Ascending(places)[m] = Ascending(places)[n]
    BY <1>4, <1>7, <1>9 DEF IsInjective
  <2> QED
    BY <1>2, <1>6, <2>1 DEF IsInjective
<1> QED
  BY <1>6, <1>8, <1>9 DEF r

(* Best sorts: its places are all those of the list, each once.            *)
Sorts(at, list, scores, best) ==
  /\ at \in [1..Len(list) -> 1..Len(list)]
  /\ \A m, n \in 1..Len(list) : at[m] = at[n] => m = n
  /\ \A i \in 1..Len(list) : \E n \in 1..Len(list) : at[n] = i
  /\ \A m, n \in 1..Len(list) : m < n => scores[at[m]] >= scores[at[n]]
  /\ best = [n \in 1..Len(list) |-> list[at[n]]]

(* Equals stay in order, so that every place is taken.                     *)
LEMMA BestSorts ==
  ASSUME NEW S, NEW list \in Seq(S), NEW scores \in [1..Len(list) -> Int]
  PROVE  \E at : Sorts(at, list, scores, Best(list, scores, Len(list)))
<1> DEFINE N == Len(list)
           before(i, j) == scores[i] > scores[j] \/ (scores[i] = scores[j] /\ i < j)
           ahead(i) == {j \in 1..N : before(j, i)}
           place(i) == 1 + Cardinality(ahead(i))
           at == [n \in 1..N |-> CHOOSE i \in 1..N : place(i) = n]
           places == [i \in 1..N |-> place(i)]
<1>1. N \in Nat /\ DOMAIN list = 1..N /\ IsFiniteSet(1..N) /\ Cardinality(1..N) = N
  <2>1. N \in Nat /\ DOMAIN list = 1..N
    OBVIOUS
  <2> HIDE DEF N
  <2>2. IsFiniteSet(1..N) /\ Cardinality(1..N) = IF 1 > N THEN 0 ELSE N - 1 + 1
    BY <2>1, FS_Interval
  <2> QED
    BY <2>1, <2>2
<1>2. Best(list, scores, N) = [n \in 1..N |-> list[at[n]]]
  <2>1. Smaller(N, N) = N
    BY <1>1 DEF Smaller
  <2> QED
    BY <1>1, <2>1 DEF Best
<1>3. \A i \in 1..N : scores[i] \in Int
  OBVIOUS
<1> HIDE DEF N
<1>4. \A i, j \in 1..N : i # j => before(i, j) \/ before(j, i)
  BY <1>1, <1>3
<1>5. \A i, j, k \in 1..N : before(i, j) /\ before(j, k) => before(i, k)
  BY <1>1, <1>3
<1>6. \A i \in 1..N : ~before(i, i)
  BY <1>1, <1>3
<1>7. \A i, j \in 1..N : before(i, j) => scores[i] >= scores[j]
  BY <1>3
<1> HIDE DEF before
<1>8. \A i \in 1..N : IsFiniteSet(ahead(i)) /\ Cardinality(ahead(i)) \in Nat /\ place(i) \in 1..N
  <2> SUFFICES ASSUME NEW i \in 1..N
               PROVE  IsFiniteSet(ahead(i)) /\ Cardinality(ahead(i)) \in Nat /\ place(i) \in 1..N
    OBVIOUS
  <2>1. ahead(i) \in SUBSET (1..N) /\ ahead(i) # 1..N
    BY <1>6
  <2>2. /\ IsFiniteSet(ahead(i)) /\ Cardinality(ahead(i)) <= N
        /\ Cardinality(ahead(i)) # N
    <3> HIDE DEF ahead
    <3> QED
      BY <1>1, <2>1, FS_Subset
  <2>3. Cardinality(ahead(i)) \in Nat
    BY <2>2, FS_CardinalityType
  <2>4. PICK k : k = Cardinality(ahead(i))
    OBVIOUS
  <2>5. k \in Nat /\ k <= N /\ k # N
    BY <2>2, <2>3, <2>4
  <2>6. 1 + k \in 1..N
    BY <1>1, <2>5
  <2> QED
    BY <2>2, <2>3, <2>4, <2>6
<1>9. ASSUME NEW i \in 1..N, NEW j \in 1..N, before(i, j)
      PROVE  place(i) < place(j)
  <2>1. ahead(i) \in SUBSET ahead(j) /\ i \in ahead(j) /\ i \notin ahead(i)
    BY <1>5, <1>6, <1>9
  <2>2. /\ Cardinality(ahead(i)) <= Cardinality(ahead(j))
        /\ Cardinality(ahead(i)) # Cardinality(ahead(j))
    <3>1. IsFiniteSet(ahead(i)) /\ IsFiniteSet(ahead(j)) /\ ahead(i) # ahead(j)
      BY <1>8, <2>1
    <3> HIDE DEF ahead
    <3> QED
      BY <2>1, <3>1, FS_Subset
  <2>3. PICK a, b : a = Cardinality(ahead(i)) /\ b = Cardinality(ahead(j))
    OBVIOUS
  <2>4. a \in Nat /\ b \in Nat /\ a <= b /\ a # b
    BY <1>8, <2>2, <2>3
  <2>5. 1 + a < 1 + b
    BY <2>4
  <2> QED
    BY <2>3, <2>5
<1> HIDE DEF ahead, place
<1>10. \A i \in 1..N : place(i) \in 1..N
  BY <1>8 DEF place
<1>11. \A i, j \in 1..N : place(i) = place(j) => i = j
  <2>1. \A i \in 1..N : place(i) \in Nat
    BY <1>1, <1>10
  <2> QED
    BY <1>4, <1>9, <2>1
<1>12. places \in Injection(1..N, 1..N)
  <2>1. places \in [1..N -> 1..N]
    BY <1>10
  <2>2. \A i \in 1..N : places[i] = place(i)
    OBVIOUS
  <2> HIDE DEF places
  <2> QED
    BY <1>11, <2>1, <2>2 DEF Injection, IsInjective
<1>13. places \in Surjection(1..N, 1..N)
  <2> HIDE DEF places
  <2> QED
    BY <1>1, <1>12, FS_Injection
<1>14. \A n \in 1..N : \E i \in 1..N : place(i) = n
  BY <1>13 DEF Surjection
<1>15. \A n \in 1..N : at[n] \in 1..N /\ place(at[n]) = n
  BY <1>14
<1>16. at \in [1..N -> 1..N]
  BY <1>15
<1> HIDE DEF at
<1>17. \A m, n \in 1..N : at[m] = at[n] => m = n
  BY <1>15
<1>18. \A i \in 1..N : \E n \in 1..N : at[n] = i
  BY <1>10, <1>11, <1>15
<1>19. \A m, n \in 1..N : m < n => scores[at[m]] >= scores[at[n]]
  <2> SUFFICES ASSUME NEW m \in 1..N, NEW n \in 1..N, m < n
               PROVE  scores[at[m]] >= scores[at[n]]
    OBVIOUS
  <2>1. at[m] \in 1..N /\ at[n] \in 1..N /\ place(at[m]) = m /\ place(at[n]) = n
    BY <1>15
  <2>2. at[m] # at[n] /\ ~(n < m)
    BY <1>1, <1>17
  <2>3. ~before(at[n], at[m])
    BY <1>9, <2>1, <2>2
  <2> QED
    BY <1>4, <1>7, <2>1, <2>2, <2>3
<1> QED
  <2>1. Sorts(at, list, scores, Best(list, scores, N))
    BY <1>2, <1>16, <1>17, <1>18, <1>19 DEF Sorts, N
  <2> QED
    BY <2>1 DEF N

(* A part of 1..n that has all the numbers below each of its own is 1..k.  *)
LEMMA Beginning ==
  ASSUME NEW n \in Nat, NEW part \in SUBSET (1..n),
         \A k \in part : \A m \in 1..k : m \in part
  PROVE  /\ Cardinality(part) \in 0..n /\ part = 1..Cardinality(part)
<1> DEFINE out == {k \in 1..(n + 1) : k \notin part}
<1>1. n + 1 \in out /\ out \in SUBSET Nat
  OBVIOUS
<1>2. PICK k \in out : \A m \in out : k <= m
  <2>1. out # {}
    BY <1>1
  <2> HIDE DEF out
  <2> QED
    BY <1>1, <2>1, LeastNumber
<1>3. k \in 1..(n + 1) /\ k \notin part
  BY <1>2
<1>4. \A m \in 1..(k - 1) : m \in part
  <2> SUFFICES ASSUME NEW m \in 1..(k - 1), m \notin part PROVE FALSE
    OBVIOUS
  <2>1. m \in 1..(n + 1) /\ ~(k <= m)
    BY <1>3
  <2>2. m \in out
    BY <2>1
  <2> HIDE DEF out
  <2> QED
    BY <1>2, <2>1, <2>2
<1>5. \A m \in part : m \in 1..(k - 1)
  <2> SUFFICES ASSUME NEW m \in part, ~(m < k) PROVE FALSE
    BY <1>3
  <2>1. m \in 1..n /\ k \in 1..m
    BY <1>3
  <2> QED
    BY <1>3, <2>1
<1>6. part = 1..(k - 1)
  BY <1>4, <1>5
<1>7. Cardinality(1..(k - 1)) = k - 1
  <2>1. k - 1 \in Nat /\ 1 \in Int /\ k - 1 \in Int
    BY <1>3
  <2>2. Cardinality(1..(k - 1)) = IF 1 > k - 1 THEN 0 ELSE (k - 1) - 1 + 1
    BY <2>1, FS_Interval
  <2> QED
    BY <2>1, <2>2
<1>8. k - 1 \in 0..n
  BY <1>3
<1> QED
  BY <1>6, <1>7, <1>8

-----------------------------------------------------------------------------
(* Chunks.                                                                 *)

(* The windows of the lines from..to start Stride lines apart, and the     *)
(* last is the first that reaches the end.                                 *)
Cut(from, to, count, start) ==
  /\ count \in Nat \ {0} /\ start \in [1..count -> Nat] /\ start[1] = from
  /\ \A k \in 2..count : start[k] = start[k - 1] + Stride /\ start[k] <= to
  /\ \A k \in 1..count : start[k] + WindowLines > to <=> k = count
  /\ Windows(from, to) =
       [k \in 1..count |-> [from |-> start[k], to |-> Smaller(to, start[k] + WindowLines - 1)]]

(* There is a first window that reaches the end: the one that starts at the *)
(* last line does, if no other.                                            *)
LEMMA WindowsAre ==
  ASSUME NEW from \in Nat \ {0}, NEW to \in Nat, from <= to
  PROVE  /\ Stride \in 1..WindowLines
         /\ \E count, start : Cut(from, to, count, start)
<1> DEFINE Start(k)   == from + (k - 1) * Stride
           reaches(k) == from + (k - 1) * Stride + WindowLines > to
           some == {k \in 1..Larger(1, to) : reaches(k)}
           isCount(k) == reaches(k) /\ \A m \in 1..(k - 1) : ~reaches(m)
           count == CHOOSE k \in 1..Larger(1, to) : isCount(k)
<1>1. Stride \in 1..WindowLines /\ Stride \in Nat /\ WindowLines \in Nat
  BY IndexSearchAssumption DEF Stride, Larger
<1>2. Larger(1, to) = to /\ to \in Nat \ {0}
  BY DEF Larger
<1>3. Windows(from, to) = [k \in 1..count |->
        [from |-> Start(k), to |-> Smaller(to, Start(k) + WindowLines - 1)]]
  BY DEF Windows
<1>4. \A a, b \in Nat : a * b \in Nat
  OBVIOUS
<1>5. \A k \in Nat \ {0} : Start(k) \in Nat /\ Start(k + 1) = Start(k) + Stride
  <2> SUFFICES ASSUME NEW k \in Nat \ {0}
               PROVE  Start(k) \in Nat /\ Start(k + 1) = Start(k) + Stride
    OBVIOUS
  <2>1. PICK s : s = Stride
    OBVIOUS
  <2>2. k - 1 \in Nat /\ s \in Nat
    BY <1>1, <2>1
  <2>3. (k - 1) * s \in Nat
    BY <1>4, <2>2
  <2>4. ((k + 1) - 1) * s = (k - 1) * s + s
    BY <2>2
  <2> QED
    BY <2>1, <2>2, <2>3, <2>4
<1>6. to \in some
  <2>1. \A a \in Nat, s \in Nat \ {0} : a <= a * s
    <3> SUFFICES ASSUME NEW a \in Nat, NEW s \in Nat \ {0} PROVE a <= a * s
      OBVIOUS
    <3>1. s - 1 \in Nat /\ a * (s - 1) \in Nat
      BY <1>4
    <3>2. a * s = a + a * (s - 1)
      OBVIOUS
    <3> QED
      BY <3>1, <3>2
  <2>2. to - 1 \in Nat /\ Stride \in Nat \ {0}
    BY <1>1, <1>2
  <2>3. to - 1 <= (to - 1) * Stride
    BY <2>1, <2>2
  <2>4. (to - 1) * Stride \in Nat
    BY <1>4, <2>2
  <2>5. PICK p : p = (to - 1) * Stride
    OBVIOUS
  <2>6. from + p + WindowLines > to
    BY <1>1, <2>3, <2>4, <2>5
  <2>7. reaches(to)
    BY <2>5, <2>6
  <2> HIDE DEF reaches
  <2> QED
    BY <1>2, <2>7
<1>7. count \in 1..Larger(1, to) /\ isCount(count)
  <2>1. \A k \in some : k \in Nat
    BY <1>2
  <2> HIDE DEF some
  <2>2. PICK k \in some : \A m \in some : k <= m
    BY <1>6, <2>1, LeastNumber
  <2>3. k \in 1..Larger(1, to) /\ reaches(k)
    BY <2>2 DEF some
  <2>4. \A m \in 1..(k - 1) : m \in 1..Larger(1, to) /\ ~ (k <= m)
    BY <1>2, <2>3
  <2> HIDE DEF reaches
  <2>5. \A m \in 1..(k - 1) : ~reaches(m)
    BY <2>2, <2>4 DEF some
  <2> QED
    BY <2>3, <2>5
<1> HIDE DEF count
<1> DEFINE start == [k \in 1..count |-> Start(k)]
<1>8. count \in Nat \ {0}
  BY <1>2, <1>7
<1>9. \A k \in 1..count : Start(k) + WindowLines > to <=> k = count
  <2>1. \A k \in 1..count : k = count \/ k \in 1..(count - 1)
    BY <1>8
  <2>2. \A k \in 1..(count - 1) : k # count
    BY <1>8
  <2> HIDE DEF Start
  <2>3. \A k : reaches(k) <=> Start(k) + WindowLines > to
    BY DEF Start
  <2> HIDE DEF reaches
  <2> QED
    BY <1>7, <2>1, <2>2, <2>3
<1>10. Start(1) = from
  <2>1. \A s \in Nat : (1 - 1) * s = 0
    OBVIOUS
  <2> QED
    BY <1>1, <2>1
<1> HIDE DEF Start, reaches
<1>11. \A k \in 2..count : Start(k) = Start(k - 1) + Stride /\ Start(k) <= to
  <2> SUFFICES ASSUME NEW k \in 2..count
               PROVE  Start(k) = Start(k - 1) + Stride /\ Start(k) <= to
    OBVIOUS
  <2>1. PICK j : j = k - 1
    OBVIOUS
  <2>2. j \in Nat \ {0} /\ j \in 1..count /\ j # count /\ k = j + 1
    BY <1>8, <2>1
  <2>3. Start(k) = Start(j) + Stride /\ Start(j) \in Nat
    BY <1>5, <2>2
  <2>4. ~ (Start(j) + WindowLines > to)
    BY <1>9, <2>2
  <2> QED
    BY <1>1, <2>1, <2>3, <2>4
<1>12. start \in [1..count -> Nat] /\ \A k \in 1..count : start[k] = Start(k)
  BY <1>5
<1>13. \A k \in 2..count : k \in 1..count /\ k - 1 \in 1..count
  BY <1>8
<1>14. 1 \in 1..count
  BY <1>8
<1> HIDE DEF start
<1>15. start[1] = from /\ \A k \in 2..count : start[k] = start[k - 1] + Stride /\ start[k] <= to
  BY <1>10, <1>11, <1>12, <1>13, <1>14
<1>16. \A k \in 1..count : start[k] + WindowLines > to <=> k = count
  BY <1>9, <1>12
<1>17. Windows(from, to) =
         [k \in 1..count |-> [from |-> start[k], to |-> Smaller(to, start[k] + WindowLines - 1)]]
  BY <1>3, <1>12
<1>18. Cut(from, to, count, start)
  BY <1>8, <1>12, <1>15, <1>16, <1>17 DEF Cut
<1> QED
  BY <1>1, <1>18

(* A chunk has a line.                                                     *)
Chunk == {c \in [from : Nat \ {0}, to : Nat \ {0}] : c.from <= c.to}

(* A list of chunks has each of the lines and no other, from the first to  *)
(* the last, and each chunk starts and ends after the one before.          *)
Covers(w, from, to) ==
  /\ w \in Seq(Chunk) /\ w # <<>> /\ w[1].from = from /\ w[Len(w)].to = to
  /\ \A k \in DOMAIN w : w[k].from..w[k].to \subseteq from..to
  /\ \A line \in from..to : \E k \in DOMAIN w : line \in w[k].from..w[k].to
  /\ \A k \in DOMAIN w : k > 1 => w[k].from > w[k - 1].from /\ w[k].to > w[k - 1].to

(* A file is searched to its last line, whatever the window and the        *)
(* overlap (chunker.py:36-55).                                             *)
THEOREM WindowsCover ==
  ASSUME NEW from \in Nat \ {0}, NEW to \in Nat, from <= to
  PROVE  Covers(Windows(from, to), from, to)
<1> DEFINE w == Windows(from, to)
<1>1. Stride \in 1..WindowLines /\ WindowLines \in Nat
  BY WindowsAre, IndexSearchAssumption
<1>0. PICK count, start : Cut(from, to, count, start)
  BY WindowsAre
<1>2. /\ count \in Nat \ {0} /\ start \in [1..count -> Nat] /\ start[1] = from
      /\ \A k \in 2..count : start[k] = start[k - 1] + Stride /\ start[k] <= to
      /\ \A k \in 1..count : start[k] + WindowLines > to <=> k = count
      /\ w = [k \in 1..count |-> [from |-> start[k],
                                  to   |-> Smaller(to, start[k] + WindowLines - 1)]]
  BY <1>0 DEF Cut
<1> HIDE DEF w
<1> DEFINE end(k) == Smaller(to, start[k] + WindowLines - 1)
<1>3. DOMAIN w = 1..count /\ \A k \in 1..count : w[k].from = start[k] /\ w[k].to = end(k)
  BY <1>2
<1>4. \A k \in 1..count : /\ start[k] \in Nat /\ end(k) \in Nat /\ end(k) <= to
                          /\ \A line \in Nat : line <= to /\ line < start[k] + WindowLines
                               => line <= end(k)
  <2> SUFFICES ASSUME NEW k \in 1..count
               PROVE  /\ start[k] \in Nat /\ end(k) \in Nat /\ end(k) <= to
                      /\ \A line \in Nat : line <= to /\ line < start[k] + WindowLines
                           => line <= end(k)
    OBVIOUS
  <2>1. start[k] \in Nat
    BY <1>2
  <2>2. PICK s : s = start[k]
    OBVIOUS
  <2> QED
    BY <1>1, <2>1, <2>2 DEF Smaller
<1>5. \A k \in 1..count : k # 1 => k \in 2..count /\ k - 1 \in 1..count /\ k - 1 # count
  BY <1>2
<1>7. \A k \in 1..count : start[k] >= from
  <2> DEFINE bad == {k \in 1..count : ~ (start[k] >= from)}
  <2> SUFFICES ASSUME bad # {} PROVE FALSE
    OBVIOUS
  <2>1. PICK k \in bad : \A m \in bad : k <= m
    <3>1. bad \in SUBSET Nat
      OBVIOUS
    <3> HIDE DEF bad
    <3> QED
      BY <3>1, LeastNumber
  <2>2. k \in 1..count /\ ~ (start[k] >= from)
    BY <2>1
  <2>3. k # 1
    BY <1>2, <2>2
  <2>4. k - 1 \notin bad
    <3>1. ~ (k <= k - 1)
      BY <2>2
    <3> HIDE DEF bad
    <3> QED
      BY <2>1, <3>1
  <2>5. start[k - 1] >= from /\ start[k - 1] \in Nat /\ start[k] = start[k - 1] + Stride
    BY <1>2, <1>4, <1>5, <2>2, <2>3, <2>4
  <2> QED
    BY <1>1, <2>2, <2>5
<1>8. \A k \in 1..count : start[k]..end(k) \subseteq from..to
  <2> SUFFICES ASSUME NEW k \in 1..count, NEW line \in start[k]..end(k) PROVE line \in from..to
    OBVIOUS
  <2>1. start[k] \in Nat /\ end(k) \in Nat /\ end(k) <= to /\ start[k] >= from
    BY <1>4, <1>7
  <2> HIDE DEF end
  <2> QED
    BY <2>1
<1>9. \A line \in from..to : \E k \in 1..count : line \in start[k]..end(k)
  <2> SUFFICES ASSUME NEW line \in from..to PROVE \E k \in 1..count : line \in start[k]..end(k)
    OBVIOUS
  <2>0. line \in Nat /\ line <= to /\ from <= line
    OBVIOUS
  <2>1. CASE start[count] <= line
    <3>1. count \in 1..count /\ start[count] + WindowLines > to
      BY <1>2
    <3>2. start[count] \in Nat /\ line < start[count] + WindowLines
      BY <1>1, <1>4, <2>0, <3>1
    <3>3. line <= end(count) /\ end(count) \in Nat
      BY <1>4, <2>0, <3>1, <3>2
    <3> HIDE DEF end
    <3> QED
      BY <2>0, <2>1, <3>1, <3>2, <3>3
  <2>2. CASE ~ (start[count] <= line)
    <3> DEFINE later == {k \in 1..count : line < start[k]}
    <3>1. count \in later
      BY <1>2, <1>4, <2>0, <2>2
    <3>2. PICK k \in later : \A m \in later : k <= m
      <4>1. later \in SUBSET Nat
        OBVIOUS
      <4> HIDE DEF later
      <4> QED
        BY <3>1, <4>1, LeastNumber
    <3>3. k \in 1..count /\ line < start[k]
      BY <3>2
    <3>4. k # 1
      BY <1>2, <2>0, <3>3
    <3>5. PICK j : j = k - 1
      OBVIOUS
    <3>6. j \in 1..count /\ ~ (k <= j) /\ start[k] = start[j] + Stride
      BY <1>2, <1>5, <3>3, <3>4, <3>5
    <3>7. ~ (line < start[j]) /\ start[j] \in Nat
      <4>1. j \notin later
        <5> HIDE DEF later
        <5> QED
          BY <3>2, <3>6
      <4> QED
        BY <1>4, <3>6, <4>1
    <3>8. line < start[j] + WindowLines /\ start[j] <= line
      BY <1>1, <2>0, <3>3, <3>6, <3>7
    <3>9. line <= end(j) /\ end(j) \in Nat
      BY <1>4, <2>0, <3>6, <3>8
    <3> HIDE DEF end, later
    <3> QED
      BY <2>0, <3>6, <3>7, <3>8, <3>9
  <2> QED
    BY <2>1, <2>2
<1>10. \A k \in 1..count : k > 1 => start[k] > start[k - 1] /\ end(k) > end(k - 1)
  <2> SUFFICES ASSUME NEW k \in 1..count, k > 1
               PROVE  start[k] > start[k - 1] /\ end(k) > end(k - 1)
    OBVIOUS
  <2>1. PICK j : j = k - 1
    OBVIOUS
  <2>2. /\ j \in 1..count /\ start[k] = start[j] + Stride /\ start[j] \in Nat
        /\ ~ (start[j] + WindowLines > to)
    BY <1>2, <1>4, <1>5, <2>1
  <2>3. start[k] > start[j]
    BY <1>1, <2>2
  <2>4. end(k) > end(j)
    BY <1>1, <2>2 DEF Smaller
  <2> HIDE DEF end
  <2> QED
    BY <2>1, <2>3, <2>4
<1>6. \A k \in 1..count : start[k] \in Nat \ {0} /\ end(k) \in Nat \ {0} /\ start[k] <= end(k)
  <2> SUFFICES ASSUME NEW k \in 1..count
               PROVE  start[k] \in Nat \ {0} /\ end(k) \in Nat \ {0} /\ start[k] <= end(k)
    OBVIOUS
  <2>1. start[k] \in Nat /\ start[k] >= from /\ start[k] <= to
    <3>1. CASE k = 1
      BY <1>2, <3>1
    <3>2. CASE k # 1
      BY <1>2, <1>5, <1>7, <3>2
    <3> QED
      BY <3>1, <3>2
  <2>2. PICK s : s = start[k]
    OBVIOUS
  <2> QED
    BY <1>1, <2>1, <2>2 DEF Smaller
<1>14. end(count) = to
  <2>1. count \in 1..count /\ start[count] \in Nat /\ start[count] + WindowLines > to
    BY <1>2, <1>4
  <2>2. PICK s : s = start[count]
    OBVIOUS
  <2> QED
    BY <1>1, <2>1, <2>2 DEF Smaller
<1> HIDE DEF end
<1>15. w \in Seq(Chunk) /\ Len(w) = count /\ w # <<>> /\ w[1].from = from /\ w[Len(w)].to = to
  <2>1. w = [k \in 1..count |-> [from |-> start[k], to |-> end(k)]]
    BY <1>2 DEF end
  <2>2. w \in [1..count -> Chunk]
    BY <1>6, <2>1 DEF Chunk
  <2>3. count \in Nat
    BY <1>2
  <2>4. w \in Seq(Chunk) /\ Len(w) = count
    BY <2>2, <2>3, ListOf
  <2>5. 1 \in 1..count /\ count \in 1..count
    BY <1>2
  <2>6. w # <<>>
    BY <1>2, <2>4, EmptySeq
  <2> QED
    BY <1>2, <1>3, <1>14, <2>4, <2>5, <2>6
<1>11. \A k \in DOMAIN w : w[k].from..w[k].to \subseteq from..to
  BY <1>3, <1>8
<1>12. \A line \in from..to : \E k \in DOMAIN w : line \in w[k].from..w[k].to
  BY <1>3, <1>9
<1>13. \A k \in DOMAIN w : k > 1 => w[k].from > w[k - 1].from /\ w[k].to > w[k - 1].to
  <2>1. \A k \in 1..count : k > 1 => k - 1 \in 1..count
    BY <1>2
  <2> QED
    BY <1>3, <1>10, <2>1
<1> QED
  BY <1>11, <1>12, <1>13, <1>15 DEF Covers, w

(* A chunk after another: it starts and ends later, or starts where the    *)
(* other ends.                                                             *)
After(a, b) == \/ b.from > a.from /\ b.to > a.to
               \/ b.from = a.to

(* The pairs of chunks of which the second is after the first.             *)
Follows == {pair \in Chunk \X Chunk : After(pair[1], pair[2])}

(* Chunks have the lines from..to, and each is after the one before it.    *)
LinesInOrder(w, from, to) ==
  /\ w \in Seq(Chunk) /\ w # <<>> /\ w[1].from = from /\ w[Len(w)].to = to
  /\ Chained(w, Follows)
  /\ \A line : (\E c \in ToSet(w) : line \in c.from..c.to) <=> line \in from..to
  /\ \A c \in ToSet(w) : c \in Chunk /\ c.to <= to

(* Windows do.                                                             *)
LEMMA WindowsFollow ==
  ASSUME NEW from \in Nat \ {0}, NEW to \in Nat, from <= to
  PROVE  LinesInOrder(Windows(from, to), from, to)
<1>0. Covers(Windows(from, to), from, to)
  BY WindowsCover
<1>1. PICK w : w = Windows(from, to)
  OBVIOUS
<1>2. /\ w \in Seq(Chunk) /\ w # <<>>
      /\ w[1].from = from /\ w[Len(w)].to = to
      /\ \A k \in DOMAIN w : w[k].from..w[k].to \subseteq from..to
      /\ \A line \in from..to : \E k \in DOMAIN w : line \in w[k].from..w[k].to
      /\ \A k \in DOMAIN w : k > 1 => w[k].from > w[k - 1].from /\ w[k].to > w[k - 1].to
  BY <1>0, <1>1 DEF Covers
<1>3. DOMAIN w = 1..Len(w) /\ Len(w) \in Nat /\ \A k \in 1..Len(w) : w[k] \in Chunk
  BY <1>2
<1>4. Chained(w, Follows)
  <2> SUFFICES ASSUME NEW k \in 2..Len(w) PROVE <<w[k - 1], w[k]>> \in Follows
    BY DEF Chained
  <2>1. k \in DOMAIN w /\ k > 1 /\ k - 1 \in DOMAIN w
    BY <1>3
  <2>2. After(w[k - 1], w[k])
    BY <1>2, <2>1 DEF After
  <2>3. w[k - 1] \in Chunk /\ w[k] \in Chunk
    BY <1>3, <2>1
  <2> QED
    BY <2>2, <2>3 DEF Follows
<1>5. ASSUME NEW c \in ToSet(w)
      PROVE  c \in Chunk /\ c.to <= to /\ \A line \in c.from..c.to : line \in from..to
  <2>1. PICK k \in DOMAIN w : c = w[k]
    BY <1>5 DEF ToSet
  <2>2. c \in Chunk /\ \A line \in c.from..c.to : line \in from..to
    BY <1>2, <1>3, <2>1
  <2>3. c.from \in Nat /\ c.to \in Nat /\ c.from <= c.to
    BY <2>2 DEF Chunk
  <2>4. c.to \in c.from..c.to
    BY <2>3
  <2> QED
    BY <2>2, <2>3, <2>4
<1>6. ASSUME NEW line \in from..to PROVE \E c \in ToSet(w) : line \in c.from..c.to
  <2>1. PICK k \in DOMAIN w : line \in w[k].from..w[k].to
    BY <1>2
  <2>2. w[k] \in ToSet(w)
    BY <2>1 DEF ToSet
  <2> QED
    BY <2>1, <2>2
<1> QED
  BY <1>1, <1>2, <1>4, <1>5, <1>6 DEF LinesInOrder

(* What a parsed file consists of.                                         *)
LEMMA FileFields ==
  ASSUME NEW file \in File, Parsed(file)
  PROVE  /\ file.lines \in Nat /\ file.symbols \in Seq(Symbol) /\ Len(file.symbols) \in Nat
         /\ DOMAIN file.symbols = 1..Len(file.symbols)
         /\ (file.symbols = <<>> <=> Len(file.symbols) = 0)
         /\ \A i \in 1..Len(file.symbols) :
              /\ file.symbols[i].from \in Nat \ {0} /\ file.symbols[i].to \in Nat
              /\ file.symbols[i].from <= file.symbols[i].to
              /\ file.symbols[i].to <= file.lines
         /\ \A i \in 2..Len(file.symbols) : file.symbols[i - 1].to <= file.symbols[i].from
<1>1. file.lines \in Nat /\ file.symbols \in Seq(Symbol)
  BY DEF File
<1>2. PICK s : s = file.symbols
  OBVIOUS
<1>3. /\ Len(s) \in Nat /\ DOMAIN s = 1..Len(s) /\ (s = <<>> <=> Len(s) = 0)
      /\ \A i \in 1..Len(s) : s[i] \in Symbol
  <2>1. s \in Seq(Symbol)
    BY <1>1, <1>2
  <2> QED
    BY <2>1, EmptySeq
<1>4. \A i \in 1..Len(s) : s[i].from <= s[i].to /\ s[i].to <= file.lines
  BY <1>2, <1>3 DEF Parsed
<1>5. \A i \in 2..Len(s) : s[i - 1].to <= s[i].from
  <2>1. \A i \in 2..Len(s) : i \in DOMAIN s /\ i > 1
    BY <1>3
  <2> QED
    BY <1>2, <2>1 DEF Parsed
<1>6. \A i \in 1..Len(s) : s[i].from \in Nat \ {0} /\ s[i].to \in Nat
  BY <1>3 DEF Symbol
<1> QED
  BY <1>1, <1>2, <1>3, <1>4, <1>5, <1>6

(* The chunks of the symbols are theirs, in order.                         *)
LEMMA SymbolChunksAre ==
  ASSUME NEW file \in File, Parsed(file)
  PROVE  /\ SymbolChunks(file.symbols) \in Seq(Chunk)
         /\ Chained(SymbolChunks(file.symbols), Follows)
         /\ \A line : (\E c \in ToSet(SymbolChunks(file.symbols)) : line \in c.from..c.to)
              <=> \E i \in 1..Len(file.symbols) : line \in file.symbols[i].from..file.symbols[i].to
         /\ \A c \in ToSet(SymbolChunks(file.symbols)) : c.to <= file.lines
<1>1. PICK s, N : s = file.symbols /\ N = Len(s)
  OBVIOUS
<1>2. /\ N \in Nat /\ DOMAIN s = 1..N /\ file.lines \in Nat
      /\ \A i \in 1..N : /\ s[i].from \in Nat \ {0} /\ s[i].to \in Nat
                         /\ s[i].from <= s[i].to /\ s[i].to <= file.lines
      /\ \A i \in 2..N : s[i - 1].to <= s[i].from
  BY <1>1, FileFields
<1> DEFINE lists == [i \in 1..N |-> Windows(s[i].from, s[i].to)]
<1>3. SymbolChunks(s) = FlattenSeq(lists)
  BY <1>2 DEF SymbolChunks
<1>4. \A i \in 1..N : lists[i] = Windows(s[i].from, s[i].to)
  OBVIOUS
<1>5. ASSUME NEW i \in 1..N
      PROVE  /\ lists[i] \in Seq(Chunk) /\ lists[i] # <<>>
             /\ lists[i][1].from = s[i].from /\ lists[i][Len(lists[i])].to = s[i].to
             /\ Chained(lists[i], Follows)
             /\ \A line : (\E c \in ToSet(lists[i]) : line \in c.from..c.to)
                             <=> line \in s[i].from..s[i].to
             /\ \A c \in ToSet(lists[i]) : c.to <= file.lines
  <2>1. PICK from, to : from = s[i].from /\ to = s[i].to
    OBVIOUS
  <2>2. from \in Nat \ {0} /\ to \in Nat /\ from <= to /\ to <= file.lines
    BY <1>2, <2>1
  <2>3. PICK w : w = Windows(from, to)
    OBVIOUS
  <2>4. /\ w \in Seq(Chunk) /\ w # <<>> /\ w[1].from = from /\ w[Len(w)].to = to
        /\ Chained(w, Follows)
        /\ \A line : (\E c \in ToSet(w) : line \in c.from..c.to) <=> line \in from..to
        /\ \A c \in ToSet(w) : c \in Chunk /\ c.to <= to
    <3>1. LinesInOrder(w, from, to)
      BY <2>2, <2>3, WindowsFollow
    <3> QED
      BY <3>1 DEF LinesInOrder
  <2>5. \A c \in ToSet(w) : c.to <= file.lines
    <3>1. \A c \in Chunk : c.to \in Nat
      BY DEF Chunk
    <3> QED
      BY <1>2, <2>2, <2>4, <3>1
  <2>6. lists[i] = w
    BY <1>4, <2>1, <2>3
  <2> HIDE DEF lists
  <2> QED
    BY <2>1, <2>4, <2>5, <2>6
<1>6. lists \in Seq(Seq(Chunk)) /\ Len(lists) = N
  <2>1. lists = [i \in 1..N |-> lists[i]]
    OBVIOUS
  <2> HIDE DEF lists
  <2>2. lists \in [1..N -> Seq(Chunk)]
    BY <1>5, <2>1
  <2> QED
    BY <1>2, <2>2, ListOf
<1> HIDE DEF lists
<1>7. Chained(FlattenSeq(lists), Follows)
  <2>1. ASSUME NEW i \in 2..N
        PROVE  <<lists[i - 1][Len(lists[i - 1])], lists[i][1]>> \in Follows
    <3>1. i - 1 \in 1..N /\ i \in 1..N
      BY <1>2
    <3>2. PICK v, w : v = lists[i - 1] /\ w = lists[i]
      OBVIOUS
    <3>3. /\ v \in Seq(Chunk) /\ v # <<>> /\ w \in Seq(Chunk) /\ w # <<>>
          /\ v[Len(v)].to = s[i - 1].to /\ w[1].from = s[i].from
      BY <1>5, <3>1, <3>2
    <3>4. Len(v) \in 1..Len(v) /\ 1 \in 1..Len(w)
      BY <3>3, EmptySeq
    <3>5. v[Len(v)] \in Chunk /\ w[1] \in Chunk
      BY <3>3, <3>4, ElementOfSeq
    <3>6. PICK a, b : a = v[Len(v)] /\ b = w[1]
      OBVIOUS
    <3>7. a \in Chunk /\ b \in Chunk /\ a.to <= b.from
      BY <1>2, <3>3, <3>5, <3>6
    <3>8. After(a, b)
      BY <3>7 DEF Chunk, After
    <3>9. <<a, b>> \in Follows
      BY <3>7, <3>8 DEF Follows
    <3> QED
      BY <3>2, <3>6, <3>9
  <2>2. \A i \in 1..Len(lists) : lists[i] # <<>> /\ Chained(lists[i], Follows)
    BY <1>5, <1>6
  <2>3. \A i \in 2..Len(lists) : <<lists[i - 1][Len(lists[i - 1])], lists[i][1]>> \in Follows
    BY <1>6, <2>1
  <2> QED
    BY <1>6, <2>2, <2>3, FlattenChained
<1>8. /\ FlattenSeq(lists) \in Seq(Chunk)
      /\ \A c : c \in ToSet(FlattenSeq(lists)) <=> \E i \in 1..N : c \in ToSet(lists[i])
  BY <1>6, FlattenElements
<1>9. \A line : (\E c \in ToSet(FlattenSeq(lists)) : line \in c.from..c.to)
                  <=> \E i \in 1..N : line \in s[i].from..s[i].to
  BY <1>5, <1>8
<1>10. \A c \in ToSet(FlattenSeq(lists)) : c.to <= file.lines
  BY <1>5, <1>8
<1> QED
  BY <1>1, <1>3, <1>7, <1>8, <1>9, <1>10

(* The lines that are to be found.                                         *)
LinesOf(file) ==
  IF file.symbols = <<>> THEN 1..file.lines ELSE UNION {s.from..s.to : s \in ToSet(file.symbols)}

(* The chunks of a file are in order, and have its lines.                  *)
LEMMA ChunksAre ==
  ASSUME NEW file \in File, Parsed(file)
  PROVE  /\ Chunks(file) \in Seq(Chunk) /\ Chained(Chunks(file), Follows)
         /\ UNION {c.from..c.to : c \in ToSet(Chunks(file))} = LinesOf(file)
         /\ \A c \in ToSet(Chunks(file)) : c.to <= file.lines
<1>1. /\ file.lines \in Nat /\ DOMAIN file.symbols = 1..Len(file.symbols)
  BY FileFields
<1>2. CASE file.symbols # <<>>
  <2>1. Chunks(file) = SymbolChunks(file.symbols)
    BY <1>2 DEF Chunks
  <2>2. \A line : line \in LinesOf(file)
          <=> \E i \in 1..Len(file.symbols) : line \in file.symbols[i].from..file.symbols[i].to
    BY <1>1, <1>2 DEF LinesOf, ToSet
  <2>3. PICK w : w = SymbolChunks(file.symbols)
    OBVIOUS
  <2>4. /\ w \in Seq(Chunk) /\ Chained(w, Follows) /\ \A c \in ToSet(w) : c.to <= file.lines
        /\ \A line : (\E c \in ToSet(w) : line \in c.from..c.to)
             <=> \E i \in 1..Len(file.symbols) : line \in file.symbols[i].from..file.symbols[i].to
    BY <2>3, SymbolChunksAre
  <2>5. UNION {c.from..c.to : c \in ToSet(w)} = LinesOf(file)
    BY <2>2, <2>4
  <2> QED
    BY <2>1, <2>3, <2>4, <2>5
<1>3. CASE file.symbols = <<>>
  <2>1. PICK n, w : n = file.lines /\ w = Windows(1, n)
    OBVIOUS
  <2>2. Chunks(file) = w /\ LinesOf(file) = 1..n /\ n \in Nat
    BY <1>1, <1>3, <2>1 DEF Chunks, LinesOf
  <2>3. CASE n = 0
    <3>1. w = <<>>
      BY <2>1, <2>3 DEF Windows
    <3>2. /\ w \in Seq(Chunk) /\ ToSet(w) = {} /\ Chained(w, Follows) /\ 1..n = {}
      BY <2>3, <3>1, EmptySeq DEF ToSet, Chained
    <3> QED
      BY <2>2, <3>2
  <2>4. CASE n # 0
    <3>0. PICK from : from = 1
      OBVIOUS
    <3>1. from \in Nat \ {0} /\ from <= n /\ w = Windows(from, n)
      BY <2>1, <2>2, <2>4, <3>0
    <3>2. /\ w \in Seq(Chunk) /\ Chained(w, Follows)
          /\ \A line : (\E c \in ToSet(w) : line \in c.from..c.to) <=> line \in from..n
          /\ \A c \in ToSet(w) : c \in Chunk /\ c.to <= n
      <4>1. LinesInOrder(w, from, n)
        BY <2>2, <3>1, WindowsFollow
      <4> QED
        BY <4>1 DEF LinesInOrder
    <3>3. UNION {c.from..c.to : c \in ToSet(w)} = 1..n
      BY <3>0, <3>2
    <3> QED
      BY <2>1, <2>2, <3>2, <3>3
  <2> QED
    BY <2>3, <2>4
<1> QED
  BY <1>2, <1>3

-----------------------------------------------------------------------------
(* Batches of chunks.                                                      *)

(* A list with one more has the sum of one more.                           *)
LEMMA SumAppend ==
  ASSUME NEW costs \in Seq(Nat), NEW cost \in Nat
  PROVE  SumTo(Append(costs, cost))[Len(costs) + 1] = SumTo(costs)[Len(costs)] + cost
<1> DEFINE more == Append(costs, cost)
           N == Len(costs)
<1>1. /\ more \in Seq(Nat) /\ Len(more) = N + 1 /\ N \in Nat
      /\ \A i \in 1..N : more[i] = costs[i]
      /\ more[N + 1] = cost
  BY AppendProperties
<1> HIDE DEF more
<1>2. SumTo(more)[N + 1] = SumTo(more)[N] + more[N + 1]
  <2>1. N + 1 \in 1..Len(more) /\ (N + 1) - 1 = N
    BY <1>1
  <2>2. \A n \in 1..Len(more) : SumTo(more)[n] = SumTo(more)[n - 1] + more[n]
    BY <1>1, SumIs
  <2> QED
    BY <2>1, <2>2
<1>3. SumTo(more)[N] = SumTo(costs)[N]
  <2>1. N <= Len(more) /\ N <= Len(costs)
    BY <1>1
  <2> HIDE DEF N
  <2> QED
    BY <1>1, <2>1, SumAgree
<1> QED
  BY <1>1, <1>2, <1>3 DEF more

(* What the tokens of chunks come to.                                      *)
LEMMA TokensAre ==
  ASSUME NEW b \in Seq(Chunk)
  PROVE  /\ TokensOf(<<>>) = 0 /\ TokensOf(b) \in Nat
         /\ \A c \in Chunk : /\ Tokens(c) \in Nat /\ Tokens(c) <= InputMax
                             /\ TokensOf(Append(b, c)) = TokensOf(b) + Tokens(c)
<1> DEFINE costs(list) == [i \in 1..Len(list) |-> Tokens(list[i])]
<1>1. InputMax \in Nat
  BY IndexSearchAssumption
<1>2. \A c \in Chunk : Tokens(c) \in Nat /\ Tokens(c) <= InputMax
  <2>1. ASSUME NEW c \in Chunk
        PROVE  Tokens(c) \in Nat /\ Tokens(c) <= InputMax
    <3>1. c.to - c.from + 1 \in Nat
      BY <2>1 DEF Chunk
    <3> QED
      BY <1>1, <3>1 DEF Tokens, Smaller
  <2> QED
    BY <2>1
<1>3. ASSUME NEW list \in Seq(Chunk)
      PROVE  /\ costs(list) \in Seq(Nat) /\ Len(costs(list)) = Len(list) /\ Len(list) \in Nat
             /\ TokensOf(list) = SumTo(costs(list))[Len(list)]
             /\ TokensOf(list) \in Nat
  <2>1. Len(list) \in Nat /\ DOMAIN list = 1..Len(list) /\ \A i \in 1..Len(list) : list[i] \in Chunk
    OBVIOUS
  <2>2. costs(list) \in [1..Len(list) -> Nat]
    BY <1>2, <2>1
  <2>3. costs(list) \in Seq(Nat) /\ Len(costs(list)) = Len(list)
    <3> HIDE DEF costs
    <3> QED
      BY <2>1, <2>2, ListOf
  <2>4. TokensOf(list) = SumTo(costs(list))[Len(list)]
    BY <2>1 DEF TokensOf
  <2>5. SumTo(costs(list))[Len(list)] \in Nat
    <3>1. Len(list) \in 0..Len(list)
      BY <2>1
    <3> HIDE DEF costs
    <3>2. SumTo(costs(list)) \in [0..Len(costs(list)) -> Nat]
      BY <2>3, SumIs
    <3> QED
      BY <2>3, <3>1, <3>2
  <2> HIDE DEF costs
  <2> QED
    BY <2>1, <2>3, <2>4, <2>5
<1>4. TokensOf(<<>>) = 0
  <2>1. <<>> \in Seq(Chunk) /\ Len(<<>>) = 0
    OBVIOUS
  <2>2. TokensOf(<<>>) = SumTo(costs(<<>>))[0] /\ costs(<<>>) \in Seq(Nat)
    <3> HIDE DEF costs
    <3> QED
      BY <1>3, <2>1
  <2> HIDE DEF costs
  <2> QED
    BY <2>2, SumIs
<1>5. ASSUME NEW c \in Chunk
      PROVE  TokensOf(Append(b, c)) = TokensOf(b) + Tokens(c)
  <2>1. /\ Append(b, c) \in Seq(Chunk) /\ Len(Append(b, c)) = Len(b) + 1 /\ Len(b) \in Nat
        /\ \A i \in 1..Len(b) : Append(b, c)[i] = b[i]
        /\ Append(b, c)[Len(b) + 1] = c
    BY AppendProperties
  <2>2. costs(b) \in Seq(Nat) /\ Len(costs(b)) = Len(b) /\ Tokens(c) \in Nat
    <3> HIDE DEF costs
    <3> QED
      BY <1>2, <1>3
  <2>3. costs(Append(b, c)) = Append(costs(b), Tokens(c))
    <3>1. /\ Append(costs(b), Tokens(c)) \in Seq(Nat)
          /\ Len(Append(costs(b), Tokens(c))) = Len(b) + 1
          /\ \A i \in 1..Len(b) : Append(costs(b), Tokens(c))[i] = costs(b)[i]
          /\ Append(costs(b), Tokens(c))[Len(b) + 1] = Tokens(c)
      <4> HIDE DEF costs
      <4> QED
        BY <2>2, AppendProperties
    <3>2. costs(Append(b, c)) \in Seq(Nat) /\ Len(costs(Append(b, c))) = Len(b) + 1
      <4> HIDE DEF costs
      <4> QED
        BY <1>3, <2>1
    <3>3. ASSUME NEW i \in 1..(Len(b) + 1)
          PROVE  costs(Append(b, c))[i] = Append(costs(b), Tokens(c))[i]
      <4>1. costs(Append(b, c))[i] = Tokens(Append(b, c)[i])
        BY <2>1
      <4>2. CASE i = Len(b) + 1
        <5> HIDE DEF costs
        <5> QED
          BY <2>1, <3>1, <4>1, <4>2
      <4>3. CASE i # Len(b) + 1
        <5>1. i \in 1..Len(b)
          BY <2>1, <4>3
        <5>2. costs(b)[i] = Tokens(b[i])
          BY <5>1
        <5> HIDE DEF costs
        <5> QED
          BY <2>1, <3>1, <4>1, <5>1, <5>2
      <4> QED
        BY <4>2, <4>3
    <3> HIDE DEF costs
    <3> QED
      BY <3>1, <3>2, <3>3, SeqEqual
  <2>4. SumTo(Append(costs(b), Tokens(c)))[Len(b) + 1] = SumTo(costs(b))[Len(b)] + Tokens(c)
    <3> HIDE DEF costs
    <3> QED
      BY <2>2, SumAppend
  <2>5. /\ TokensOf(Append(b, c)) = SumTo(costs(Append(b, c)))[Len(b) + 1]
        /\ TokensOf(b) = SumTo(costs(b))[Len(b)]
    <3> HIDE DEF costs
    <3> QED
      BY <1>3, <2>1
  <2> QED
    BY <2>3, <2>4, <2>5
<1> HIDE DEF costs
<1> QED
  BY <1>2, <1>3, <1>4, <1>5

(* A list is what comes before its last element, and that.                 *)
LEMMA FrontAndLast ==
  ASSUME NEW S, NEW d \in Seq(S), d # <<>>
  PROVE  Front(d) \in Seq(S) /\ Last(d) \in S /\ d = Append(Front(d), Last(d))
<1>1. PICK s \in Seq(S), e \in S : d = Append(s, e)
  BY SequenceEmptyOrAppend
<1>2. Len(d) = Len(s) + 1 /\ Len(s) \in Nat /\ d[Len(s) + 1] = e /\ \A i \in 1..Len(s) : d[i] = s[i]
  BY <1>1, AppendProperties
<1>3. Last(d) = e
  BY <1>2 DEF Last
<1>4. Front(d) = s
  <2>1. Front(d) = SubSeq(d, 1, Len(s))
    BY <1>2 DEF Front
  <2>2. \A i \in 1..Len(s) : d[i] \in S
    BY <1>2
  <2>3. /\ SubSeq(d, 1, Len(s)) \in Seq(S)
        /\ Len(SubSeq(d, 1, Len(s))) = Len(s)
        /\ \A i \in 1..Len(s) : SubSeq(d, 1, Len(s))[i] = s[i]
    <3>1. /\ SubSeq(d, 1, Len(s)) \in Seq(S)
          /\ Len(SubSeq(d, 1, Len(s))) = IF 1 <= Len(s) THEN Len(s) - 1 + 1 ELSE 0
          /\ \A i \in 1..(Len(s) - 1 + 1) : SubSeq(d, 1, Len(s))[i] = d[1 + i - 1]
      BY <1>2, <2>2, SubSeqProperties
    <3> QED
      BY <1>2, <3>1
  <2> QED
    BY <2>1, <2>3, SeqEqual
<1> QED
  BY <1>1, <1>3, <1>4

(* The batches that may be sent.                                           *)
Batch == {b \in Seq(Chunk) : b # <<>> /\ Len(b) <= BatchItems /\ TokensOf(b) <= BatchTokens}

(* A chunk more keeps the batches within the caps, and is the last of all. *)
LEMMA PackKeeps ==
  ASSUME NEW done \in Seq(Batch), NEW c \in Chunk
  PROVE  /\ Pack(done, c) \in Seq(Batch)
         /\ FlattenSeq(Pack(done, c)) = Append(FlattenSeq(done), c)
<1>1. /\ BatchItems \in Nat /\ 1 <= BatchItems /\ InputMax \in Nat
      /\ BatchTokens \in Nat /\ InputMax <= BatchTokens
  BY IndexSearchAssumption
<1>2. done \in Seq(Seq(Chunk))
  BY SeqMonotonic DEF Batch
<1>3. CASE done # <<>> /\ Len(Last(done)) < BatchItems
             /\ TokensOf(Last(done)) + Tokens(c) <= BatchTokens
  <2>1. Front(done) \in Seq(Batch) /\ Last(done) \in Batch /\ done = Append(Front(done), Last(done))
    BY <1>3, FrontAndLast
  <2>2. PICK front, last : front = Front(done) /\ last = Last(done)
    OBVIOUS
  <2>3. front \in Seq(Seq(Chunk)) /\ last \in Seq(Chunk) /\ Len(last) \in Nat
    <3>1. front \in Seq(Seq(Chunk))
      BY <2>1, <2>2, SeqMonotonic DEF Batch
    <3> QED
      BY <2>1, <2>2, <3>1 DEF Batch
  <2>4. Pack(done, c) = Append(front, Append(last, c))
    BY <1>3, <2>2 DEF Pack
  <2>5. /\ Append(last, c) \in Seq(Chunk) /\ Append(last, c) # <<>>
        /\ Len(Append(last, c)) = Len(last) + 1
    BY <2>3, AppendProperties
  <2>6. TokensOf(Append(last, c)) = TokensOf(last) + Tokens(c)
    BY <2>3, TokensAre
  <2>7. Append(last, c) \in Batch
    BY <1>1, <1>3, <2>2, <2>3, <2>5, <2>6 DEF Batch
  <2>8. Pack(done, c) \in Seq(Batch)
    BY <2>1, <2>2, <2>4, <2>7, AppendProperties
  <2>9. /\ FlattenSeq(Append(front, Append(last, c))) = FlattenSeq(front) \o Append(last, c)
        /\ FlattenSeq(done) = FlattenSeq(front) \o last
    BY <2>1, <2>2, <2>3, <2>5, FlattenAppend
  <2>10. FlattenSeq(front) \o Append(last, c) = Append(FlattenSeq(front) \o last, c)
    <3>1. FlattenSeq(front) \in Seq(Chunk) /\ <<c>> \in Seq(Chunk)
      BY <2>3, FlattenElements
    <3>2. Append(last, c) = last \o <<c>>
      BY <2>3, AppendIsConcat
    <3>3. FlattenSeq(front) \o last \in Seq(Chunk)
      BY <2>3, <3>1, ConcatProperties
    <3>4. Append(FlattenSeq(front) \o last, c) = (FlattenSeq(front) \o last) \o <<c>>
      BY <3>3, AppendIsConcat
    <3> QED
      BY <2>3, <3>1, <3>2, <3>4, ConcatAssociative
  <2> QED
    BY <2>4, <2>8, <2>9, <2>10
<1>4. CASE ~(done # <<>> /\ Len(Last(done)) < BatchItems
               /\ TokensOf(Last(done)) + Tokens(c) <= BatchTokens)
  <2>1. Pack(done, c) = Append(done, <<c>>)
    BY <1>4 DEF Pack
  <2>2. <<c>> = Append(<<>>, c) /\ <<>> \in Seq(Chunk) /\ <<c>> \in Seq(Chunk)
        /\ <<c>> # <<>> /\ Len(<<c>>) = 1
    OBVIOUS
  <2>3. TokensOf(<<c>>) = Tokens(c) /\ Tokens(c) \in Nat /\ Tokens(c) <= InputMax
    <3>1. TokensOf(<<>>) = 0 /\ TokensOf(Append(<<>>, c)) = TokensOf(<<>>) + Tokens(c)
          /\ Tokens(c) \in Nat /\ Tokens(c) <= InputMax
      BY <2>2, TokensAre
    <3> QED
      BY <2>2, <3>1
  <2>4. <<c>> \in Batch
    BY <1>1, <2>2, <2>3 DEF Batch
  <2>5. Pack(done, c) \in Seq(Batch)
    BY <2>1, <2>4, AppendProperties
  <2>6. FlattenSeq(Append(done, <<c>>)) = FlattenSeq(done) \o <<c>>
    BY <1>2, <2>2, FlattenAppend
  <2>7. FlattenSeq(done) \in Seq(Chunk)
    BY <1>2, FlattenElements
  <2>8. Append(FlattenSeq(done), c) = FlattenSeq(done) \o <<c>>
    BY <2>7, AppendIsConcat
  <2> QED
    BY <2>1, <2>5, <2>6, <2>8
<1> QED
  BY <1>3, <1>4

(* What Packed computes.                                                   *)
Packs(f, chunks) ==
  /\ f \in [0..Len(chunks) -> Seq(Batch)] /\ f[0] = <<>>
  /\ \A n \in 1..Len(chunks) : f[n] = Pack(f[n - 1], chunks[n])

(* Packed computes it.                                                     *)
LEMMA PackedIs ==
  ASSUME NEW chunks \in Seq(Chunk)
  PROVE  Packs(Packed(chunks), chunks)
<1> DEFINE N == Len(chunks)
           X == Seq(Batch)
           Is(f) == f = [n \in 0..N |-> IF n = 0 THEN <<>> ELSE Pack(f[n - 1], chunks[n])]
           step == [pair \in (1..N) \X X |-> Pack(pair[2], chunks[pair[1]])]
<1>1. N \in Nat /\ \A n \in 1..N : chunks[n] \in Chunk
  OBVIOUS
<1>2. \A n \in 1..N : \A x \in X : step[<<n, x>>] = Pack(x, chunks[n]) /\ Pack(x, chunks[n]) \in X
  BY <1>1, PackKeeps
<1>3. <<>> \in X
  OBVIOUS
<1> HIDE DEF step
<1>4. PICK f : Computes(f, N, X, <<>>, step)
  <2>1. \A n \in 1..N : \A x \in X : step[<<n, x>>] \in X
    BY <1>2
  <2> HIDE DEF N, X
  <2> QED
    BY <1>1, <1>3, <2>1, Recursion
<1>5. /\ f \in [0..N -> X] /\ f[0] = <<>>
      /\ \A n \in 1..N : f[n] = Pack(f[n - 1], chunks[n])
  <2>1. f \in [0..N -> X] /\ f[0] = <<>> /\ \A n \in 1..N : f[n] = step[<<n, f[n - 1]>>]
    BY <1>4 DEF Computes
  <2>2. \A n \in 1..N : n - 1 \in 0..N
    BY <1>1
  <2> HIDE DEF X
  <2>3. \A n \in 1..N : f[n - 1] \in X
    BY <2>1, <2>2
  <2> QED
    BY <1>2, <2>1, <2>3
<1>6. \A n \in 0..N : n # 0 => n \in 1..N
  BY <1>1
<1>7. Is(f)
  BY <1>5, <1>6
<1> DEFINE g == Packed(chunks)
<1>8. Is(g)
  <2>1. Packed(chunks) = CHOOSE h : Is(h)
    BY DEF Packed
  <2> HIDE DEF Is
  <2> QED
    BY <1>7, <2>1
<1> HIDE DEF g
<1>9. /\ g = [n \in 0..N |-> g[n]] /\ g[0] = <<>>
      /\ \A n \in 1..N : g[n] = Pack(g[n - 1], chunks[n])
  <2>1. 0 \in 0..N /\ \A n \in 1..N : n \in 0..N /\ n # 0
    BY <1>1
  <2> QED
    BY <1>8, <2>1
<1> DEFINE good == {n \in 0..N : g[n] \in X}
<1> HIDE DEF X, Is
<1>10. 0 \in good
  BY <1>1, <1>3, <1>9
<1>11. ASSUME NEW n \in 1..N, n - 1 \in good PROVE n \in good
  <2>1. g[n - 1] \in X /\ g[n] = Pack(g[n - 1], chunks[n]) /\ n \in 0..N
    BY <1>1, <1>9, <1>11
  <2> QED
    BY <1>2, <2>1
<1>12. \A n \in 0..N : n \in good
  <2> HIDE DEF good
  <2> QED
    BY <1>1, <1>10, <1>11, Counting
<1>13. g \in [0..N -> X]
  BY <1>9, <1>12
<1>14. Packs(g, chunks)
  BY <1>9, <1>13 DEF Packs, X
<1> QED
  BY <1>14 DEF g

(* Every chunk is sent once, in order, and no request exceeds the caps, so *)
(* that each vector is that of its own chunk (_batching.py:27-47).         *)
THEOREM BatchesCarry ==
  ASSUME NEW chunks \in Seq(Chunk)
  PROVE  Batches(chunks) \in Seq(Batch) /\ Vectors(chunks) = chunks
<1> DEFINE N == Len(chunks)
           f == Packed(chunks)
           good == {n \in 0..N : FlattenSeq(f[n]) = SubSeq(chunks, 1, n)}
<1>1. N \in Nat /\ \A n \in 1..N : chunks[n] \in Chunk
  OBVIOUS
<1>2. /\ f \in [0..N -> Seq(Batch)] /\ f[0] = <<>>
      /\ \A n \in 1..N : f[n] = Pack(f[n - 1], chunks[n])
  BY PackedIs DEF Packs
<1> HIDE DEF f
<1>3. \A n \in 1..N : n - 1 \in 0..N /\ n \in 0..N
  BY <1>1
<1>4. 0 \in good
  <2>1. FlattenSeq(<<>>) = <<>>
    BY DEF FlattenSeq
  <2>2. SubSeq(chunks, 1, 0) = <<>>
    BY SubSeqEmpty
  <2> QED
    BY <1>1, <1>2, <2>1, <2>2
<1>5. ASSUME NEW n \in 1..N, n - 1 \in good PROVE n \in good
  <2> DEFINE X == Seq(Batch)
  <2>1. f[n - 1] \in X /\ f[n] = Pack(f[n - 1], chunks[n])
    <3>1. f \in [0..N -> X] /\ n - 1 \in 0..N /\ \A k \in 1..N : f[k] = Pack(f[k - 1], chunks[k])
      BY <1>2, <1>3
    <3> HIDE DEF X
    <3> QED
      BY <3>1
  <2>2. FlattenSeq(f[n]) = Append(SubSeq(chunks, 1, n - 1), chunks[n])
    <3>1. FlattenSeq(f[n]) = Append(FlattenSeq(f[n - 1]), chunks[n])
      BY <1>1, <2>1, PackKeeps
    <3> QED
      BY <1>5, <3>1
  <2>3. SubSeq(chunks, 1, n) = SubSeq(chunks, 1, n - 1) \o <<chunks[n]>>
    <3>1. 1 \in 1..Len(chunks) /\ n \in 1..Len(chunks)
      BY <1>1
    <3> QED
      BY <3>1, SubSeqRecursiveSecond
  <2>4. SubSeq(chunks, 1, n - 1) \in Seq(Chunk)
    <3>1. 1 \in Int /\ n - 1 \in Int /\ \A i \in 1..(n - 1) : chunks[i] \in Chunk
      BY <1>1
    <3> QED
      BY <3>1, SubSeqProperties
  <2>5. Append(SubSeq(chunks, 1, n - 1), chunks[n]) = SubSeq(chunks, 1, n - 1) \o <<chunks[n]>>
    BY <1>1, <2>4, AppendIsConcat
  <2> QED
    BY <1>1, <2>2, <2>3, <2>5
<1>6. \A n \in 0..N : n \in good
  <2> HIDE DEF good
  <2> QED
    BY <1>1, <1>4, <1>5, Counting
<1>7. N \in 0..N
  BY <1>1
<1>8. Batches(chunks) = f[N] /\ Vectors(chunks) = FlattenSeq(f[N])
  BY DEF Batches, Vectors, f
<1>9. FlattenSeq(f[N]) = SubSeq(chunks, 1, N)
  BY <1>6, <1>7
<1>10. SubSeq(chunks, 1, N) = chunks
  BY SubSeqFull
<1> QED
  BY <1>2, <1>7, <1>8, <1>9, <1>10

-----------------------------------------------------------------------------
(* Points.                                                                 *)

(* What a repository may hold.                                             *)
ParsedFiles == {content \in Seq(File) : \A f \in DOMAIN content : Parsed(content[f])}

(* The points of the repositories R.                                       *)
Point(R) == [repo : R, rank : Nat \ {0}, lines : Chunk, vector : Chunk,
             code : BOOLEAN, under : BOOLEAN]

(* A piece is a file of the content and a chunk of that file.              *)
LEMMA PiecesAre ==
  ASSUME NEW content \in ParsedFiles
  PROVE  /\ Pieces(content) \in Seq((DOMAIN content) \X Nat)
         /\ \A n \in 1..Len(Pieces(content)) :
              /\ Pieces(content)[n][1] \in DOMAIN content
              /\ Pieces(content)[n][2] \in DOMAIN Chunks(content[Pieces(content)[n][1]])
<1> DEFINE F == Len(content)
           S == (DOMAIN content) \X Nat
           of(f) == [k \in DOMAIN Chunks(content[f]) |-> <<f, k>>]
           lists == [f \in 1..F |-> of(f)]
<1>1. /\ F \in Nat /\ DOMAIN content = 1..F
      /\ \A f \in 1..F : content[f] \in File /\ Parsed(content[f])
  <2>1. content \in Seq(File) /\ \A f \in DOMAIN content : Parsed(content[f])
    BY DEF ParsedFiles
  <2> QED
    BY <2>1
<1>2. ASSUME NEW f \in 1..F
      PROVE  /\ of(f) \in Seq(S)
             /\ \A x \in ToSet(of(f)) : x[1] = f /\ x[2] \in DOMAIN Chunks(content[f])
  <2>1. PICK chunks : chunks = Chunks(content[f])
    OBVIOUS
  <2>2. chunks \in Seq(Chunk)
    BY <1>1, <2>1, ChunksAre
  <2>3. DOMAIN chunks = 1..Len(chunks) /\ Len(chunks) \in Nat
    BY <2>2
  <2>4. of(f) = [k \in 1..Len(chunks) |-> <<f, k>>]
    BY <2>1, <2>3
  <2>5. [k \in 1..Len(chunks) |-> <<f, k>>] \in [1..Len(chunks) -> S]
    BY <1>1, <2>3
  <2>6. PICK s : s = [k \in 1..Len(chunks) |-> <<f, k>>]
    OBVIOUS
  <2>7. s \in Seq(S) /\ DOMAIN s = 1..Len(chunks)
    <3>1. s \in [1..Len(chunks) -> S]
      BY <2>5, <2>6
    <3> HIDE DEF S
    <3> QED
      BY <2>3, <3>1, ListOf
  <2>8. \A x \in ToSet(s) : x[1] = f /\ x[2] \in 1..Len(chunks)
    BY <2>6 DEF ToSet
  <2> QED
    BY <2>1, <2>3, <2>4, <2>6, <2>7, <2>8
<1>3. lists \in Seq(Seq(S)) /\ Len(lists) = F /\ \A f \in 1..F : lists[f] = of(f)
  <2>1. \A f \in 1..F : lists[f] = of(f)
    OBVIOUS
  <2>2. lists \in [1..F -> Seq(S)]
    <3>1. \A f \in 1..F : of(f) \in Seq(S)
      BY <1>2
    <3> HIDE DEF of, S
    <3> QED
      BY <3>1
  <2>3. PICK X : X = Seq(S)
    OBVIOUS
  <2>4. lists \in Seq(X) /\ Len(lists) = F
    <3> HIDE DEF lists
    <3> QED
      BY <1>1, <2>2, <2>3, ListOf
  <2> HIDE DEF lists, of
  <2> QED
    BY <2>1, <2>3, <2>4
<1>4. Pieces(content) = FlattenSeq(lists)
  BY <1>1 DEF Pieces
<1> HIDE DEF lists, of
<1>5. /\ FlattenSeq(lists) \in Seq(S)
      /\ \A x : x \in ToSet(FlattenSeq(lists)) <=> \E f \in 1..F : x \in ToSet(of(f))
  <2>1. /\ FlattenSeq(lists) \in Seq(S)
        /\ \A x : x \in ToSet(FlattenSeq(lists)) <=> \E f \in 1..Len(lists) : x \in ToSet(lists[f])
    <3> HIDE DEF S
    <3> QED
      BY <1>3, FlattenElements
  <2> QED
    BY <1>3, <2>1
<1>6. PICK pieces : pieces = Pieces(content)
  OBVIOUS
<1> HIDE DEF S
<1>7. pieces \in Seq(S) /\ DOMAIN pieces = 1..Len(pieces)
  BY <1>4, <1>5, <1>6
<1>8. \A n \in 1..Len(pieces) : pieces[n] \in ToSet(pieces)
  BY <1>7 DEF ToSet
<1>9. \A x \in ToSet(pieces) : x[1] \in 1..F /\ x[2] \in DOMAIN Chunks(content[x[1]])
  BY <1>2, <1>4, <1>5, <1>6
<1> QED
  BY <1>1, <1>6, <1>7, <1>8, <1>9 DEF S

(* The points of a repository, by their rank.                              *)
Ranks(points, r) ==
  /\ points \in Seq(Point({r}))
  /\ \A n \in 1..Len(points) : points[n].rank = n /\ points[n].vector = points[n].lines

(* The points are in the order of their rank, and each has its own vector. *)
LEMMA PointsAre ==
  ASSUME NEW content \in ParsedFiles, NEW r
  PROVE  Ranks(Points(r, content), r)
<1> DEFINE S == (DOMAIN content) \X Nat
<1>1. PICK pieces : pieces = Pieces(content)
  OBVIOUS
<1>2. /\ pieces \in Seq(S) /\ Len(pieces) \in Nat /\ DOMAIN pieces = 1..Len(pieces)
      /\ \A n \in 1..Len(pieces) : /\ pieces[n][1] \in DOMAIN content
                                   /\ pieces[n][2] \in DOMAIN Chunks(content[pieces[n][1]])
  <2>1. /\ pieces \in Seq(S)
        /\ \A n \in 1..Len(pieces) : /\ pieces[n][1] \in DOMAIN content
                                     /\ pieces[n][2] \in DOMAIN Chunks(content[pieces[n][1]])
    BY <1>1, PiecesAre
  <2> HIDE DEF S
  <2>2. Len(pieces) \in Nat /\ DOMAIN pieces = 1..Len(pieces)
    BY <2>1
  <2> QED
    BY <2>1, <2>2
<1> HIDE DEF S
<1>3. \A f \in DOMAIN content :
        /\ content[f] \in File
        /\ Chunks(content[f]) \in Seq(Chunk)
        /\ Vectors(Chunks(content[f])) = Chunks(content[f])
  <2>1. \A f \in DOMAIN content : content[f] \in File /\ Parsed(content[f])
    <3>1. content \in Seq(File) /\ \A f \in DOMAIN content : Parsed(content[f])
      BY DEF ParsedFiles
    <3> QED
      BY <3>1
  <2> QED
    BY <2>1, ChunksAre, BatchesCarry
<1> DEFINE point(n) ==
             [repo |-> r, rank |-> n,
              lines  |-> Chunks(content[pieces[n][1]])[pieces[n][2]],
              vector |-> Vectors(Chunks(content[pieces[n][1]]))[pieces[n][2]],
              code   |-> content[pieces[n][1]].code, under |-> content[pieces[n][1]].under]
           points == [n \in 1..Len(pieces) |-> point(n)]
<1>4. Points(r, content) = points
  BY <1>1, <1>2 DEF Points
<1>5. ASSUME NEW n \in 1..Len(pieces)
      PROVE  point(n) \in Point({r}) /\ point(n).rank = n /\ point(n).vector = point(n).lines
  <2>1. PICK f, k, chunks : f = pieces[n][1] /\ k = pieces[n][2] /\ chunks = Chunks(content[f])
    OBVIOUS
  <2>2. /\ chunks \in Seq(Chunk) /\ k \in DOMAIN chunks
        /\ Vectors(chunks) = chunks /\ content[f] \in File
    BY <1>2, <1>3, <2>1
  <2>3. chunks[k] \in Chunk
    BY <2>2
  <2>4. point(n) = [repo |-> r, rank |-> n, lines |-> chunks[k], vector |-> chunks[k],
                    code |-> content[f].code, under |-> content[f].under]
    BY <2>1, <2>2
  <2>5. n \in Nat \ {0} /\ content[f].code \in BOOLEAN /\ content[f].under \in BOOLEAN
    BY <2>2 DEF File
  <2> HIDE DEF point
  <2> QED
    BY <2>3, <2>4, <2>5 DEF Point
<1> HIDE DEF point
<1>6. points \in [1..Len(pieces) -> Point({r})] /\ \A n \in 1..Len(pieces) : points[n] = point(n)
  BY <1>5
<1> HIDE DEF points
<1>7. points \in Seq(Point({r})) /\ Len(points) = Len(pieces)
  BY <1>2, <1>6, ListOf
<1>8. Ranks(points, r)
  BY <1>5, <1>6, <1>7 DEF Ranks
<1> QED
  BY <1>4, <1>8

(* Every line of what a repository holds is found, whatever its files      *)
(* (chunker.py, _batching.py).                                             *)
THEOREM LinesFound ==
  ASSUME NEW content \in ParsedFiles
  PROVE  LinesAreFound(content)
<1>1. \A f \in DOMAIN content : content[f] \in File /\ Parsed(content[f])
  <2>1. content \in Seq(File) /\ \A f \in DOMAIN content : Parsed(content[f])
    BY DEF ParsedFiles
  <2> QED
    BY <2>1
<1>2. ASSUME NEW f \in DOMAIN content
      PROVE  LET file   == content[f]
                 chunks == Chunks(file) IN
             /\ UNION {c.from..c.to : c \in ToSet(chunks)}
                  = IF file.symbols = <<>> THEN 1..file.lines
                    ELSE UNION {s.from..s.to : s \in ToSet(file.symbols)}
             /\ \A k \in DOMAIN chunks : k > 1 =>
                  \/ chunks[k].from > chunks[k - 1].from /\ chunks[k].to > chunks[k - 1].to
                  \/ chunks[k].from = chunks[k - 1].to
             /\ \A c \in ToSet(chunks) :
                  ReadLines(file.lines, c.from, c.to - c.from + 1) = c.from..c.to
             /\ \A b \in ToSet(Batches(chunks)) :
                  Len(b) <= BatchItems /\ TokensOf(b) <= BatchTokens
  <2>1. PICK file, chunks : file = content[f] /\ chunks = Chunks(file)
    OBVIOUS
  <2>2. /\ file \in File /\ chunks \in Seq(Chunk) /\ Chained(chunks, Follows)
        /\ UNION {c.from..c.to : c \in ToSet(chunks)} = LinesOf(file)
        /\ \A c \in ToSet(chunks) : c.to <= file.lines
    BY <1>1, <2>1, ChunksAre
  <2>3. \A k \in DOMAIN chunks : k > 1 =>
          \/ chunks[k].from > chunks[k - 1].from /\ chunks[k].to > chunks[k - 1].to
          \/ chunks[k].from = chunks[k - 1].to
    <3>1. \A k \in DOMAIN chunks : k > 1 => k \in 2..Len(chunks)
      BY <2>2
    <3>2. \A k \in 2..Len(chunks) : <<chunks[k - 1], chunks[k]>> \in Follows
      BY <2>2 DEF Chained
    <3>3. \A k \in 2..Len(chunks) : After(chunks[k - 1], chunks[k])
      BY <3>2 DEF Follows
    <3> QED
      BY <3>1, <3>3 DEF After
  <2>4. ASSUME NEW c \in ToSet(chunks)
        PROVE  ReadLines(file.lines, c.from, c.to - c.from + 1) = c.from..c.to
    <3>1. c \in Chunk
      BY <2>2 DEF ToSet
    <3>2. c.from \in Nat \ {0} /\ c.to \in Nat /\ c.from <= c.to /\ c.to <= file.lines
      BY <2>2, <3>1 DEF Chunk
    <3>3. file.lines \in Nat
      BY <2>2 DEF File
    <3>4. Larger(1, c.from) = c.from
      BY <3>2 DEF Larger
    <3>5. Smaller(file.lines, c.from - 1 + (c.to - c.from + 1)) = c.to
      BY <3>2, <3>3 DEF Smaller
    <3> QED
      BY <3>4, <3>5 DEF ReadLines
  <2>5. ASSUME NEW b \in ToSet(Batches(chunks))
        PROVE  Len(b) <= BatchItems /\ TokensOf(b) <= BatchTokens
    <3>1. Batches(chunks) \in Seq(Batch)
      BY <2>2, BatchesCarry
    <3>2. b \in Batch
      <4> DEFINE X == Batch
      <4>1. Batches(chunks) \in Seq(X)
        BY <3>1
      <4> HIDE DEF X
      <4>2. b \in X
        BY <4>1 DEF ToSet
      <4> QED
        BY <4>2 DEF X
    <3> QED
      BY <3>2 DEF Batch
  <2>6. LinesOf(file) = IF file.symbols = <<>> THEN 1..file.lines
                        ELSE UNION {s.from..s.to : s \in ToSet(file.symbols)}
    BY DEF LinesOf
  <2> QED
    BY <2>1, <2>2, <2>3, <2>4, <2>5, <2>6
<1>3. \A p \in ToSet(Points("any", content)) : p.vector = p.lines
  <2>1. PICK r, points : r = "any" /\ points = Points(r, content)
    OBVIOUS
  <2>2. /\ points \in Seq(Point({r}))
        /\ \A n \in 1..Len(points) : points[n].vector = points[n].lines
    BY <2>1, PointsAre DEF Ranks
  <2>3. DOMAIN points = 1..Len(points)
    BY <2>2
  <2>4. \A p \in ToSet(points) : p.vector = p.lines
    BY <2>2, <2>3 DEF ToSet
  <2> QED
    BY <2>1, <2>4
<1> QED
  BY <1>2, <1>3 DEF LinesAreFound

-----------------------------------------------------------------------------
(* What a query finds.                                                     *)

(* The points of some repositories, one list for each.                     *)
Collections(lists, R) ==
  /\ lists \in Seq(Seq(Point(R)))
  /\ \A i \in 1..Len(lists) : \A n \in 1..Len(lists[i]) : lists[i][n].rank = n
  /\ \A i, j \in 1..Len(lists) : \A x : x \in ToSet(lists[i]) /\ x \in ToSet(lists[j]) => i = j

(* No repository is searched twice, so that no point is in two lists.      *)
LEMMA CollectionsAre ==
  ASSUME NEW R, NEW found \in Seq(R), IsInjective(found),
         NEW content \in [DOMAIN found -> ParsedFiles]
  PROVE  Collections([i \in DOMAIN found |-> Points(found[i], content[i])], R)
<1> DEFINE N == Len(found)
           lists == [i \in 1..N |-> Points(found[i], content[i])]
           X == Seq(Point(R))
<1>1. N \in Nat /\ DOMAIN found = 1..N /\ \A i \in 1..N : found[i] \in R
  OBVIOUS
<1>2. \A i \in 1..N : Ranks(Points(found[i], content[i]), found[i])
  BY <1>1, PointsAre
<1>3. \A i \in 1..N : lists[i] = Points(found[i], content[i])
  OBVIOUS
<1>4. ASSUME NEW i \in 1..N
      PROVE  /\ lists[i] \in X
             /\ \A n \in 1..Len(lists[i]) : lists[i][n].rank = n
             /\ \A x \in ToSet(lists[i]) : x.repo = found[i]
  <2>1. PICK points, r : points = lists[i] /\ r = found[i]
    OBVIOUS
  <2>2. Ranks(points, r) /\ r \in R
    <3> HIDE DEF lists
    <3> QED
      BY <1>1, <1>2, <1>3, <2>1
  <2>3. points \in Seq(Point({r})) /\ \A n \in 1..Len(points) : points[n].rank = n
    BY <2>2 DEF Ranks
  <2>4. Point({r}) \subseteq Point(R)
    BY <2>2 DEF Point
  <2>5. points \in Seq(Point(R))
    BY <2>3, <2>4, SeqMonotonic
  <2>6. \A x \in ToSet(points) : x.repo = r
    <3>1. \A x \in ToSet(points) : x \in Point({r})
      BY <2>3 DEF ToSet
    <3> QED
      BY <3>1 DEF Point
  <2> HIDE DEF lists
  <2> QED
    BY <2>1, <2>3, <2>5, <2>6
<1>5. lists = [i \in 1..N |-> lists[i]]
  OBVIOUS
<1>6. \A i, j \in 1..N : \A x : x \in ToSet(lists[i]) /\ x \in ToSet(lists[j]) => i = j
  <2> SUFFICES ASSUME NEW i \in 1..N, NEW j \in 1..N,
                      NEW x \in ToSet(lists[i]), x \in ToSet(lists[j])
               PROVE  i = j
    OBVIOUS
  <2>1. found[i] = found[j]
    <3> HIDE DEF lists
    <3> QED
      BY <1>4
  <2> QED
    BY <1>1, <2>1 DEF IsInjective
<1>7. lists = [i \in DOMAIN found |-> Points(found[i], content[i])]
  BY <1>1
<1> HIDE DEF lists, X
<1>8. lists \in [1..N -> X]
  BY <1>4, <1>5
<1>9. lists \in Seq(X) /\ Len(lists) = N
  BY <1>1, <1>8, ListOf
<1>10. Collections(lists, R)
  BY <1>4, <1>6, <1>9 DEF Collections, X
<1> QED
  BY <1>7, <1>10

(* More points are fetched than rows are asked for.                        *)
LEMMA FetchIs ==
  ASSUME NEW limit \in Nat \ {0}
  PROVE  /\ FetchK(limit) \in Nat \ {0} /\ Smaller(limit * FetchFactor, FetchCap) \in Nat
         /\ FetchK(limit) >= Smaller(limit * FetchFactor, FetchCap)
<1>1. PICK wide : wide = limit * FetchFactor
  OBVIOUS
<1>2. /\ FetchFactor \in Nat \ {0} /\ FetchFloor \in Nat /\ FetchFloor # 0
      /\ FetchCap \in Nat /\ FetchCap # 0
  BY IndexSearchAssumption
<1>3. wide \in Nat /\ wide # 0
  BY <1>1, <1>2
<1>4. FetchK(limit) = Smaller(Larger(wide, FetchFloor), FetchCap)
  BY <1>1 DEF FetchK
<1> QED
  BY <1>1, <1>2, <1>3, <1>4 DEF Smaller, Larger

(* The hits: what is fetched and matches, best first.                      *)
HitsOf(hits, lists, q, R) ==
  /\ hits \in Seq(Point(R)) /\ IsInjective(hits)
  /\ \A x : x \in ToSet(hits) <=>
       \E i \in 1..Len(lists) : \E n \in 1..Len(lists[i]) :
         n <= FetchK(q.limit) /\ x = lists[i][n] /\ Matches(x, q)
  /\ \A m, n \in 1..Len(hits) : m < n => Score(hits[m]) >= Score(hits[n])

(* What is fetched of one list.                                            *)
LEMMA StoreSearchIs ==
  ASSUME NEW R, NEW points \in Seq(Point(R)), NEW k \in Nat, NEW q \in Query
  PROVE  /\ StoreSearch(points, q, k) \in Seq(Point(R))
         /\ IsInjective(points) => IsInjective(StoreSearch(points, q, k))
         /\ \A x : x \in ToSet(StoreSearch(points, q, k)) <=>
              \E n \in 1..Len(points) : n <= k /\ x = points[n] /\ (q.prefix => x.under)
<1> DEFINE places == {n \in 1..Smaller(k, Len(points)) : q.prefix => points[n].under}
<1>1. Len(points) \in Nat
  OBVIOUS
<1>2. \A n : n \in 1..Smaller(k, Len(points)) <=> n \in 1..Len(points) /\ n <= k
  BY <1>1 DEF Smaller
<1>3. places \subseteq 1..Len(points)
  BY <1>2
<1>4. StoreSearch(points, q, k) = Sublist(points, places)
  BY DEF StoreSearch
<1>5. \A n : n \in places <=> n \in 1..Len(points) /\ n <= k /\ (q.prefix => points[n].under)
  BY <1>2
<1>6. PICK found : found = StoreSearch(points, q, k)
  OBVIOUS
<1> DEFINE S == Point(R)
<1>7. points \in Seq(S)
  OBVIOUS
<1> HIDE DEF places, S
<1>8. /\ found \in Seq(S)
      /\ \A x : x \in ToSet(found) <=> \E i \in places : points[i] = x
      /\ IsInjective(points) => IsInjective(found)
  <2>1. PICK P : P = places
    OBVIOUS
  <2>2. P \subseteq 1..Len(points)
    BY <1>3, <2>1
  <2>3. /\ Sublist(points, P) \in Seq(S)
        /\ \A x : x \in ToSet(Sublist(points, P)) <=> \E i \in P : points[i] = x
        /\ IsInjective(points) => IsInjective(Sublist(points, P))
    BY <1>7, <2>2, SublistIs
  <2> QED
    BY <1>4, <1>6, <2>1, <2>3
<1>9. \A x : x \in ToSet(found) <=>
         \E n \in 1..Len(points) : n <= k /\ x = points[n] /\ (q.prefix => x.under)
  BY <1>5, <1>8
<1> QED
  BY <1>6, <1>8, <1>9 DEF S

(* Hits are.                                                               *)
LEMMA HitsAre ==
  ASSUME NEW R, NEW lists, Collections(lists, R), NEW q \in Query
  PROVE  HitsOf(Hits(lists, q), lists, q, R)
<1> DEFINE S == Point(R)
           X == Seq(S)
           N == Len(lists)
<1>1. /\ lists \in Seq(X) /\ N \in Nat /\ DOMAIN lists = 1..N
      /\ \A i \in 1..N : lists[i] \in X
  <2>1. lists \in Seq(X)
    BY DEF Collections
  <2> HIDE DEF X
  <2> QED
    BY <2>1
<1>2. PICK K \in Nat : K = FetchK(q.limit)
  <2>1. q.limit \in Nat \ {0}
    BY DEF Query
  <2> QED
    BY <2>1, FetchIs
<1> DEFINE searched == [i \in 1..N |-> StoreSearch(lists[i], q, K)]
<1>3. ASSUME NEW i \in 1..N
      PROVE  /\ StoreSearch(lists[i], q, K) \in X /\ IsInjective(StoreSearch(lists[i], q, K))
             /\ \A x : x \in ToSet(StoreSearch(lists[i], q, K)) <=>
                  \E n \in 1..Len(lists[i]) : n <= K /\ x = lists[i][n] /\ (q.prefix => x.under)
  <2>1. PICK points : points = lists[i]
    OBVIOUS
  <2>2. points \in Seq(S)
    BY <1>1, <2>1
  <2>3. IsInjective(points)
    <3>1. DOMAIN points = 1..Len(points)
      BY <2>2
    <3>2. \A n \in 1..Len(points) : points[n].rank = n
      BY <2>1 DEF Collections
    <3> QED
      BY <3>1, <3>2 DEF IsInjective
  <2> QED
    BY <2>1, <2>2, <2>3, StoreSearchIs
<1>4. \A i \in 1..N : searched[i] = StoreSearch(lists[i], q, K)
  OBVIOUS
<1>5. searched \in Seq(X) /\ Len(searched) = N
  <2>1. searched \in [1..N -> X]
    <3> HIDE DEF X
    <3> QED
      BY <1>3
  <2> HIDE DEF searched, X
  <2> QED
    BY <1>1, <2>1, ListOf
<1>6. PICK found : found = FlattenSeq(searched)
  OBVIOUS
<1>7. found = FlattenSeq([i \in DOMAIN lists |-> StoreSearch(lists[i], q, FetchK(q.limit))])
  BY <1>1, <1>2, <1>6
<1> HIDE DEF searched, S
<1>8. /\ found \in Seq(S)
      /\ \A x : x \in ToSet(found) <=> \E i \in 1..N : x \in ToSet(searched[i])
  BY <1>5, <1>6, FlattenElements
<1>9. IsInjective(found)
  <2>1. \A i \in 1..Len(searched) : IsInjective(searched[i])
    BY <1>3, <1>4, <1>5
  <2>2. \A i \in 1..N : \A x : x \in ToSet(searched[i]) => x \in ToSet(lists[i])
    <3> SUFFICES ASSUME NEW i \in 1..N, NEW x, x \in ToSet(searched[i])
                 PROVE  x \in ToSet(lists[i])
      OBVIOUS
    <3>1. PICK n \in 1..Len(lists[i]) : x = lists[i][n]
      BY <1>3, <1>4
    <3>2. DOMAIN lists[i] = 1..Len(lists[i])
      <4>1. lists[i] \in Seq(S)
        BY <1>1
      <4> QED
        BY <4>1
    <3> QED
      BY <3>1, <3>2 DEF ToSet
  <2>3. \A i, j \in 1..Len(searched) :
          \A x : x \in ToSet(searched[i]) /\ x \in ToSet(searched[j]) => i = j
    BY <1>5, <2>2 DEF Collections
  <2> QED
    BY <1>5, <1>6, <2>1, <2>3, FlattenInjective
<1> DEFINE Has(i, x) ==
             \E n \in 1..Len(lists[i]) : n <= K /\ x = lists[i][n] /\ (q.prefix => x.under)
<1>10. \A x : x \in ToSet(found) <=> \E i \in 1..N : Has(i, x)
  <2>1. \A i \in 1..N : \A x : x \in ToSet(searched[i]) <=> Has(i, x)
    <3> SUFFICES ASSUME NEW i \in 1..N
                 PROVE  \A x : x \in ToSet(searched[i]) <=> Has(i, x)
      OBVIOUS
    <3> QED
      BY <1>3, <1>4
  <2> HIDE DEF Has, N
  <2> QED
    BY <1>8, <2>1
<1> DEFINE places == {n \in DOMAIN found : q.codeOnly => found[n].code}
<1>11. PICK kept : kept = Sublist(found, places)
  OBVIOUS
<1>12. places \subseteq 1..Len(found) /\ DOMAIN found = 1..Len(found)
  BY <1>8
<1>13. \A n : n \in places <=> n \in DOMAIN found /\ (q.codeOnly => found[n].code)
  OBVIOUS
<1> HIDE DEF places
<1>14. /\ kept \in Seq(S) /\ IsInjective(kept)
       /\ \A x : x \in ToSet(kept) <=> \E n \in places : found[n] = x
  <2>1. PICK P : P = places
    OBVIOUS
  <2>2. P \subseteq 1..Len(found)
    BY <1>12, <2>1
  <2>3. /\ Sublist(found, P) \in Seq(S)
        /\ \A x : x \in ToSet(Sublist(found, P)) <=> \E i \in P : found[i] = x
        /\ IsInjective(found) => IsInjective(Sublist(found, P))
    BY <1>8, <2>2, SublistIs
  <2> QED
    BY <1>9, <1>11, <2>1, <2>3
<1>15. \A x : x \in ToSet(kept) <=>
         \E i \in 1..N : \E n \in 1..Len(lists[i]) : n <= K /\ x = lists[i][n] /\ Matches(x, q)
  <2>1. \A x : x \in ToSet(kept) <=> x \in ToSet(found) /\ (q.codeOnly => x.code)
    <3>1. \A x : x \in ToSet(found) <=> \E n \in DOMAIN found : found[n] = x
      BY DEF ToSet
    <3> QED
      BY <1>13, <1>14, <3>1
  <2>2. \A i \in 1..N : \A x : Has(i, x) /\ (q.codeOnly => x.code) <=>
          \E n \in 1..Len(lists[i]) : n <= K /\ x = lists[i][n] /\ Matches(x, q)
    BY DEF Matches
  <2> HIDE DEF Has, N
  <2> QED
    BY <1>10, <2>1, <2>2
<1> DEFINE scores == [i \in 1..Len(kept) |-> Score(kept[i])]
<1>16. DOMAIN kept = 1..Len(kept) /\ Len(kept) \in Nat
  BY <1>14
<1>17. \A i \in 1..Len(kept) : scores[i] = Score(kept[i]) /\ Score(kept[i]) \in Int
  <2>1. \A i \in 1..Len(kept) : kept[i] \in S
    BY <1>14
  <2> QED
    BY <2>1 DEF S, Point, Score
<1>18. scores \in [1..Len(kept) -> Int]
  BY <1>17
<1>19. PICK hits : hits = Best(kept, scores, Len(kept))
  OBVIOUS
<1>20. Hits(lists, q) = hits
  BY <1>7, <1>11, <1>16, <1>19 DEF Hits, places
<1> HIDE DEF scores
<1>21. PICK at : Sorts(at, kept, scores, hits)
  BY <1>14, <1>18, <1>19, BestSorts
<1> DEFINE M == Len(kept)
<1>22. /\ at \in [1..M -> 1..M]
       /\ \A m, n \in 1..M : at[m] = at[n] => m = n
       /\ \A i \in 1..M : \E n \in 1..M : at[n] = i
       /\ \A m, n \in 1..M : m < n => scores[at[m]] >= scores[at[n]]
       /\ hits = [n \in 1..M |-> kept[at[n]]]
  BY <1>21 DEF Sorts
<1>23. M \in Nat /\ \A i \in 1..M : kept[i] \in S
  BY <1>14
<1>24. DOMAIN kept = 1..M /\ \A i \in 1..M : scores[i] = Score(kept[i])
  BY <1>16, <1>17
<1> HIDE DEF M
<1>25. hits \in [1..M -> S] /\ \A n \in 1..M : hits[n] = kept[at[n]] /\ at[n] \in 1..M
  BY <1>22, <1>23
<1>26. hits \in Seq(S) /\ Len(hits) = M /\ DOMAIN hits = 1..M
  BY <1>23, <1>25, ListOf
<1>27. IsInjective(hits)
  BY <1>14, <1>22, <1>25, <1>26, <1>24 DEF IsInjective
<1>28. \A x : x \in ToSet(hits) <=> x \in ToSet(kept)
  <2>1. \A x : x \in ToSet(hits) <=> \E n \in 1..M : hits[n] = x
    BY <1>26 DEF ToSet
  <2>2. \A x : x \in ToSet(kept) <=> \E n \in 1..M : kept[n] = x
    BY <1>24 DEF ToSet
  <2> QED
    BY <1>22, <1>25, <2>1, <2>2
<1>29. \A m, n \in 1..Len(hits) : m < n => Score(hits[m]) >= Score(hits[n])
  <2>1. \A n \in 1..M : scores[at[n]] = Score(hits[n])
    BY <1>25, <1>24
  <2>2. ASSUME NEW m \in 1..M, NEW n \in 1..M, m < n
        PROVE  Score(hits[m]) >= Score(hits[n])
    <3>1. scores[at[m]] >= scores[at[n]]
      BY <1>22, <2>2
    <3> QED
      BY <2>1, <3>1
  <2> QED
    BY <1>26, <2>2
<1> QED
  BY <1>2, <1>15, <1>20, <1>26, <1>27, <1>28, <1>29 DEF HitsOf, S

-----------------------------------------------------------------------------
(* What an answer shows of what a query finds.                             *)

(* The first R rows are shown: all, or as many as limit or budget allow.   *)
Fitted(R, list, rows, costs, limit, budget) ==
  /\ R \in 0..Len(rows) /\ R <= limit
  /\ list.rows = SubSeq(rows, 1, R) /\ (list.truncated <=> R < Len(rows))
  /\ R < Len(rows) => R >= 1 /\ (R = limit \/ SumTo(costs)[R + 1] > budget)

(* Fit shows a beginning of the rows: if a row fits, so do those before it. *)
LEMMA FitIs ==
  ASSUME NEW S, NEW rows \in Seq(S), NEW costs \in Seq(Nat), Len(costs) = Len(rows),
         NEW limit \in Nat \ {0}, NEW budget \in Nat
  PROVE  \E R : Fitted(R, Fit(rows, costs, limit, budget), rows, costs, limit, budget)
<1> DEFINE most == Smaller(limit, Len(rows))
           fits == {n \in 1..most : \A m \in 2..n : SumTo(costs)[m] <= budget}
<1>1. Len(rows) \in Nat /\ most \in Nat /\ most <= Len(rows) /\ most <= limit
      /\ (most = limit \/ most = Len(rows))
  <2>1. Len(rows) \in Nat
    OBVIOUS
  <2> QED
    BY <2>1 DEF Smaller
<1>2. \A m \in 0..Len(rows) : SumTo(costs)[m] \in Nat
  <2>1. SumTo(costs) \in [0..Len(costs) -> Nat]
    BY SumIs
  <2> QED
    BY <2>1
<1> HIDE DEF most
<1>3. PICK R : R = Cardinality(fits)
  OBVIOUS
<1>4. R \in 0..most /\ fits = 1..R
  <2>1. fits \in SUBSET (1..most)
    OBVIOUS
  <2>2. \A k \in fits : \A m \in 1..k : m \in fits
    <3> SUFFICES ASSUME NEW k \in 1..most, \A m \in 2..k : SumTo(costs)[m] <= budget, NEW m \in 1..k
                 PROVE  m \in fits
      OBVIOUS
    <3>1. m \in 1..most /\ \A n \in 2..m : n \in 2..k
      BY <1>1
    <3> QED
      BY <3>1
  <2> HIDE DEF fits
  <2>3. Cardinality(fits) \in 0..most /\ fits = 1..Cardinality(fits)
    BY <1>1, <2>1, <2>2, Beginning
  <2> QED
    BY <1>3, <2>3
<1>5. ASSUME R < Len(rows)
      PROVE  R >= 1 /\ (R = limit \/ SumTo(costs)[R + 1] > budget)
  <2>1. R >= 1
    <3>1. 1 \in 1..most /\ 2..1 = {}
      BY <1>1, <1>4, <1>5
    <3>2. 1 \in fits
      BY <3>1
    <3> HIDE DEF fits
    <3> QED
      BY <1>4, <3>2
  <2>2. CASE R = most
    BY <1>1, <1>5, <2>1, <2>2
  <2>3. CASE R # most
    <3>1. R + 1 \in 1..most /\ R + 1 \notin 1..R /\ R \in 1..R
      BY <1>1, <1>4, <2>1, <2>3
    <3>2. R + 1 \notin fits /\ R \in fits
      <4> HIDE DEF fits
      <4> QED
        BY <1>4, <3>1
    <3>3. PICK m \in 2..(R + 1) : ~(SumTo(costs)[m] <= budget)
      BY <3>1, <3>2
    <3>4. \A k \in 2..R : SumTo(costs)[k] <= budget
      BY <3>2
    <3>5. m = R + 1
      <4>1. m \notin 2..R
        BY <3>3, <3>4
      <4> QED
        BY <1>1, <1>4, <3>3, <4>1
    <3>6. SumTo(costs)[R + 1] \in Nat
      <4>1. R + 1 \in 0..Len(rows)
        BY <1>1, <3>1
      <4> QED
        BY <1>2, <4>1
    <3> QED
      BY <2>1, <3>3, <3>5, <3>6
  <2> QED
    BY <2>2, <2>3
<1>6. PICK list : list = Fit(rows, costs, limit, budget)
  OBVIOUS
<1>7. list.rows = SubSeq(rows, 1, R) /\ (list.truncated <=> R < Len(rows))
  BY <1>3, <1>6 DEF Fit, most
<1>8. R \in 0..Len(rows) /\ R <= limit
  BY <1>1, <1>4
<1> HIDE DEF fits
<1>9. Fitted(R, list, rows, costs, limit, budget)
  BY <1>5, <1>7, <1>8 DEF Fitted
<1> QED
  BY <1>6, <1>9

(* The rows of an answer begin the hits.                                   *)
Costs(hits) == [i \in DOMAIN hits |-> Tokens(hits[i].lines)]

(* R of them are shown.                                                    *)
Shows(R, rows, hits, q) ==
  /\ R \in 0..Len(hits) /\ rows = SubSeq(hits, 1, R)
  /\ R < Len(hits) => R >= 1 /\ (R = q.limit \/ SumTo(Costs(hits))[R + 1] > q.budget)

(* What hits cost.                                                         *)
LEMMA CostsAre ==
  ASSUME NEW R, NEW hits \in Seq(Point(R))
  PROVE  /\ Costs(hits) \in Seq(Nat) /\ Len(Costs(hits)) = Len(hits)
         /\ \A i \in 1..Len(hits) : hits[i].lines \in Chunk /\ Costs(hits)[i] = Tokens(hits[i].lines)
<1>1. Len(hits) \in Nat /\ DOMAIN hits = 1..Len(hits) /\ \A i \in 1..Len(hits) : hits[i] \in Point(R)
  <2> DEFINE S == Point(R)
  <2>1. hits \in Seq(S)
    OBVIOUS
  <2> HIDE DEF S
  <2>2. Len(hits) \in Nat /\ DOMAIN hits = 1..Len(hits) /\ \A i \in 1..Len(hits) : hits[i] \in S
    BY <2>1
  <2> QED
    BY <2>2 DEF S
<1>2. \A i \in 1..Len(hits) : hits[i].lines \in Chunk
  BY <1>1 DEF Point
<1>3. \A c \in Chunk : Tokens(c) \in Nat
  <2>1. <<>> \in Seq(Chunk)
    OBVIOUS
  <2> QED
    BY <2>1, TokensAre
<1>4. Costs(hits) = [i \in 1..Len(hits) |-> Tokens(hits[i].lines)]
  BY <1>1 DEF Costs
<1>5. Costs(hits) \in [1..Len(hits) -> Nat]
  BY <1>2, <1>3, <1>4
<1>6. Costs(hits) \in Seq(Nat) /\ Len(Costs(hits)) = Len(hits)
  BY <1>1, <1>5, ListOf
<1> QED
  BY <1>2, <1>4, <1>6

(* Either search shows them so.                                            *)
LEMMA ShownIs ==
  ASSUME NEW S, NEW lists, Collections(lists, S), NEW q \in Query,
         NEW rows \in {Semantic(lists, q).rows, SearchJson(lists, q).rows}
  PROVE  \E R : Shows(R, rows, Hits(lists, q), q)
<1>1. PICK hits : hits = Hits(lists, q)
  OBVIOUS
<1> DEFINE T == Point(S)
<1>2. hits \in Seq(T)
  BY <1>1, HitsAre DEF HitsOf
<1>3. Costs(hits) \in Seq(Nat) /\ Len(Costs(hits)) = Len(hits)
  BY <1>2, CostsAre
<1> HIDE DEF T
<1>4. Len(hits) \in Nat
  BY <1>2
<1>5. q.limit \in Nat \ {0} /\ q.budget \in Nat
  BY DEF Query
<1>6. CASE rows = Semantic(lists, q).rows
  <2>1. PICK costs, limit, budget : costs = Costs(hits) /\ limit = q.limit /\ budget = q.budget
    OBVIOUS
  <2>2. PICK R : Fitted(R, Fit(hits, costs, limit, budget), hits, costs, limit, budget)
    BY <1>2, <1>3, <1>5, <2>1, FitIs
  <2>3. Semantic(lists, q) = Fit(hits, costs, limit, budget)
    BY <1>1, <2>1 DEF Semantic, Costs
  <2>4. Shows(R, rows, hits, q)
    BY <1>6, <2>1, <2>2, <2>3 DEF Fitted, Shows
  <2> QED
    BY <1>1, <2>4
<1>7. CASE rows = SearchJson(lists, q).rows
  <2>1. rows = SubSeq(hits, 1, Smaller(q.limit, Len(hits)))
    BY <1>1, <1>7 DEF SearchJson
  <2>2. PICK R : R = Smaller(q.limit, Len(hits))
    OBVIOUS
  <2>3. R \in 0..Len(hits) /\ (R < Len(hits) => R >= 1 /\ R = q.limit)
    BY <1>4, <1>5, <2>2 DEF Smaller
  <2>4. Shows(R, rows, hits, q)
    BY <2>1, <2>2, <2>3 DEF Shows
  <2> QED
    BY <1>1, <2>4
<1> QED
  BY <1>6, <1>7

(* What is not fetched is outranked by what is.                            *)
LEMMA Outranked ==
  ASSUME NEW S, NEW points \in Seq(Point(S)), \A m \in 1..Len(points) : points[m].rank = m,
         NEW n \in 1..Len(points), NEW least \in Nat, n > least
  PROVE  Cardinality({o \in ToSet(points) : Score(o) > Score(points[n])}) >= least
<1> DEFINE T == Point(S)
           better == {o \in ToSet(points) : Score(o) > Score(points[n])}
<1>1. points \in Seq(T)
  OBVIOUS
<1> HIDE DEF T
<1>2. Len(points) \in Nat /\ DOMAIN points = 1..Len(points)
  BY <1>1
<1>3. \A m \in 1..Len(points) : Score(points[m]) = -m
  BY DEF Score
<1>4. ToSet(points) = {points[m] : m \in 1..Len(points)}
  BY <1>2 DEF ToSet
<1>5. IsFiniteSet(ToSet(points))
  <2> DEFINE f == [m \in 1..Len(points) |-> points[m]]
  <2>1. f \in Surjection(1..Len(points), ToSet(points))
    BY <1>4 DEF Surjection
  <2>2. IsFiniteSet(1..Len(points))
    BY <1>2, FS_Interval
  <2> HIDE DEF f
  <2> QED
    BY <2>1, <2>2, FS_Surjection
<1>6. better \in SUBSET ToSet(points)
  OBVIOUS
<1> DEFINE g == [m \in 1..(n - 1) |-> points[m]]
<1>7. g \in [1..(n - 1) -> better]
  <2>1. ASSUME NEW m \in 1..(n - 1)
        PROVE  points[m] \in better
    <3>1. m \in 1..Len(points) /\ -m > -n
      BY <1>2
    <3>2. points[m] \in ToSet(points)
      BY <1>4, <3>1
    <3>3. Score(points[m]) > Score(points[n])
      BY <1>3, <3>1
    <3> QED
      BY <3>2, <3>3
  <2> HIDE DEF better
  <2> QED
    BY <2>1
<1>8. g \in Injection(1..(n - 1), better)
  <2>1. \A a, b \in 1..(n - 1) : g[a] = g[b] => a = b
    <3>1. \A a \in 1..(n - 1) : a \in 1..Len(points) /\ g[a] = points[a]
      BY <1>2
    <3> HIDE DEF g
    <3> QED
      BY <3>1
  <2> HIDE DEF g, better
  <2> QED
    BY <1>7, <2>1 DEF Injection, IsInjective
<1> HIDE DEF g, better
<1>9. IsFiniteSet(better) /\ Cardinality(better) \in Nat
  <2>1. IsFiniteSet(better)
    BY <1>5, <1>6, FS_Subset
  <2> QED
    BY <2>1, FS_CardinalityType
<1>10. Cardinality(1..(n - 1)) <= Cardinality(better)
  BY <1>8, <1>9, FS_Injection
<1>11. Cardinality(1..(n - 1)) = n - 1
  <2>1. Cardinality(1..(n - 1)) = IF 1 > n - 1 THEN 0 ELSE (n - 1) - 1 + 1
    BY FS_Interval
  <2> QED
    BY <2>1
<1>12. PICK count \in Nat : count = Cardinality(better)
  BY <1>9
<1> QED
  BY <1>10, <1>11, <1>12 DEF better

(* A search finds what it should: a point that matches and is not shown is *)
(* outranked (tools.py:123-185).                                           *)
THEOREM NothingMissed ==
  ASSUME NEW S, NEW lists, Collections(lists, S), NEW q \in Query,
         NEW rows \in {Semantic(lists, q).rows, SearchJson(lists, q).rows}
  PROVE  NothingIsMissed(lists, q, rows)
<1> DEFINE N == Len(lists)
           atLeast == Smaller(q.limit * FetchFactor, FetchCap)
           wanted  == UNION {{p \in ToSet(lists[i]) : Matches(p, q)} : i \in DOMAIN lists}
           T == Point(S)
<1>1. PICK hits : hits = Hits(lists, q)
  OBVIOUS
<1>2. /\ hits \in Seq(T) /\ IsInjective(hits)
      /\ \A x : x \in ToSet(hits) <=>
           \E i \in 1..Len(lists) : \E n \in 1..Len(lists[i]) :
             n <= FetchK(q.limit) /\ x = lists[i][n] /\ Matches(x, q)
      /\ \A m, n \in 1..Len(hits) : m < n => Score(hits[m]) >= Score(hits[n])
  BY <1>1, HitsAre DEF HitsOf
<1>3. PICK R : Shows(R, rows, hits, q)
  BY <1>1, ShownIs
<1>4. /\ R \in 0..Len(hits) /\ rows = SubSeq(hits, 1, R)
      /\ R < Len(hits) => R >= 1 /\ (R = q.limit \/ SumTo(Costs(hits))[R + 1] > q.budget)
  BY <1>3 DEF Shows
<1>5. /\ Costs(hits) \in Seq(Nat) /\ Len(Costs(hits)) = Len(hits)
      /\ \A i \in 1..Len(hits) : hits[i].lines \in Chunk /\ Costs(hits)[i] = Tokens(hits[i].lines)
  BY <1>2, CostsAre
<1>6. \A i \in 1..Len(hits) : Score(hits[i]) \in Int
  <2>1. \A i \in 1..Len(hits) : hits[i] \in T
    <3> HIDE DEF T
    <3> QED
      BY <1>2
  <2> QED
    BY <2>1 DEF Point, Score
<1>7. /\ lists \in Seq(Seq(T)) /\ N \in Nat /\ DOMAIN lists = 1..N
      /\ \A i \in 1..N : DOMAIN lists[i] = 1..Len(lists[i]) /\ lists[i] \in Seq(T)
  <2>1. lists \in Seq(Seq(T))
    BY DEF Collections
  <2> HIDE DEF T
  <2>2. N \in Nat /\ DOMAIN lists = 1..N /\ \A i \in 1..N : lists[i] \in Seq(T)
    BY <2>1
  <2>3. \A i \in 1..N : DOMAIN lists[i] = 1..Len(lists[i])
    BY <2>2
  <2> QED
    BY <2>1, <2>2, <2>3
<1> HIDE DEF T, N
<1>8. Len(hits) \in Nat /\ DOMAIN hits = 1..Len(hits)
  BY <1>2
<1>9. rows \in Seq(T) /\ Len(rows) = R /\ DOMAIN rows = 1..R /\ \A i \in 1..R : rows[i] = hits[i]
  <2>1. R \in Nat /\ R <= Len(hits) /\ \A i \in 1..R : hits[i] \in T
    BY <1>2, <1>4, <1>8
  <2>2. /\ rows \in Seq(T) /\ Len(rows) = IF 1 <= R THEN R - 1 + 1 ELSE 0
        /\ \A i \in 1..(R - 1 + 1) : rows[i] = hits[1 + i - 1]
    BY <1>4, <2>1, SubSeqProperties
  <2>3. Len(rows) = R /\ \A i \in 1..R : rows[i] = hits[i]
    BY <2>1, <2>2
  <2> QED
    BY <2>2, <2>3
<1>10. \A x : x \in wanted <=> \E i \in 1..N : \E n \in 1..Len(lists[i]) : x = lists[i][n] /\ Matches(x, q)
  <2> DEFINE Has(i, x) == \E n \in 1..Len(lists[i]) : x = lists[i][n] /\ Matches(x, q)
  <2>1. \A i \in 1..N : \A x : x \in ToSet(lists[i]) /\ Matches(x, q) <=> Has(i, x)
    <3>1. \A i \in 1..N : \A x : x \in ToSet(lists[i]) <=> \E n \in 1..Len(lists[i]) : x = lists[i][n]
      BY <1>7 DEF ToSet
    <3> SUFFICES ASSUME NEW i \in 1..N, NEW x
                 PROVE  x \in ToSet(lists[i]) /\ Matches(x, q) <=> Has(i, x)
      OBVIOUS
    <3>2. x \in ToSet(lists[i]) <=> \E n \in 1..Len(lists[i]) : x = lists[i][n]
      BY <3>1
    <3> QED
      BY <3>2
  <2>2. \A x : x \in wanted <=> \E i \in 1..N : x \in ToSet(lists[i]) /\ Matches(x, q)
    BY <1>7
  <2>3. \A x : x \in wanted <=> \E i \in 1..N : Has(i, x)
    <3> HIDE DEF wanted, Has
    <3> QED
      BY <2>1, <2>2
  <2> QED
    BY <2>3
<1>11. \A i \in 1..Len(hits) : hits[i] \in ToSet(hits) /\ hits[i] \in wanted
  <2>1. \A i \in 1..Len(hits) : hits[i] \in ToSet(hits)
    BY <1>8 DEF ToSet
  <2>2. \A x : x \in ToSet(hits) => x \in wanted
    <3> HIDE DEF wanted
    <3> QED
      BY <1>2, <1>10 DEF N
  <2> QED
    BY <2>1, <2>2
<1> HIDE DEF wanted
<1>12. ToSet(rows) = {hits[i] : i \in 1..R}
  BY <1>9 DEF ToSet
<1>13. ToSet(rows) \subseteq wanted
  <2>1. \A i \in 1..R : i \in 1..Len(hits)
    BY <1>4, <1>8
  <2> QED
    BY <1>11, <1>12, <2>1
<1>14. ASSUME NEW p \in wanted \ ToSet(rows)
       PROVE  \/ \E i \in DOMAIN lists :
                   /\ p \in ToSet(lists[i])
                   /\ Cardinality({o \in ToSet(lists[i]) : Score(o) > Score(p)}) >= atLeast
              \/ /\ rows # <<>> /\ \A i \in DOMAIN rows : Score(rows[i]) >= Score(p)
                 /\ \/ Len(rows) = q.limit
                    \/ \E o \in wanted \ ToSet(rows) :
                         /\ Score(o) >= Score(p)
                         /\ TokensOf([i \in DOMAIN rows |-> rows[i].lines]) + Tokens(o.lines) > q.budget
  <2>1. PICK i \in 1..N : \E n \in 1..Len(lists[i]) : p = lists[i][n] /\ Matches(p, q)
    BY <1>10
  <2>2. PICK n \in 1..Len(lists[i]) : p = lists[i][n] /\ Matches(p, q)
    BY <2>1
  <2>3. PICK points : points = lists[i]
    OBVIOUS
  <2>4. points \in Seq(T) /\ DOMAIN points = 1..Len(points) /\ n \in 1..Len(points) /\ p = points[n]
    BY <1>7, <2>2, <2>3
  <2>5. Len(points) \in Nat
    BY <2>4
  <2>6. PICK K, least : K = FetchK(q.limit) /\ least = atLeast
    OBVIOUS
  <2>7. K \in Nat /\ least \in Nat /\ K >= least
    <3>1. q.limit \in Nat \ {0}
      BY DEF Query
    <3> QED
      BY <2>6, <3>1, FetchIs
  <2>8. CASE n > K
    <3>1. n > least
      BY <2>4, <2>5, <2>7, <2>8
    <3>2. \A m \in 1..Len(points) : points[m].rank = m
      BY <2>3 DEF Collections, N
    <3>3. Cardinality({o \in ToSet(points) : Score(o) > Score(points[n])}) >= least
      BY <2>4, <2>7, <3>1, <3>2, Outranked DEF T
    <3>4. p \in ToSet(points) /\ i \in DOMAIN lists
      BY <1>7, <2>4 DEF ToSet
    <3> HIDE DEF atLeast
    <3> QED
      BY <2>3, <2>4, <2>6, <3>3, <3>4
  <2>9. CASE ~(n > K)
    <3>1. p \in ToSet(hits)
      <4>1. n <= FetchK(q.limit) /\ i \in 1..Len(lists)
        BY <2>4, <2>5, <2>6, <2>7, <2>9 DEF N
      <4> QED
        BY <1>2, <2>2, <4>1
    <3>2. PICK h \in 1..Len(hits) : p = hits[h]
      BY <1>8, <3>1 DEF ToSet
    <3>3. ~(h <= R) /\ h \in Nat /\ R \in Nat
      <4>1. h \notin 1..R
        BY <1>12, <3>2
      <4> QED
        BY <1>4, <1>8, <4>1
    <3>4. R < Len(hits) /\ R >= 1 /\ R + 1 \in 1..Len(hits)
      BY <1>4, <1>8, <3>3
    <3>5. rows # <<>>
      BY <1>9, <3>3, <3>4
    <3>6. \A k \in DOMAIN rows : Score(rows[k]) >= Score(p)
      <4>1. \A k \in 1..R : k \in 1..Len(hits) /\ k < h
        BY <1>8, <3>3, <3>4
      <4> QED
        BY <1>2, <1>9, <3>2, <4>1
    <3>7. CASE R = q.limit
      BY <1>9, <3>5, <3>6, <3>7
    <3>8. CASE SumTo(Costs(hits))[R + 1] > q.budget
      <4>1. PICK o : o = hits[R + 1]
        OBVIOUS
      <4>2. o \in wanted /\ o.lines \in Chunk
        BY <1>5, <1>11, <3>4, <4>1
      <4>3. o \notin ToSet(rows)
        <5> SUFFICES ASSUME o \in ToSet(rows) PROVE FALSE
          OBVIOUS
        <5>1. PICK k \in 1..R : o = hits[k]
          BY <1>12
        <5>2. k \in 1..Len(hits) /\ k # R + 1
          BY <1>8, <3>3, <3>4
        <5> QED
          BY <1>2, <1>8, <3>4, <4>1, <5>1, <5>2 DEF IsInjective
      <4>4. Score(o) >= Score(p)
        <5>1. CASE h = R + 1
          BY <1>6, <3>2, <4>1, <5>1
        <5>2. CASE h # R + 1
          <6>1. R + 1 < h
            BY <3>3, <5>2
          <6> QED
            BY <1>2, <3>2, <3>4, <4>1, <6>1
        <5> QED
          BY <5>1, <5>2
      <4>5. TokensOf([k \in DOMAIN rows |-> rows[k].lines]) + Tokens(o.lines)
              = SumTo(Costs(hits))[R + 1]
        <5>1. PICK shown : shown = [k \in 1..R |-> hits[k].lines]
          OBVIOUS
        <5>2. \A k \in 1..R : k \in 1..Len(hits)
          BY <1>8, <3>3, <3>4
        <5>3. shown \in [1..R -> Chunk] /\ \A k \in 1..R : shown[k] = hits[k].lines
          BY <1>5, <5>1, <5>2
        <5>4. shown \in Seq(Chunk) /\ Len(shown) = R /\ DOMAIN shown = 1..R
          BY <3>3, <5>3, ListOf
        <5>5. [k \in DOMAIN rows |-> rows[k].lines] = shown
          BY <1>9, <5>1
        <5>6. PICK costs : costs = [k \in 1..R |-> Tokens(shown[k])]
          OBVIOUS
        <5>7. TokensOf(shown) = SumTo(costs)[R]
          BY <5>4, <5>6 DEF TokensOf
        <5>8. \A c \in Chunk : Tokens(c) \in Nat
          BY <5>4, TokensAre
        <5>9. costs \in [1..R -> Nat] /\ \A k \in 1..R : costs[k] = Costs(hits)[k]
          BY <1>5, <5>2, <5>3, <5>6, <5>8
        <5>10. costs \in Seq(Nat) /\ Len(costs) = R
          BY <3>3, <5>9, ListOf
        <5>11. SumTo(costs)[R] = SumTo(Costs(hits))[R]
          <6>1. R <= Len(costs) /\ R <= Len(Costs(hits))
            BY <1>5, <1>8, <3>3, <3>4, <5>10
          <6> QED
            BY <1>5, <3>3, <5>9, <5>10, <6>1, SumAgree
        <5>12. SumTo(Costs(hits))[R + 1] = SumTo(Costs(hits))[R] + Costs(hits)[R + 1]
          <6>1. R + 1 \in 1..Len(Costs(hits)) /\ (R + 1) - 1 = R
            BY <1>5, <3>3, <3>4
          <6>2. \A k \in 1..Len(Costs(hits)) :
                  SumTo(Costs(hits))[k] = SumTo(Costs(hits))[k - 1] + Costs(hits)[k]
            BY <1>5, SumIs
          <6> QED
            BY <6>1, <6>2
        <5>13. Costs(hits)[R + 1] = Tokens(o.lines)
          BY <1>5, <3>4, <4>1
        <5> QED
          BY <5>5, <5>7, <5>11, <5>12, <5>13
      <4>6. TokensOf([k \in DOMAIN rows |-> rows[k].lines]) + Tokens(o.lines) > q.budget
        BY <3>8, <4>5
      <4> QED
        BY <3>5, <3>6, <4>2, <4>3, <4>4, <4>6
    <3> QED
      BY <1>4, <3>4, <3>7, <3>8
  <2> QED
    BY <2>8, <2>9
<1> HIDE DEF atLeast
<1> QED
  BY <1>13, <1>14 DEF NothingIsMissed, wanted, atLeast

-----------------------------------------------------------------------------
(* Lists and texts that are cut say so.                                    *)

(* A list is whole, or says that it is cut.                                *)
Tells(list, all) == list.truncated \/ list.rows = all

(* Each row costs a token.                                                 *)
LEMMA OneTokenIs ==
  ASSUME NEW S, NEW rows \in Seq(S)
  PROVE  OneToken(rows) \in Seq(Nat) /\ Len(OneToken(rows)) = Len(rows)
<1>1. Len(rows) \in Nat /\ DOMAIN rows = 1..Len(rows)
  OBVIOUS
<1>2. OneToken(rows) \in [1..Len(rows) -> Nat]
  BY <1>1 DEF OneToken
<1> QED
  BY <1>1, <1>2, ListOf

(* What fits a limit and a budget says whether it is all.                  *)
LEMMA FitTells ==
  ASSUME NEW S, NEW rows \in Seq(S), NEW limit \in Nat \ {0}, NEW budget \in Nat
  PROVE  Tells(Fit(rows, OneToken(rows), limit, budget), rows)
<1>1. PICK costs : costs = OneToken(rows)
  OBVIOUS
<1>2. costs \in Seq(Nat) /\ Len(costs) = Len(rows) /\ Len(rows) \in Nat
  BY <1>1, OneTokenIs
<1>3. PICK list : list = Fit(rows, costs, limit, budget)
  OBVIOUS
<1>4. PICK R : Fitted(R, list, rows, costs, limit, budget)
  BY <1>2, <1>3, FitIs
<1>5. R \in 0..Len(rows) /\ list.rows = SubSeq(rows, 1, R) /\ (list.truncated <=> R < Len(rows))
  BY <1>4 DEF Fitted
<1>6. CASE R = Len(rows)
  BY <1>1, <1>3, <1>5, <1>6, SubSeqFull DEF Tells
<1>7. CASE R # Len(rows)
  BY <1>1, <1>2, <1>3, <1>5, <1>7 DEF Tells
<1> QED
  BY <1>6, <1>7

(* Also if it fits what was cut to five times the limit.                   *)
LEMMA CutTells ==
  ASSUME NEW S, NEW rows \in Seq(S), NEW limit \in Nat \ {0}, NEW budget \in Nat, NEW shown,
         shown = SubSeq(rows, 1, Smaller(5 * limit, Len(rows)))
  PROVE  Tells(Fit(shown, OneToken(shown), limit, budget), rows)
<1>1. Len(rows) \in Nat /\ \A i \in 1..Len(rows) : rows[i] \in S
  OBVIOUS
<1>2. CASE ~(5 * limit < Len(rows))
  <2>1. Smaller(5 * limit, Len(rows)) = Len(rows)
    BY <1>2 DEF Smaller
  <2>2. shown = rows
    BY <2>1, SubSeqFull
  <2> QED
    BY <2>2, FitTells
<1>3. CASE 5 * limit < Len(rows)
  <2>1. Smaller(5 * limit, Len(rows)) = 5 * limit
    BY <1>3 DEF Smaller
  <2>2. shown \in Seq(S) /\ Len(shown) = 5 * limit
    <3>1. PICK n \in Nat : n = 5 * limit
      OBVIOUS
    <3>2. \A i \in 1..n : rows[i] \in S
      BY <1>1, <1>3, <3>1
    <3>3. SubSeq(rows, 1, n) \in Seq(S) /\ Len(SubSeq(rows, 1, n)) = IF 1 <= n THEN n - 1 + 1 ELSE 0
      BY <3>2, SubSeqProperties
    <3>4. 1 <= n /\ n - 1 + 1 = n
      BY <3>1
    <3> QED
      BY <2>1, <3>1, <3>3, <3>4
  <2>3. PICK costs : costs = OneToken(shown)
    OBVIOUS
  <2>4. costs \in Seq(Nat) /\ Len(costs) = Len(shown)
    BY <2>2, <2>3, OneTokenIs
  <2>5. PICK list : list = Fit(shown, costs, limit, budget)
    OBVIOUS
  <2>6. PICK R : Fitted(R, list, shown, costs, limit, budget)
    BY <2>2, <2>4, <2>5, FitIs
  <2>7. R \in 0..Len(shown) /\ R <= limit /\ (list.truncated <=> R < Len(shown))
    BY <2>6 DEF Fitted
  <2>8. list.truncated
    BY <2>2, <2>7
  <2> QED
    BY <2>3, <2>5, <2>8 DEF Tells
<1> QED
  BY <1>2, <1>3

(* What the tools list are lists.                                          *)
LEMMA AscendingIs ==
  ASSUME NEW n \in Nat, NEW places, places \subseteq 1..n
  PROVE  /\ Ascending(places) \in Seq(1..n)
         /\ \A i \in 1..Len(Ascending(places)) : Ascending(places)[i] \in places
<1>1. IsFiniteSet(1..n)
  BY FS_Interval
<1>2. places \in SUBSET (1..n) /\ places \in SUBSET Nat
  OBVIOUS
<1>3. IsFiniteSet(places)
  BY <1>1, <1>2, FS_Subset
<1>4. Cardinality(places) \in Nat /\ Ascending(places) \in [1..Cardinality(places) -> places]
  BY <1>2, <1>3, AscendingEnumerates
<1>5. PICK N : N = Cardinality(places)
  OBVIOUS
<1>6. Ascending(places) \in [1..N -> 1..n]
  BY <1>2, <1>4, <1>5
<1>7. Ascending(places) \in Seq(1..n) /\ Len(Ascending(places)) = N
  BY <1>4, <1>5, <1>6, ListOf
<1> QED
  BY <1>4, <1>5, <1>7

(* Files, lines, entries and symbols are.                                  *)
LEMMA ListsAre ==
  ASSUME NEW content \in Seq(File), NEW q \in Query
  PROVE  /\ Selected(content, q) \in Seq(Nat)
         /\ MatchingLines(content, q) \in Seq(Nat \X Nat)
         /\ Entries(content) \in Seq({"dir"} \cup Nat)
         /\ SymbolsOf(content, q) \in Seq(Symbol)
<1> DEFINE F == Len(content)
           below == {f \in DOMAIN content : content[f].under}
           chosen == {f \in DOMAIN content : q.prefix => content[f].under}
<1>1. F \in Nat /\ DOMAIN content = 1..F /\ \A f \in 1..F : content[f] \in File
  OBVIOUS
<1> HIDE DEF F
<1>2. below \subseteq 1..F /\ chosen \subseteq 1..F /\ 1..F \ below \subseteq 1..F
  BY <1>1
<1>3. PICK files : files = Ascending(chosen)
  OBVIOUS
<1>4. files = Selected(content, q)
  BY <1>3 DEF Selected
<1> HIDE DEF below, chosen
<1>5. files \in Seq(1..F)
  BY <1>1, <1>2, <1>3, AscendingIs
<1>6. /\ Len(files) \in Nat /\ DOMAIN files = 1..Len(files)
      /\ \A i \in 1..Len(files) : files[i] \in 1..F
  <2>1. PICK S : S = 1..F
    OBVIOUS
  <2>2. Len(files) \in Nat /\ DOMAIN files = 1..Len(files) /\ \A i \in 1..Len(files) : files[i] \in S
    <3>1. files \in Seq(S)
      BY <1>5, <2>1
    <3> QED
      BY <3>1
  <2> QED
    BY <2>1, <2>2
<1>7. Selected(content, q) \in Seq(Nat)
  <2>1. 1..F \subseteq Nat
    BY <1>1
  <2> QED
    BY <1>4, <1>5, <2>1, SeqMonotonic
<1>8. MatchingLines(content, q) \in Seq(Nat \X Nat)
  <2> DEFINE S == Nat \X Nat
             of(i) == [n \in 1..content[files[i]].lines |-> <<files[i], n>>]
             lists == [i \in 1..Len(files) |-> of(i)]
             X == Seq(S)
  <2>1. ASSUME NEW i \in 1..Len(files)
        PROVE  of(i) \in X
    <3>1. PICK N \in Nat, f \in Nat : N = content[files[i]].lines /\ f = files[i]
      <4>1. files[i] \in Nat /\ content[files[i]] \in File
        BY <1>1, <1>6
      <4> QED
        BY <4>1 DEF File
    <3>2. PICK s : s = [n \in 1..N |-> <<f, n>>]
      OBVIOUS
    <3>3. s \in [1..N -> S]
      BY <3>2
    <3>4. s \in Seq(S)
      <4> HIDE DEF S
      <4> QED
        BY <3>3, ListOf
    <3> QED
      BY <3>1, <3>2, <3>4
  <2>2. MatchingLines(content, q) = FlattenSeq(lists)
    BY <1>4, <1>6 DEF MatchingLines
  <2>3. lists \in [1..Len(files) -> X]
    <3> HIDE DEF of, X
    <3> QED
      BY <2>1
  <2> HIDE DEF lists, S
  <2>4. lists \in Seq(X)
    <3> HIDE DEF X
    <3> QED
      BY <1>6, <2>3, ListOf
  <2>5. FlattenSeq(lists) \in Seq(S)
    BY <2>4, FlattenElements
  <2> QED
    BY <2>2, <2>5 DEF S
<1>9. SymbolsOf(content, q) \in Seq(Symbol)
  <2> DEFINE S == Symbol
             X == Seq(S)
             lists == [i \in 1..Len(files) |-> content[files[i]].symbols]
  <2>1. \A i \in 1..Len(files) : content[files[i]].symbols \in X
    BY <1>1, <1>6 DEF File
  <2>2. SymbolsOf(content, q) = FlattenSeq(lists)
    BY <1>4, <1>6 DEF SymbolsOf
  <2>3. lists \in [1..Len(files) -> X]
    <3> HIDE DEF X
    <3> QED
      BY <2>1
  <2> HIDE DEF lists, S
  <2>4. lists \in Seq(X)
    <3> HIDE DEF X
    <3> QED
      BY <1>6, <2>3, ListOf
  <2>5. FlattenSeq(lists) \in Seq(S)
    BY <2>4, FlattenElements
  <2> QED
    BY <2>2, <2>5 DEF S
<1>10. Entries(content) \in Seq({"dir"} \cup Nat)
  <2> DEFINE S == {"dir"} \cup Nat
  <2>1. PICK others : others = Ascending(1..F \ below)
    OBVIOUS
  <2>2. others \in Seq(S)
    <3>1. others \in Seq(1..F)
      BY <1>1, <1>2, <2>1, AscendingIs
    <3>2. 1..F \subseteq S
      BY <1>1
    <3> HIDE DEF S
    <3> QED
      BY <3>1, <3>2, SeqMonotonic
  <2>3. PICK dirs : dirs = IF below = {} THEN <<>> ELSE <<"dir">>
    OBVIOUS
  <2>4. dirs \in Seq(S)
    BY <2>3
  <2>5. Entries(content) = dirs \o others
    BY <1>1, <2>1, <2>3 DEF Entries, below
  <2>6. dirs \o others \in Seq(S)
    <3> HIDE DEF S
    <3> QED
      BY <2>2, <2>4, ConcatProperties
  <2> QED
    BY <2>5, <2>6
<1> QED
  BY <1>7, <1>8, <1>9, <1>10

(* A list of a tool that is cut says so (formatting.py:114-152).           *)
THEOREM ListingsTell ==
  ASSUME NEW content \in Seq(File), NEW q \in Query
  PROVE  /\ Tells(LexicalSearch(content, q, TRUE), MatchingLines(content, q))
         /\ Tells(LexicalSearch(content, q, FALSE), <<>>)
         /\ Tells(Glob(content, q), Selected(content, q))
         /\ Tells(Explore(content, q), Entries(content))
         /\ Tells(GetDocs(content, q), SymbolsOf(content, q))
<1>1. PICK limit, budget : limit = q.limit /\ budget = q.budget
  OBVIOUS
<1>2. limit \in Nat \ {0} /\ budget \in Nat
  BY <1>1 DEF Query
<1>3. Tells(LexicalSearch(content, q, TRUE), MatchingLines(content, q))
  <2> DEFINE S == Nat \X Nat
  <2>1. PICK lines, shown : /\ lines = MatchingLines(content, q)
                            /\ shown = SubSeq(lines, 1, Smaller(5 * limit, Len(lines)))
    OBVIOUS
  <2>2. lines \in Seq(S)
    BY <2>1, ListsAre
  <2> HIDE DEF S
  <2>3. Tells(Fit(shown, OneToken(shown), limit, budget), lines)
    BY <1>2, <2>1, <2>2, CutTells
  <2> QED
    BY <1>1, <2>1, <2>3 DEF LexicalSearch
<1>7. Tells(LexicalSearch(content, q, FALSE), <<>>)
  <2>1. PICK lines, shown : /\ lines = <<>>
                            /\ shown = SubSeq(lines, 1, Smaller(5 * limit, Len(lines)))
    OBVIOUS
  <2>2. lines \in Seq(Nat)
    BY <2>1
  <2>3. Tells(Fit(shown, OneToken(shown), limit, budget), lines)
    BY <1>2, <2>1, <2>2, CutTells
  <2> QED
    BY <1>1, <2>1, <2>3 DEF LexicalSearch
<1>4. Tells(Glob(content, q), Selected(content, q))
  <2>1. PICK rows : rows = Selected(content, q)
    OBVIOUS
  <2>2. Tells(Fit(rows, OneToken(rows), limit, budget), rows)
    BY <1>2, <2>1, ListsAre, FitTells
  <2> QED
    BY <1>1, <2>1, <2>2 DEF Glob
<1>5. Tells(Explore(content, q), Entries(content))
  <2>1. PICK rows, S : rows = Entries(content) /\ S = {"dir"} \cup Nat
    OBVIOUS
  <2>2. rows \in Seq(S)
    BY <2>1, ListsAre
  <2>3. Tells(Fit(rows, OneToken(rows), limit, budget), rows)
    BY <1>2, <2>2, FitTells
  <2> QED
    BY <1>1, <2>1, <2>3 DEF Explore
<1>6. Tells(GetDocs(content, q), SymbolsOf(content, q))
  <2>1. PICK rows, S : rows = SymbolsOf(content, q) /\ S = Symbol
    OBVIOUS
  <2>2. rows \in Seq(S)
    BY <2>1, ListsAre
  <2>3. Tells(Fit(rows, OneToken(rows), limit, budget), rows)
    BY <1>2, <2>2, FitTells
  <2> QED
    BY <1>1, <2>1, <2>3 DEF GetDocs
<1> QED
  BY <1>3, <1>4, <1>5, <1>6, <1>7

(* A list of commits, branches or documents that is cut says so, but for   *)
(* the commits beyond the limit (tools.py:297-303,262-279).                *)
THEOREM CountsTell ==
  ASSUME NEW n \in Nat, NEW q \in Query
  PROVE  /\ Tells(GitLog(n, q), Numbered(n)) \/ Len(GitLog(n, q).rows) = q.limit
         /\ Tells(GitBranches(n, q), Numbered(n))
         /\ Tells(DomainDocs(n, q), Numbered(n))
<1>1. PICK limit, budget : limit = q.limit /\ budget = q.budget
  OBVIOUS
<1>2. limit \in Nat \ {0} /\ budget \in Nat
  BY <1>1 DEF Query
<1>3. ASSUME NEW m \in Nat, NEW most \in Nat \ {0}
      PROVE  /\ Numbered(m) \in Seq(Nat) /\ Len(Numbered(m)) = m
             /\ Tells(Fit(Numbered(m), OneToken(Numbered(m)), most, budget), Numbered(m))
  <2>1. PICK rows : rows = Numbered(m)
    OBVIOUS
  <2>2. rows \in Seq(Nat) /\ Len(rows) = m
    BY <2>1 DEF Numbered
  <2>3. Tells(Fit(rows, OneToken(rows), most, budget), rows)
    BY <1>2, <2>2, FitTells
  <2> QED
    BY <2>1, <2>2, <2>3
<1>4. Larger(n, 1) \in Nat \ {0}
  BY DEF Larger
<1>5. Tells(GitBranches(n, q), Numbered(n))
  BY <1>1, <1>3, <1>4 DEF GitBranches
<1>6. Tells(DomainDocs(n, q), Numbered(n))
  BY <1>1, <1>2, <1>3 DEF DomainDocs
<1>7. Tells(GitLog(n, q), Numbered(n)) \/ Len(GitLog(n, q).rows) = limit
  <2>1. PICK m : m = Smaller(limit, n)
    OBVIOUS
  <2>2. m \in Nat /\ (m = n \/ m = limit)
    BY <1>2, <2>1 DEF Smaller
  <2>3. PICK list : list = GitLog(n, q)
    OBVIOUS
  <2>4. list = Fit(Numbered(m), OneToken(Numbered(m)), limit, budget)
    BY <1>1, <2>1, <2>3 DEF GitLog
  <2>5. Len(Numbered(m)) = m /\ (list.truncated \/ list.rows = Numbered(m))
    BY <1>2, <1>3, <2>2, <2>4 DEF Tells
  <2> QED
    BY <2>2, <2>3, <2>5 DEF Tells
<1> QED
  BY <1>1, <1>5, <1>6, <1>7

(* A page of a file is full, or has all that is left of the file           *)
(* (tools.py:88-97, workspace.py:115-127).                                 *)
THEOREM PagesShow ==
  ASSUME NEW n \in Nat, NEW offset \in Nat, NEW limit \in Nat \ {0}
  PROVE  PageIsWhole(n, offset, limit)
<1>1. PICK start \in Nat \ {0} : start = Larger(1, offset)
  BY DEF Larger
<1>2. PICK last \in Int : last = Smaller(n, start - 1 + limit)
  BY DEF Smaller
<1>3. ReadLines(n, offset, limit) = start..last
  BY <1>1, <1>2 DEF ReadLines
<1>4. SUFFICES ASSUME NEW line \in start..n, line \notin start..last
               PROVE  Cardinality(start..last) = limit /\ \A s \in start..last : s < line
  BY <1>1, <1>3 DEF PageIsWhole
<1>5. last = start - 1 + limit /\ last < line
  BY <1>1, <1>2, <1>4 DEF Smaller
<1>6. Cardinality(start..last) = limit
  BY <1>1, <1>5, FS_Interval
<1> QED
  BY <1>1, <1>5, <1>6

(* A text that is cut, or replaced by a summary, says so, and fits the     *)
(* budget (tools.py:327-342).                                              *)
THEOREM TextsTell ==
  ASSUME NEW tool, NEW n \in Nat, NEW q \in Query
  PROVE  /\ GitText(tool, n, q).length <= TextBudget(q)
         /\ GitText(tool, n, q).truncated \/ GitText(tool, n, q).length = n
<1>1. TextBudget(q) \in Nat
  <2>1. q.budget \in Nat /\ TextFloor \in Nat
    BY IndexSearchAssumption DEF Query
  <2> QED
    BY <2>1 DEF TextBudget, Larger
<1>2. PICK most \in Nat : most = TextBudget(q)
  BY <1>1
<1>3. \A m \in Nat : /\ Cap(m, q).length <= most
                     /\ Cap(m, q).truncated \/ Cap(m, q).length = m
  <2> SUFFICES ASSUME NEW m \in Nat
               PROVE  Cap(m, q).length <= most /\ (Cap(m, q).truncated \/ Cap(m, q).length = m)
    OBVIOUS
  <2>1. Cap(m, q).length = Smaller(m, most) /\ (Cap(m, q).truncated <=> m > most)
    BY <1>2 DEF Cap
  <2> QED
    BY <2>1 DEF Smaller
<1>4. CASE tool = "git_diff" /\ n > most
  <2>1. PICK m \in Nat : m = n \div 2
    OBVIOUS
  <2>2. PICK text : text = Cap(m, q)
    OBVIOUS
  <2>3. GitText(tool, n, q) = [text EXCEPT !.truncated = TRUE]
    BY <1>2, <1>4, <2>1, <2>2 DEF GitText
  <2>4. [text EXCEPT !.truncated = TRUE].length = text.length /\ [text EXCEPT !.truncated = TRUE].truncated
    BY <2>2 DEF Cap
  <2> QED
    BY <1>2, <1>3, <2>2, <2>3, <2>4
<1>5. CASE ~(tool = "git_diff" /\ n > most)
  <2>1. GitText(tool, n, q) = Cap(n, q)
    BY <1>2, <1>5 DEF GitText
  <2> QED
    BY <1>2, <1>3, <2>1
<1> QED
  BY <1>4, <1>5
=============================================================================
