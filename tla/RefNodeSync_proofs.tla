------------------------- MODULE RefNodeSync_proofs -------------------------
(***************************************************************************)
(* The global numbers of ref_node.c on any number of ranks, for any mesh,  *)
(* any interleaving of the ranks and any number of synchronizations.       *)
(***************************************************************************)
EXTENDS RefNodeSync, RefSort_proofs, FiniteSetTheorems, FunctionTheorems

-----------------------------------------------------------------------------
(***************************************************************************)
(* Squeezing the numbers E out of the naturals: what is not in E moves     *)
(* down by the count of the smaller members of E.                          *)
(***************************************************************************)
under(E, x) == {e \in E : e < x}
squeeze(E, x) == x - Cardinality(under(E, x))

(* A number does not move below zero. *)
LEMMA SqueezeType ==
    ASSUME NEW E \in SUBSET Nat, NEW x \in Nat
    PROVE  /\ IsFiniteSet(under(E, x)) /\ Cardinality(under(E, x)) \in Nat
           /\ Cardinality(under(E, x)) <= x /\ squeeze(E, x) \in Nat
<1>1. under(E, x) \in SUBSET (0..(x - 1))
  <2> SUFFICES ASSUME NEW e \in E, e < x PROVE e \in 0..(x - 1)
    BY DEF under
  <2>1. e \in Nat
    OBVIOUS
  <2> QED
    BY <2>1
<1>2. IsFiniteSet(0..(x - 1)) /\ Cardinality(0..(x - 1)) = x
  BY FS_Interval
<1>3. IsFiniteSet(under(E, x)) /\ Cardinality(under(E, x)) <= x
  BY <1>1, <1>2, FS_Subset
<1>4. Cardinality(under(E, x)) \in Nat
  BY <1>3, FS_CardinalityType
<1> QED
  BY <1>3, <1>4 DEF squeeze

(* The members of two disjoint finite sets. *)
LEMMA DisjointUnion ==
    ASSUME NEW S, NEW T, IsFiniteSet(S), IsFiniteSet(T), S \cap T = {}
    PROVE  /\ IsFiniteSet(S \cup T)
           /\ Cardinality(S \cup T) = Cardinality(S) + Cardinality(T)
           /\ Cardinality(S) \in Nat /\ Cardinality(T) \in Nat
<1>1. Cardinality(S \cap T) = 0
  BY FS_EmptySet
<1>2. Cardinality(S \cup T) = Cardinality(S) + Cardinality(T) - Cardinality(S \cap T)
  BY FS_Union
<1>3. Cardinality(S) \in Nat /\ Cardinality(T) \in Nat
  BY FS_CardinalityType
<1> QED
  BY <1>1, <1>2, <1>3, FS_Union

(* The order of the numbers that stay is kept. *)
LEMMA SqueezeGrows ==
    ASSUME NEW E \in SUBSET Nat, NEW x \in Nat, NEW y \in Nat, x < y, x \notin E
    PROVE  squeeze(E, x) < squeeze(E, y)
<1> DEFINE D == {e \in E : x < e /\ e < y}
<1>0. \A e \in E : e \in Nat /\ e # x
  OBVIOUS
<1>a. \A e \in E : /\ e < y <=> e < x \/ (x < e /\ e < y)
                   /\ ~ (e < x /\ x < e)
                   /\ x < e /\ e < y => e \in (x + 1)..(y - 1)
  <2> TAKE e \in E
  <2>1. e \in Nat /\ e # x
    BY <1>0
  <2> HIDE <1>0
  <2> QED
    BY <2>1
<1>1. under(E, y) = under(E, x) \cup D
  BY <1>a DEF under
<1>2. under(E, x) \cap D = {}
  BY <1>a DEF under
<1>3. D \in SUBSET ((x + 1)..(y - 1))
  BY <1>a
<1>4. IsFiniteSet((x + 1)..(y - 1)) /\ Cardinality((x + 1)..(y - 1)) = y - x - 1
  BY FS_Interval
<1> HIDE DEF D
<1>5. IsFiniteSet(D) /\ Cardinality(D) <= y - x - 1
  <2> DEFINE I == (x + 1)..(y - 1)
  <2>1. IsFiniteSet(I) /\ Cardinality(I) = y - x - 1 /\ D \in SUBSET I
    BY <1>3, <1>4
  <2> HIDE DEF I
  <2> QED
    BY <2>1, FS_Subset
<1>6. IsFiniteSet(under(E, x))
  BY SqueezeType
<1>7. /\ Cardinality(under(E, y)) = Cardinality(under(E, x)) + Cardinality(D)
      /\ Cardinality(under(E, x)) \in Nat /\ Cardinality(D) \in Nat
  BY <1>1, <1>2, <1>5, <1>6, DisjointUnion
<1> QED
  BY <1>5, <1>7 DEF squeeze

(* ... in both directions, and no two of them meet. *)
LEMMA SqueezeOrder ==
    ASSUME NEW E \in SUBSET Nat, NEW x \in Nat, NEW y \in Nat, x \notin E, y \notin E
    PROVE  /\ squeeze(E, x) < squeeze(E, y) <=> x < y
           /\ squeeze(E, x) = squeeze(E, y) <=> x = y
<1>1. squeeze(E, x) \in Nat /\ squeeze(E, y) \in Nat
  BY SqueezeType
<1>2. x < y => squeeze(E, x) < squeeze(E, y)
  BY SqueezeGrows
<1>3. y < x => squeeze(E, y) < squeeze(E, x)
  BY SqueezeGrows
<1> QED
  BY <1>1, <1>2, <1>3

(* The squeezed members of a set. *)
squeezed(E, F) == {squeeze(E, f) : f \in F}

(* An injective image has as many members. *)
LEMMA ImageCount ==
    ASSUME NEW S, NEW T, IsFiniteSet(S), NEW f \in [S -> T],
           \A x, y \in S : f[x] = f[y] => x = y,
           \A t \in T : \E x \in S : f[x] = t
    PROVE  IsFiniteSet(T) /\ Cardinality(T) = Cardinality(S)
<1>1. f \in Bijection(S, T)
  BY DEF Bijection, Injection, Surjection, IsInjective
<1>2. ExistsBijection(S, T)
  BY <1>1 DEF ExistsBijection
<1> QED
  BY <1>2, FS_Bijection

(* Squeezing in two slices is squeezing at once, if the second slice is    *)
(* given by its numbers after the first.                                   *)
LEMMA SqueezeTwice ==
    ASSUME NEW E \in SUBSET Nat, NEW F \in SUBSET Nat, E \cap F = {},
           NEW x \in Nat, x \notin E, x \notin F
    PROVE  /\ squeeze(E \cup F, x) = squeeze(E, x) - Cardinality(under(F, x))
           /\ Cardinality(under(squeezed(E, F), squeeze(E, x)))
                 = Cardinality(under(F, x))
<1>1. IsFiniteSet(under(E, x)) /\ IsFiniteSet(under(F, x))
  BY SqueezeType
<1>2. under(E \cup F, x) = under(E, x) \cup under(F, x)
  BY DEF under
<1>3. under(E, x) \cap under(F, x) = {}
  BY DEF under
<1>4. /\ Cardinality(under(E \cup F, x)) = Cardinality(under(E, x)) + Cardinality(under(F, x))
      /\ Cardinality(under(E, x)) \in Nat /\ Cardinality(under(F, x)) \in Nat
  BY <1>1, <1>2, <1>3, DisjointUnion
<1>5. squeeze(E \cup F, x) = squeeze(E, x) - Cardinality(under(F, x))
  BY <1>4 DEF squeeze
<1> DEFINE S == under(F, x)
           T == under(squeezed(E, F), squeeze(E, x))
           f == [e \in S |-> squeeze(E, e)]
<1>6. \A e \in F : e \in Nat /\ e \notin E
  OBVIOUS
<1>7. \A e \in F : squeeze(E, e) < squeeze(E, x) <=> e < x
  BY <1>6, SqueezeOrder
<1>8. f \in [S -> T]
  BY <1>7 DEF under, squeezed
<1>9. \A e1, e2 \in S : f[e1] = f[e2] => e1 = e2
  <2> TAKE e1, e2 \in S
  <2>1. e1 \in F /\ e2 \in F
    BY DEF under
  <2>2. squeeze(E, e1) = squeeze(E, e2) => e1 = e2
    BY <1>6, <2>1, SqueezeOrder
  <2> QED
    BY <2>2
<1>10. \A t \in T : \E e \in S : f[e] = t
  BY <1>7 DEF under, squeezed
<1>11. Cardinality(T) = Cardinality(S)
  <2> HIDE DEF f, S, T
  <2>1. IsFiniteSet(S)
    BY <1>1 DEF S
  <2> QED
    BY <1>8, <1>9, <1>10, <2>1, ImageCount
<1> QED
  BY <1>5, <1>11

(* Squeezing E out of 0..M-1 leaves the numbers from 0 on without a gap. *)
LEMMA SqueezeCompact ==
    ASSUME NEW M \in Nat, NEW E \in SUBSET (0..(M - 1)),
           NEW K, K = (0..(M - 1)) \ E
    PROVE  /\ IsFiniteSet(E) /\ IsFiniteSet(K) /\ Cardinality(E) \in Nat
           /\ Cardinality(K) \in Nat /\ Cardinality(K) = M - Cardinality(E)
           /\ squeezed(E, K) = 0..(Cardinality(K) - 1)
<1> DEFINE I == 0..(M - 1)
<1>1. IsFiniteSet(I) /\ Cardinality(I) = M
  BY FS_Interval
<1>2. E \in SUBSET I /\ K \in SUBSET I /\ E \cup K = I /\ E \cap K = {}
  OBVIOUS
<1>3. \A e \in I : e \in Nat /\ e < M
  OBVIOUS
<1> HIDE DEF I
<1>4. IsFiniteSet(E) /\ IsFiniteSet(K)
  BY <1>1, <1>2, FS_Subset
<1>5. /\ Cardinality(E) + Cardinality(K) = M
      /\ Cardinality(E) \in Nat /\ Cardinality(K) \in Nat
  BY <1>1, <1>2, <1>4, DisjointUnion
<1>6. E \in SUBSET Nat
  BY <1>2, <1>3
<1>7. squeeze(E, M) = Cardinality(K)
  <2>1. under(E, M) = E
    BY <1>2, <1>3 DEF under
  <2> QED
    BY <1>5, <2>1 DEF squeeze
<1>8. \A x \in K : squeeze(E, x) \in 0..(Cardinality(K) - 1)
  <2> TAKE x \in K
  <2>1. x \in Nat /\ x < M /\ x \notin E
    BY <1>2, <1>3
  <2>2. squeeze(E, x) < squeeze(E, M)
    BY <1>6, <2>1, SqueezeGrows
  <2>3. squeeze(E, x) \in Nat
    BY <1>6, <2>1, SqueezeType
  <2> QED
    BY <1>5, <1>7, <2>2, <2>3
<1> DEFINE T == squeezed(E, K)
           f == [x \in K |-> squeeze(E, x)]
           J == 0..(Cardinality(K) - 1)
<1>9. T \in SUBSET J
  BY <1>8 DEF squeezed
<1>10. f \in [K -> T] /\ \A t \in T : \E x \in K : f[x] = t
  BY DEF squeezed
<1>11. \A x, y \in K : f[x] = f[y] => x = y
  <2> TAKE x, y \in K
  <2>1. x \in Nat /\ y \in Nat /\ x \notin E /\ y \notin E
    BY <1>2, <1>3
  <2>2. squeeze(E, x) = squeeze(E, y) => x = y
    BY <1>6, <2>1, SqueezeOrder
  <2> QED
    BY <2>2
<1>12. IsFiniteSet(J) /\ Cardinality(J) = Cardinality(K)
  <2> DEFINE k == Cardinality(K)
  <2>1. k \in Nat
    BY <1>5
  <2> HIDE DEF k
  <2>2. IsFiniteSet(0..(k - 1)) /\ Cardinality(0..(k - 1)) = k
    BY <2>1, FS_Interval
  <2> QED
    BY <2>2 DEF k
<1> HIDE DEF f, T, J
<1>13. Cardinality(T) = Cardinality(K)
  BY <1>4, <1>10, <1>11, ImageCount
<1>14. T = J
  BY <1>9, <1>12, <1>13, FS_Subset
<1> QED
  BY <1>4, <1>5, <1>14 DEF T, J

-----------------------------------------------------------------------------
(* The prefix sums every rank accumulates from gathered counts. *)
LEMMA PrefixSumIs ==
    ASSUME NEW c \in [Rank -> Nat]
    PROVE  /\ PrefixSum(c) \in [0..NRank -> Nat] /\ PrefixSum(c)[0] = 0
           /\ \A n \in Rank : PrefixSum(c)[n + 1] = PrefixSum(c)[n] + c[n]
<1> DEFINE sums(sum) == sum = [n \in 0..NRank |-> IF n = 0 THEN 0 ELSE sum[n - 1] + c[n - 1]]
           F == [i \in 1..NRank |-> [s \in Nat |-> s + c[i - 1]]]
<1>0. NRank \in Nat
  BY NRankAssumption
<1>1. F \in [1..NRank -> [Nat -> Nat]]
  <2>1. \A i \in 1..NRank : \A s \in Nat : s + c[i - 1] \in Nat
    BY <1>0 DEF Rank
  <2> QED
    BY <2>1
<1>2. \A i \in 1..NRank : \A s \in Nat : F[i][s] = s + c[i - 1]
  OBVIOUS
<1> HIDE DEF F
<1>3. PICK h : Counts(NRank, Nat, 0, F, h)
  BY <1>0, <1>1, CountingExists
<1>4. h \in [0..NRank -> Nat] /\ h[0] = 0 /\ \A i \in 1..NRank : h[i] = h[i - 1] + c[i - 1]
  <2>1. h \in [0..NRank -> Nat] /\ h[0] = 0 /\ \A i \in 1..NRank : h[i] = F[i][h[i - 1]]
    BY <1>3 DEF Counts
  <2>2. \A i \in 1..NRank : i - 1 \in 0..NRank
    BY <1>0
  <2> QED
    BY <1>2, <2>1, <2>2
<1>5. sums(h)
  <2>1. h = [n \in 0..NRank |-> h[n]]
    BY <1>4
  <2>2. \A n \in 0..NRank : h[n] = IF n = 0 THEN 0 ELSE h[n - 1] + c[n - 1]
    BY <1>0, <1>4
  <2> QED
    BY <2>1, <2>2
<1> DEFINE P == CHOOSE sum : sums(sum)
<1>6. PrefixSum(c) = P
  BY DEF PrefixSum
<1>7. sums(P)
  BY <1>5
<1> HIDE DEF P
<1>8. DOMAIN P = 0..NRank /\ P = [n \in 0..NRank |-> P[n]] /\ P[0] = 0
      /\ \A n \in 1..NRank : P[n] = P[n - 1] + c[n - 1]
  <2>1. DOMAIN P = 0..NRank /\ P = [n \in 0..NRank |-> P[n]]
    BY <1>7
  <2>2. \A n \in 0..NRank : P[n] = IF n = 0 THEN 0 ELSE P[n - 1] + c[n - 1]
    BY <1>7
  <2>3. 0 \in 0..NRank /\ \A n \in 1..NRank : n \in 0..NRank /\ n # 0
    BY <1>0
  <2>4. P[0] = 0
    BY <2>2, <2>3
  <2>5. \A n \in 1..NRank : P[n] = P[n - 1] + c[n - 1]
    BY <2>2, <2>3
  <2> QED
    BY <2>1, <2>4, <2>5
<1>9. \A n \in 0..NRank : P[n] \in Nat
  <2> DEFINE S == {n \in Nat : P[n] \in Nat}
  <2>1. 0 \in S
    BY <1>8
  <2>2. \A k \in 0..NRank : k # NRank /\ k \in S => k + 1 \in S
    <3> SUFFICES ASSUME NEW k \in 0..NRank, k # NRank, k \in S PROVE P[k + 1] \in Nat
      BY <1>0
    <3>1. k + 1 \in 1..NRank /\ k \in Rank /\ (k + 1) - 1 = k
      BY <1>0 DEF Rank
    <3>2. P[k + 1] = P[k] + c[k]
      BY <1>8, <3>1
    <3> QED
      BY <3>1, <3>2
  <2> HIDE DEF S
  <2>3. \A k \in 0..NRank : k \in S
    BY <1>0, <2>1, <2>2, UptoInduction
  <2> QED
    BY <2>3 DEF S
<1>10. \A n \in Rank : P[n + 1] = P[n] + c[n]
  <2> TAKE n \in Rank
  <2>1. n + 1 \in 1..NRank /\ (n + 1) - 1 = n
    BY <1>0 DEF Rank
  <2> QED
    BY <1>8, <2>1
<1> QED
  BY <1>6, <1>8, <1>9, <1>10

(* They do not decrease, and a number below the total is in the share of   *)
(* one rank.                                                               *)
LEMMA PrefixSumGrows ==
    ASSUME NEW c \in [Rank -> Nat]
    PROVE  /\ \A i, j \in 0..NRank : i <= j => PrefixSum(c)[i] <= PrefixSum(c)[j]
           /\ \A y \in Nat : y < PrefixSum(c)[NRank] =>
                 \E n \in Rank : PrefixSum(c)[n] <= y /\ y < PrefixSum(c)[n + 1]
<1> DEFINE P == PrefixSum(c)
<1>0. NRank \in Nat
  BY NRankAssumption
<1>1. /\ P \in [0..NRank -> Nat] /\ P[0] = 0
      /\ \A n \in Rank : P[n + 1] = P[n] + c[n]
  BY PrefixSumIs
<1> HIDE DEF P
<1>2. \A i, j \in 0..NRank : i <= j => P[i] <= P[j]
  <2> TAKE i \in 0..NRank
  <2> DEFINE S == {j \in Nat : j \in 0..NRank /\ i <= j => P[i] <= P[j]}
  <2>1. 0 \in S
    BY <1>1
  <2>2. \A k \in 0..NRank : k # NRank /\ k \in S => k + 1 \in S
    <3> SUFFICES ASSUME NEW k \in 0..NRank, k # NRank, k \in S, i <= k + 1
                 PROVE  P[i] <= P[k + 1]
      BY <1>0
    <3>1. k \in Rank /\ c[k] \in Nat /\ P[k] \in Nat /\ P[i] \in Nat
      BY <1>0, <1>1 DEF Rank
    <3>2. P[k + 1] = P[k] + c[k]
      BY <1>1, <3>1
    <3>3. i <= k \/ i = k + 1
      BY <1>0
    <3> QED
      BY <3>1, <3>2, <3>3
  <2> HIDE DEF S
  <2>3. \A k \in 0..NRank : k \in S
    BY <1>0, <2>1, <2>2, UptoInduction
  <2> QED
    BY <2>3 DEF S
<1>3. ASSUME NEW y \in Nat, y < P[NRank]
      PROVE  \E n \in Rank : P[n] <= y /\ y < P[n + 1]
  <2> DEFINE S == {n \in 0..NRank : y < P[n]}
  <2>1. NRank \in S /\ S \in SUBSET Nat
    BY <1>0, <1>3
  <2>2. PICK m \in S : \A k \in S : m <= k
    BY <2>1, LeastNatural
  <2>3. m \in 0..NRank /\ y < P[m] /\ m # 0
    BY <1>1, <2>2
  <2>4. m - 1 \in Rank /\ m - 1 \in 0..NRank /\ (m - 1) + 1 = m /\ ~ (m <= m - 1)
    BY <1>0, <2>3 DEF Rank
  <2>5. P[m - 1] <= y
    <3>1. m - 1 \notin S
      BY <2>2, <2>4
    <3> QED
      BY <1>1, <2>4, <3>1
  <2> QED
    BY <2>3, <2>4, <2>5
<1> QED
  BY <1>2, <1>3 DEF P

-----------------------------------------------------------------------------
(* The entries of a list, and a list that ascends without repetition. *)
vals(s) == {s[i] : i \in 1..Len(s)}
Rising(s) == \A i, j \in 1..Len(s) : i < j => s[i] < s[j]

(* ref_sort_in_place_glob lists the same numbers in ascending order. *)
LEMMA SortRises ==
    ASSUME NEW list \in Seq(Nat),
           \A i, j \in 1..Len(list) : list[i] = list[j] => i = j
    PROVE  /\ sort_in_place(list) \in Seq(Nat)
           /\ Len(sort_in_place(list)) = Len(list)
           /\ vals(sort_in_place(list)) = vals(list)
           /\ Rising(sort_in_place(list))
<1> DEFINE n == Len(list)
           original == [i \in Index(n) |-> list[i + 1]]
           F == heap_glob(n, original)
           T == in_place_glob(n, original)
           S == sort_in_place(list)
<1>1. n \in Nat /\ \A i \in 1..n : list[i] \in Nat
  OBVIOUS
<1>2. \A i \in Index(n) : i + 1 \in 1..n /\ i \in Int
  BY <1>1 DEF Index
<1>3. \A i \in 1..n : i - 1 \in Index(n) /\ (i - 1) + 1 = i
  BY <1>1 DEF Index
<1> HIDE DEF n
<1>4. original \in [Index(n) -> Int] /\ \A i \in Index(n) : original[i] = list[i + 1]
  BY <1>1, <1>2
<1> HIDE DEF original
<1>5. /\ Order(n, F)
      /\ \A a, b \in Index(n) : a < b => original[F[a]] <= original[F[b]]
  BY <1>1, <1>4, HeapSorts
<1>6. F \in [Index(n) -> Index(n)] /\ \A a, b \in Index(n) : F[a] = F[b] => a = b
  BY <1>5 DEF Order
<1>7. n < 2 => F = [i \in Index(n) |-> i]
  BY DEF heap_glob
<1>8. \A i \in Index(n) : T[i] = original[F[i]]
  <2>1. CASE n < 2
    BY <1>7, <2>1 DEF in_place_glob
  <2>2. CASE ~ (n < 2)
    BY <2>2 DEF in_place_glob
  <2> QED
    BY <2>1, <2>2
<1>9. S = [i \in 1..n |-> T[i - 1]]
  BY DEF sort_in_place, n, original
<1> HIDE DEF T, F
<1>10. \A i \in 1..n : T[i - 1] = list[F[i - 1] + 1] /\ F[i - 1] \in Index(n)
  BY <1>3, <1>4, <1>6, <1>8
<1>11. \A i \in 1..n : T[i - 1] \in Nat
  BY <1>1, <1>2, <1>10
<1>12. S \in [1..n -> Nat] /\ \A i \in 1..n : S[i] = list[F[i - 1] + 1]
  BY <1>9, <1>10, <1>11
<1> HIDE DEF S
<1>13. S \in Seq(Nat) /\ Len(S) = n
  BY <1>1, <1>12
<1>14. vals(S) = vals(list)
  <2>1. ASSUME NEW i \in 1..n PROVE S[i] \in vals(list)
    <3>1. F[i - 1] + 1 \in 1..n
      BY <1>2, <1>10
    <3> QED
      BY <1>12, <3>1 DEF vals, n
  <2>2. ASSUME NEW j \in 1..n PROVE list[j] \in vals(S)
    <3>1. PICK k \in Index(n) : F[k] = j - 1
      BY <1>3, <1>5 DEF Order
    <3>2. k + 1 \in 1..n /\ (k + 1) - 1 = k /\ (j - 1) + 1 = j
      BY <1>2, <1>3
    <3>3. S[k + 1] = list[j]
      BY <1>12, <3>1, <3>2
    <3> QED
      BY <1>13, <3>2, <3>3 DEF vals
  <2>3. \A x \in vals(S) : x \in vals(list)
    BY <1>13, <2>1 DEF vals
  <2>4. \A x \in vals(list) : x \in vals(S)
    BY <2>2 DEF vals, n
  <2> QED
    BY <2>3, <2>4
<1>15. Rising(S)
  <2> SUFFICES ASSUME NEW i \in 1..n, NEW j \in 1..n, i < j PROVE S[i] < S[j]
    BY <1>13 DEF Rising
  <2>1. i - 1 \in Index(n) /\ j - 1 \in Index(n) /\ i - 1 < j - 1 /\ i - 1 # j - 1
    BY <1>1, <1>3
  <2>2. original[F[i - 1]] <= original[F[j - 1]] /\ F[i - 1] # F[j - 1]
    BY <1>5, <1>6, <2>1
  <2>3. F[i - 1] + 1 # F[j - 1] + 1 /\ F[i - 1] + 1 \in 1..n /\ F[j - 1] + 1 \in 1..n
    BY <1>2, <1>6, <2>1, <2>2
  <2>4. list[F[i - 1] + 1] # list[F[j - 1] + 1]
    BY <2>3 DEF n
  <2>5. list[F[i - 1] + 1] <= list[F[j - 1] + 1]
    BY <1>4, <1>6, <2>1, <2>2
  <2> DEFINE x == list[F[i - 1] + 1]
             y == list[F[j - 1] + 1]
  <2>6. x \in Nat /\ y \in Nat
    BY <1>1, <2>3
  <2>7. S[i] = x /\ S[j] = y /\ x # y /\ x <= y
    BY <1>12, <2>4, <2>5
  <2> HIDE DEF x, y
  <2> QED
    BY <2>6, <2>7
<1> QED
  BY <1>13, <1>14, <1>15 DEF S, n

-----------------------------------------------------------------------------
(* The numbers the ranks below n have to give up. *)
upto(U, n) == UNION {U[q] : q \in 0..(n - 1)}

(* Every rank has its own finite set of them. *)
Shares(U) ==
    /\ U \in [Rank -> SUBSET Nat]
    /\ \A q \in Rank : IsFiniteSet(U[q])
    /\ \A p, q \in Rank : p # q => U[p] \cap U[q] = {}

(* The prefix sums of the counts count them. *)
LEMMA TotalCount ==
    ASSUME NEW U, Shares(U), NEW c \in [Rank -> Nat],
           \A q \in Rank : c[q] = Cardinality(U[q])
    PROVE  \A n \in 0..NRank : /\ IsFiniteSet(upto(U, n))
                               /\ Cardinality(upto(U, n)) = PrefixSum(c)[n]
<1> DEFINE P == PrefixSum(c)
           S == {n \in Nat : IsFiniteSet(upto(U, n)) /\ Cardinality(upto(U, n)) = P[n]}
<1>0. NRank \in Nat
  BY NRankAssumption
<1>1. /\ P \in [0..NRank -> Nat] /\ P[0] = 0
      /\ \A n \in Rank : P[n + 1] = P[n] + c[n]
  BY PrefixSumIs
<1> HIDE DEF P
<1>2. 0 \in S
  <2>1. upto(U, 0) = {}
    BY DEF upto
  <2> QED
    BY <1>1, <2>1, FS_EmptySet
<1>3. \A k \in 0..NRank : k # NRank /\ k \in S => k + 1 \in S
  <2> SUFFICES ASSUME NEW k \in 0..NRank, k # NRank, k \in S
               PROVE  /\ IsFiniteSet(upto(U, k + 1))
                      /\ Cardinality(upto(U, k + 1)) = P[k + 1]
    BY <1>0
  <2>1. k \in Rank /\ \A q \in 0..(k - 1) : q \in Rank /\ q # k
    BY <1>0 DEF Rank
  <2>2. \A q : q \in 0..((k + 1) - 1) <=> q \in 0..(k - 1) \/ q = k
    BY <1>0
  <2>3. upto(U, k + 1) = upto(U, k) \cup U[k]
    BY <2>2 DEF upto
  <2>4. upto(U, k) \cap U[k] = {}
    BY <2>1 DEF upto, Shares
  <2>5. IsFiniteSet(upto(U, k)) /\ IsFiniteSet(U[k])
    BY <2>1 DEF Shares
  <2>6. /\ IsFiniteSet(upto(U, k + 1))
        /\ Cardinality(upto(U, k + 1)) = Cardinality(upto(U, k)) + Cardinality(U[k])
    BY <2>3, <2>4, <2>5, DisjointUnion
  <2> QED
    BY <1>1, <2>1, <2>6
<1> HIDE DEF S
<1>4. \A k \in 0..NRank : k \in S
  BY <1>0, <1>2, <1>3, UptoInduction
<1> QED
  BY <1>4 DEF S, P

(* The largest of a bounded set of naturals. *)
LEMMA MaxIs ==
    ASSUME NEW S \in SUBSET Nat, S # {}, NEW b \in Nat, \A s \in S : s <= b
    PROVE  Max(S) \in S /\ \A s \in S : s <= Max(S)
<1> DEFINE T == {b - s : s \in S}
<1>1. T \in SUBSET Nat /\ T # {}
  <2>1. \A s \in S : b - s \in Nat
    <3> TAKE s \in S
    <3>1. s \in Nat /\ s <= b
      OBVIOUS
    <3> QED
      BY <3>1
  <2> QED
    BY <2>1
<1>2. PICK m \in T : \A k \in T : m <= k
  BY <1>1, LeastNatural
<1>3. PICK x \in S : m = b - x
  BY <1>2
<1>4. \A s \in S : b - x <= b - s
  BY <1>2, <1>3
<1>5. \A s \in S : s \in Nat /\ x \in Nat
  OBVIOUS
<1>6. \A y \in S : x >= y
  BY <1>4, <1>5
<1>7. Max(S) \in S /\ \A y \in S : Max(S) >= y
  BY <1>6 DEF Max
<1> QED
  BY <1>5, <1>7

(* A slice has at least one rank and ends with the last at the latest. *)
LEMMA SliceFits ==
    ASSUME NEW c, NEW chunk, NEW a \in Rank
    PROVE  eliminate_active_parts(c, chunk, a) \in (a + 1)..NRank
<1> DEFINE S == {b \in (a + 1)..NRank :
                   b = a + 1 \/ PrefixSum(c)[b] - PrefixSum(c)[a] <= chunk}
<1>0. NRank \in Nat /\ a \in Nat /\ a < NRank
  BY NRankAssumption DEF Rank
<1>1. S \in SUBSET ((a + 1)..NRank) /\ a + 1 \in S
  BY <1>0
<1>2. \A s \in (a + 1)..NRank : s \in Nat /\ s <= NRank
  BY <1>0
<1> HIDE DEF S
<1>3. Max(S) \in S
  BY <1>0, <1>1, <1>2, MaxIs
<1> QED
  BY <1>1, <1>3 DEF eliminate_active_parts, S

(***************************************************************************)
(* The first ranks of the slices, when the slice from a ends before J[a].  *)
(***************************************************************************)
Closed(J, T) == 0 \in T /\ \A a \in T : a < NRank => J[a] \in T

starts(J) == {a \in 0..NRank : \A T \in SUBSET (0..NRank) : Closed(J, T) => a \in T}

(* The slices follow each other: between a start and the next is no other. *)
LEMMA SlicesFollow ==
    ASSUME NEW J \in [Rank -> Nat], \A a \in Rank : J[a] \in (a + 1)..NRank
    PROVE  /\ starts(J) \in SUBSET (0..NRank) /\ Closed(J, starts(J))
           /\ \A a, b \in starts(J) : a < b => a \in Rank /\ J[a] <= b
<1> DEFINE S == starts(J)
           I == 0..NRank
<1>0. NRank \in Nat
  BY NRankAssumption
<1>1. S \in SUBSET I /\ \A a \in S : a \in Nat /\ (a < NRank => a \in Rank)
  BY <1>0 DEF starts, Rank
<1>2. Closed(J, S)
  <2>1. 0 \in S
    BY <1>0 DEF starts, Closed
  <2>2. ASSUME NEW a \in S, a < NRank PROVE J[a] \in S
    <3>1. J[a] \in I
      BY <1>0, <1>1, <2>2 DEF Rank
    <3>2. \A T \in SUBSET I : Closed(J, T) => J[a] \in T
      BY <2>2 DEF starts, Closed
    <3> QED
      BY <3>1, <3>2 DEF starts
  <2> QED
    BY <2>1, <2>2 DEF Closed
<1>3. ASSUME NEW b \in S, b # 0
      PROVE  \E a \in S : a < NRank /\ J[a] = b
  <2> SUFFICES ASSUME \A a \in S : a < NRank => J[a] # b PROVE FALSE
    OBVIOUS
  <2> DEFINE T == S \ {b}
  <2>1. T \in SUBSET I
    BY <1>1
  <2>2. Closed(J, T)
    BY <1>2, <1>3 DEF Closed
  <2>3. b \in T
    BY <2>1, <2>2 DEF starts
  <2> QED
    BY <2>3
<1> DEFINE Bad == {b \in Nat : b \in S /\ \E a \in S : a < b /\ b < J[a]}
<1> HIDE DEF S
<1>4. Bad = {}
  <2> SUFFICES ASSUME Bad # {} PROVE FALSE
    OBVIOUS
  <2>1. PICK b \in Bad : \A k \in Bad : b <= k
    BY LeastNatural
  <2>2. b \in S /\ b \in Nat
    BY <2>1
  <2>3. PICK a \in S : a < b /\ b < J[a]
    BY <2>1
  <2>4. a \in Nat /\ b # 0
    BY <1>1, <2>2, <2>3
  <2>5. PICK c \in S : c < NRank /\ J[c] = b
    BY <1>3, <2>2, <2>4
  <2>6. c \in Rank /\ c \in Nat /\ c < b
    <3>1. c \in Rank /\ c \in Nat
      BY <1>1, <2>5
    <3>2. J[c] \in (c + 1)..NRank
      BY <3>1
    <3> QED
      BY <1>0, <2>2, <2>5, <3>1, <3>2
  <2>7. a # c
    BY <2>2, <2>3, <2>5
  <2>8. CASE c < a
    <3>1. a \in Bad
      BY <2>3, <2>4, <2>5, <2>8
    <3> QED
      BY <2>1, <2>2, <2>3, <2>4, <3>1
  <2>9. CASE a < c
    <3>1. c \in Bad
      <4>1. a < NRank
        BY <1>0, <2>4, <2>5, <2>6, <2>9
      <4>2. J[a] \in Nat
        BY <1>1, <4>1
      <4> QED
        BY <2>2, <2>3, <2>5, <2>6, <2>9, <4>2
    <3> QED
      BY <2>1, <2>2, <2>6, <3>1
  <2> QED
    BY <2>4, <2>6, <2>7, <2>8, <2>9
<1>5. ASSUME NEW a \in S, NEW b \in S, a < b PROVE a \in Rank /\ J[a] <= b
  <2>1. a \in Nat /\ b \in Nat /\ b <= NRank
    BY <1>0, <1>1
  <2>2. a \in Rank /\ J[a] \in Nat
    BY <1>0, <1>1, <1>5, <2>1
  <2>3. ~ (b < J[a])
    BY <1>4, <1>5, <2>1
  <2> QED
    BY <2>1, <2>2, <2>3
<1> QED
  BY <1>1, <1>2, <1>5 DEF S

-----------------------------------------------------------------------------
(***************************************************************************)
(* While ranks create and remove vertices, up to the first shift.  N is    *)
(* the common count.  A number below it means the same to all ranks; one   *)
(* from N on means something on its own rank only.                         *)
(***************************************************************************)
common(N, r, q, g) == r = q \/ g < N

(* Every number is below the count of its rank. *)
Bounded ==
    \A r \in Rank :
       /\ \A v \in held(r) : glob[r][v] < newN[r]
       /\ \A i \in DOMAIN unused[r] : unused[r][i] < newN[r]

(* A new number belongs to a vertex that nobody else has a copy of. *)
Private(N) ==
    \A r \in Rank : \A v \in held(r) :
       glob[r][v] >= N => owner[v] = r /\ \A q \in Rank : q # r => glob[q][v] = EMPTY

(* Copies have the same number. *)
Agreed ==
    \A r, q \in Rank : \A v \in held(r) \cap held(q) : glob[r][v] = glob[q][v]

(* A number is that of one vertex ... *)
OneVertex(N) ==
    \A r, q \in Rank : \A v \in held(r), w \in held(q) :
       glob[r][v] = glob[q][w] /\ common(N, r, q, glob[r][v]) => v = w

(* ... or in one place of one unused list ... *)
OneEntry(N) ==
    \A r, q \in Rank : \A i \in DOMAIN unused[r], j \in DOMAIN unused[q] :
       unused[r][i] = unused[q][j] /\ common(N, r, q, unused[r][i]) => r = q /\ i = j

(* ... and not both, but for the other copies of a vertex its owner has    *)
(* dropped before them.                                                    *)
Apart(N) ==
    \A r, q \in Rank : \A i \in DOMAIN unused[r], v \in held(q) :
       unused[r][i] = glob[q][v] /\ common(N, r, q, unused[r][i])
       => v \in doomed /\ r # q /\ owner[v] = r

(* The owner has a copy of its vertex. *)
Owned ==
    \A r \in Rank : \A v \in held(r) : v \notin doomed => glob[owner[v]][v] # EMPTY

(* No number is lost. *)
Covered(N) ==
    /\ \A g \in 0..(N - 1) :
          \/ \E r \in Rank : \E i \in DOMAIN unused[r] : unused[r][i] = g
          \/ \E v \in Vert : glob[owner[v]][v] = g
    /\ \A r \in Rank : \A g \in N..(newN[r] - 1) :
          \/ \E i \in DOMAIN unused[r] : unused[r][i] = g
          \/ \E v \in Vert : owner[v] = r /\ glob[r][v] = g

(* All of it. *)
Ids(N) ==
    /\ Bounded /\ Private(N) /\ Agreed /\ OneVertex(N) /\ OneEntry(N)
    /\ Apart(N) /\ Owned /\ Covered(N)

(* The ranks that have entered the next synchronization wait in gather,    *)
(* and hold no vertex that is being dropped.                               *)
Places(N, e) ==
    \A r \in Rank :
       /\ pc[r] \in {"adapt", "drop", "gather"}
       /\ epoch[r] = IF pc[r] = "gather" THEN e + 1 ELSE e
       /\ oldN[r] = N /\ newN[r] >= N /\ active0[r] = 0
       /\ pc[r] = "gather" => news[r] = newN[r] - N /\ held(r) \cap doomed = {}
       /\ pc[r] = "adapt" => doomed = {}

Working(N, e) == N \in Nat /\ e \in Nat /\ Places(N, e) /\ Ids(N)

(* A list with an entry more at its end ... *)
LEMMA PushEntry ==
    ASSUME NEW s \in Seq(Nat), NEW g \in Nat, NEW t, t = Append(s, g)
    PROVE  /\ t \in Seq(Nat) /\ DOMAIN t = DOMAIN s \cup {Len(s) + 1}
           /\ Len(s) + 1 \notin DOMAIN s /\ t[Len(s) + 1] = g
           /\ \A i \in DOMAIN s : t[i] = s[i]
<1>1. DOMAIN s = 1..Len(s) /\ Len(s) \in Nat /\ t \in Seq(Nat) /\ Len(t) = Len(s) + 1
  OBVIOUS
<1>2. DOMAIN t = 1..(Len(s) + 1)
  BY <1>1
<1>3. 1..(Len(s) + 1) = 1..Len(s) \cup {Len(s) + 1} /\ Len(s) + 1 \notin 1..Len(s)
  BY <1>1
<1>4. t[Len(s) + 1] = g /\ \A i \in 1..Len(s) : t[i] = s[i]
  OBVIOUS
<1> QED
  BY <1>1, <1>2, <1>3, <1>4

(* ... and with an entry less. *)
LEMMA PopEntry ==
    ASSUME NEW s \in Seq(Nat), s # <<>>, NEW t, t = SubSeq(s, 1, Len(s) - 1)
    PROVE  /\ t \in Seq(Nat) /\ DOMAIN t = DOMAIN s \ {Len(s)}
           /\ Len(s) \in DOMAIN s /\ s[Len(s)] \in Nat
           /\ \A i \in DOMAIN t : t[i] = s[i]
<1>1. DOMAIN s = 1..Len(s) /\ Len(s) \in Nat /\ Len(s) # 0
  OBVIOUS
<1>2. t \in Seq(Nat) /\ Len(t) = Len(s) - 1 /\ \A i \in 1..(Len(s) - 1) : t[i] = s[i]
  BY <1>1
<1>3. DOMAIN t = 1..(Len(s) - 1)
  BY <1>1, <1>2
<1>4. 1..(Len(s) - 1) = 1..Len(s) \ {Len(s)} /\ Len(s) \in 1..Len(s)
  BY <1>1
<1> QED
  BY <1>1, <1>2, <1>3, <1>4

(* The types, rank by rank. *)
LEMMA TypeFacts ==
    ASSUME TypeOK
    PROVE  /\ \A r \in Rank : /\ glob[r] \in [Vert -> Nat \cup {EMPTY}]
                              /\ unused[r] \in Seq(Nat) /\ oldN[r] \in Nat /\ newN[r] \in Nat
                              /\ \A i \in DOMAIN unused[r] : unused[r][i] \in Nat
           /\ \A r \in Rank : \A v \in Vert : v \in held(r) <=> glob[r][v] # EMPTY
           /\ \A r \in Rank : \A v \in held(r) : v \in Vert /\ glob[r][v] \in Nat
           /\ \A v \in Vert : owner[v] \in Rank
           /\ \A v \in Vert : v \in alive <=> \E r \in Rank : glob[r][v] # EMPTY
<1>1. \A r \in Rank : /\ glob[r] \in [Vert -> Nat \cup {EMPTY}]
                      /\ unused[r] \in Seq(Nat) /\ oldN[r] \in Nat /\ newN[r] \in Nat
  BY DEF TypeOK
<1>2. \A r \in Rank : \A i \in DOMAIN unused[r] : unused[r][i] \in Nat
  BY <1>1
<1>3. \A v \in Vert : owner[v] \in Rank
  BY DEF TypeOK
<1>4. \A v \in Vert : v \in alive <=> \E r \in Rank : glob[r][v] # EMPTY
  BY DEF alive, copies
<1> QED
  BY <1>1, <1>2, <1>3, <1>4 DEF held

(* A new vertex takes a number its rank has no other use for. *)
LEMMA NewNodeStep ==
    ASSUME NEW N, NEW e, TypeOK, Working(N, e), NEW r \in Rank, NewNode(r)
    PROVE  TypeOK' /\ Working(N, e)'
<1> DEFINE g == next_global(r)
<1>1. PICK v \in Vert : /\ v \notin alive
                        /\ glob' = [glob EXCEPT ![r][v] = g]
                        /\ owner' = [owner EXCEPT ![v] = r]
  BY DEF NewNode
<1>2. pc[r] = "adapt" /\ doomed = {} /\ N \in Nat /\ e \in Nat /\ Places(N, e)
      /\ oldN[r] = N /\ newN[r] >= N
  BY DEF NewNode, Working, Places
<1>3. /\ \A q \in Rank : /\ glob[q] \in [Vert -> Nat \cup {EMPTY}]
                         /\ unused[q] \in Seq(Nat) /\ oldN[q] \in Nat /\ newN[q] \in Nat
                         /\ \A i \in DOMAIN unused[q] : unused[q][i] \in Nat
      /\ \A q \in Rank : \A w \in Vert : w \in held(q) <=> glob[q][w] # EMPTY
      /\ \A q \in Rank : \A w \in held(q) : w \in Vert /\ glob[q][w] \in Nat
      /\ \A w \in Vert : owner[w] \in Rank
      /\ \A w \in Vert : w \in alive <=> \E q \in Rank : glob[q][w] # EMPTY
  BY TypeFacts
<1>4. Ids(N)
  BY DEF Working
<1>u. UNCHANGED <<oldN, pc, epoch, doomed, news, counts, posted, active0>>
  BY DEF NewNode
<1>a. /\ g \in Nat /\ unused' \in [Rank -> Seq(Nat)] /\ newN' \in [Rank -> Nat]
      /\ \A q \in Rank : \A i \in DOMAIN unused'[q] :
            i \in DOMAIN unused[q] /\ unused'[q][i] = unused[q][i]
            /\ (unused'[q][i] = g => ~ common(N, q, r, g))
      /\ \A q \in Rank : \A w \in held(q) : glob[q][w] = g => ~ common(N, q, r, g)
      /\ \A q \in Rank : newN[q] <= newN'[q]
      /\ g < newN'[r]
      /\ \A q \in Rank : \A i \in DOMAIN unused[q] :
            i \in DOMAIN unused'[q] \/ (q = r /\ unused[q][i] = g)
      /\ \A q \in Rank : \A h \in N..(newN'[q] - 1) : h \in N..(newN[q] - 1) \/ (q = r /\ h = g)
  <2>1. CASE unused[r] # <<>>
    <3> DEFINE s == unused[r]
               t == SubSeq(s, 1, Len(s) - 1)
    <3>1. unused' = [unused EXCEPT ![r] = t] /\ newN' = newN /\ g = s[Len(s)]
      BY <2>1 DEF NewNode, pop_unused, next_global
    <3>2. /\ t \in Seq(Nat) /\ DOMAIN t = DOMAIN s \ {Len(s)}
          /\ Len(s) \in DOMAIN s /\ s[Len(s)] \in Nat
          /\ \A i \in DOMAIN t : t[i] = s[i]
      BY <1>3, <2>1, PopEntry
    <3> DEFINE k == Len(s)
    <3> HIDE DEF t
    <3>3. unused'[r] = t /\ \A q \in Rank : q # r => unused'[q] = unused[q]
      BY <3>1 DEF TypeOK
    <3>4. g \in Nat /\ unused' \in [Rank -> Seq(Nat)] /\ newN' \in [Rank -> Nat]
      BY <3>1, <3>2 DEF TypeOK
    <3> HIDE DEF g, k
    <3>5. k \in DOMAIN unused[r] /\ unused[r][k] = g
      BY <3>1, <3>2 DEF k
    <3>6. DOMAIN t = DOMAIN unused[r] \ {k} /\ \A i \in DOMAIN t : t[i] = unused[r][i]
      BY <3>2 DEF k
    <3>7. \A q \in Rank : \A i \in DOMAIN unused'[q] :
             /\ i \in DOMAIN unused[q] /\ unused'[q][i] = unused[q][i]
             /\ q = r => i # k
      BY <3>3, <3>6
    <3>8. \A q \in Rank : \A i \in DOMAIN unused'[q] :
             unused'[q][i] = g => ~ common(N, q, r, g)
      BY <1>4, <3>5, <3>7 DEF Ids, OneEntry
    <3>9. \A q \in Rank : \A w \in held(q) : glob[q][w] = g => ~ common(N, q, r, g)
      BY <1>2, <1>4, <3>5 DEF Ids, Apart, common
    <3>10. g < newN'[r] /\ \A q \in Rank : newN'[q] = newN[q]
      BY <1>4, <3>1, <3>5 DEF Ids, Bounded
    <3>11. \A q \in Rank : \A i \in DOMAIN unused[q] :
             i \in DOMAIN unused'[q] \/ (q = r /\ unused[q][i] = g)
      BY <3>3, <3>5, <3>6
    <3>12. \A q \in Rank : newN[q] <= newN'[q]
      BY <1>3, <3>10
    <3> QED
      BY <3>4, <3>7, <3>8, <3>9, <3>10, <3>11, <3>12
  <2>2. CASE unused[r] = <<>>
    <3>1. unused' = unused /\ newN' = [newN EXCEPT ![r] = @ + 1] /\ g = newN[r]
      BY <2>2 DEF NewNode, next_global
    <3>2. g \in Nat /\ unused' \in [Rank -> Seq(Nat)] /\ newN' \in [Rank -> Nat]
      BY SMTT(60), <1>3, <3>1 DEF TypeOK
    <3>3. newN'[r] = g + 1 /\ \A q \in Rank : q # r => newN'[q] = newN[q]
      BY <3>1 DEF TypeOK
    <3> HIDE DEF g
    <3>4. \A q \in Rank : common(N, q, r, g) => q = r
      BY <1>2, <1>3, <3>1 DEF common
    <3>5. \A q \in Rank : \A i \in DOMAIN unused'[q] :
             unused'[q][i] = g => ~ common(N, q, r, g)
      <4> SUFFICES ASSUME NEW i \in DOMAIN unused[r], unused[r][i] = g PROVE FALSE
        BY <3>1, <3>4
      <4>1. unused[r][i] < newN[r]
        BY <1>4 DEF Ids, Bounded
      <4> QED
        BY <1>3, <3>1, <4>1
    <3>6. \A q \in Rank : \A w \in held(q) : glob[q][w] = g => ~ common(N, q, r, g)
      <4> SUFFICES ASSUME NEW w \in held(r), glob[r][w] = g PROVE FALSE
        BY <3>4
      <4>1. glob[r][w] < newN[r]
        BY <1>4 DEF Ids, Bounded
      <4> QED
        BY <1>3, <3>1, <4>1
    <3>7. \A q \in Rank : newN[q] <= newN'[q]
      BY <1>3, <3>1, <3>3
    <3>8. g < newN'[r]
      BY <3>2, <3>3
    <3>9. \A q \in Rank : \A h \in N..(newN'[q] - 1) : h \in N..(newN[q] - 1) \/ (q = r /\ h = g)
      <4> TAKE q \in Rank
      <4>1. CASE q = r
        BY <1>2, <1>3, <3>1, <3>3, <4>1
      <4>2. CASE q # r
        BY <3>3, <4>2
      <4> QED
        BY <4>1, <4>2
    <3> QED
      BY <3>1, <3>2, <3>5, <3>6, <3>7, <3>8, <3>9
  <2> QED
    BY <2>1, <2>2
<1> HIDE DEF g
<1>5. /\ glob' \in [Rank -> [Vert -> Nat \cup {EMPTY}]] /\ owner' \in [Vert -> Rank]
      /\ glob'[r][v] = g /\ owner'[v] = r
      /\ \A q \in Rank : \A w \in Vert : q # r \/ w # v => glob'[q][w] = glob[q][w]
      /\ \A w \in Vert : w # v => owner'[w] = owner[w]
  BY <1>1, <1>a DEF TypeOK
<1>6. g # EMPTY
  BY <1>a DEF EMPTY
<1>7. \A q \in Rank : v \notin held(q) /\ glob[q][v] = EMPTY
  BY <1>1, <1>3
<1>8. \A q \in Rank : \A w : w \in held(q)' <=> w \in held(q) \/ (q = r /\ w = v)
  BY <1>5, <1>6, <1>7 DEF held
<1>9. \A q \in Rank : \A w \in held(q) : glob'[q][w] = glob[q][w] /\ owner'[w] = owner[w] /\ w # v
  BY <1>3, <1>5, <1>7
<1>10. TypeOK'
  BY <1>5, <1>a, <1>u DEF TypeOK
<1>11. Places(N, e)'
  <2> SUFFICES ASSUME NEW q \in Rank
               PROVE  (/\ pc[q] \in {"adapt", "drop", "gather"}
                       /\ epoch[q] = IF pc[q] = "gather" THEN e + 1 ELSE e
                       /\ oldN[q] = N /\ newN[q] >= N /\ active0[q] = 0
                       /\ pc[q] = "gather" => news[q] = newN[q] - N /\ held(q) \cap doomed = {}
                       /\ pc[q] = "adapt" => doomed = {})'
    BY DEF Places
  <2>1. newN'[q] >= N
    <3>1. newN[q] >= N /\ newN[q] \in Nat /\ newN'[q] \in Nat /\ newN[q] <= newN'[q]
      BY <1>2, <1>3, <1>a DEF Places
    <3> QED
      BY <1>2, <3>1
  <2>2. pc[q] = "gather" => newN'[q] = newN[q]
    BY <1>2 DEF NewNode, TypeOK
  <2> QED
    BY <1>2, <1>u, <2>1, <2>2 DEF Places
<1>12. Bounded'
  <2>1. ASSUME NEW q \in Rank, NEW w \in held(q)' PROVE glob'[q][w] < newN'[q]
    <3>1. CASE q = r /\ w = v
      BY <1>5, <1>a, <3>1
    <3>2. CASE ~ (q = r /\ w = v)
      <4>1. w \in held(q)
        BY <1>8, <2>1, <3>2
      <4>2. glob[q][w] < newN[q] /\ glob[q][w] \in Nat
        BY <1>3, <1>4, <4>1 DEF Ids, Bounded
      <4>3. newN[q] \in Nat /\ newN'[q] \in Nat /\ newN[q] <= newN'[q]
        BY <1>3, <1>a
      <4> QED
        BY <1>9, <4>1, <4>2, <4>3
    <3> QED
      BY <3>1, <3>2
  <2>2. ASSUME NEW q \in Rank, NEW i \in DOMAIN unused'[q] PROVE unused'[q][i] < newN'[q]
    <3>1. i \in DOMAIN unused[q] /\ unused'[q][i] = unused[q][i]
      BY <1>a
    <3>2. unused[q][i] < newN[q] /\ unused[q][i] \in Nat
      BY <1>3, <1>4, <3>1 DEF Ids, Bounded
    <3>3. newN[q] \in Nat /\ newN'[q] \in Nat /\ newN[q] <= newN'[q]
      BY <1>3, <1>a
    <3> QED
      BY <3>1, <3>2, <3>3
  <2> QED
    BY <2>1, <2>2 DEF Bounded
<1>13. Private(N)'
  <2> SUFFICES ASSUME NEW q \in Rank, NEW w \in held(q)', glob'[q][w] >= N
               PROVE  owner'[w] = q /\ \A p \in Rank : p # q => glob'[p][w] = EMPTY
    BY DEF Private
  <2>1. CASE q = r /\ w = v
    BY <1>5, <1>7, <2>1
  <2>2. CASE ~ (q = r /\ w = v)
    <3>1. w \in held(q) /\ w \in Vert /\ w # v /\ glob'[q][w] = glob[q][w] /\ owner'[w] = owner[w]
      BY <1>3, <1>8, <1>9, <2>2
    <3>2. owner[w] = q /\ \A p \in Rank : p # q => glob[p][w] = EMPTY
      BY <1>4, <3>1 DEF Ids, Private
    <3> QED
      BY <1>5, <3>1, <3>2
  <2> QED
    BY <2>1, <2>2
<1>14. Agreed'
  BY <1>4, <1>7, <1>8, <1>9 DEF Ids, Agreed
<1>15. OneVertex(N)'
  <2> SUFFICES ASSUME NEW p \in Rank, NEW q \in Rank, NEW x \in held(p)', NEW w \in held(q)',
                      glob'[p][x] = glob'[q][w], common(N, p, q, glob'[p][x]), x # w
               PROVE  FALSE
    BY DEF OneVertex, common
  <2>1. CASE p = r /\ x = v
    <3>1. w \in held(q) /\ glob[q][w] = g /\ common(N, q, r, g)
      BY <1>5, <1>8, <1>9, <2>1 DEF common
    <3> QED
      BY <1>a, <3>1
  <2>2. CASE q = r /\ w = v
    <3>1. x \in held(p) /\ glob[p][x] = g /\ common(N, p, r, g)
      BY <1>5, <1>8, <1>9, <2>2 DEF common
    <3> QED
      BY <1>a, <3>1
  <2>3. CASE ~ (p = r /\ x = v) /\ ~ (q = r /\ w = v)
    <3>1. x \in held(p) /\ w \in held(q)
      BY <1>8, <2>3
    <3> QED
      BY <1>4, <1>9, <3>1 DEF Ids, OneVertex
  <2> QED
    BY <2>1, <2>2, <2>3
<1>16. OneEntry(N)'
  <2> SUFFICES ASSUME NEW p \in Rank, NEW q \in Rank, NEW i \in DOMAIN unused'[p],
                      NEW j \in DOMAIN unused'[q], unused'[p][i] = unused'[q][j],
                      common(N, p, q, unused'[p][i])
               PROVE  p = q /\ i = j
    BY DEF OneEntry, common
  <2>1. /\ i \in DOMAIN unused[p] /\ unused'[p][i] = unused[p][i]
        /\ j \in DOMAIN unused[q] /\ unused'[q][j] = unused[q][j]
    BY <1>a
  <2> QED
    BY <1>4, <2>1 DEF Ids, OneEntry
<1>17. Apart(N)'
  <2> SUFFICES ASSUME NEW p \in Rank, NEW q \in Rank, NEW i \in DOMAIN unused'[p],
                      NEW w \in held(q)', unused'[p][i] = glob'[q][w],
                      common(N, p, q, unused'[p][i])
               PROVE  FALSE
    BY DEF Apart, common
  <2>1. i \in DOMAIN unused[p] /\ unused'[p][i] = unused[p][i]
    BY <1>a
  <2>2. CASE q = r /\ w = v
    BY <1>5, <1>a, <2>2
  <2>3. CASE ~ (q = r /\ w = v)
    <3>1. w \in held(q) /\ glob'[q][w] = glob[q][w]
      BY <1>8, <1>9, <2>3
    <3> QED
      BY <1>2, <1>4, <2>1, <3>1 DEF Ids, Apart
  <2> QED
    BY <2>2, <2>3
<1>18. Owned'
  <2> SUFFICES ASSUME NEW q \in Rank, NEW w \in held(q)' PROVE glob'[owner'[w]][w] # EMPTY
    BY DEF Owned
  <2>1. CASE w = v
    BY <1>5, <1>6, <2>1
  <2>2. CASE w # v
    <3>1. w \in held(q) /\ w \in Vert /\ owner[w] \in Rank
      BY <1>3, <1>8, <2>2
    <3>2. glob[owner[w]][w] # EMPTY
      BY <1>2, <1>4, <3>1 DEF Ids, Owned
    <3> QED
      BY <1>5, <2>2, <3>1, <3>2
  <2> QED
    BY <2>1, <2>2
<1>19. Covered(N)'
  <2>1. ASSUME NEW h \in 0..(N - 1)
        PROVE  \/ \E q \in Rank : \E i \in DOMAIN unused'[q] : unused'[q][i] = h
               \/ \E w \in Vert : glob'[owner'[w]][w] = h
    <3>1. CASE \E q \in Rank : \E i \in DOMAIN unused[q] : unused[q][i] = h
      BY <1>5, <1>a, <3>1
    <3>2. CASE \E w \in Vert : glob[owner[w]][w] = h
      <4>1. PICK w \in Vert : glob[owner[w]][w] = h
        BY <3>2
      <4>2. w # v
        <5>1. h # EMPTY
          BY <1>2 DEF EMPTY
        <5> QED
          BY <1>3, <1>7, <4>1, <5>1
      <4> QED
        BY <1>3, <1>5, <4>1, <4>2
    <3> QED
      BY <1>4, <3>1, <3>2 DEF Ids, Covered
  <2>2. ASSUME NEW q \in Rank, NEW h \in N..(newN'[q] - 1)
        PROVE  \/ \E i \in DOMAIN unused'[q] : unused'[q][i] = h
               \/ \E w \in Vert : owner'[w] = q /\ glob'[q][w] = h
    <3>1. CASE q = r /\ h = g
      BY <1>5, <3>1
    <3>2. CASE ~ (q = r /\ h = g)
      <4>0. h \in N..(newN[q] - 1) /\ h # EMPTY
        <5>1. h \in N..(newN[q] - 1)
          BY <1>a, <3>2
        <5> QED
          BY <1>2, <5>1 DEF EMPTY
      <4>1. CASE \E i \in DOMAIN unused[q] : unused[q][i] = h
        BY <1>a, <3>2, <4>1
      <4>2. CASE \E w \in Vert : owner[w] = q /\ glob[q][w] = h
        BY <1>5, <1>7, <4>0, <4>2
      <4> QED
        BY <1>4, <4>0, <4>1, <4>2 DEF Ids, Covered
    <3> QED
      BY <3>1, <3>2
  <2> QED
    BY <2>1, <2>2 DEF Covered
<1> QED
  BY <1>2, <1>10, <1>11, <1>12, <1>13, <1>14, <1>15, <1>16, <1>17, <1>18, <1>19 DEF Working, Ids

(* The last copy goes with its number, or a copy of a vertex that all drop *)
(* goes, the owner's with its number.                                      *)
LEMMA DropIds ==
    ASSUME NEW N \in Nat, TypeOK, Ids(N), NEW r \in Rank, NEW v \in held(r),
           glob' = [glob EXCEPT ![r][v] = EMPTY],
           owner[v] = r => push_unused(r, glob[r][v]),
           owner[v] # r => UNCHANGED unused,
           owner' \in [Vert -> Rank], \A w \in Vert : w # v => owner'[w] = owner[w],
           \/ owner'[v] = owner[v] /\ v \in doomed
           \/ owner[v] = r /\ \A q \in Rank : q # r => glob[q][v] = EMPTY,
           doomed' = doomed, newN' = newN
    PROVE  /\ Ids(N)' /\ glob' \in [Rank -> [Vert -> Nat \cup {EMPTY}]]
           /\ unused' \in [Rank -> Seq(Nat)]
           /\ \A q \in Rank : held(q)' \in SUBSET held(q)
<1> DEFINE g == glob[r][v]
<1>3. /\ \A q \in Rank : /\ glob[q] \in [Vert -> Nat \cup {EMPTY}]
                         /\ unused[q] \in Seq(Nat) /\ oldN[q] \in Nat /\ newN[q] \in Nat
                         /\ \A i \in DOMAIN unused[q] : unused[q][i] \in Nat
      /\ \A q \in Rank : \A w \in Vert : w \in held(q) <=> glob[q][w] # EMPTY
      /\ \A q \in Rank : \A w \in held(q) : w \in Vert /\ glob[q][w] \in Nat
      /\ \A w \in Vert : owner[w] \in Rank
      /\ \A w \in Vert : w \in alive <=> \E q \in Rank : glob[q][w] # EMPTY
  BY TypeFacts
<1>4. Ids(N)
  OBVIOUS
<1>5. g \in Nat /\ v \in Vert /\ g # EMPTY
  BY <1>3 DEF EMPTY
<1>6. /\ glob' \in [Rank -> [Vert -> Nat \cup {EMPTY}]] /\ glob'[r][v] = EMPTY
      /\ \A q \in Rank : \A w \in Vert : q # r \/ w # v => glob'[q][w] = glob[q][w]
  BY <1>5 DEF TypeOK
<1>7. \A q \in Rank : \A w : w \in held(q)' <=> w \in held(q) /\ ~ (q = r /\ w = v)
  BY <1>6 DEF held
<1>8. \A q \in Rank : \A w \in held(q)' :
         w \in held(q) /\ w \in Vert /\ ~ (q = r /\ w = v) /\ glob'[q][w] = glob[q][w]
  BY <1>3, <1>6, <1>7
<1>9. /\ unused' \in [Rank -> Seq(Nat)]
      /\ \A q \in Rank : \A i \in DOMAIN unused[q] :
            i \in DOMAIN unused'[q] /\ unused'[q][i] = unused[q][i]
      /\ \A q \in Rank : \A i \in DOMAIN unused'[q] :
            \/ i \in DOMAIN unused[q]
            \/ q = r /\ i = Len(unused[r]) + 1 /\ unused'[q][i] = g /\ owner[v] = r
      /\ owner[v] = r => \E i \in DOMAIN unused'[r] : unused'[r][i] = g
      /\ Len(unused[r]) + 1 \notin DOMAIN unused[r]
  <2>1. CASE owner[v] = r
    <3> DEFINE s == unused[r]
               t == Append(s, g)
    <3>1. unused' = [unused EXCEPT ![r] = t]
      BY <2>1 DEF push_unused
    <3> HIDE DEF g
    <3>2. /\ t \in Seq(Nat) /\ DOMAIN t = DOMAIN s \cup {Len(s) + 1}
          /\ Len(s) + 1 \notin DOMAIN s /\ t[Len(s) + 1] = g
          /\ \A i \in DOMAIN s : t[i] = s[i]
      BY <1>3, <1>5, PushEntry
    <3> HIDE DEF t
    <3>3. /\ unused'[r] = t /\ \A q \in Rank : q # r => unused'[q] = unused[q]
          /\ unused' \in [Rank -> Seq(Nat)]
      BY <3>1, <3>2 DEF TypeOK
    <3> DEFINE k == Len(unused[r]) + 1
    <3>4. /\ DOMAIN t = DOMAIN unused[r] \cup {k} /\ k \notin DOMAIN unused[r]
          /\ t[k] = g /\ \A i \in DOMAIN unused[r] : t[i] = unused[r][i]
      BY <3>2
    <3> HIDE DEF k, s
    <3>5. \A q \in Rank : \A i \in DOMAIN unused[q] :
             i \in DOMAIN unused'[q] /\ unused'[q][i] = unused[q][i]
      BY <3>3, <3>4
    <3>6. \A q \in Rank : \A i \in DOMAIN unused'[q] :
             \/ i \in DOMAIN unused[q]
             \/ q = r /\ i = k /\ unused'[q][i] = g /\ owner[v] = r
      BY <2>1, <3>3, <3>4
    <3> QED
      BY <3>3, <3>4, <3>5, <3>6 DEF k
  <2>2. CASE owner[v] # r
    <3>1. unused' = unused
      BY <2>2
    <3>2. Len(unused[r]) + 1 \notin DOMAIN unused[r]
      <4>1. unused[r] \in Seq(Nat)
        BY <1>3
      <4> QED
        BY <4>1
    <3> QED
      BY <2>2, <3>1, <3>2 DEF TypeOK
  <2> QED
    BY <2>1, <2>2
<1> DEFINE k == Len(unused[r]) + 1
<1> HIDE DEF g, k
<1>10. \A q \in Rank : \A i \in DOMAIN unused'[q] :
            \/ i \in DOMAIN unused[q] /\ unused'[q][i] = unused[q][i]
            \/ q = r /\ i = k /\ unused'[q][i] = g /\ owner[v] = r
  BY <1>9 DEF k
<1>11. ASSUME NEW p \in Rank, NEW i \in DOMAIN unused[p], unused[p][i] = g, common(N, p, r, g)
       PROVE  v \in doomed /\ p # r /\ owner[v] = p
  BY <1>4, <1>11 DEF Ids, Apart, g
<1>12. Bounded'
  <2>1. ASSUME NEW q \in Rank, NEW w \in held(q)' PROVE glob'[q][w] < newN'[q]
    BY <1>4, <1>8 DEF Ids, Bounded
  <2>2. ASSUME NEW q \in Rank, NEW i \in DOMAIN unused'[q] PROVE unused'[q][i] < newN'[q]
    <3>1. g < newN[r]
      BY <1>4 DEF Ids, Bounded, g
    <3>2. CASE i \in DOMAIN unused[q] /\ unused'[q][i] = unused[q][i]
      BY <1>4, <3>2 DEF Ids, Bounded
    <3>3. CASE q = r /\ unused'[q][i] = g
      BY <3>1, <3>3
    <3> QED
      BY <1>10, <3>2, <3>3
  <2> QED
    BY <2>1, <2>2 DEF Bounded
<1>13. Private(N)'
  <2> SUFFICES ASSUME NEW q \in Rank, NEW w \in held(q)', glob'[q][w] >= N
               PROVE  owner'[w] = q /\ \A p \in Rank : p # q => glob'[p][w] = EMPTY
    BY DEF Private
  <2>1. w \in held(q) /\ w \in Vert /\ ~ (q = r /\ w = v) /\ glob[q][w] >= N
    BY <1>8
  <2>2. owner[w] = q /\ \A p \in Rank : p # q => glob[p][w] = EMPTY
    BY <1>4, <2>1 DEF Ids, Private
  <2>3. w # v
    BY <1>3, <2>1, <2>2
  <2> QED
    BY <1>6, <2>1, <2>2, <2>3
<1>14. Agreed'
  BY <1>4, <1>8 DEF Ids, Agreed
<1>15. OneVertex(N)'
  <2> SUFFICES ASSUME NEW p \in Rank, NEW q \in Rank, NEW x \in held(p)', NEW w \in held(q)',
                      glob'[p][x] = glob'[q][w], common(N, p, q, glob'[p][x])
               PROVE  x = w
    BY DEF OneVertex, common
  <2> QED
    BY <1>4, <1>8 DEF Ids, OneVertex
<1>16. OneEntry(N)'
  <2> SUFFICES ASSUME NEW p \in Rank, NEW q \in Rank, NEW i \in DOMAIN unused'[p],
                      NEW j \in DOMAIN unused'[q], unused'[p][i] = unused'[q][j],
                      common(N, p, q, unused'[p][i])
               PROVE  p = q /\ i = j
    BY DEF OneEntry, common
  <2>1. CASE /\ i \in DOMAIN unused[p] /\ unused'[p][i] = unused[p][i]
             /\ j \in DOMAIN unused[q] /\ unused'[q][j] = unused[q][j]
    <3>1. OneEntry(N) /\ unused[p][i] = unused[q][j] /\ common(N, p, q, unused[p][i])
      BY <1>4, <2>1 DEF Ids
    <3> QED
      BY <2>1, <3>1 DEF OneEntry
  <2>2. CASE /\ i \in DOMAIN unused[p] /\ unused'[p][i] = unused[p][i]
             /\ q = r /\ j = k /\ unused'[q][j] = g /\ owner[v] = r
    <3>1. unused[p][i] = g /\ common(N, p, r, g)
      BY <2>2
    <3> QED
      BY <1>11, <2>2, <3>1
  <2>3. CASE /\ j \in DOMAIN unused[q] /\ unused'[q][j] = unused[q][j]
             /\ p = r /\ i = k /\ unused'[p][i] = g /\ owner[v] = r
    <3>1. unused[q][j] = g /\ common(N, q, r, g)
      BY <2>3 DEF common
    <3> QED
      BY <1>11, <2>3, <3>1
  <2>4. CASE p = r /\ i = k /\ q = r /\ j = k
    BY <2>4
  <2> QED
    BY <1>10, <2>1, <2>2, <2>3, <2>4
<1>17. Apart(N)'
  <2> SUFFICES ASSUME NEW p \in Rank, NEW q \in Rank, NEW i \in DOMAIN unused'[p],
                      NEW w \in held(q)', unused'[p][i] = glob'[q][w],
                      common(N, p, q, unused'[p][i])
               PROVE  w \in doomed' /\ p # q /\ owner'[w] = p
    BY DEF Apart, common
  <2>0. /\ w \in held(q) /\ w \in Vert /\ ~ (q = r /\ w = v) /\ glob'[q][w] = glob[q][w]
        /\ w = v => owner'[v] = owner[v] /\ v \in doomed
    BY <1>3, <1>8
  <2>1. CASE i \in DOMAIN unused[p] /\ unused'[p][i] = unused[p][i]
    <3>1. w \in doomed /\ p # q /\ owner[w] = p
      BY <1>4, <2>0, <2>1 DEF Ids, Apart
    <3> QED
      BY <2>0, <3>1
  <2>2. CASE p = r /\ unused'[p][i] = g /\ owner[v] = r
    <3>1. glob[q][w] = g /\ common(N, r, q, g)
      BY <2>0, <2>2
    <3>2. w = v
      BY <1>4, <2>0, <3>1 DEF Ids, OneVertex, g
    <3> QED
      BY <2>0, <2>2, <3>2
  <2> QED
    BY <1>10, <2>1, <2>2
<1>18. Owned'
  <2> SUFFICES ASSUME NEW q \in Rank, NEW w \in held(q)', w \notin doomed
               PROVE  glob'[owner'[w]][w] # EMPTY
    BY DEF Owned
  <2>1. w \in held(q) /\ w \in Vert /\ w # v /\ owner[w] \in Rank
    BY <1>3, <1>8
  <2>2. glob[owner[w]][w] # EMPTY
    BY <1>4, <2>1 DEF Ids, Owned
  <2> QED
    BY <1>6, <2>1, <2>2
<1>19. Covered(N)'
  <2>1. ASSUME NEW h \in 0..(N - 1)
        PROVE  \/ \E q \in Rank : \E i \in DOMAIN unused'[q] : unused'[q][i] = h
               \/ \E w \in Vert : glob'[owner'[w]][w] = h
    <3>1. CASE \E q \in Rank : \E i \in DOMAIN unused[q] : unused[q][i] = h
      BY <1>9, <3>1
    <3>2. CASE \E w \in Vert : glob[owner[w]][w] = h
      <4>1. PICK w \in Vert : glob[owner[w]][w] = h
        BY <3>2
      <4>2. CASE w # v
        BY <1>3, <1>6, <4>1, <4>2
      <4>3. CASE w = v /\ owner[v] = r
        BY <1>9, <4>1, <4>3 DEF g
      <4>4. CASE w = v /\ owner[v] # r
        BY <1>3, <1>6, <4>1, <4>4
      <4> QED
        BY <4>2, <4>3, <4>4
    <3> QED
      BY <1>4, <3>1, <3>2 DEF Ids, Covered
  <2>2. ASSUME NEW q \in Rank, NEW h \in N..(newN'[q] - 1)
        PROVE  \/ \E i \in DOMAIN unused'[q] : unused'[q][i] = h
               \/ \E w \in Vert : owner'[w] = q /\ glob'[q][w] = h
    <3>1. CASE \E i \in DOMAIN unused[q] : unused[q][i] = h
      BY <1>9, <3>1
    <3>2. CASE \E w \in Vert : owner[w] = q /\ glob[q][w] = h
      <4>1. PICK w \in Vert : owner[w] = q /\ glob[q][w] = h
        BY <3>2
      <4>2. CASE w # v
        BY <1>6, <4>1, <4>2
      <4>3. CASE w = v /\ q = r
        BY <1>9, <4>1, <4>3 DEF g
      <4>4. CASE w = v /\ q # r
        BY <1>6, <4>1, <4>4
      <4> QED
        BY <4>2, <4>3, <4>4
    <3> QED
      BY <1>4, <3>1, <3>2 DEF Ids, Covered
  <2> QED
    BY <2>1, <2>2 DEF Covered
<1> QED
  BY <1>6, <1>7, <1>9, <1>12, <1>13, <1>14, <1>15, <1>16, <1>17, <1>18, <1>19 DEF Ids

(* A vertex is removed by the rank that alone has it. *)
LEMMA RemoveStep ==
    ASSUME NEW N, NEW e, TypeOK, Working(N, e), NEW r \in Rank, NEW v \in Vert, Remove(r, v)
    PROVE  TypeOK' /\ Working(N, e)'
<1>1. /\ N \in Nat /\ e \in Nat /\ Places(N, e) /\ Ids(N)
      /\ owner[v] = r /\ glob' = [glob EXCEPT ![r][v] = EMPTY]
      /\ push_unused(r, glob[r][v]) /\ owner' = [owner EXCEPT ![v] = 0]
  BY DEF Working, Remove
<1>u. UNCHANGED <<oldN, newN, pc, epoch, doomed, news, counts, posted, active0>>
  BY DEF Remove
<1>2. v \in held(r) /\ \A q \in Rank : q # r => glob[q][v] = EMPTY
  <2>1. copies(v) = {r}
    BY DEF Remove
  <2> QED
    BY <2>1 DEF copies, held
<1>3. 0 \in Rank
  BY NRankAssumption DEF Rank
<1>4. owner' \in [Vert -> Rank] /\ \A w \in Vert : w # v => owner'[w] = owner[w]
  BY <1>1, <1>3 DEF TypeOK
<1>5. /\ Ids(N)' /\ glob' \in [Rank -> [Vert -> Nat \cup {EMPTY}]]
      /\ unused' \in [Rank -> Seq(Nat)] /\ \A q \in Rank : held(q)' \in SUBSET held(q)
  BY <1>1, <1>2, <1>4, <1>u, DropIds
<1>6. TypeOK'
  BY <1>4, <1>5, <1>u DEF TypeOK
<1>7. Places(N, e)'
  BY <1>1, <1>5, <1>u DEF Places
<1> QED
  BY <1>1, <1>5, <1>6, <1>7 DEF Working

(* A copy of a vertex that all ranks drop. *)
LEMMA DropCopyStep ==
    ASSUME NEW N, NEW e, TypeOK, Working(N, e), NEW r \in Rank, NEW v \in Vert, DropCopy(r, v)
    PROVE  TypeOK' /\ Working(N, e)'
<1>1. /\ N \in Nat /\ e \in Nat /\ Places(N, e) /\ Ids(N)
      /\ v \in doomed /\ v \in held(r) /\ glob' = [glob EXCEPT ![r][v] = EMPTY]
      /\ owner[v] = r => push_unused(r, glob[r][v])
      /\ owner[v] # r => UNCHANGED unused
  BY DEF Working, DropCopy, held
<1>u. UNCHANGED <<owner, oldN, newN, pc, epoch, doomed, news, counts, posted, active0>>
  BY DEF DropCopy
<1>4. owner' \in [Vert -> Rank] /\ \A w \in Vert : owner'[w] = owner[w]
  BY <1>u DEF TypeOK
<1>5. /\ Ids(N)' /\ glob' \in [Rank -> [Vert -> Nat \cup {EMPTY}]]
      /\ unused' \in [Rank -> Seq(Nat)] /\ \A q \in Rank : held(q)' \in SUBSET held(q)
  BY <1>1, <1>4, <1>u, DropIds
<1>6. TypeOK'
  BY <1>4, <1>5, <1>u DEF TypeOK
<1>7. Places(N, e)'
  BY <1>1, <1>5, <1>u DEF Places
<1> QED
  BY <1>1, <1>5, <1>6, <1>7 DEF Working

(* Which ranks hold what, and the numbers, do not change with the rest. *)
LEMMA SameIds ==
    ASSUME NEW N, Ids(N), UNCHANGED <<glob, owner, unused, newN>>,
           doomed' = doomed \/ doomed = {}
    PROVE  Ids(N)' /\ \A r \in Rank : held(r)' = held(r)
<1>1. \A r \in Rank : held(r)' = held(r)
  BY DEF held
<1>2. Bounded' /\ Private(N)' /\ Agreed' /\ OneVertex(N)' /\ OneEntry(N)' /\ Covered(N)'
  BY <1>1 DEF Ids, Bounded, Private, Agreed, OneVertex, OneEntry, Covered, common
<1>3. Apart(N)'
  BY <1>1 DEF Ids, Apart, common
<1>4. Owned'
  BY <1>1 DEF Ids, Owned
<1> QED
  BY <1>1, <1>2, <1>3, <1>4 DEF Ids

(* The ranks decide to drop a vertex, and nobody has dropped it yet. *)
LEMMA AgreeStep ==
    ASSUME NEW N, NEW e, TypeOK, Working(N, e), Agree
    PROVE  TypeOK' /\ Working(N, e)'
<1>1. N \in Nat /\ e \in Nat /\ Places(N, e) /\ Ids(N)
  BY DEF Working
<1>2. /\ doomed = {} /\ pc' = [r \in Rank |-> "drop"] /\ \A r \in Rank : pc[r] = "adapt"
      /\ UNCHANGED <<glob, owner, unused, oldN, newN, epoch, news, counts, posted, active0>>
  BY DEF Agree
<1>3. PICK v \in alive : doomed' = {v}
  BY DEF Agree
<1>4. TypeOK'
  <2>1. doomed' \in SUBSET Vert
    BY <1>3 DEF alive
  <2>2. pc' \in [Rank -> Steps]
    BY <1>2 DEF Steps
  <2> QED
    BY <1>2, <2>1, <2>2 DEF TypeOK
<1>5. Ids(N)'
  BY <1>1, <1>2, SameIds
<1>6. Places(N, e)'
  BY <1>1, <1>2 DEF Places
<1> QED
  BY <1>1, <1>4, <1>5, <1>6 DEF Working

(* A rank enters the synchronization. *)
LEMMA ShiftPostStep ==
    ASSUME NEW N, NEW e, TypeOK, Working(N, e), NEW r \in Rank, ShiftPost(r)
    PROVE  TypeOK' /\ Working(N, e)'
<1>1. N \in Nat /\ e \in Nat /\ Places(N, e) /\ Ids(N)
  BY DEF Working
<1>2. /\ pc[r] = "adapt" \/ (pc[r] = "drop" /\ held(r) \cap doomed = {})
      /\ epoch[r] < MaxSync /\ pc' = [pc EXCEPT ![r] = "gather"]
      /\ epoch' = [epoch EXCEPT ![r] = @ + 1]
      /\ news' = [news EXCEPT ![r] = newN[r] - oldN[r]]
      /\ UNCHANGED <<glob, owner, unused, oldN, newN, doomed, counts, posted, active0>>
  BY DEF ShiftPost
<1>3. /\ oldN[r] = N /\ newN[r] >= N /\ newN[r] \in Nat /\ newN[r] - N \in Nat
      /\ epoch[r] = e /\ held(r) \cap doomed = {}
  BY <1>1, <1>2 DEF Places, TypeOK
<1>4. TypeOK'
  <2>1. pc' \in [Rank -> Steps]
    BY <1>2 DEF Steps, TypeOK
  <2>2. epoch' \in [Rank -> 0..MaxSync]
    <3>1. epoch[r] + 1 \in 0..MaxSync
      BY <1>2, BoundAssumption DEF TypeOK
    <3> QED
      BY <1>2, <3>1 DEF TypeOK
  <2>3. news' \in [Rank -> Nat]
    BY <1>2, <1>3 DEF TypeOK
  <2> QED
    BY <1>2, <2>1, <2>2, <2>3 DEF TypeOK
<1>5. Ids(N)' /\ \A q \in Rank : held(q)' = held(q)
  BY <1>1, <1>2, SameIds
<1>6. /\ pc'[r] = "gather" /\ epoch'[r] = e + 1 /\ news'[r] = newN[r] - N
      /\ \A q \in Rank : q # r => pc'[q] = pc[q] /\ epoch'[q] = epoch[q] /\ news'[q] = news[q]
  BY <1>2, <1>3 DEF TypeOK
<1>7. Places(N, e)'
  <2> SUFFICES ASSUME NEW q \in Rank
               PROVE  (/\ pc[q] \in {"adapt", "drop", "gather"}
                       /\ epoch[q] = IF pc[q] = "gather" THEN e + 1 ELSE e
                       /\ oldN[q] = N /\ newN[q] >= N /\ active0[q] = 0
                       /\ pc[q] = "gather" => news[q] = newN[q] - N /\ held(q) \cap doomed = {}
                       /\ pc[q] = "adapt" => doomed = {})'
    BY DEF Places
  <2> QED
    BY <1>1, <1>2, <1>3, <1>5, <1>6 DEF Places
<1> QED
  BY <1>1, <1>4, <1>5, <1>7 DEF Working

(* The initial mesh. *)
LEMMA InitWorking ==
    ASSUME Init
    PROVE  TypeOK /\ Working(NInit, 0)
<1>1. NRank \in Nat /\ NVert \in Nat /\ NInit \in Nat /\ NInit <= NVert /\ 0 \in 0..MaxSync
  BY NRankAssumption, NVertAssumption, BoundAssumption
<1>2. PICK where \in [0..(NInit - 1) -> SUBSET Rank] :
         /\ \A v \in 0..(NInit - 1) : owner[v] \in where[v]
         /\ glob = [r \in Rank |-> [v \in Vert |->
                       IF v < NInit /\ r \in where[v] THEN v ELSE EMPTY]]
  BY DEF Init
<1>3. /\ owner \in [Vert -> Rank] /\ doomed = {}
      /\ \A r \in Rank : /\ unused[r] = <<>> /\ oldN[r] = NInit /\ newN[r] = NInit
                         /\ pc[r] = "adapt" /\ epoch[r] = 0 /\ active0[r] = 0
  BY DEF Init
<1>4. \A v \in Vert : v \in Nat /\ (v < NInit => v \in 0..(NInit - 1))
  BY <1>1 DEF Vert
<1>5. \A v \in 0..(NInit - 1) : v \in Vert /\ v < NInit
  BY <1>1 DEF Vert
<1>6. \A r \in Rank : \A v \in Vert :
         glob[r][v] = IF v < NInit /\ r \in where[v] THEN v ELSE EMPTY
  BY <1>2
<1>7. \A v \in Vert : v # EMPTY
  BY <1>4 DEF EMPTY
<1>8. \A r \in Rank : \A v \in held(r) : v \in Vert /\ v < NInit /\ r \in where[v] /\ glob[r][v] = v
  BY <1>6, <1>7 DEF held
<1>9. \A r \in Rank : DOMAIN unused[r] = {}
  BY <1>3
<1>10. TypeOK
  <2>1. glob \in [Rank -> [Vert -> Nat \cup {EMPTY}]]
    <3>1. \A r \in Rank : \A v \in Vert :
             (IF v < NInit /\ r \in where[v] THEN v ELSE EMPTY) \in Nat \cup {EMPTY}
      BY <1>4
    <3> QED
      BY <1>2, <3>1
  <2>2. unused \in [Rank -> Seq(Nat)] /\ posted \in [Rank -> Seq(Nat)]
    BY DEF Init
  <2>3. /\ oldN \in [Rank -> Nat] /\ newN \in [Rank -> Nat]
        /\ news \in [Rank -> Nat] /\ counts \in [Rank -> Nat]
    BY <1>1 DEF Init
  <2>4. pc \in [Rank -> Steps] /\ epoch \in [Rank -> 0..MaxSync] /\ doomed \in SUBSET Vert
    BY <1>1 DEF Init, Steps
  <2>5. active0 \in [Rank -> 0..NRank]
    <3>1. 0 \in 0..NRank
      BY <1>1
    <3> QED
      BY <3>1 DEF Init
  <2> QED
    BY <1>3, <2>1, <2>2, <2>3, <2>4, <2>5 DEF TypeOK
<1>11. Places(NInit, 0)
  BY <1>1, <1>3 DEF Places
<1>12. Bounded /\ OneEntry(NInit) /\ Apart(NInit)
  BY <1>3, <1>8, <1>9 DEF Bounded, OneEntry, Apart
<1>13. Private(NInit)
  <2>1. \A r \in Rank : \A v \in held(r) : ~ (glob[r][v] >= NInit)
    BY <1>1, <1>4, <1>8
  <2> QED
    BY <2>1 DEF Private
<1>14. Agreed /\ OneVertex(NInit)
  BY <1>8 DEF Agreed, OneVertex
<1>15. \A v \in 0..(NInit - 1) : owner[v] \in Rank /\ glob[owner[v]][v] = v
  BY <1>2, <1>3, <1>5, <1>6
<1>16. Owned
  BY <1>4, <1>7, <1>8, <1>15 DEF Owned
<1>17. Covered(NInit)
  <2>1. \A r \in Rank : \A g \in NInit..(newN[r] - 1) : FALSE
    BY <1>1, <1>3
  <2>2. \A g \in 0..(NInit - 1) : \E v \in Vert : glob[owner[v]][v] = g
    BY <1>5, <1>15
  <2> QED
    BY <2>1, <2>2 DEF Covered
<1> QED
  BY <1>1, <1>10, <1>11, <1>12, <1>13, <1>14, <1>16, <1>17 DEF Working, Ids

-----------------------------------------------------------------------------
(* An injective image has as many members, whichever side is finite. *)
LEMMA ImageCountBack ==
    ASSUME NEW S, NEW T, IsFiniteSet(T), NEW f \in [S -> T],
           \A x, y \in S : f[x] = f[y] => x = y,
           \A t \in T : \E x \in S : f[x] = t
    PROVE  IsFiniteSet(S) /\ Cardinality(S) = Cardinality(T)
<1>1. f \in Bijection(S, T)
  BY DEF Bijection, Injection, Surjection, IsInjective
<1>2. ExistsBijection(T, S)
  <2>1. ExistsBijection(S, T)
    BY <1>1 DEF ExistsBijection
  <2> QED
    BY <2>1, Fun_ExistsBijSymmetric
<1> QED
  BY <1>2, FS_Bijection

(* Squeezing nothing out moves nothing. *)
LEMMA SqueezeNone ==
    ASSUME NEW x \in Nat
    PROVE  squeeze({}, x) = x
<1>1. under({}, x) = {}
  BY DEF under
<1> QED
  BY <1>1, FS_EmptySet DEF squeeze

(* The numbers the ranks from a to b - 1, a slice, have to give up. *)
sliced(U, a, b) == UNION {U[q] : q \in a..(b - 1)}

(* They follow those of the slices before it and precede the others'. *)
LEMMA UptoSlice ==
    ASSUME NEW U, Shares(U), NEW a \in 0..NRank, NEW b \in 0..NRank, a <= b,
           NEW F, F = sliced(U, a, b)
    PROVE  /\ upto(U, a) \in SUBSET Nat /\ F \in SUBSET Nat
           /\ upto(U, b) = upto(U, a) \cup F /\ upto(U, a) \cap F = {}
           /\ \A q \in Rank : q >= a => upto(U, a) \cap U[q] = {}
           /\ \A q \in Rank : q >= b => F \cap U[q] = {}
<1>0. NRank \in Nat
  BY NRankAssumption
<1>1. \A q \in 0..(a - 1) : q \in Rank /\ q < a /\ q \in Nat
  BY <1>0 DEF Rank
<1>2. \A q \in a..(b - 1) : q \in Rank /\ q >= a /\ q < b /\ q \in Nat
  BY <1>0 DEF Rank
<1>3. \A q : q \in 0..(b - 1) <=> q \in 0..(a - 1) \/ q \in a..(b - 1)
  BY <1>0
<1>4. \A q \in Rank : q \in Nat
  BY DEF Rank
<1>5. upto(U, a) \in SUBSET Nat
  BY <1>1 DEF upto, Shares
<1>6. F \in SUBSET Nat
  BY <1>2 DEF Shares, sliced
<1>7. upto(U, b) = upto(U, a) \cup F
  BY <1>3 DEF upto, sliced
<1>8. \A q \in Rank : q >= a => upto(U, a) \cap U[q] = {}
  <2> SUFFICES ASSUME NEW q \in Rank, q >= a, NEW p \in 0..(a - 1) PROVE U[p] \cap U[q] = {}
    BY DEF upto
  <2>1. p \in Rank /\ p # q
    BY <1>1, <1>4
  <2> QED
    BY <2>1 DEF Shares
<1>9. \A q \in Rank : q >= b => F \cap U[q] = {}
  <2> SUFFICES ASSUME NEW q \in Rank, q >= b, NEW p \in a..(b - 1) PROVE U[p] \cap U[q] = {}
    BY DEF sliced
  <2>1. p \in Rank /\ p # q
    BY <1>2, <1>4
  <2> QED
    BY <2>1 DEF Shares
<1>10. upto(U, a) \cap F = {}
  BY <1>2, <1>8 DEF sliced
<1> QED
  BY <1>5, <1>6, <1>7, <1>8, <1>9, <1>10

(* A list without repetition of what is left of the numbers of a rank,     *)
(* after the slices before the one that starts at a.                       *)
Lists(s, E, F) ==
    /\ s \in Seq(Nat)
    /\ \A i, j \in DOMAIN s : s[i] = s[j] => i = j
    /\ {s[i] : i \in DOMAIN s} = squeezed(E, F)

(* The posted numbers of the slice that are below x, by rank and place. *)
gathered(p, a, b, x) ==
    UNION {{<<q, i>> : i \in {k \in DOMAIN p[q] : p[q][k] < x}} : q \in a..(b - 1)}

(* What the walk counts is what the numbers of the slice squeeze out. *)
LEMMA SliceCount ==
    ASSUME NEW U, Shares(U), NEW a \in 0..NRank, NEW b \in 0..NRank, a <= b,
           NEW F, F = sliced(U, a, b),
           NEW p, \A q \in a..(b - 1) : Lists(p[q], upto(U, a), U[q]), NEW x \in Nat
    PROVE  /\ Cardinality(gathered(p, a, b, x)) = Cardinality(under(squeezed(upto(U, a), F), x))
           /\ squeezed(upto(U, a), F) \in SUBSET Nat
<1> DEFINE E == upto(U, a)
           S == gathered(p, a, b, x)
           T == under(squeezed(E, F), x)
           f == [s \in S |-> p[s[1]][s[2]]]
<1>0. NRank \in Nat /\ \A q \in a..(b - 1) : q \in Rank /\ q >= a
  BY NRankAssumption DEF Rank
<1>1. E \in SUBSET Nat /\ F \in SUBSET Nat /\ E \cap F = {}
  BY UptoSlice
<1>2. squeezed(E, F) \in SUBSET Nat
  <2>1. \A y \in F : y \in Nat
    BY <1>1
  <2> HIDE DEF E
  <2>2. \A y \in F : squeeze(E, y) \in Nat
    BY <1>1, <2>1, SqueezeType
  <2> QED
    BY <2>2 DEF squeezed
<1>3. IsFiniteSet(T)
  BY <1>2, SqueezeType
<1>4. \A s \in S : /\ s[1] \in a..(b - 1) /\ s[2] \in DOMAIN p[s[1]]
                   /\ p[s[1]][s[2]] < x /\ s = <<s[1], s[2]>>
  BY DEF gathered
<1>5. \A q \in a..(b - 1) : \A i \in DOMAIN p[q] : p[q][i] < x => <<q, i>> \in S
  BY DEF gathered
<1> HIDE DEF S, E
<1>6. \A q \in a..(b - 1) : \A i \in DOMAIN p[q] : \E u \in U[q] : p[q][i] = squeeze(E, u)
  <2> TAKE q \in a..(b - 1)
  <2>1. {p[q][i] : i \in DOMAIN p[q]} = squeezed(E, U[q])
    BY DEF Lists, E
  <2> QED
    BY <2>1 DEF squeezed
<1>7. \A q \in a..(b - 1) : \A u \in U[q] : \E i \in DOMAIN p[q] : p[q][i] = squeeze(E, u)
  <2> TAKE q \in a..(b - 1)
  <2>1. {p[q][i] : i \in DOMAIN p[q]} = squeezed(E, U[q])
    BY DEF Lists, E
  <2> QED
    BY <2>1 DEF squeezed
<1>8. \A q \in a..(b - 1) : U[q] \in SUBSET F
  BY DEF sliced
<1>9. f \in [S -> T]
  <2> SUFFICES ASSUME NEW s \in S PROVE p[s[1]][s[2]] \in T
    OBVIOUS
  <2>1. s[1] \in a..(b - 1) /\ s[2] \in DOMAIN p[s[1]] /\ p[s[1]][s[2]] < x
    BY <1>4
  <2>2. PICK u \in U[s[1]] : p[s[1]][s[2]] = squeeze(E, u)
    BY <1>6, <2>1
  <2>3. u \in F
    BY <1>8, <2>1, <2>2
  <2> QED
    BY <2>1, <2>2, <2>3 DEF under, squeezed
<1>10. \A s, t \in S : f[s] = f[t] => s = t
  <2> SUFFICES ASSUME NEW s \in S, NEW t \in S, p[s[1]][s[2]] = p[t[1]][t[2]] PROVE s = t
    OBVIOUS
  <2>1. /\ s[1] \in a..(b - 1) /\ s[2] \in DOMAIN p[s[1]] /\ s = <<s[1], s[2]>>
        /\ t[1] \in a..(b - 1) /\ t[2] \in DOMAIN p[t[1]] /\ t = <<t[1], t[2]>>
    BY <1>4
  <2>2. PICK u \in U[s[1]] : p[s[1]][s[2]] = squeeze(E, u)
    BY <1>6, <2>1
  <2>3. PICK w \in U[t[1]] : p[t[1]][t[2]] = squeeze(E, w)
    BY <1>6, <2>1
  <2>4. u \in F /\ w \in F
    BY <1>8, <2>1
  <2>5. u \in Nat /\ w \in Nat /\ u \notin E /\ w \notin E
    BY <1>1, <2>4
  <2>6. u = w
    <3>1. squeeze(E, u) = squeeze(E, w)
      BY <2>2, <2>3
    <3> QED
      BY <1>1, <2>5, <3>1, SqueezeOrder
  <2>7. s[1] = t[1]
    BY <1>0, <2>1, <2>6 DEF Shares
  <2>8. s[2] = t[2]
    BY <2>1, <2>7 DEF Lists
  <2> QED
    BY <2>1, <2>7, <2>8
<1>11. \A t \in T : \E s \in S : f[s] = t
  <2> TAKE t \in T
  <2>1. PICK u \in F : t = squeeze(E, u) /\ t < x
    BY DEF under, squeezed
  <2>2. PICK q \in a..(b - 1) : u \in U[q]
    BY <2>1 DEF sliced
  <2>3. PICK i \in DOMAIN p[q] : p[q][i] = squeeze(E, u)
    BY <1>7, <2>2
  <2>4. <<q, i>> \in S
    BY <1>5, <2>1, <2>3
  <2> QED
    BY <2>1, <2>3, <2>4
<1> HIDE DEF f, T
<1>12. Cardinality(S) = Cardinality(T)
  BY <1>3, <1>9, <1>10, <1>11, ImageCountBack
<1> QED
  BY <1>2, <1>12 DEF S, T, E

-----------------------------------------------------------------------------
(***************************************************************************)
(* From the first shift to the last squeeze.  H[v] is the number of v and  *)
(* U[q] the unused numbers of rank q after the shift, out of 0..M-1, where *)
(* no number is lost or used twice.  Each rank is on its own way from the  *)
(* numbers it had to those.                                                *)
(***************************************************************************)
Numbering(H, U, M) ==
    /\ M \in Nat /\ H \in [Vert -> Nat] /\ Shares(U)
    /\ \A q \in Rank : U[q] \in SUBSET (0..(M - 1))
    /\ \A v \in alive : H[v] \in 0..(M - 1) /\ glob[owner[v]][v] # EMPTY
    /\ \A v, w \in alive : H[v] = H[w] => v = w
    /\ \A v \in alive : \A q \in Rank : H[v] \notin U[q]
    /\ \A g \in 0..(M - 1) : \/ \E q \in Rank : g \in U[q]
                             \/ \E v \in alive : H[v] = g

(* The new numbers of the ranks below r. *)
offset(r) == PrefixSum(news)[r]

(* The rank has yet to shift. *)
Gathering(r, H, U, N) ==
    /\ oldN[r] = N /\ active0[r] = 0
    /\ \A v \in held(r) : H[v] = shift_new_global(glob[r][v], N, offset(r))
    /\ U[r] = {shift_unused(unused[r][i], N, offset(r)) : i \in DOMAIN unused[r]}
    /\ \A i, j \in DOMAIN unused[r] : unused[r][i] = unused[r][j] => i = j

(* The rank has squeezed out the numbers of the slices before active0. *)
Squeezing(r, H, U) ==
    /\ counts[r] = Cardinality(U[r])
    /\ \A v \in held(r) : glob[r][v] = squeeze(upto(U, active0[r]), H[v])
    /\ r < active0[r] => unused[r] = <<>>
    /\ r >= active0[r] => /\ Rising(unused[r])
                          /\ Lists(unused[r], upto(U, active0[r]), U[r])

(* Both counts of the rank. *)
Stores(r, n) == oldN[r] = n /\ newN[r] = n

(* Where the rank is, and what it has there. *)
At(r, H, U, N, M, e) ==
    /\ epoch[r] = e
    /\ \/ pc[r] = "gather" /\ Gathering(r, H, U, N)
       \/ pc[r] = "count" /\ active0[r] = 0 /\ Squeezing(r, H, U) /\ Stores(r, M)
       \/ pc[r] = "slice" /\ active0[r] < NRank /\ Squeezing(r, H, U) /\ Stores(r, M)
       \/ /\ pc[r] = "share" /\ active0[r] = NRank /\ Squeezing(r, H, U)
          /\ Stores(r, M - Cardinality(upto(U, NRank)))

(* The rank has formed slices, which end at ends. *)
slicing(r) == pc[r] \in {"slice", "share"}

ends == [a \in Rank |-> active1(a)]

(* Slices are formed when every count is there, and are the same for all. *)
Slicing ==
    \A r \in Rank : slicing(r) => /\ active0[r] \in starts(ends)
                                  /\ \A q \in Rank : pc[q] # "gather"

(* What a rank has posted for its slice stays there. *)
Posting(U) ==
    \A q \in Rank : slicing(q) =>
       \A a \in starts(ends) :
          a < NRank /\ q \in a..(ends[a] - 1) /\ a <= active0[q]
          => Lists(posted[q], upto(U, a), U[q])

(* Copies that are yet to be shifted have the same number. *)
Agreeing ==
    \A r, q \in Rank : pc[r] = "gather" /\ pc[q] = "gather" =>
       \A v \in held(r) \cap held(q) : glob[r][v] = glob[q][v]

Renumbering(H, U, N, M, e) ==
    /\ N \in Nat /\ e \in Nat /\ M = N + offset(NRank)
    /\ Numbering(H, U, M)
    /\ \A r \in Rank : At(r, H, U, N, M, e)
    /\ Slicing /\ Posting(U) /\ Agreeing

(* The shifted new numbers of the ranks are side by side from N on. *)
LEMMA ShiftsPartition ==
    ASSUME NEW N \in Nat, NEW c \in [Rank -> Nat], NEW M, M = N + PrefixSum(c)[NRank]
    PROVE  /\ M \in Nat
           /\ \A r \in Rank : \A g \in Nat : g < N + c[r] =>
                 shift_new_global(g, N, PrefixSum(c)[r]) \in 0..(M - 1)
           /\ \A r, q \in Rank : \A g, h \in Nat :
                 g < N + c[r] /\ h < N + c[q]
                 /\ shift_new_global(g, N, PrefixSum(c)[r])
                       = shift_new_global(h, N, PrefixSum(c)[q])
                 => g = h /\ common(N, r, q, g)
           /\ \A y \in 0..(M - 1) : y < N \/ \E r \in Rank : \E g \in N..(N + c[r] - 1) :
                                                y = g + PrefixSum(c)[r]
<1> DEFINE P == PrefixSum(c)
<1>0. NRank \in Nat /\ \A r \in Rank : r \in Nat /\ r \in 0..NRank /\ r + 1 \in 0..NRank /\ r < NRank
  BY NRankAssumption DEF Rank
<1>1. P \in [0..NRank -> Nat] /\ \A n \in Rank : P[n + 1] = P[n] + c[n]
  BY PrefixSumIs
<1>2. /\ \A i, j \in 0..NRank : i <= j => P[i] <= P[j]
      /\ \A y \in Nat : y < P[NRank] => \E n \in Rank : P[n] <= y /\ y < P[n + 1]
  BY PrefixSumGrows
<1>3. M = N + P[NRank]
  OBVIOUS
<1> HIDE DEF P
<1>a. NRank \in 0..NRank
  BY <1>0
<1>4. M \in Nat /\ P[NRank] \in Nat
  BY <1>1, <1>3, <1>a
<1>5. \A r \in Rank : P[r] \in Nat /\ c[r] \in Nat /\ P[r + 1] \in Nat /\ P[r] + c[r] <= P[NRank]
  <2> TAKE r \in Rank
  <2>1. P[r] \in Nat /\ P[r + 1] \in Nat /\ P[r + 1] = P[r] + c[r] /\ c[r] \in Nat
    BY <1>0, <1>1
  <2>2. P[r + 1] <= P[NRank]
    <3>1. r + 1 \in 0..NRank /\ r + 1 <= NRank
      BY <1>0
    <3> QED
      BY <1>2, <1>a, <3>1
  <2> QED
    BY <2>1, <2>2
<1>6. ASSUME NEW r \in Rank, NEW g \in Nat, g < N + c[r]
      PROVE  shift_new_global(g, N, P[r]) \in 0..(M - 1)
  <2>1. P[r] \in Nat /\ c[r] \in Nat /\ P[r] + c[r] <= P[NRank]
    BY <1>5
  <2> QED
    BY <1>3, <1>4, <1>6, <2>1 DEF shift_new_global
<1>7. ASSUME NEW r \in Rank, NEW q \in Rank, r < q PROVE P[r] + c[r] <= P[q]
  <2>1. r + 1 <= q
    BY <1>0, <1>7
  <2>2. P[r + 1] <= P[q]
    BY <1>0, <1>2, <2>1
  <2> QED
    BY <1>1, <2>2
<1>8. ASSUME NEW r \in Rank, NEW q \in Rank, NEW g \in Nat, NEW h \in Nat,
             g < N + c[r], h < N + c[q],
             shift_new_global(g, N, P[r]) = shift_new_global(h, N, P[q])
      PROVE  g = h /\ common(N, r, q, g)
  <2>1. P[r] \in Nat /\ c[r] \in Nat /\ P[q] \in Nat /\ c[q] \in Nat
    BY <1>5
  <2>2. CASE r = q
    BY <1>8, <2>1, <2>2 DEF shift_new_global, common
  <2>3. CASE r < q
    <3>1. P[r] + c[r] <= P[q]
      BY <1>7, <2>3
    <3> QED
      BY <1>8, <2>1, <3>1 DEF shift_new_global, common
  <2>4. CASE q < r
    <3>1. P[q] + c[q] <= P[r]
      BY <1>7, <2>4
    <3> QED
      BY <1>8, <2>1, <3>1 DEF shift_new_global, common
  <2> QED
    BY <1>0, <2>2, <2>3, <2>4
<1>9. ASSUME NEW y \in 0..(M - 1), ~ (y < N)
      PROVE  \E r \in Rank : \E g \in N..(N + c[r] - 1) : y = g + P[r]
  <2>1. y - N \in Nat /\ y - N < P[NRank]
    BY <1>3, <1>4, <1>9
  <2>2. PICK n \in Rank : P[n] <= y - N /\ y - N < P[n + 1]
    BY <1>2, <2>1
  <2>3. P[n] \in Nat /\ c[n] \in Nat /\ P[n + 1] = P[n] + c[n]
    BY <1>1, <1>5
  <2>4. y - P[n] \in N..(N + c[n] - 1) /\ y = (y - P[n]) + P[n]
    BY <1>4, <2>1, <2>2, <2>3
  <2> QED
    BY <2>4
<1> QED
  BY <1>4, <1>6, <1>8, <1>9 DEF P

(* When the last rank has entered, the shifts are determined. *)
LEMMA AllGathered ==
    ASSUME NEW N, NEW e, TypeOK, Working(N, e), \A r \in Rank : pc[r] = "gather"
    PROVE  \E H, U, M : Renumbering(H, U, N, M, e + 1)
<1> DEFINE P == PrefixSum(news)
           M == N + P[NRank]
           sh(r, g) == shift_new_global(g, N, P[r])
           H == [v \in Vert |-> IF v \in alive THEN sh(owner[v], glob[owner[v]][v]) ELSE 0]
           U == [r \in Rank |-> {sh(r, unused[r][i]) : i \in DOMAIN unused[r]}]
<1>1. N \in Nat /\ e \in Nat /\ Places(N, e) /\ Ids(N)
  BY DEF Working
<1>2. /\ \A q \in Rank : /\ glob[q] \in [Vert -> Nat \cup {EMPTY}]
                         /\ unused[q] \in Seq(Nat) /\ oldN[q] \in Nat /\ newN[q] \in Nat
                         /\ \A i \in DOMAIN unused[q] : unused[q][i] \in Nat
      /\ \A q \in Rank : \A w \in Vert : w \in held(q) <=> glob[q][w] # EMPTY
      /\ \A q \in Rank : \A w \in held(q) : w \in Vert /\ glob[q][w] \in Nat
      /\ \A w \in Vert : owner[w] \in Rank
      /\ \A w \in Vert : w \in alive <=> \E q \in Rank : glob[q][w] # EMPTY
  BY TypeFacts
<1>3. news \in [Rank -> Nat] /\ \A r \in Rank : newN[r] = N + news[r]
  <2>1. news \in [Rank -> Nat]
    BY DEF TypeOK
  <2>2. \A r \in Rank : news[r] = newN[r] - N
    BY <1>1 DEF Places
  <2> QED
    BY <1>1, <1>2, <2>1, <2>2
<1>4. \A r \in Rank : \A v \in held(r) : v \notin doomed
  BY <1>1 DEF Places
<1>5. /\ M \in Nat
      /\ \A r \in Rank : \A g \in Nat : g < N + news[r] => sh(r, g) \in 0..(M - 1)
      /\ \A r, q \in Rank : \A g, h \in Nat :
            g < N + news[r] /\ h < N + news[q] /\ sh(r, g) = sh(q, h) => g = h /\ common(N, r, q, g)
      /\ \A y \in 0..(M - 1) : y < N \/ \E r \in Rank : \E g \in N..(N + news[r] - 1) : y = g + P[r]
  BY <1>1, <1>3, ShiftsPartition
<1>6. \A r \in Rank : \A v \in held(r) :
         v \in Vert /\ v \in alive /\ glob[r][v] \in Nat /\ glob[r][v] < N + news[r] /\ owner[v] \in Rank
         /\ v \in held(owner[v])
  <2> TAKE r \in Rank
  <2> TAKE v \in held(r)
  <2>1. v \in Vert /\ glob[r][v] \in Nat /\ owner[v] \in Rank
    BY <1>2
  <2>2. v \in alive
    BY <1>2, <2>1
  <2>3. glob[r][v] < N + news[r]
    BY <1>1, <1>3 DEF Ids, Bounded
  <2>4. glob[owner[v]][v] # EMPTY
    BY <1>1, <1>4 DEF Ids, Owned
  <2> QED
    BY <1>2, <2>1, <2>2, <2>3, <2>4
<1>7. \A r \in Rank : \A i \in DOMAIN unused[r] : unused[r][i] \in Nat /\ unused[r][i] < N + news[r]
  BY <1>1, <1>2, <1>3 DEF Ids, Bounded
<1>8. \A v \in alive : /\ v \in Vert /\ owner[v] \in Rank /\ v \in held(owner[v])
                       /\ glob[owner[v]][v] \in Nat /\ glob[owner[v]][v] < N + news[owner[v]]
                       /\ glob[owner[v]][v] # EMPTY
  <2> TAKE v \in alive
  <2>1. v \in Vert
    BY DEF alive
  <2>2. PICK r \in Rank : v \in held(r)
    BY <1>2, <2>1
  <2> QED
    BY <1>2, <1>6, <2>1, <2>2
<1>9. \A v \in alive : H[v] = sh(owner[v], glob[owner[v]][v])
  BY <1>8
<1>10. \A v \in alive : H[v] \in 0..(M - 1)
  <2> HIDE DEF sh, M, H
  <2> QED
    BY <1>5, <1>8, <1>9
<1>11. \A y \in 0..(M - 1) : y \in Nat
  BY <1>5
<1>12. H \in [Vert -> Nat]
  <2>1. \A v \in Vert : (IF v \in alive THEN sh(owner[v], glob[owner[v]][v]) ELSE 0) \in Nat
    <3> TAKE v \in Vert
    <3> HIDE DEF sh, M
    <3> QED
      BY <1>5, <1>8, <1>11
  <2> QED
    BY <2>1
<1>13. \A r \in Rank : \A x : x \in U[r] <=> \E i \in DOMAIN unused[r] : x = sh(r, unused[r][i])
  OBVIOUS
<1>14. \A r \in Rank : U[r] \in SUBSET (0..(M - 1))
  <2> HIDE DEF sh, M, U
  <2> QED
    BY <1>5, <1>7, <1>13
<1>15. Shares(U)
  <2>1. U \in [Rank -> SUBSET Nat]
    <3>1. \A r \in Rank : U[r] \in SUBSET Nat
      BY <1>11, <1>14
    <3>2. U = [r \in Rank |-> U[r]]
      OBVIOUS
    <3> HIDE DEF U
    <3> QED
      BY <3>1, <3>2
  <2>2. ASSUME NEW r \in Rank PROVE IsFiniteSet(U[r])
    <3> DEFINE I == 0..(M - 1)
    <3>1. IsFiniteSet(I)
      BY <1>5, FS_Interval
    <3> HIDE DEF I, U
    <3>2. U[r] \in SUBSET I
      BY <1>14 DEF I
    <3> QED
      BY <3>1, <3>2, FS_Subset
  <2>3. ASSUME NEW p \in Rank, NEW q \in Rank, p # q, NEW x \in U[p], x \in U[q] PROVE FALSE
    <3>1. PICK i \in DOMAIN unused[p] : x = sh(p, unused[p][i])
      BY <1>13
    <3>2. PICK j \in DOMAIN unused[q] : x = sh(q, unused[q][j])
      BY <1>13, <2>3
    <3> HIDE DEF sh, U, M, P
    <3>a. /\ unused[p][i] \in Nat /\ unused[p][i] < N + news[p]
          /\ unused[q][j] \in Nat /\ unused[q][j] < N + news[q]
      BY <1>7
    <3>3. unused[p][i] = unused[q][j] /\ common(N, p, q, unused[p][i])
      BY <1>5, <3>1, <3>2, <3>a
    <3> QED
      BY <1>1, <2>3, <3>3 DEF Ids, OneEntry
  <2> HIDE DEF U
  <2> QED
    BY <2>1, <2>2, <2>3 DEF Shares
<1>16. ASSUME NEW v \in alive, NEW w \in alive, H[v] = H[w] PROVE v = w
  <2> HIDE DEF sh, H, M, U
  <2>1. /\ glob[owner[v]][v] = glob[owner[w]][w]
        /\ common(N, owner[v], owner[w], glob[owner[v]][v])
    BY <1>5, <1>8, <1>9, <1>16
  <2> QED
    BY <1>1, <1>8, <2>1 DEF Ids, OneVertex
<1>17. ASSUME NEW v \in alive, NEW q \in Rank, H[v] \in U[q] PROVE FALSE
  <2>1. PICK i \in DOMAIN unused[q] : H[v] = sh(q, unused[q][i])
    BY <1>13, <1>17
  <2> HIDE DEF sh, H, M, U
  <2>2. unused[q][i] = glob[owner[v]][v] /\ common(N, q, owner[v], unused[q][i])
    BY <1>5, <1>7, <1>8, <1>9, <2>1
  <2>3. v \in doomed
    BY <1>1, <1>8, <2>2 DEF Ids, Apart
  <2> QED
    BY <1>4, <1>8, <2>3
<1>18. ASSUME NEW y \in 0..(M - 1)
       PROVE  (\E q \in Rank : y \in U[q]) \/ (\E v \in alive : H[v] = y)
  <2>1. CASE y < N
    <3>1. y \in 0..(N - 1) /\ y # EMPTY
      BY <1>1, <1>11, <2>1 DEF EMPTY
    <3>2. \A r \in Rank : sh(r, y) = y
      BY <1>1, <1>11, <2>1 DEF shift_new_global
    <3> HIDE DEF sh, H, M, U
    <3>3. CASE \E r \in Rank : \E i \in DOMAIN unused[r] : unused[r][i] = y
      BY <1>13, <3>2, <3>3
    <3>4. CASE \E v \in Vert : glob[owner[v]][v] = y
      <4>1. PICK v \in Vert : glob[owner[v]][v] = y
        BY <3>4
      <4>2. v \in alive
        BY <1>2, <3>1, <4>1
      <4> QED
        BY <1>8, <1>9, <3>2, <4>1, <4>2
    <3> QED
      BY <1>1, <3>1, <3>3, <3>4 DEF Ids, Covered
  <2>2. CASE ~ (y < N)
    <3>1. PICK r \in Rank : \E g \in N..(N + news[r] - 1) : y = g + P[r]
      BY <1>5, <2>2
    <3>2. PICK g \in N..(N + news[r] - 1) : y = g + P[r]
      BY <3>1
    <3>3. g \in N..(newN[r] - 1) /\ g # EMPTY /\ g >= N
      BY <1>1, <1>3, <3>2 DEF EMPTY
    <3>4. sh(r, g) = y
      BY <3>2, <3>3 DEF shift_new_global
    <3> HIDE DEF sh, H, M, U
    <3>5. CASE \E i \in DOMAIN unused[r] : unused[r][i] = g
      BY <1>13, <3>4, <3>5
    <3>6. CASE \E v \in Vert : owner[v] = r /\ glob[r][v] = g
      <4>1. PICK v \in Vert : owner[v] = r /\ glob[r][v] = g
        BY <3>6
      <4>2. v \in alive
        BY <1>2, <3>3, <4>1
      <4> QED
        BY <1>9, <3>4, <4>1, <4>2
    <3> QED
      BY <1>1, <3>3, <3>5, <3>6 DEF Ids, Covered
  <2> QED
    BY <2>1, <2>2
<1>19. Numbering(H, U, M)
  <2> HIDE DEF H, U, M
  <2> QED
    BY <1>5, <1>8, <1>10, <1>12, <1>14, <1>15, <1>16, <1>17, <1>18 DEF Numbering
<1>20. ASSUME NEW r \in Rank PROVE At(r, H, U, N, M, e + 1)
  <2>1. epoch[r] = e + 1 /\ oldN[r] = N /\ active0[r] = 0
    BY <1>1 DEF Places
  <2>2. ASSUME NEW v \in held(r) PROVE H[v] = sh(r, glob[r][v])
    <3>1. v \in alive /\ v \in held(owner[v]) /\ owner[v] \in Rank /\ glob[r][v] \in Nat
      BY <1>6
    <3>2. glob[owner[v]][v] = glob[r][v]
      BY <1>1, <3>1 DEF Ids, Agreed
    <3>3. CASE glob[r][v] >= N
      <4>1. owner[v] = r
        BY <1>1, <3>3 DEF Ids, Private
      <4> QED
        BY <1>9, <3>1, <4>1
    <3>4. CASE ~ (glob[r][v] >= N)
      <4>1. H[v] = sh(owner[v], glob[r][v])
        BY <1>9, <3>1, <3>2
      <4> HIDE DEF H
      <4> QED
        BY <3>4, <4>1 DEF shift_new_global
    <3> QED
      BY <3>3, <3>4
  <2>3. U[r] = {shift_unused(unused[r][i], N, P[r]) : i \in DOMAIN unused[r]}
    BY DEF shift_unused, shift_new_global
  <2>4. \A i, j \in DOMAIN unused[r] : unused[r][i] = unused[r][j] => i = j
    BY <1>1 DEF Ids, OneEntry, common
  <2> HIDE DEF H, U, M
  <2> QED
    BY <2>1, <2>2, <2>3, <2>4 DEF At, Gathering, offset
<1>21. Slicing /\ Posting(U)
  BY DEF Slicing, Posting, slicing
<1>22. Agreeing
  BY <1>1 DEF Agreeing, Ids, Agreed
<1> HIDE DEF H, U
<1>23. e + 1 \in Nat /\ M = N + offset(NRank)
  BY <1>1 DEF offset
<1> HIDE DEF M
<1>24. Renumbering(H, U, N, M, e + 1)
  BY <1>1, <1>19, <1>20, <1>21, <1>22, <1>23 DEF Renumbering
<1> QED
  BY <1>24

(* Renumbering leaves every copy where it is. *)
LEMMA KeepNumbering ==
    ASSUME NEW H, NEW U, NEW M, TypeOK, Numbering(H, U, M), UNCHANGED owner,
           \A q \in Rank : \A v \in Vert : glob'[q][v] # EMPTY <=> glob[q][v] # EMPTY
    PROVE  Numbering(H, U, M)' /\ alive' = alive /\ \A q \in Rank : held(q)' = held(q)
<1>1. \A q \in Rank : held(q)' = held(q)
  BY DEF held
<1>2. alive' = alive
  BY DEF alive, copies
<1>3. \A v \in alive : v \in Vert /\ owner[v] \in Rank
  BY DEF alive, TypeOK
<1>4. \A v \in alive : glob'[owner'[v]][v] # EMPTY
  BY <1>3 DEF Numbering
<1> QED
  BY <1>1, <1>2, <1>4 DEF Numbering

(* A step of another rank leaves this one where it is. *)
LEMMA OtherAt ==
    ASSUME NEW q \in Rank, NEW H, NEW U, NEW N, NEW M, NEW e, At(q, H, U, N, M, e),
           glob'[q] = glob[q], unused'[q] = unused[q], oldN'[q] = oldN[q],
           newN'[q] = newN[q], pc'[q] = pc[q], epoch'[q] = epoch[q],
           counts'[q] = counts[q], active0'[q] = active0[q], news' = news
    PROVE  At(q, H, U, N, M, e)'
<1>1. held(q)' = held(q) /\ \A r : offset(r)' = offset(r)
  BY DEF held, offset
<1>2. Gathering(q, H, U, N) => Gathering(q, H, U, N)'
  BY <1>1 DEF Gathering
<1>3. Squeezing(q, H, U) => Squeezing(q, H, U)'
  BY <1>1 DEF Squeezing
<1> QED
  BY <1>2, <1>3 DEF At, Stores

(* An ascending list has no repetition. *)
LEMMA RisingLists ==
    ASSUME NEW s \in Seq(Nat), Rising(s), NEW E, NEW F, vals(s) = squeezed(E, F)
    PROVE  Lists(s, E, F)
<1>1. DOMAIN s = 1..Len(s) /\ Len(s) \in Nat /\ \A i \in 1..Len(s) : s[i] \in Nat
  OBVIOUS
<1>2. \A i, j \in DOMAIN s : s[i] = s[j] => i = j
  <2> TAKE i, j \in DOMAIN s
  <2>1. i \in 1..Len(s) /\ j \in 1..Len(s) /\ s[i] \in Nat /\ s[j] \in Nat
    BY <1>1
  <2>2. i < j => s[i] < s[j]
    BY <2>1 DEF Rising
  <2>3. j < i => s[j] < s[i]
    BY <2>1 DEF Rising
  <2> QED
    BY <1>1, <2>1, <2>2, <2>3
<1> QED
  BY <1>1, <1>2 DEF Lists, vals

(* Nothing is squeezed out of the numbers of the first slice. *)
LEMMA FirstSlice ==
    ASSUME NEW U
    PROVE  /\ upto(U, 0) = {}
           /\ \A F \in SUBSET Nat : squeezed(upto(U, 0), F) = F
<1>1. upto(U, 0) = {}
  BY DEF upto
<1>2. ASSUME NEW F \in SUBSET Nat PROVE squeezed({}, F) = F
  <2>1. \A x \in F : squeeze({}, x) = x
    BY SqueezeNone
  <2> QED
    BY <2>1 DEF squeezed
<1> QED
  BY <1>1, <1>2

(* The shift of one rank. *)
LEMMA ShiftApplyStep ==
    ASSUME NEW H, NEW U, NEW N, NEW M, NEW e, TypeOK, Renumbering(H, U, N, M, e),
           NEW r \in Rank, ShiftApply(r)
    PROVE  /\ TypeOK' /\ Renumbering(H, U, N, M, e)'
           /\ \A v, w \in held(r) : glob[r][v] < glob[r][w] => glob'[r][v] < glob'[r][w]
<1> DEFINE P == PrefixSum(news)
           sh(g) == shift_new_global(g, N, P[r])
           list == [i \in DOMAIN unused[r] |-> shift_unused(unused[r][i], oldN[r], P[r])]
<1>1. /\ N \in Nat /\ e \in Nat /\ M = N + P[NRank] /\ Numbering(H, U, M)
      /\ \A q \in Rank : At(q, H, U, N, M, e)
      /\ Slicing /\ Posting(U) /\ Agreeing
  BY DEF Renumbering, offset
<1>2. /\ pc[r] = "gather"
      /\ glob' = [glob EXCEPT ![r] = [v \in Vert |->
                     IF v \in held(r) THEN shift_new_global(glob[r][v], oldN[r], P[r]) ELSE EMPTY]]
      /\ unused' = [unused EXCEPT ![r] = sort_in_place(list)]
      /\ oldN' = [oldN EXCEPT ![r] = oldN[r] + P[NRank]]
      /\ newN' = [newN EXCEPT ![r] = oldN[r] + P[NRank]]
      /\ counts' = [counts EXCEPT ![r] = Len(unused[r])]
      /\ active0' = [active0 EXCEPT ![r] = 0]
      /\ pc' = [pc EXCEPT ![r] = "count"]
      /\ UNCHANGED <<owner, epoch, doomed, news, posted>>
  BY DEF ShiftApply
<1>3. Gathering(r, H, U, N) /\ epoch[r] = e
  BY <1>1, <1>2 DEF At
<1>4. /\ \A q \in Rank : /\ glob[q] \in [Vert -> Nat \cup {EMPTY}]
                         /\ unused[q] \in Seq(Nat) /\ oldN[q] \in Nat /\ newN[q] \in Nat
                         /\ \A i \in DOMAIN unused[q] : unused[q][i] \in Nat
      /\ \A q \in Rank : \A w \in Vert : w \in held(q) <=> glob[q][w] # EMPTY
      /\ \A q \in Rank : \A w \in held(q) : w \in Vert /\ glob[q][w] \in Nat
      /\ \A w \in Vert : owner[w] \in Rank
      /\ \A w \in Vert : w \in alive <=> \E q \in Rank : glob[q][w] # EMPTY
  BY TypeFacts
<1>5. P \in [0..NRank -> Nat] /\ P[r] \in Nat /\ P[NRank] \in Nat /\ 0 \in 0..NRank
  <2>1. news \in [Rank -> Nat]
    BY DEF TypeOK
  <2>2. r \in 0..NRank /\ NRank \in 0..NRank /\ 0 \in 0..NRank
    BY NRankAssumption DEF Rank
  <2>3. P \in [0..NRank -> Nat]
    BY <2>1, PrefixSumIs
  <2> QED
    BY <2>2, <2>3
<1> HIDE DEF P
<1>6. /\ oldN[r] = N
      /\ \A v \in held(r) : H[v] = sh(glob[r][v])
      /\ U[r] = {shift_unused(unused[r][i], N, P[r]) : i \in DOMAIN unused[r]}
      /\ \A i, j \in DOMAIN unused[r] : unused[r][i] = unused[r][j] => i = j
  BY <1>3 DEF Gathering, offset, P
<1>7. M \in Nat /\ H \in [Vert -> Nat] /\ Shares(U) /\ U[r] \in SUBSET Nat
  BY <1>1 DEF Numbering, Shares
<1>8. /\ \A v \in held(r) : glob'[r][v] = H[v] /\ H[v] \in Nat /\ H[v] # EMPTY
      /\ \A v \in Vert : v \notin held(r) => glob'[r][v] = EMPTY
      /\ \A q \in Rank : q # r => glob'[q] = glob[q]
      /\ glob' \in [Rank -> [Vert -> Nat \cup {EMPTY}]]
  <2>1. \A v \in held(r) : H[v] \in Nat
    BY <1>4, <1>7
  <2>2. \A v \in held(r) : H[v] # EMPTY
    BY <2>1 DEF EMPTY
  <2> DEFINE row == [v \in Vert |-> IF v \in held(r) THEN sh(glob[r][v]) ELSE EMPTY]
  <2>3. glob' = [glob EXCEPT ![r] = row]
    BY <1>2, <1>6
  <2>4. \A v \in Vert : row[v] = IF v \in held(r) THEN H[v] ELSE EMPTY
    BY <1>6
  <2>5. row \in [Vert -> Nat \cup {EMPTY}]
    BY <1>6, <2>1
  <2> HIDE DEF row
  <2>6. glob'[r] = row /\ glob' \in [Rank -> [Vert -> Nat \cup {EMPTY}]]
        /\ \A q \in Rank : q # r => glob'[q] = glob[q]
    BY <2>3, <2>5 DEF TypeOK
  <2> QED
    BY <1>4, <2>1, <2>2, <2>4, <2>6
<1>9. /\ Numbering(H, U, M)' /\ alive' = alive /\ \A q \in Rank : held(q)' = held(q)
  <2>1. ASSUME NEW q \in Rank, NEW v \in Vert PROVE glob'[q][v] # EMPTY <=> glob[q][v] # EMPTY
    BY <1>4, <1>8
  <2> QED
    BY <1>1, <1>2, <2>1, KeepNumbering
<1> DEFINE n == Len(unused[r])
<1>10. n \in Nat /\ DOMAIN unused[r] = 1..n
  BY <1>4
<1> HIDE DEF n
<1>11. /\ list \in Seq(Nat) /\ Len(list) = n /\ DOMAIN list = 1..n
       /\ \A i \in 1..n : list[i] = shift_unused(unused[r][i], N, P[r])
  <2>1. list = [i \in 1..n |-> shift_unused(unused[r][i], N, P[r])]
    BY <1>6, <1>10
  <2>2. \A i \in 1..n : shift_unused(unused[r][i], N, P[r]) \in Nat
    <3> TAKE i \in 1..n
    <3>1. unused[r][i] \in Nat
      BY <1>4, <1>10
    <3> QED
      BY <1>5, <3>1 DEF shift_unused
  <2>3. list \in [1..n -> Nat] /\ \A i \in 1..n : list[i] = shift_unused(unused[r][i], N, P[r])
    BY <2>1, <2>2
  <2> HIDE DEF list
  <2> QED
    BY <1>10, <2>3
<1> HIDE DEF list
<1>12. \A i, j \in 1..n : list[i] = list[j] => i = j
  <2> SUFFICES ASSUME NEW i \in 1..n, NEW j \in 1..n, list[i] = list[j] PROVE i = j
    OBVIOUS
  <2>1. unused[r][i] \in Nat /\ unused[r][j] \in Nat
    BY <1>4, <1>10
  <2>2. shift_unused(unused[r][i], N, P[r]) = shift_unused(unused[r][j], N, P[r])
    BY <1>11
  <2>3. unused[r][i] = unused[r][j]
    BY SMTT(60), <1>1, <1>5, <2>1, <2>2 DEF shift_unused
  <2> QED
    BY <1>6, <1>10, <2>3
<1>13. vals(list) = U[r]
  BY <1>6, <1>10, <1>11 DEF vals
<1> DEFINE S == sort_in_place(list)
<1>14. S \in Seq(Nat) /\ Len(S) = n /\ vals(S) = U[r] /\ Rising(S)
  BY <1>11, <1>12, <1>13, SortRises
<1>15. Cardinality(U[r]) = n
  <2> DEFINE D == 1..n
  <2>1. IsFiniteSet(D) /\ Cardinality(D) = n
    BY <1>10, FS_Interval
  <2>2. list \in [D -> U[r]] /\ \A t \in U[r] : \E i \in D : list[i] = t
    BY <1>11, <1>13 DEF vals
  <2>3. \A i, j \in D : list[i] = list[j] => i = j
    BY <1>12
  <2> HIDE DEF D
  <2> QED
    BY <2>1, <2>2, <2>3, ImageCount
<1> HIDE DEF S
<1>16. /\ unused'[r] = S /\ oldN'[r] = M /\ newN'[r] = M /\ counts'[r] = n
       /\ active0'[r] = 0 /\ pc'[r] = "count"
       /\ \A q \in Rank : q # r => /\ unused'[q] = unused[q] /\ oldN'[q] = oldN[q]
                                   /\ newN'[q] = newN[q] /\ counts'[q] = counts[q]
                                   /\ active0'[q] = active0[q] /\ pc'[q] = pc[q]
       /\ unused' \in [Rank -> Seq(Nat)] /\ oldN' \in [Rank -> Nat] /\ newN' \in [Rank -> Nat]
       /\ counts' \in [Rank -> Nat] /\ active0' \in [Rank -> 0..NRank] /\ pc' \in [Rank -> Steps]
  <2>1. unused' = [unused EXCEPT ![r] = S] /\ counts' = [counts EXCEPT ![r] = n]
    BY <1>2 DEF S, n
  <2>2. oldN' = [oldN EXCEPT ![r] = M] /\ newN' = [newN EXCEPT ![r] = M]
    BY <1>1, <1>2, <1>6
  <2>3. "count" \in Steps
    BY DEF Steps
  <2>4. unused' \in [Rank -> Seq(Nat)] /\ oldN' \in [Rank -> Nat] /\ newN' \in [Rank -> Nat]
    BY <1>7, <1>14, <2>1, <2>2 DEF TypeOK
  <2>5. counts' \in [Rank -> Nat] /\ active0' \in [Rank -> 0..NRank] /\ pc' \in [Rank -> Steps]
    BY <1>2, <1>5, <1>10, <2>1, <2>3 DEF TypeOK
  <2>6. /\ unused'[r] = S /\ oldN'[r] = M /\ newN'[r] = M /\ counts'[r] = n
        /\ active0'[r] = 0 /\ pc'[r] = "count"
    BY <1>2, <2>1, <2>2 DEF TypeOK
  <2>7. ASSUME NEW q \in Rank, q # r
        PROVE  /\ unused'[q] = unused[q] /\ oldN'[q] = oldN[q]
               /\ newN'[q] = newN[q] /\ counts'[q] = counts[q]
               /\ active0'[q] = active0[q] /\ pc'[q] = pc[q]
    BY <1>2, <2>1, <2>2, <2>7 DEF TypeOK
  <2> QED
    BY <2>4, <2>5, <2>6, <2>7
<1>17. TypeOK'
  BY <1>2, <1>8, <1>16 DEF TypeOK
<1>18. ASSUME NEW q \in Rank PROVE At(q, H, U, N, M, e)'
  <2>1. CASE q # r
    <3>1. /\ glob'[q] = glob[q] /\ unused'[q] = unused[q] /\ oldN'[q] = oldN[q]
          /\ newN'[q] = newN[q] /\ pc'[q] = pc[q] /\ epoch'[q] = epoch[q]
          /\ counts'[q] = counts[q] /\ active0'[q] = active0[q] /\ news' = news
      BY <1>2, <1>8, <1>16, <2>1
    <3> QED
      BY <1>1, <3>1, OtherAt
  <2>2. CASE q = r
    <3>1. upto(U, 0) = {} /\ squeezed(upto(U, 0), U[r]) = U[r]
      BY <1>7, FirstSlice
    <3>2. \A v \in held(r) : glob'[r][v] = squeeze(upto(U, 0), H[v])
      BY <1>8, <3>1, SqueezeNone
    <3>3. Lists(S, upto(U, 0), U[r])
      BY <1>14, <3>1, RisingLists
    <3>4. ~ (r < 0)
      BY DEF Rank
    <3>5. Squeezing(r, H, U)'
      BY <1>9, <1>14, <1>15, <1>16, <3>2, <3>3, <3>4 DEF Squeezing
    <3>6. epoch'[r] = e
      BY <1>2, <1>3
    <3> QED
      BY <1>16, <2>2, <3>5, <3>6 DEF At, Stores
  <2> QED
    BY <2>1, <2>2
<1>19. \A q \in Rank : ~ slicing(q)'
  <2>1. \A q \in Rank : ~ slicing(q)
    BY <1>1, <1>2 DEF Slicing
  <2> QED
    BY <1>16, <2>1 DEF slicing
<1>20. Slicing' /\ Posting(U)'
  BY <1>19 DEF Slicing, Posting
<1>21. Agreeing'
  <2> SUFFICES ASSUME NEW p \in Rank, NEW q \in Rank, pc'[p] = "gather", pc'[q] = "gather",
                      NEW v \in held(p)' \cap held(q)'
               PROVE  glob'[p][v] = glob'[q][v]
    BY DEF Agreeing
  <2>1. p # r /\ q # r
    BY <1>16
  <2>2. /\ pc[p] = "gather" /\ pc[q] = "gather" /\ v \in held(p) \cap held(q)
        /\ glob'[p] = glob[p] /\ glob'[q] = glob[q]
    BY <1>8, <1>9, <1>16, <2>1
  <2>3. glob[p][v] = glob[q][v]
    BY <1>1, <2>2 DEF Agreeing
  <2> QED
    BY <2>2, <2>3
<1>22. offset(NRank)' = offset(NRank)
  BY <1>2 DEF offset
<1>23. Renumbering(H, U, N, M, e)'
  BY <1>9, <1>18, <1>20, <1>21, <1>22 DEF Renumbering
<1>24. ASSUME NEW v \in held(r), NEW w \in held(r), glob[r][v] < glob[r][w]
       PROVE  glob'[r][v] < glob'[r][w]
  <2>1. glob[r][v] \in Nat /\ glob[r][w] \in Nat
    BY <1>4
  <2>2. sh(glob[r][v]) < sh(glob[r][w])
    BY <1>1, <1>5, <1>24, <2>1 DEF shift_new_global
  <2> QED
    BY <1>6, <1>8, <2>2
<1> QED
  BY <1>17, <1>23, <1>24

(* The slices the ranks form from the counts. *)
LEMMA EndsFit ==
    /\ ends \in [Rank -> Nat] /\ \A a \in Rank : ends[a] \in (a + 1)..NRank
    /\ \A a \in Rank : ends[a] = active1(a) /\ slice(a) = a..(ends[a] - 1)
    /\ starts(ends) \in SUBSET (0..NRank) /\ Closed(ends, starts(ends))
    /\ \A a, b \in starts(ends) : a < b => a \in Rank /\ ends[a] <= b
<1>0. NRank \in Nat
  BY NRankAssumption
<1>1. \A a \in Rank : active1(a) \in (a + 1)..NRank
  BY SliceFits DEF active1
<1>2. \A a \in Rank : \A b \in (a + 1)..NRank : b \in Nat
  BY <1>0 DEF Rank
<1>3. ends \in [Rank -> Nat] /\ \A a \in Rank : ends[a] = active1(a)
  BY <1>1, <1>2 DEF ends
<1> HIDE DEF ends
<1>4. \A a \in Rank : ends[a] \in (a + 1)..NRank /\ slice(a) = a..(ends[a] - 1)
  BY <1>1, <1>3 DEF slice
<1> QED
  BY <1>3, <1>4, SlicesFollow

(* A rank forms its first slice. *)
LEMMA CountApplyStep ==
    ASSUME NEW H, NEW U, NEW N, NEW M, NEW e, TypeOK, Renumbering(H, U, N, M, e),
           NEW r \in Rank, CountApply(r)
    PROVE  TypeOK' /\ Renumbering(H, U, N, M, e)'
<1>1. /\ N \in Nat /\ e \in Nat /\ M = N + offset(NRank) /\ Numbering(H, U, M)
      /\ \A q \in Rank : At(q, H, U, N, M, e)
      /\ Slicing /\ Posting(U) /\ Agreeing
  BY DEF Renumbering
<1>2. /\ pc[r] = "count" /\ \A q \in Rank : CountPosted(q, r)
      /\ pc' = [pc EXCEPT ![r] = "slice"]
      /\ PostSlice(r, active0[r], unused[r])
      /\ UNCHANGED <<glob, owner, unused, oldN, newN, epoch, doomed, news, counts, active0>>
  BY DEF CountApply
<1>3. /\ epoch[r] = e /\ active0[r] = 0 /\ Squeezing(r, H, U) /\ Stores(r, M)
  BY <1>1, <1>2 DEF At
<1>4. \A q \in Rank : pc[q] # "gather"
  <2> TAKE q \in Rank
  <2>1. epoch[q] = epoch[r] /\ epoch[r] \in Nat
    BY <1>1, <1>3 DEF At
  <2> QED
    BY <1>2, <2>1 DEF CountPosted
<1>5. /\ ends \in [Rank -> Nat] /\ \A a \in Rank : ends[a] \in (a + 1)..NRank
      /\ \A a \in Rank : ends[a] = active1(a) /\ slice(a) = a..(ends[a] - 1)
      /\ starts(ends) \in SUBSET (0..NRank) /\ Closed(ends, starts(ends))
      /\ \A a, b \in starts(ends) : a < b => a \in Rank /\ ends[a] <= b
  BY EndsFit
<1>6. 0 \in Rank /\ 0 < NRank /\ 0 \in starts(ends)
  BY <1>5, NRankAssumption DEF Rank, Closed
<1>7. /\ posted' = IF r \in 0..(ends[0] - 1) THEN [posted EXCEPT ![r] = unused[r]] ELSE posted
  BY <1>2, <1>3, <1>5, <1>6 DEF PostSlice
<1>8. /\ pc'[r] = "slice" /\ pc' \in [Rank -> Steps]
      /\ \A q \in Rank : q # r => pc'[q] = pc[q] /\ posted'[q] = posted[q]
      /\ posted' \in [Rank -> Seq(Nat)]
      /\ r \in 0..(ends[0] - 1) => posted'[r] = unused[r]
  <2>1. "slice" \in Steps
    BY DEF Steps
  <2>2. unused[r] \in Seq(Nat)
    BY DEF TypeOK
  <2> HIDE DEF ends
  <2> QED
    BY <1>2, <1>7, <2>1, <2>2 DEF TypeOK
<1>9. TypeOK'
  BY <1>2, <1>8 DEF TypeOK
<1>10. /\ held(r)' = held(r) /\ ends' = ends /\ offset(NRank)' = offset(NRank)
       /\ \A q \in Rank : held(q)' = held(q)
  BY <1>2 DEF held, ends, active1, chunk_size, total_unused, offset
<1>11. Numbering(H, U, M)'
  BY <1>1, <1>2, KeepNumbering
<1>12. ASSUME NEW q \in Rank PROVE At(q, H, U, N, M, e)'
  <2>1. CASE q # r
    <3>1. /\ glob'[q] = glob[q] /\ unused'[q] = unused[q] /\ oldN'[q] = oldN[q]
          /\ newN'[q] = newN[q] /\ pc'[q] = pc[q] /\ epoch'[q] = epoch[q]
          /\ counts'[q] = counts[q] /\ active0'[q] = active0[q] /\ news' = news
      BY <1>2, <1>8, <2>1
    <3> QED
      BY <1>1, <3>1, OtherAt
  <2>2. CASE q = r
    <3>1. Squeezing(r, H, U)' /\ Stores(r, M)'
      BY <1>2, <1>3, <1>10 DEF Squeezing, Stores
    <3>2. epoch'[r] = e /\ active0'[r] < NRank
      BY <1>2, <1>3, <1>6
    <3> QED
      BY <1>8, <2>2, <3>1, <3>2 DEF At
  <2> QED
    BY <2>1, <2>2
<1>13. Slicing'
  <2> SUFFICES ASSUME NEW q \in Rank, slicing(q)'
               PROVE  active0'[q] \in starts(ends') /\ \A p \in Rank : pc'[p] # "gather"
    BY DEF Slicing
  <2>1. \A p \in Rank : pc'[p] # "gather"
    BY <1>4, <1>8
  <2>2. CASE q = r
    BY <1>2, <1>3, <1>6, <1>10, <2>1, <2>2
  <2>3. CASE q # r
    <3>1. slicing(q)
      BY <1>8, <2>3 DEF slicing
    <3> QED
      BY <1>1, <1>2, <1>10, <2>1, <3>1 DEF Slicing
  <2> QED
    BY <2>2, <2>3
<1>14. Posting(U)'
  <2> SUFFICES ASSUME NEW q \in Rank, slicing(q)', NEW a \in starts(ends),
                      a < NRank, q \in a..(ends[a] - 1), a <= active0[q]
               PROVE  Lists(posted'[q], upto(U, a), U[q])
    BY <1>2, <1>10 DEF Posting
  <2>1. CASE q = r
    <3>1. a = 0
      <4>1. a \in Nat
        BY <1>5
      <4> QED
        BY <1>3, <2>1, <4>1
    <3>2. posted'[r] = unused[r]
      BY <1>8, <2>1, <3>1
    <3>3. r >= 0
      BY DEF Rank
    <3>4. Lists(unused[r], upto(U, 0), U[r])
      BY <1>3, <3>3 DEF Squeezing
    <3> QED
      BY <2>1, <3>1, <3>2, <3>4
  <2>2. CASE q # r
    <3>1. slicing(q) /\ posted'[q] = posted[q]
      BY <1>8, <2>2 DEF slicing
    <3> HIDE DEF ends
    <3>2. Lists(posted[q], upto(U, a), U[q])
      BY <1>1, <3>1 DEF Posting
    <3> QED
      BY <3>1, <3>2
  <2> QED
    BY <2>1, <2>2
<1>15. Agreeing'
  BY <1>4, <1>8 DEF Agreeing
<1> QED
  BY <1>1, <1>9, <1>10, <1>11, <1>12, <1>13, <1>14, <1>15 DEF Renumbering

(* The numbers of the ranks before b are squeezed out in two steps: those  *)
(* of the ranks before a, then those of the slice from a.                  *)
LEMMA SliceSqueezes ==
    ASSUME NEW U, Shares(U), NEW a \in 0..NRank, NEW b \in 0..NRank, a <= b,
           NEW p, \A q \in a..(b - 1) : Lists(p[q], upto(U, a), U[q]),
           NEW x \in Nat, x \notin upto(U, b)
    PROVE  /\ squeeze(upto(U, a), x) - Cardinality(gathered(p, a, b, squeeze(upto(U, a), x)))
                 = squeeze(upto(U, b), x)
           /\ squeeze(upto(U, b), x) \in Nat /\ squeeze(upto(U, a), x) \in Nat
<1> DEFINE E == upto(U, a)
           F == sliced(U, a, b)
           y == squeeze(E, x)
<1>1. E \in SUBSET Nat /\ F \in SUBSET Nat /\ upto(U, b) = E \cup F /\ E \cap F = {}
  BY UptoSlice
<1>2. x \notin E /\ x \notin F
  BY <1>1
<1> HIDE DEF E, F
<1>3. y \in Nat /\ squeeze(E \cup F, x) \in Nat
  <2>1. E \cup F \in SUBSET Nat
    BY <1>1
  <2> QED
    BY <1>1, <2>1, SqueezeType
<1>4. /\ squeeze(E \cup F, x) = y - Cardinality(under(F, x))
      /\ Cardinality(under(squeezed(E, F), y)) = Cardinality(under(F, x))
  BY <1>1, <1>2, SqueezeTwice
<1>5. Cardinality(gathered(p, a, b, y)) = Cardinality(under(squeezed(E, F), y))
  BY <1>3, SliceCount DEF E, F
<1> QED
  BY <1>1, <1>3, <1>4, <1>5 DEF E

(* A larger number has at least as many gathered numbers below it. *)
LEMMA GatheredGrows ==
    ASSUME NEW U, Shares(U), NEW a \in 0..NRank, NEW b \in 0..NRank, a <= b,
           NEW p, \A q \in a..(b - 1) : Lists(p[q], upto(U, a), U[q]),
           NEW x \in Nat, NEW y \in Nat, x <= y
    PROVE  /\ Cardinality(gathered(p, a, b, x)) <= Cardinality(gathered(p, a, b, y))
           /\ Cardinality(gathered(p, a, b, x)) \in Nat
           /\ Cardinality(gathered(p, a, b, y)) \in Nat
<1> DEFINE F == sliced(U, a, b)
           Q == squeezed(upto(U, a), F)
<1>0. F = sliced(U, a, b)
  OBVIOUS
<1> HIDE DEF F
<1>1. /\ Cardinality(gathered(p, a, b, x)) = Cardinality(under(Q, x))
      /\ Cardinality(gathered(p, a, b, y)) = Cardinality(under(Q, y))
      /\ Q \in SUBSET Nat
  BY <1>0, SliceCount
<1> HIDE DEF Q
<1>2. \A e \in Q : e \in Nat
  BY <1>1
<1>3. \A e \in Q : e < x => e < y
  BY <1>2
<1>4. under(Q, x) \in SUBSET under(Q, y)
  BY <1>3 DEF under
<1>5. IsFiniteSet(under(Q, y)) /\ Cardinality(under(Q, x)) \in Nat /\ Cardinality(under(Q, y)) \in Nat
  BY <1>1, SqueezeType
<1> QED
  BY <1>1, <1>4, <1>5, FS_Subset

(* The list s after the walk of ref_node_eliminate_unused_offset. *)
walked(p, a, b, s) ==
    [i \in DOMAIN s |-> s[i] - Max({Cardinality(gathered(p, a, b, s[j])) : j \in 1..i})]

(* The walk over an ascending list of unused numbers takes the offset of   *)
(* each, and lists what is left of them in ascending order.                *)
LEMMA WalkSqueezes ==
    ASSUME NEW U, Shares(U), NEW a \in 0..NRank, NEW b \in 0..NRank, a <= b,
           NEW p, \A q \in a..(b - 1) : Lists(p[q], upto(U, a), U[q]),
           NEW r \in Rank, r >= b, NEW s, Rising(s), Lists(s, upto(U, a), U[r]),
           NEW t, t = walked(p, a, b, s)
    PROVE  t \in Seq(Nat) /\ Rising(t) /\ Lists(t, upto(U, b), U[r])
<1> DEFINE E == upto(U, a)
           c(x) == Cardinality(gathered(p, a, b, x))
           n == Len(s)
<1>0. NRank \in Nat /\ a \in Nat /\ b \in Nat /\ r \in Nat
  BY NRankAssumption DEF Rank
<1>1. /\ s \in Seq(Nat) /\ n \in Nat /\ DOMAIN s = 1..n /\ \A i \in 1..n : s[i] \in Nat
  BY DEF Lists
<1>2. \A i \in 1..n : \E u \in U[r] : s[i] = squeeze(E, u)
  <2>1. {s[i] : i \in 1..n} = squeezed(E, U[r])
    BY <1>1 DEF Lists
  <2> QED
    BY <2>1 DEF squeezed
<1>3. \A u \in U[r] : \E i \in 1..n : s[i] = squeeze(E, u)
  <2>1. {s[i] : i \in 1..n} = squeezed(E, U[r])
    BY <1>1 DEF Lists
  <2> QED
    BY <2>1 DEF squeezed
<1>a. \A i, j \in 1..n : i < j => s[i] < s[j]
  BY DEF Rising
<1> HIDE DEF n
<1>4. ASSUME NEW i \in 1..n PROVE Max({c(s[j]) : j \in 1..i}) = c(s[i])
  <2> DEFINE C == {c(s[j]) : j \in 1..i}
  <2>1. ASSUME NEW j \in 1..i PROVE c(s[j]) \in Nat /\ c(s[j]) <= c(s[i]) /\ c(s[i]) \in Nat
    <3>1. j \in 1..n /\ s[j] \in Nat /\ s[i] \in Nat
      BY <1>1
    <3>2. s[j] <= s[i]
      <4>1. j < i \/ j = i
        BY <1>1
      <4> QED
        BY <1>a, <3>1, <4>1
    <3> QED
      BY <3>1, <3>2, GatheredGrows
  <2>2. i \in 1..i
    BY <1>1
  <2>3. C \in SUBSET Nat /\ c(s[i]) \in C /\ c(s[i]) \in Nat /\ \A x \in C : x <= c(s[i])
    <3> HIDE DEF c
    <3> QED
      BY <2>1, <2>2
  <2> DEFINE m == c(s[i])
  <2>4. C \in SUBSET Nat /\ m \in C /\ m \in Nat /\ \A x \in C : x <= m
    BY <2>3
  <2> HIDE DEF C, m
  <2>5. Max(C) \in C /\ \A x \in C : x <= Max(C)
    BY <2>4, MaxIs
  <2>6. Max(C) \in Nat /\ Max(C) <= m /\ m <= Max(C)
    BY <2>4, <2>5
  <2> DEFINE k == Max(C)
  <2>7. k \in Nat /\ k <= m /\ m <= k
    BY <2>6
  <2> HIDE DEF k
  <2>8. k = m
    BY <2>4, <2>7
  <2> QED
    BY <2>8 DEF k, C, m
<1>5. t = [i \in 1..n |-> s[i] - c(s[i])]
  BY <1>1, <1>4 DEF walked
<1> HIDE DEF c
<1>6. U[r] \in SUBSET Nat /\ U[r] \cap upto(U, b) = {} /\ U[r] \cap E = {}
      /\ upto(U, b) \in SUBSET Nat /\ E \in SUBSET Nat
  <2>1. \A q \in Rank : q >= b => upto(U, b) \cap U[q] = {}
    <3>1. b <= b
      BY <1>0
    <3> DEFINE G == sliced(U, b, b)
    <3>2. G = sliced(U, b, b)
      OBVIOUS
    <3> HIDE DEF G
    <3> QED
      BY <3>1, <3>2, UptoSlice
  <2>2. upto(U, b) \in SUBSET Nat /\ E \in SUBSET Nat /\ upto(U, b) = E \cup sliced(U, a, b)
    <3> DEFINE G == sliced(U, a, b)
    <3>1. G = sliced(U, a, b)
      OBVIOUS
    <3> HIDE DEF G
    <3>2. E \in SUBSET Nat /\ G \in SUBSET Nat /\ upto(U, b) = E \cup G
      BY <3>1, UptoSlice
    <3> QED
      BY <3>1, <3>2
  <2>3. U[r] \in SUBSET Nat
    BY DEF Shares
  <2> QED
    BY <2>1, <2>2, <2>3
<1>7. \A u \in U[r] : u \in Nat /\ u \notin upto(U, b) /\ u \notin E
  BY <1>6
<1>8. \A u \in U[r] : /\ squeeze(E, u) - c(squeeze(E, u)) = squeeze(upto(U, b), u)
                      /\ squeeze(upto(U, b), u) \in Nat
  BY <1>7, SliceSqueezes DEF c
<1> HIDE DEF E
<1>9. \A i \in 1..n : \A u \in U[r] : s[i] = squeeze(E, u) => s[i] - c(s[i]) = squeeze(upto(U, b), u)
  BY <1>8
<1>10. \A i \in 1..n : s[i] - c(s[i]) \in Nat
  BY <1>2, <1>8, <1>9
<1>11. t \in [1..n -> Nat] /\ \A i \in 1..n : t[i] = s[i] - c(s[i])
  BY <1>5, <1>10
<1>12. t \in Seq(Nat) /\ Len(t) = n /\ DOMAIN t = 1..n
  BY <1>1, <1>11
<1>13. Rising(t)
  <2> SUFFICES ASSUME NEW i \in 1..n, NEW j \in 1..n, i < j PROVE t[i] < t[j]
    BY <1>12 DEF Rising
  <2>1. PICK u \in U[r] : s[i] = squeeze(E, u)
    BY <1>2
  <2>2. PICK w \in U[r] : s[j] = squeeze(E, w)
    BY <1>2
  <2>3. u \in Nat /\ u \notin E /\ u \notin upto(U, b) /\ w \in Nat /\ w \notin E /\ w \notin upto(U, b)
    BY <1>7
  <2>4. squeeze(E, u) < squeeze(E, w)
    BY <1>a, <2>1, <2>2
  <2>5. u < w
    BY <1>6, <2>3, <2>4, SqueezeOrder
  <2>6. squeeze(upto(U, b), u) < squeeze(upto(U, b), w)
    BY <1>6, <2>3, <2>5, SqueezeGrows
  <2> QED
    BY <1>9, <1>11, <2>1, <2>2, <2>6
<1>14. vals(t) = squeezed(upto(U, b), U[r])
  <2>1. \A i \in 1..n : \E u \in U[r] : t[i] = squeeze(upto(U, b), u)
    BY <1>2, <1>9, <1>11
  <2>2. \A u \in U[r] : \E i \in 1..n : t[i] = squeeze(upto(U, b), u)
    BY <1>3, <1>9, <1>11
  <2> HIDE <1>2, <1>3, <1>9, <1>11
  <2> QED
    BY <1>12, <2>1, <2>2 DEF vals, squeezed
<1> QED
  BY <1>12, <1>13, <1>14, RisingLists

(* A rank squeezes out the numbers of a slice. *)
LEMMA SliceApplyStep ==
    ASSUME NEW H, NEW U, NEW N, NEW M, NEW e, TypeOK, Renumbering(H, U, N, M, e),
           NEW r \in Rank, SliceApply(r)
    PROVE  /\ TypeOK' /\ Renumbering(H, U, N, M, e)'
           /\ \A v, w \in held(r) : glob[r][v] < glob[r][w] => glob'[r][v] < glob'[r][w]
<1> DEFINE a == active0[r]
           b == ends[a]
           n == M - Cardinality(upto(U, NRank))
<1>1. /\ N \in Nat /\ e \in Nat /\ M = N + offset(NRank) /\ Numbering(H, U, M)
      /\ \A q \in Rank : At(q, H, U, N, M, e)
      /\ Slicing /\ Posting(U) /\ Agreeing
  BY DEF Renumbering
<1>2. /\ pc[r] = "slice" /\ \A q \in slice(a) : SlicePosted(q, r)
      /\ glob' = [glob EXCEPT ![r] = [v \in Vert |->
                     IF v \in held(r) THEN glob[r][v] - smaller(r, glob[r][v]) ELSE EMPTY]]
      /\ unused' = [unused EXCEPT ![r] =
                     IF r \in slice(a) THEN <<>>
                     ELSE [i \in DOMAIN unused[r] |-> eliminate_unused_offset(r, unused[r], i)]]
      /\ active0' = [active0 EXCEPT ![r] = active1(a)]
      /\ UNCHANGED <<owner, epoch, doomed, news, counts>>
  BY DEF SliceApply
<1>3. epoch[r] = e /\ a < NRank /\ Squeezing(r, H, U) /\ Stores(r, M)
  BY <1>1, <1>2 DEF At
<1>4. a \in starts(ends) /\ \A q \in Rank : pc[q] # "gather"
  BY <1>1, <1>2 DEF Slicing, slicing
<1>5. /\ ends \in [Rank -> Nat] /\ \A c \in Rank : ends[c] \in (c + 1)..NRank
      /\ \A c \in Rank : ends[c] = active1(c) /\ slice(c) = c..(ends[c] - 1)
      /\ starts(ends) \in SUBSET (0..NRank) /\ Closed(ends, starts(ends))
      /\ \A c, d \in starts(ends) : c < d => c \in Rank /\ ends[c] <= d
  BY EndsFit
<1> HIDE DEF ends
<1>0. NRank \in Nat /\ \A q \in Rank : q \in Nat /\ q < NRank
  BY NRankAssumption DEF Rank
<1>6. /\ a \in 0..NRank /\ a \in Rank /\ a \in Nat
      /\ active1(a) = b /\ slice(a) = a..(b - 1)
      /\ b \in (a + 1)..NRank /\ b \in 0..NRank /\ b \in Nat /\ a <= b /\ a < b /\ b <= NRank
      /\ b \in starts(ends)
  <2>1. a \in 0..NRank
    BY <1>4, <1>5
  <2>2. a \in Rank /\ a \in Nat
    BY <1>0, <1>3, <2>1 DEF Rank
  <2>3. active1(a) = b /\ slice(a) = a..(b - 1) /\ b \in (a + 1)..NRank
    BY <1>5, <2>2
  <2>4. b \in starts(ends)
    BY <1>3, <1>4, <1>5 DEF Closed
  <2> HIDE DEF a, b
  <2>5. b \in 0..NRank /\ b \in Nat /\ a <= b /\ a < b /\ b <= NRank
    BY <1>0, <2>2, <2>3
  <2> QED
    BY <2>1, <2>2, <2>3, <2>4, <2>5
<1>7. /\ \A q \in Rank : /\ glob[q] \in [Vert -> Nat \cup {EMPTY}]
                         /\ unused[q] \in Seq(Nat) /\ oldN[q] \in Nat /\ newN[q] \in Nat
                         /\ \A i \in DOMAIN unused[q] : unused[q][i] \in Nat
      /\ \A q \in Rank : \A w \in Vert : w \in held(q) <=> glob[q][w] # EMPTY
      /\ \A q \in Rank : \A w \in held(q) : w \in Vert /\ glob[q][w] \in Nat
      /\ \A w \in Vert : owner[w] \in Rank
      /\ \A w \in Vert : w \in alive <=> \E q \in Rank : glob[q][w] # EMPTY
  BY TypeFacts
<1>8. M \in Nat /\ H \in [Vert -> Nat] /\ Shares(U)
  BY <1>1 DEF Numbering
<1>9. \A q \in a..(b - 1) : Lists(posted[q], upto(U, a), U[q])
  <2> TAKE q \in a..(b - 1)
  <2>1. q \in Rank /\ SlicePosted(q, r)
    <3>1. SlicePosted(q, r)
      BY <1>2, <1>6
    <3>2. q \in Rank
      <4> HIDE DEF a, b
      <4> QED
        BY <1>0, <1>6 DEF Rank
    <3> QED
      BY <3>1, <3>2
  <2>2. epoch[q] = epoch[r] /\ epoch[q] \in Nat
    BY <1>1, <1>3, <2>1 DEF At
  <2>3. active0[q] >= a /\ (active0[q] > a \/ pc[q] = "slice") /\ active0[q] \in Nat
    <3>1. active0[q] \in 0..NRank
      BY <2>1 DEF TypeOK
    <3>2. active0[q] > a \/ (active0[q] = a /\ pc[q] = "slice")
      BY <2>1, <2>2 DEF SlicePosted
    <3> HIDE DEF a
    <3> QED
      BY <1>0, <1>6, <3>1, <3>2
  <2>4. slicing(q)
    <3>1. pc[q] # "gather" /\ At(q, H, U, N, M, e)
      BY <1>1, <1>4, <2>1
    <3>2. CASE pc[q] = "slice"
      BY <3>2 DEF slicing
    <3>3. CASE active0[q] > a
      <4>1. active0[q] # 0
        <5> HIDE DEF a
        <5> QED
          BY <1>6, <2>3, <3>3
      <4> QED
        BY <3>1, <4>1 DEF At, slicing
    <3> QED
      BY <2>3, <3>2, <3>3
  <2>5. a <= active0[q]
    <3> HIDE DEF a
    <3> QED
      BY <1>6, <2>3
  <2> QED
    BY <1>1, <1>3, <1>4, <2>1, <2>4, <2>5 DEF Posting
<1>10. \A x : smaller(r, x) = Cardinality(gathered(posted, a, b, x))
  BY <1>6 DEF smaller, gathered
<1>11. \A v \in held(r) : H[v] \in Nat /\ H[v] \notin upto(U, a) /\ H[v] \notin upto(U, b)
                          /\ glob[r][v] = squeeze(upto(U, a), H[v])
  <2> TAKE v \in held(r)
  <2>1. v \in Vert /\ v \in alive
    BY <1>7
  <2>2. \A q \in Rank : H[v] \notin U[q]
    BY <1>1, <2>1 DEF Numbering
  <2>3. \A q : q \in 0..(a - 1) \/ q \in 0..(b - 1) => q \in Rank
    <3> HIDE DEF a, b
    <3> QED
      BY <1>0, <1>6 DEF Rank
  <2>4. H[v] \notin upto(U, a) /\ H[v] \notin upto(U, b)
    BY <2>2, <2>3 DEF upto
  <2> QED
    BY <1>3, <1>8, <2>1, <2>4 DEF Squeezing
<1>12. \A v \in held(r) : /\ glob[r][v] - smaller(r, glob[r][v]) = squeeze(upto(U, b), H[v])
                          /\ squeeze(upto(U, b), H[v]) \in Nat
  <2> TAKE v \in held(r)
  <2> HIDE DEF a, b
  <2>1. /\ squeeze(upto(U, a), H[v]) - Cardinality(gathered(posted, a, b, squeeze(upto(U, a), H[v])))
              = squeeze(upto(U, b), H[v])
        /\ squeeze(upto(U, b), H[v]) \in Nat
    BY <1>6, <1>8, <1>9, <1>11, SliceSqueezes
  <2> QED
    BY <1>10, <1>11, <2>1
<1>13. /\ \A v \in held(r) : glob'[r][v] = squeeze(upto(U, b), H[v]) /\ glob'[r][v] # EMPTY
       /\ \A v \in Vert : v \notin held(r) => glob'[r][v] = EMPTY
       /\ \A q \in Rank : q # r => glob'[q] = glob[q]
       /\ glob' \in [Rank -> [Vert -> Nat \cup {EMPTY}]]
  <2> DEFINE row == [v \in Vert |->
                       IF v \in held(r) THEN glob[r][v] - smaller(r, glob[r][v]) ELSE EMPTY]
  <2>1. glob' = [glob EXCEPT ![r] = row]
    BY <1>2
  <2>2. \A v \in held(r) : v \in Vert
    BY DEF held
  <2>3. row \in [Vert -> Nat \cup {EMPTY}]
    BY <1>12
  <2>4. \A v \in held(r) : row[v] = squeeze(upto(U, b), H[v]) /\ row[v] \in Nat
    BY <1>12, <2>2
  <2>5. \A v \in Vert : v \notin held(r) => row[v] = EMPTY
    OBVIOUS
  <2> HIDE DEF row
  <2>6. glob'[r] = row /\ glob' \in [Rank -> [Vert -> Nat \cup {EMPTY}]]
        /\ \A q \in Rank : q # r => glob'[q] = glob[q]
    BY <2>1, <2>3 DEF TypeOK
  <2>7. \A v \in held(r) : row[v] # EMPTY
    BY <2>4 DEF EMPTY
  <2> QED
    BY <2>4, <2>5, <2>6, <2>7
<1>14. Numbering(H, U, M)' /\ alive' = alive /\ \A q \in Rank : held(q)' = held(q)
  <2>1. ASSUME NEW q \in Rank, NEW v \in Vert PROVE glob'[q][v] # EMPTY <=> glob[q][v] # EMPTY
    BY <1>7, <1>13
  <2> QED
    BY <1>1, <1>2, <2>1, KeepNumbering
<1> DEFINE t == unused'[r]
<1>15. /\ r < b => t = <<>>
       /\ r >= b => Rising(t) /\ Lists(t, upto(U, b), U[r])
       /\ t \in Seq(Nat) /\ unused' \in [Rank -> Seq(Nat)]
       /\ \A q \in Rank : q # r => unused'[q] = unused[q]
  <2> DEFINE s == unused[r]
             u == IF r \in slice(a) THEN <<>>
                  ELSE [i \in DOMAIN s |-> eliminate_unused_offset(r, s, i)]
  <2>1. unused' = [unused EXCEPT ![r] = u]
    BY <1>2
  <2>2. /\ r < a => s = <<>>
        /\ r >= a => Rising(s) /\ Lists(s, upto(U, a), U[r])
    BY <1>3 DEF Squeezing
  <2>3. r \in slice(a) <=> r >= a /\ r < b
    <3> HIDE DEF a, b
    <3> QED
      BY <1>0, <1>6
  <2>4. CASE r < a
    <3>0. ~ (r >= a) /\ r < b
      <4> HIDE DEF a, b
      <4> QED
        BY <1>0, <1>6, <2>4
    <3>1. r \notin slice(a) /\ s = <<>> /\ r < b
      BY <2>2, <2>3, <2>4, <3>0
    <3>2. u = <<>>
      BY <3>1
    <3>3. ~ (r >= b)
      <4> HIDE DEF a, b
      <4> QED
        BY <1>0, <1>6, <3>1
    <3> HIDE DEF u
    <3>4. unused'[r] = <<>> /\ unused' \in [Rank -> Seq(Nat)]
          /\ \A q \in Rank : q # r => unused'[q] = unused[q]
      BY <2>1, <3>2 DEF TypeOK
    <3> QED
      BY <3>3, <3>4
  <2>5. CASE r >= a /\ r < b
    <3>1. u = <<>>
      BY <2>3, <2>5
    <3>3. ~ (r >= b)
      <4> HIDE DEF a, b
      <4> QED
        BY <1>0, <1>6, <2>5
    <3> HIDE DEF u
    <3>4. unused'[r] = <<>> /\ unused' \in [Rank -> Seq(Nat)]
          /\ \A q \in Rank : q # r => unused'[q] = unused[q]
      BY <2>1, <3>1 DEF TypeOK
    <3> QED
      BY <3>3, <3>4
  <2>6. CASE r >= b
    <3>1. r >= a /\ ~ (r < b)
      <4> HIDE DEF a, b
      <4> QED
        BY <1>0, <1>6, <2>6
    <3>2. Rising(s) /\ Lists(s, upto(U, a), U[r])
      BY <2>2, <3>1
    <3>3. u = walked(posted, a, b, s)
      BY <1>10, <2>3, <3>1 DEF walked, eliminate_unused_offset
    <3> HIDE DEF u, s, a, b
    <3>4. u \in Seq(Nat) /\ Rising(u) /\ Lists(u, upto(U, b), U[r])
      BY <1>6, <1>8, <1>9, <2>6, <3>2, <3>3, WalkSqueezes
    <3>5. unused'[r] = u /\ unused' \in [Rank -> Seq(Nat)]
          /\ \A q \in Rank : q # r => unused'[q] = unused[q]
      BY <2>1, <3>4 DEF TypeOK
    <3> QED
      BY <3>1, <3>4, <3>5
  <2>7. r < a \/ (r >= a /\ r < b) \/ r >= b
    <3> HIDE DEF a, b
    <3> QED
      BY <1>0, <1>6
  <2> QED
    BY <2>4, <2>5, <2>6, <2>7
<1> HIDE DEF t
<1>16. active0'[r] = b /\ active0' \in [Rank -> 0..NRank]
       /\ \A q \in Rank : q # r => active0'[q] = active0[q]
  BY <1>2, <1>6 DEF TypeOK
<1>17. ends' = ends /\ offset(NRank)' = offset(NRank)
  BY <1>2 DEF ends, active1, chunk_size, total_unused, offset
<1>18. Squeezing(r, H, U)'
  <2>1. counts'[r] = Cardinality(U[r])
    BY <1>2, <1>3 DEF Squeezing
  <2> HIDE DEF b
  <2> QED
    BY <1>13, <1>14, <1>15, <1>16, <2>1 DEF Squeezing, t
<1>19. total_unused = Cardinality(upto(U, NRank)) /\ n \in Nat
  <2>1. counts \in [Rank -> Nat] /\ \A q \in Rank : counts[q] = Cardinality(U[q])
    BY <1>1, <1>4 DEF TypeOK, At, Squeezing
  <2>2. NRank \in 0..NRank
    BY <1>0
  <2>3. total_unused = Cardinality(upto(U, NRank))
    BY <1>8, <2>1, <2>2, TotalCount DEF total_unused
  <2>4. upto(U, NRank) \in SUBSET (0..(M - 1))
    BY <1>1 DEF Numbering, upto, Rank
  <2> DEFINE K == (0..(M - 1)) \ upto(U, NRank)
  <2>5. K = (0..(M - 1)) \ upto(U, NRank)
    OBVIOUS
  <2> HIDE DEF K
  <2>6. Cardinality(K) \in Nat /\ Cardinality(K) = M - Cardinality(upto(U, NRank))
    BY <1>8, <2>4, <2>5, SqueezeCompact
  <2> QED
    BY <2>3, <2>6
<1>20. /\ b = NRank =>
             /\ pc' = [pc EXCEPT ![r] = "share"] /\ oldN' = [oldN EXCEPT ![r] = n]
             /\ newN' = [newN EXCEPT ![r] = n] /\ posted' = posted
       /\ b < NRank =>
             /\ pc' = pc /\ oldN' = oldN /\ newN' = newN
             /\ posted' = IF r \in b..(ends[b] - 1) THEN [posted EXCEPT ![r] = t] ELSE posted
       /\ b = NRank \/ b < NRank
  <2>1. oldN[r] = M
    BY <1>3 DEF Stores
  <2>2. b = NRank \/ b < NRank
    <3> HIDE DEF a, b
    <3> QED
      BY <1>0, <1>6
  <2>3. CASE b = NRank
    <3>1. ~ (b < NRank)
      BY <1>0, <2>3
    <3>2. ~ (active0'[r] < NRank)
      BY <1>16, <3>1
    <3>3. /\ pc' = [pc EXCEPT ![r] = "share"]
          /\ oldN' = [oldN EXCEPT ![r] = oldN[r] - total_unused]
          /\ newN' = [newN EXCEPT ![r] = oldN[r] - total_unused]
          /\ UNCHANGED posted
      BY <3>2 DEF SliceApply
    <3>4. oldN[r] - total_unused = n
      BY <1>19, <2>1
    <3> QED
      BY <2>3, <3>1, <3>3, <3>4
  <2>4. CASE b < NRank
    <3>1. b # NRank /\ b \in Rank
      <4> HIDE DEF a, b
      <4> QED
        BY <1>0, <1>6, <2>4 DEF Rank
    <3>2. active0'[r] # NRank
      BY <1>16, <3>1
    <3>3. PostSlice(r, active0'[r], unused'[r]) /\ UNCHANGED <<pc, oldN, newN>>
      BY <3>2 DEF SliceApply
    <3>4. slice(b) = b..(ends[b] - 1)
      BY <1>5, <3>1
    <3> HIDE DEF b
    <3>5. posted' = IF r \in slice(b) THEN [posted EXCEPT ![r] = t] ELSE posted
      BY <1>16, <3>3 DEF PostSlice, t
    <3> QED
      BY <2>4, <3>1, <3>3, <3>4, <3>5
  <2> QED
    BY <2>2, <2>3, <2>4
<1> HIDE DEF b
<1>21. /\ pc'[r] = IF b = NRank THEN "share" ELSE "slice"
       /\ oldN'[r] = (IF b = NRank THEN n ELSE M) /\ newN'[r] = (IF b = NRank THEN n ELSE M)
       /\ \A q \in Rank : q # r => /\ pc'[q] = pc[q] /\ oldN'[q] = oldN[q]
                                   /\ newN'[q] = newN[q] /\ posted'[q] = posted[q]
       /\ pc' \in [Rank -> Steps] /\ oldN' \in [Rank -> Nat] /\ newN' \in [Rank -> Nat]
       /\ posted' \in [Rank -> Seq(Nat)]
       /\ posted'[r] = posted[r] \/ (b < NRank /\ r \in b..(ends[b] - 1))
       /\ b < NRank /\ r \in b..(ends[b] - 1) => posted'[r] = t
  <2>1. "share" \in Steps /\ n \in Nat /\ t \in Seq(Nat)
    BY <1>15, <1>19 DEF Steps
  <2>2. oldN[r] = M /\ newN[r] = M
    BY <1>3 DEF Stores
  <2>3. b = NRank => ~ (b < NRank)
    BY <1>0
  <2> HIDE DEF n
  <2>4. CASE b = NRank
    <3>1. /\ pc' = [pc EXCEPT ![r] = "share"] /\ oldN' = [oldN EXCEPT ![r] = n]
          /\ newN' = [newN EXCEPT ![r] = n] /\ posted' = posted /\ ~ (b < NRank)
      BY <1>20, <2>3, <2>4
    <3>2. pc'[r] = "share" /\ oldN'[r] = n /\ newN'[r] = n
      BY <3>1 DEF TypeOK
    <3>3. /\ pc' \in [Rank -> Steps] /\ oldN' \in [Rank -> Nat] /\ newN' \in [Rank -> Nat]
          /\ posted' \in [Rank -> Seq(Nat)]
      BY <2>1, <3>1 DEF TypeOK
    <3>4. \A q \in Rank : q # r => /\ pc'[q] = pc[q] /\ oldN'[q] = oldN[q]
                                   /\ newN'[q] = newN[q] /\ posted'[q] = posted[q]
      BY <3>1 DEF TypeOK
    <3> QED
      BY <2>4, <3>1, <3>2, <3>3, <3>4
  <2>5. CASE b < NRank
    <3>1. b # NRank
      BY <2>3, <2>5
    <3>2. /\ pc' = pc /\ oldN' = oldN /\ newN' = newN
          /\ posted' = IF r \in b..(ends[b] - 1) THEN [posted EXCEPT ![r] = t] ELSE posted
      BY <1>20, <2>5
    <3> DEFINE I == b..(ends[b] - 1)
    <3>3. posted' = IF r \in I THEN [posted EXCEPT ![r] = t] ELSE posted
      BY <3>2
    <3> HIDE DEF I
    <3>4. /\ posted' \in [Rank -> Seq(Nat)]
          /\ \A q \in Rank : q # r => posted'[q] = posted[q]
          /\ r \in I => posted'[r] = t
          /\ r \notin I => posted'[r] = posted[r]
      BY <2>1, <3>3 DEF TypeOK
    <3> QED
      BY <1>2, <2>2, <2>5, <3>1, <3>2, <3>4 DEF TypeOK, I
  <2> QED
    BY <1>20, <2>4, <2>5
<1>22. TypeOK'
  BY <1>2, <1>13, <1>15, <1>16, <1>21 DEF TypeOK
<1>23. ASSUME NEW q \in Rank PROVE At(q, H, U, N, M, e)'
  <2>1. CASE q # r
    <3>1. /\ glob'[q] = glob[q] /\ unused'[q] = unused[q] /\ oldN'[q] = oldN[q]
          /\ newN'[q] = newN[q] /\ pc'[q] = pc[q] /\ epoch'[q] = epoch[q]
          /\ counts'[q] = counts[q] /\ active0'[q] = active0[q] /\ news' = news
      BY <1>2, <1>13, <1>15, <1>16, <1>21, <2>1
    <3> QED
      BY <1>1, <3>1, OtherAt
  <2>2. CASE q = r
    <3>1. epoch'[r] = e
      BY <1>2, <1>3
    <3>2. CASE b = NRank
      BY <1>16, <1>18, <1>21, <2>2, <3>1, <3>2 DEF At, Stores
    <3>3. CASE b < NRank
      <4>1. b # NRank
        BY <1>0, <3>3
      <4> QED
        BY <1>16, <1>18, <1>21, <2>2, <3>1, <3>3, <4>1 DEF At, Stores
    <3> QED
      BY <1>20, <3>2, <3>3
  <2> QED
    BY <2>1, <2>2
<1>24. \A q \in Rank : slicing(q)' <=> slicing(q)
  BY <1>2, <1>21 DEF slicing
<1>25. Slicing'
  <2> SUFFICES ASSUME NEW q \in Rank, slicing(q)'
               PROVE  active0'[q] \in starts(ends') /\ \A p \in Rank : pc'[p] # "gather"
    BY DEF Slicing
  <2>1. \A p \in Rank : pc'[p] # "gather"
    BY <1>4, <1>21
  <2>2. CASE q = r
    BY <1>6, <1>16, <1>17, <2>1, <2>2 DEF b
  <2>3. CASE q # r
    <3>1. slicing(q)
      BY <1>24
    <3> QED
      BY <1>1, <1>16, <1>17, <2>1, <2>3, <3>1 DEF Slicing
  <2> QED
    BY <2>2, <2>3
<1>26. Posting(U)'
  <2> SUFFICES ASSUME NEW q \in Rank, slicing(q)', NEW c \in starts(ends),
                      c < NRank, q \in c..(ends[c] - 1), c <= active0'[q]
               PROVE  Lists(posted'[q], upto(U, c), U[q])
    BY <1>17 DEF Posting
  <2>0. c \in 0..NRank /\ c \in Nat /\ ends[c] \in Nat
    <3>1. c \in 0..NRank
      BY <1>5
    <3>2. c \in Rank /\ c \in Nat
      BY <1>0, <3>1 DEF Rank
    <3> QED
      BY <1>5, <3>1, <3>2
  <2>1. CASE q # r
    <3>1. slicing(q) /\ posted'[q] = posted[q] /\ active0'[q] = active0[q]
      BY <1>16, <1>21, <1>24, <2>1
    <3>2. Lists(posted[q], upto(U, c), U[q])
      BY <1>1, <3>1 DEF Posting
    <3> QED
      BY <3>1, <3>2
  <2>2. CASE q = r
    <3>1. slicing(r) /\ c <= b
      BY <1>16, <1>24, <2>2
    <3>2. CASE c = b
      <4>1. posted'[r] = t /\ r >= b
        BY <1>0, <1>21, <2>0, <2>2, <3>2
      <4> QED
        BY <1>15, <2>2, <3>2, <4>1
    <3>3. CASE c # b
      <4>0. b \in Nat /\ b \in starts(ends) /\ a < b /\ a \in Nat
        BY <1>6 DEF b
      <4>1. c < b
        BY <2>0, <3>1, <3>3, <4>0
      <4>2. ~ (a < c)
        <5> SUFFICES ASSUME a < c PROVE FALSE
          OBVIOUS
        <5>1. b <= c
          BY <1>4, <1>5 DEF b
        <5> QED
          BY <2>0, <4>0, <4>1, <5>1
      <4>3. c <= a
        <5> HIDE DEF a
        <5> QED
          BY <2>0, <4>0, <4>2
      <4>4. ends[c] <= b
        BY <1>5, <4>0, <4>1
      <4>5. r < b
        BY <1>0, <2>0, <2>2, <4>0, <4>4
      <4>6. posted'[r] = posted[r]
        <5>1. r \notin b..(ends[b] - 1)
          BY <1>0, <4>0, <4>5
        <5> QED
          BY <1>21, <5>1
      <4>7. Lists(posted[r], upto(U, c), U[r])
        BY <1>1, <2>2, <3>1, <4>3 DEF Posting
      <4> QED
        BY <2>2, <4>6, <4>7
    <3> QED
      BY <3>2, <3>3
  <2> QED
    BY <2>1, <2>2
<1>27. Agreeing'
  BY <1>4, <1>21 DEF Agreeing
<1>28. Renumbering(H, U, N, M, e)'
  BY <1>1, <1>14, <1>17, <1>23, <1>25, <1>26, <1>27 DEF Renumbering
<1>29. ASSUME NEW v \in held(r), NEW w \in held(r), glob[r][v] < glob[r][w]
       PROVE  glob'[r][v] < glob'[r][w]
  <2>1. upto(U, a) \in SUBSET Nat /\ upto(U, b) \in SUBSET Nat
    <3>1. b \in 0..NRank
      BY <1>6 DEF b
    <3>2. \A c \in 0..NRank : \A q \in 0..(c - 1) : q \in Rank
      BY <1>0 DEF Rank
    <3> QED
      BY <1>6, <1>8, <3>1, <3>2 DEF upto, Shares
  <2>2. squeeze(upto(U, a), H[v]) < squeeze(upto(U, a), H[w])
    BY <1>11, <1>29
  <2> HIDE DEF a
  <2>3. H[v] < H[w]
    BY <1>11, <2>1, <2>2, SqueezeOrder
  <2>4. squeeze(upto(U, b), H[v]) < squeeze(upto(U, b), H[w])
    BY <1>11, <2>1, <2>3, SqueezeGrows DEF b
  <2> QED
    BY <1>13, <2>4 DEF b
<1> QED
  BY <1>22, <1>28, <1>29

(* Once every rank is through, the numbers are 0 .. n-1.  n is the number  *)
(* of vertices and what every rank stores as the count.                    *)
LEMMA ThroughCompact ==
    ASSUME NEW H, NEW U, NEW N, NEW M, NEW e, TypeOK, Renumbering(H, U, N, M, e),
           \A r \in Rank : pc[r] = "share"
    PROVE  /\ Cardinality(alive) \in Nat
           /\ \A r \in Rank : /\ oldN[r] = Cardinality(alive) /\ newN[r] = oldN[r]
                              /\ unused[r] = <<>>
           /\ {glob[owner[v]][v] : v \in alive} = 0..(Cardinality(alive) - 1)
           /\ \A r, q \in Rank : \A v \in held(r), w \in held(q) : glob[r][v] = glob[q][w] <=> v = w
           /\ \A r \in Rank : \A v \in held(r) : v \in alive /\ owner[v] \in Rank
                                                  /\ glob[r][v] = glob[owner[v]][v]
           /\ \A v \in alive : v \in Vert /\ v \in held(owner[v])
<1> DEFINE E == upto(U, NRank)
           K == (0..(M - 1)) \ E
<1>1. Numbering(H, U, M) /\ \A r \in Rank : At(r, H, U, N, M, e)
  BY DEF Renumbering
<1>2. \A r \in Rank : active0[r] = NRank /\ Squeezing(r, H, U) /\ Stores(r, M - Cardinality(E))
  BY <1>1 DEF At
<1>0. NRank \in Nat /\ \A r \in Rank : r \in Nat /\ r < NRank
  BY NRankAssumption DEF Rank
<1>3. Rank = 0..(NRank - 1)
  BY DEF Rank
<1>4. \A x : x \in E <=> \E q \in Rank : x \in U[q]
  BY <1>3 DEF upto
<1>5. /\ \A q \in Rank : \A w \in held(q) : w \in Vert /\ glob[q][w] \in Nat
      /\ \A q \in Rank : \A w \in Vert : w \in held(q) <=> glob[q][w] # EMPTY
      /\ \A w \in Vert : owner[w] \in Rank
      /\ \A w \in Vert : w \in alive <=> \E q \in Rank : glob[q][w] # EMPTY
  BY TypeFacts
<1>6. M \in Nat /\ E \in SUBSET (0..(M - 1))
  <2> HIDE DEF E
  <2> QED
    BY <1>1, <1>4 DEF Numbering
<1>7. K = (0..(M - 1)) \ E
  OBVIOUS
<1>8. \A x \in 0..(M - 1) : x \in Nat
  BY <1>6
<1> HIDE DEF E, K
<1>9. /\ IsFiniteSet(K) /\ Cardinality(K) \in Nat /\ Cardinality(K) = M - Cardinality(E)
      /\ squeezed(E, K) = 0..(Cardinality(K) - 1)
  BY <1>6, <1>7, SqueezeCompact
<1>10. \A v \in alive : v \in Vert /\ owner[v] \in Rank /\ v \in held(owner[v]) /\ H[v] \in K
  <2> TAKE v \in alive
  <2>1. v \in Vert /\ owner[v] \in Rank
    BY <1>5 DEF alive
  <2>2. glob[owner[v]][v] # EMPTY /\ H[v] \in 0..(M - 1) /\ \A q \in Rank : H[v] \notin U[q]
    BY <1>1 DEF Numbering
  <2> QED
    BY <1>4, <1>5, <1>7, <2>1, <2>2
<1>11. \A x \in K : \E v \in alive : H[v] = x
  BY <1>1, <1>4, <1>7 DEF Numbering
<1>12. \A v, w \in alive : H[v] = H[w] => v = w
  BY <1>1 DEF Numbering
<1>13. Cardinality(alive) = Cardinality(K)
  <2> DEFINE f == [v \in alive |-> H[v]]
  <2>1. /\ f \in [alive -> K] /\ \A v, w \in alive : f[v] = f[w] => v = w
        /\ \A x \in K : \E v \in alive : f[v] = x
    BY <1>10, <1>11, <1>12
  <2> HIDE DEF f
  <2> QED
    BY <1>9, <2>1, ImageCountBack
<1>14. \A r \in Rank : \A v \in held(r) : v \in alive /\ glob[r][v] = squeeze(E, H[v])
  BY <1>2, <1>5 DEF Squeezing, E
<1>15. \A r \in Rank : /\ oldN[r] = Cardinality(alive) /\ newN[r] = oldN[r] /\ unused[r] = <<>>
  BY <1>0, <1>2, <1>9, <1>13 DEF Stores, Squeezing
<1>16. \A v \in alive : glob[owner[v]][v] = squeeze(E, H[v])
  BY <1>10, <1>14
<1>17. {glob[owner[v]][v] : v \in alive} = squeezed(E, K)
  BY <1>10, <1>11, <1>16 DEF squeezed
<1>18. ASSUME NEW r \in Rank, NEW q \in Rank, NEW v \in held(r), NEW w \in held(q)
       PROVE  glob[r][v] = glob[q][w] <=> v = w
  <2>1. /\ v \in alive /\ w \in alive
        /\ glob[r][v] = squeeze(E, H[v]) /\ glob[q][w] = squeeze(E, H[w])
    BY <1>14
  <2>2. H[v] \in K /\ H[w] \in K
    BY <1>10, <2>1
  <2>3. H[v] \in Nat /\ H[w] \in Nat /\ H[v] \notin E /\ H[w] \notin E /\ E \in SUBSET Nat
    BY <1>6, <1>7, <1>8, <2>2
  <2>4. squeeze(E, H[v]) = squeeze(E, H[w]) => H[v] = H[w]
    BY <2>3, SqueezeOrder
  <2> QED
    BY <1>12, <2>1, <2>4
<1> QED
  BY <1>5, <1>9, <1>10, <1>13, <1>14, <1>15, <1>16, <1>17, <1>18

(* The ranks go back to work. *)
LEMMA ResumeStep ==
    ASSUME NEW H, NEW U, NEW N, NEW M, NEW e, TypeOK, Renumbering(H, U, N, M, e), Resume,
           NEW n, n = Cardinality(alive)
    PROVE  TypeOK' /\ Working(n, e)'
<1>1. /\ \A r, q \in Rank : pc[r] = "share" /\ epoch[r] = epoch[q]
      /\ pc' = [r \in Rank |-> "adapt"] /\ doomed' = {}
      /\ news' = [r \in Rank |-> 0] /\ counts' = [r \in Rank |-> 0]
      /\ posted' = [r \in Rank |-> <<>>] /\ active0' = [r \in Rank |-> 0]
      /\ UNCHANGED <<glob, owner, unused, oldN, newN, epoch>>
  BY DEF Resume, Shared
<1>2. /\ n \in Nat
      /\ \A r \in Rank : /\ oldN[r] = n /\ newN[r] = oldN[r] /\ unused[r] = <<>>
      /\ {glob[owner[v]][v] : v \in alive} = 0..(n - 1)
      /\ \A r, q \in Rank : \A v \in held(r), w \in held(q) : glob[r][v] = glob[q][w] <=> v = w
      /\ \A r \in Rank : \A v \in held(r) : v \in alive /\ owner[v] \in Rank
                                             /\ glob[r][v] = glob[owner[v]][v]
      /\ \A v \in alive : v \in Vert /\ v \in held(owner[v])
  BY <1>1, ThroughCompact
<1>3. e \in Nat /\ \A r \in Rank : epoch[r] = e
  BY DEF Renumbering, At
<1>4. /\ \A r \in Rank : held(r)' = held(r)
      /\ alive' = alive
  BY <1>1 DEF held, alive, copies
<1>5. \A r \in Rank : \A v \in held(r) : glob[r][v] \in 0..(n - 1)
  <2>1. \A v \in alive : glob[owner[v]][v] \in 0..(n - 1)
    BY <1>2
  <2> QED
    BY <1>2, <2>1
<1>6. \A r \in Rank : \A v \in held(r) : glob[r][v] < n /\ ~ (glob[r][v] >= n)
  <2>1. \A g \in 0..(n - 1) : g < n /\ ~ (g >= n)
    BY <1>2
  <2> QED
    BY <1>5, <2>1
<1>7. TypeOK'
  <2>1. 0 \in 0..NRank
    BY NRankAssumption
  <2>2. "adapt" \in Steps
    BY DEF Steps
  <2>3. posted' \in [Rank -> Seq(Nat)] /\ news' \in [Rank -> Nat] /\ counts' \in [Rank -> Nat]
    BY <1>1
  <2>4. active0' \in [Rank -> 0..NRank] /\ pc' \in [Rank -> Steps]
    BY <1>1, <2>1, <2>2
  <2> QED
    BY <1>1, <2>3, <2>4 DEF TypeOK
<1>8. Places(n, e)'
  <2>1. n >= n
    BY <1>2
  <2> QED
    BY <1>1, <1>2, <1>3, <1>4, <2>1 DEF Places
<1>9. \A r \in Rank : DOMAIN unused'[r] = {}
  BY <1>1, <1>2
<1>10. Bounded' /\ OneEntry(n)' /\ Apart(n)'
  BY <1>1, <1>2, <1>4, <1>6, <1>9 DEF Bounded, OneEntry, Apart
<1>11. Private(n)'
  BY <1>1, <1>4, <1>6 DEF Private
<1>12. Agreed' /\ OneVertex(n)'
  BY <1>1, <1>2, <1>4 DEF Agreed, OneVertex
<1>13. Owned'
  <2>1. \A v \in alive : owner[v] \in Rank /\ glob[owner[v]][v] # EMPTY
    <3>1. \A v \in Vert : owner[v] \in Rank
      BY DEF TypeOK
    <3> QED
      BY <1>2, <3>1 DEF held
  <2> QED
    BY <1>1, <1>2, <1>4, <2>1 DEF Owned
<1>14. Covered(n)'
  <2>1. \A r \in Rank : \A g \in n..(newN[r] - 1) : FALSE
    BY <1>2
  <2>2. \A g \in 0..(n - 1) : \E v \in Vert : glob[owner[v]][v] = g
    BY <1>2
  <2> QED
    BY <1>1, <1>4, <2>1, <2>2 DEF Covered
<1>15. Ids(n)'
  BY <1>10, <1>11, <1>12, <1>13, <1>14 DEF Ids
<1> QED
  BY <1>2, <1>3, <1>4, <1>7, <1>8, <1>15 DEF Working

(* Ghost copies come and go while every rank is through. *)
LEMMA GhostStep ==
    ASSUME NEW H, NEW U, NEW N, NEW M, NEW e, TypeOK, Renumbering(H, U, N, M, e),
           NEW r \in Rank, NEW v \in Vert, AddGhost(r, v) \/ DropGhost(r, v)
    PROVE  /\ TypeOK' /\ Renumbering(H, U, N, M, e)'
           /\ \A q \in Rank : \A w \in Vert :
                 glob[q][w] # EMPTY /\ glob'[q][w] # EMPTY => glob'[q][w] = glob[q][w]
<1> DEFINE g == IF AddGhost(r, v) THEN glob[owner[v]][v] ELSE EMPTY
<1>1. /\ N \in Nat /\ e \in Nat /\ M = N + offset(NRank) /\ Numbering(H, U, M)
      /\ \A q \in Rank : At(q, H, U, N, M, e)
      /\ Slicing /\ Posting(U) /\ Agreeing
  BY DEF Renumbering
<1>2. /\ \A q \in Rank : pc[q] = "share" /\ epoch[q] = epoch[r]
      /\ glob' = [glob EXCEPT ![r][v] = g]
      /\ UNCHANGED <<owner, unused, oldN, newN, pc, epoch, doomed, news, counts, posted, active0>>
      /\ \/ v \in alive /\ glob[r][v] = EMPTY /\ g = glob[owner[v]][v]
         \/ owner[v] # r /\ glob[r][v] # EMPTY /\ g = EMPTY
  BY DEF AddGhost, DropGhost, Shared
<1>3. /\ \A q \in Rank : \A w \in held(q) : w \in Vert /\ glob[q][w] \in Nat
      /\ \A q \in Rank : \A w \in Vert : w \in held(q) <=> glob[q][w] # EMPTY
      /\ \A w \in Vert : owner[w] \in Rank
      /\ \A w \in Vert : w \in alive <=> \E q \in Rank : glob[q][w] # EMPTY
  BY TypeFacts
<1>4. \A w \in alive : w \in Vert /\ glob[owner[w]][w] # EMPTY
  BY <1>1 DEF Numbering, alive
<1> HIDE DEF g
<1>5. g \in Nat \cup {EMPTY} /\ (v \in alive => owner[v] # r \/ g # EMPTY)
  BY <1>2, <1>3, <1>4
<1>6. /\ glob' \in [Rank -> [Vert -> Nat \cup {EMPTY}]] /\ glob'[r][v] = g
      /\ \A q \in Rank : \A w \in Vert : q # r \/ w # v => glob'[q][w] = glob[q][w]
  BY <1>2, <1>5 DEF TypeOK
<1>7. TypeOK'
  BY <1>2, <1>6 DEF TypeOK
<1>8. \A w \in alive : glob'[owner'[w]][w] # EMPTY
  <2> TAKE w \in alive
  <2>1. w \in Vert /\ glob[owner[w]][w] # EMPTY /\ owner[w] \in Rank /\ owner'[w] = owner[w]
    BY <1>2, <1>3, <1>4
  <2> QED
    BY <1>2, <1>5, <1>6, <2>1
<1>9. alive' = alive
  <2>1. \A w \in Vert : w \in alive' <=> \E q \in Rank : glob'[q][w] # EMPTY
    BY DEF alive, copies
  <2>2. ASSUME NEW w \in Vert, w \in alive PROVE w \in alive'
    <3>1. owner'[w] \in Rank /\ glob'[owner'[w]][w] # EMPTY
      BY <1>2, <1>3, <1>8, <2>2
    <3> QED
      BY <2>1, <3>1
  <2>3. ASSUME NEW w \in Vert, w \in alive' PROVE w \in alive
    <3>1. PICK q \in Rank : glob'[q][w] # EMPTY
      BY <2>1, <2>3
    <3>2. CASE q # r \/ w # v
      BY <1>3, <1>6, <3>1, <3>2
    <3>3. CASE q = r /\ w = v
      BY <1>2, <1>3, <1>6, <3>1, <3>3
    <3> QED
      BY <3>2, <3>3
  <2>4. \A w \in alive : w \in Vert
    BY DEF alive
  <2>5. \A w \in alive' : w \in Vert
    BY DEF alive
  <2> QED
    BY <2>2, <2>3, <2>4, <2>5
<1>10. Numbering(H, U, M)'
  BY <1>1, <1>8, <1>9 DEF Numbering
<1>11. ASSUME NEW q \in Rank PROVE At(q, H, U, N, M, e)'
  <2>1. /\ pc[q] = "share" /\ epoch[q] = e /\ active0[q] = NRank /\ Squeezing(q, H, U)
        /\ Stores(q, M - Cardinality(upto(U, NRank)))
    BY <1>1, <1>2 DEF At
  <2>2. ASSUME NEW w \in held(q)' PROVE glob'[q][w] = squeeze(upto(U, NRank), H[w])
    <3>0. w \in Vert /\ glob'[q][w] # EMPTY
      BY DEF held
    <3>1. CASE q # r \/ w # v
      <4>1. glob'[q][w] = glob[q][w] /\ w \in held(q)
        BY <1>3, <1>6, <3>0, <3>1
      <4> QED
        BY <2>1, <4>1 DEF Squeezing
    <3>2. CASE q = r /\ w = v
      <4>1. v \in alive /\ g = glob[owner[v]][v] /\ glob'[q][w] = g
        BY <1>2, <1>6, <3>0, <3>2
      <4>2. owner[v] \in Rank /\ v \in held(owner[v])
        BY <1>3, <1>4, <4>1
      <4>3. active0[owner[v]] = NRank /\ Squeezing(owner[v], H, U)
        BY <1>1, <1>2, <4>2 DEF At
      <4> QED
        BY <3>2, <4>1, <4>2, <4>3 DEF Squeezing
    <3> QED
      BY <3>1, <3>2
  <2>3. Squeezing(q, H, U)'
    BY <1>2, <2>1, <2>2 DEF Squeezing
  <2> QED
    BY <1>2, <2>1, <2>3 DEF At, Stores
<1>12. ends' = ends /\ offset(NRank)' = offset(NRank) /\ \A q \in Rank : slicing(q)' = slicing(q)
  BY <1>2 DEF ends, active1, chunk_size, total_unused, offset, slicing
<1>13. Slicing'
  BY <1>1, <1>2, <1>12 DEF Slicing
<1>14. Posting(U)'
  <2> SUFFICES ASSUME NEW q \in Rank, slicing(q)', NEW a \in starts(ends),
                      a < NRank, q \in a..(ends[a] - 1), a <= active0[q]
               PROVE  Lists(posted'[q], upto(U, a), U[q])
    BY <1>2, <1>12 DEF Posting
  <2> HIDE DEF ends
  <2>1. slicing(q) /\ posted' = posted
    BY <1>2, <1>12
  <2> QED
    BY <1>1, <2>1 DEF Posting
<1>15. Agreeing'
  BY <1>2 DEF Agreeing
<1>16. ASSUME NEW q \in Rank, NEW w \in Vert, glob[q][w] # EMPTY, glob'[q][w] # EMPTY
       PROVE  glob'[q][w] = glob[q][w]
  BY <1>2, <1>6, <1>16
<1> QED
  BY <1>1, <1>7, <1>10, <1>11, <1>12, <1>13, <1>14, <1>15, <1>16 DEF Renumbering

-----------------------------------------------------------------------------
(***************************************************************************)
(* The inductive invariant: the ranks are working on a common count, or    *)
(* they are on their way through a synchronization.                        *)
(***************************************************************************)
IndInv ==
    /\ TypeOK
    /\ \/ \E N, e : Working(N, e)
       \/ \E H, U, N, M, e : Renumbering(H, U, N, M, e)

(* The step of OrderKept. *)
OrderStep ==
    \A r \in Rank : \A v, w \in held(r) :
       /\ glob'[r][v] # EMPTY /\ glob'[r][w] # EMPTY
       /\ glob[r][v] < glob[r][w]
       => glob'[r][v] < glob'[r][w]

(* A step that changes no number that stays. *)
LEMMA SameNumbers ==
    ASSUME \A q \in Rank : \A w \in Vert :
              glob[q][w] # EMPTY /\ glob'[q][w] # EMPTY => glob'[q][w] = glob[q][w]
    PROVE  OrderStep
<1> SUFFICES ASSUME NEW r \in Rank, NEW v \in held(r), NEW w \in held(r),
                    glob'[r][v] # EMPTY, glob'[r][w] # EMPTY, glob[r][v] < glob[r][w]
             PROVE  glob'[r][v] < glob'[r][w]
  BY DEF OrderStep
<1>1. v \in Vert /\ w \in Vert /\ glob[r][v] # EMPTY /\ glob[r][w] # EMPTY
  BY DEF held
<1> QED
  BY <1>1

(* A step that changes the numbers of one rank and keeps their order. *)
LEMMA OneRankOrder ==
    ASSUME TypeOK, NEW r \in Rank, \A q \in Rank : q # r => glob'[q] = glob[q],
           \A v, w \in held(r) : glob[r][v] < glob[r][w] => glob'[r][v] < glob'[r][w]
    PROVE  OrderStep
BY DEF OrderStep

(* A step that changes nothing. *)
LEMMA StutterStep ==
    ASSUME IndInv, UNCHANGED vars
    PROVE  IndInv' /\ OrderStep
<1>1. /\ UNCHANGED <<glob, owner, unused, oldN, newN, pc>>
      /\ UNCHANGED <<epoch, doomed, news, counts, posted, active0>>
  BY DEF vars
<1>2. TypeOK'
  BY <1>1 DEF IndInv, TypeOK
<1>3. ASSUME NEW N, NEW e, Working(N, e) PROVE Working(N, e)'
  <2>1. Ids(N)' /\ \A r \in Rank : held(r)' = held(r)
    BY <1>1, <1>3, SameIds DEF Working
  <2>2. Places(N, e)'
    BY <1>1, <1>3, <2>1 DEF Working, Places
  <2> QED
    BY <1>3, <2>1, <2>2 DEF Working
<1>4. ASSUME NEW H, NEW U, NEW N, NEW M, NEW e, Renumbering(H, U, N, M, e)
      PROVE  Renumbering(H, U, N, M, e)'
  <2>1. Numbering(H, U, M)' /\ \A q \in Rank : held(q)' = held(q)
    BY <1>1, <1>4, KeepNumbering DEF Renumbering, IndInv
  <2>2. \A q \in Rank : At(q, H, U, N, M, e)'
    BY <1>1, <1>4, OtherAt DEF Renumbering
  <2>3. ends' = ends /\ offset(NRank)' = offset(NRank) /\ \A q \in Rank : slicing(q)' = slicing(q)
    BY <1>1 DEF ends, active1, chunk_size, total_unused, offset, slicing
  <2>4. Slicing'
    BY <1>1, <1>4, <2>3 DEF Renumbering, Slicing
  <2>5. Posting(U)'
    BY <1>1, <1>4, <2>3 DEF Renumbering, Posting
  <2>6. Agreeing'
    BY <1>1, <1>4, <2>1 DEF Renumbering, Agreeing
  <2> QED
    BY <1>4, <2>1, <2>2, <2>3, <2>4, <2>5, <2>6 DEF Renumbering
<1>5. OrderStep
  BY <1>1, SameNumbers
<1> QED
  BY <1>2, <1>3, <1>4, <1>5 DEF IndInv

(* A step of a rank while the ranks work. *)
LEMMA WorkingStep ==
    ASSUME NEW N, NEW e, TypeOK, Working(N, e), Next
    PROVE  IndInv' /\ OrderStep
<1>1. \A r \in Rank : /\ pc[r] \in {"adapt", "drop", "gather"}
                      /\ epoch[r] = IF pc[r] = "gather" THEN e + 1 ELSE e
  BY DEF Working, Places
<1>2. 0 \in Rank /\ e \in Nat
  BY NRankAssumption DEF Rank, Working
<1>3. \A w \in Vert : w \in alive <=> \E p \in Rank : glob[p][w] # EMPTY
  BY TypeFacts
<1>4. ASSUME NEW r \in Rank, NewNode(r) PROVE IndInv' /\ OrderStep
  <2>1. TypeOK' /\ Working(N, e)'
    BY <1>4, NewNodeStep
  <2>2. PICK v \in Vert : v \notin alive /\ glob' = [glob EXCEPT ![r][v] = next_global(r)]
    BY <1>4 DEF NewNode
  <2>3. \A q \in Rank : \A w \in Vert : q # r \/ w # v => glob'[q][w] = glob[q][w]
    BY <2>2 DEF TypeOK
  <2>4. OrderStep
    BY <1>3, <2>2, <2>3, SameNumbers
  <2> QED
    BY <2>1, <2>4 DEF IndInv
<1>5. ASSUME NEW r \in Rank, NEW v \in Vert, Remove(r, v) \/ DropCopy(r, v) PROVE IndInv' /\ OrderStep
  <2>1. TypeOK' /\ Working(N, e)'
    BY <1>5, RemoveStep, DropCopyStep
  <2>2. glob' = [glob EXCEPT ![r][v] = EMPTY]
    BY <1>5 DEF Remove, DropCopy
  <2>3. \A q \in Rank : \A w \in Vert : glob'[q][w] # EMPTY => glob'[q][w] = glob[q][w]
    BY <2>2 DEF TypeOK
  <2>4. OrderStep
    BY <2>3, SameNumbers
  <2> QED
    BY <2>1, <2>4 DEF IndInv
<1>6. ASSUME NEW r \in Rank, ShiftPost(r) PROVE IndInv' /\ OrderStep
  <2>1. TypeOK' /\ Working(N, e)'
    BY <1>6, ShiftPostStep
  <2>2. glob' = glob
    BY <1>6 DEF ShiftPost
  <2>3. OrderStep
    BY <2>2, SameNumbers
  <2> QED
    BY <2>1, <2>3 DEF IndInv
<1>7. ASSUME NEW r \in Rank, ShiftApply(r) PROVE IndInv' /\ OrderStep
  <2>1. \A q \in Rank : pc[q] = "gather"
    <3> TAKE q \in Rank
    <3>1. pc[r] = "gather" /\ epoch[q] >= epoch[r]
      BY <1>7 DEF ShiftApply
    <3>2. epoch[r] = e + 1
      BY <1>1, <3>1
    <3>3. epoch[q] # e
      BY <1>2, <3>1, <3>2
    <3> QED
      BY <1>1, <3>3
  <2>2. PICK H, U, M : Renumbering(H, U, N, M, e + 1)
    BY <2>1, AllGathered
  <2>3. /\ TypeOK' /\ Renumbering(H, U, N, M, e + 1)'
        /\ \A v, w \in held(r) : glob[r][v] < glob[r][w] => glob'[r][v] < glob'[r][w]
    BY <1>7, <2>2, ShiftApplyStep
  <2>4. \A q \in Rank : q # r => glob'[q] = glob[q]
    BY <1>7 DEF ShiftApply, TypeOK
  <2>5. OrderStep
    BY <2>3, <2>4, OneRankOrder
  <2> QED
    BY <2>3, <2>5 DEF IndInv
<1>8. ASSUME Agree PROVE IndInv' /\ OrderStep
  <2>1. TypeOK' /\ Working(N, e)'
    BY <1>8, AgreeStep
  <2>2. glob' = glob
    BY <1>8 DEF Agree
  <2>3. OrderStep
    BY <2>2, SameNumbers
  <2> QED
    BY <2>1, <2>3 DEF IndInv
<1>9. ASSUME Finished PROVE IndInv' /\ OrderStep
  <2>1. IndInv
    BY DEF IndInv
  <2> QED
    BY <1>9, <2>1, StutterStep DEF Finished
<1>10. ASSUME NEW r \in Rank, NEW v \in Vert
       PROVE  ~ CountApply(r) /\ ~ SliceApply(r) /\ ~ AddGhost(r, v) /\ ~ DropGhost(r, v)
  BY <1>1 DEF CountApply, SliceApply, AddGhost, DropGhost, Shared
<1>11. ~ Resume
  BY <1>1, <1>2 DEF Resume, Shared
<1>12. ASSUME NEW r \in Rank PROVE ~ CountApply(r) /\ ~ SliceApply(r)
  BY <1>1 DEF CountApply, SliceApply
<1>13. ASSUME NEW r \in Rank, RankStep(r) PROVE IndInv' /\ OrderStep
  <2>1. PICK v : \/ NewNode(r) \/ ShiftPost(r) \/ ShiftApply(r) \/ CountApply(r) \/ SliceApply(r)
                 \/ v \in Vert /\ (Remove(r, v) \/ DropCopy(r, v))
                 \/ v \in Vert /\ (AddGhost(r, v) \/ DropGhost(r, v))
    BY <1>13 DEF RankStep
  <2> QED
    BY <1>4, <1>5, <1>6, <1>7, <1>10, <1>12, <2>1
<1> QED
  BY <1>8, <1>9, <1>11, <1>13 DEF Next

(* A step of a rank during a synchronization. *)
LEMMA RenumberingStep ==
    ASSUME NEW H, NEW U, NEW N, NEW M, NEW e, TypeOK, Renumbering(H, U, N, M, e), Next
    PROVE  IndInv' /\ OrderStep
<1>1. \A r \in Rank : pc[r] \in {"gather", "count", "slice", "share"}
  BY DEF Renumbering, At
<1>2. 0 \in Rank
  BY NRankAssumption DEF Rank
<1>3. ASSUME NEW r \in Rank, ShiftApply(r) PROVE IndInv' /\ OrderStep
  <2>1. /\ TypeOK' /\ Renumbering(H, U, N, M, e)'
        /\ \A v, w \in held(r) : glob[r][v] < glob[r][w] => glob'[r][v] < glob'[r][w]
    BY <1>3, ShiftApplyStep
  <2>2. \A q \in Rank : q # r => glob'[q] = glob[q]
    BY <1>3 DEF ShiftApply, TypeOK
  <2>3. OrderStep
    BY <2>1, <2>2, OneRankOrder
  <2> QED
    BY <2>1, <2>3 DEF IndInv
<1>4. ASSUME NEW r \in Rank, CountApply(r) PROVE IndInv' /\ OrderStep
  <2>1. TypeOK' /\ Renumbering(H, U, N, M, e)'
    BY <1>4, CountApplyStep
  <2>2. glob' = glob
    BY <1>4 DEF CountApply
  <2>3. OrderStep
    BY <2>2, SameNumbers
  <2> QED
    BY <2>1, <2>3 DEF IndInv
<1>5. ASSUME NEW r \in Rank, SliceApply(r) PROVE IndInv' /\ OrderStep
  <2>1. /\ TypeOK' /\ Renumbering(H, U, N, M, e)'
        /\ \A v, w \in held(r) : glob[r][v] < glob[r][w] => glob'[r][v] < glob'[r][w]
    BY <1>5, SliceApplyStep
  <2>2. \A q \in Rank : q # r => glob'[q] = glob[q]
    BY <1>5 DEF SliceApply, TypeOK
  <2>3. OrderStep
    BY <2>1, <2>2, OneRankOrder
  <2> QED
    BY <2>1, <2>3 DEF IndInv
<1>6. ASSUME NEW r \in Rank, NEW v \in Vert, AddGhost(r, v) \/ DropGhost(r, v)
      PROVE  IndInv' /\ OrderStep
  <2>1. /\ TypeOK' /\ Renumbering(H, U, N, M, e)'
        /\ \A q \in Rank : \A w \in Vert :
              glob[q][w] # EMPTY /\ glob'[q][w] # EMPTY => glob'[q][w] = glob[q][w]
    BY <1>6, GhostStep
  <2>2. OrderStep
    BY <2>1, SameNumbers
  <2> QED
    BY <2>1, <2>2 DEF IndInv
<1>7. ASSUME Resume PROVE IndInv' /\ OrderStep
  <2>1. PICK n : n = Cardinality(alive)
    OBVIOUS
  <2>2. TypeOK' /\ Working(n, e)'
    BY <1>7, <2>1, ResumeStep
  <2>3. glob' = glob
    BY <1>7 DEF Resume
  <2>4. OrderStep
    BY <2>3, SameNumbers
  <2> QED
    BY <2>2, <2>4 DEF IndInv
<1>8. ASSUME NEW r \in Rank PROVE ~ NewNode(r) /\ ~ ShiftPost(r)
  BY <1>1 DEF NewNode, ShiftPost
<1>9. ASSUME NEW r \in Rank, NEW v \in Vert PROVE ~ Remove(r, v) /\ ~ DropCopy(r, v)
  BY <1>1 DEF Remove, DropCopy
<1>10. ~ Agree /\ ~ Finished
  BY <1>1, <1>2 DEF Agree, Finished
<1>11. ASSUME NEW r \in Rank, RankStep(r) PROVE IndInv' /\ OrderStep
  <2>1. PICK v : \/ NewNode(r) \/ ShiftPost(r) \/ ShiftApply(r) \/ CountApply(r) \/ SliceApply(r)
                 \/ v \in Vert /\ (Remove(r, v) \/ DropCopy(r, v))
                 \/ v \in Vert /\ (AddGhost(r, v) \/ DropGhost(r, v))
    BY <1>11 DEF RankStep
  <2> QED
    BY <1>3, <1>4, <1>5, <1>6, <1>8, <1>9, <2>1
<1> QED
  BY <1>7, <1>10, <1>11 DEF Next

(* Every step of the specification keeps the invariant and the order. *)
LEMMA StepKeeps ==
    ASSUME IndInv, [Next]_vars
    PROVE  IndInv' /\ OrderStep
<1>1. CASE UNCHANGED vars
  BY <1>1, StutterStep
<1>2. CASE Next
  <2>1. TypeOK
    BY DEF IndInv
  <2>2. CASE \E N, e : Working(N, e)
    BY <1>2, <2>1, <2>2, WorkingStep
  <2>3. CASE \E H, U, N, M, e : Renumbering(H, U, N, M, e)
    BY <1>2, <2>1, <2>3, RenumberingStep
  <2> QED
    BY <2>2, <2>3 DEF IndInv
<1> QED
  BY <1>1, <1>2

(* The invariant holds in every reachable state. *)
LEMMA Invariance == Spec => []IndInv
<1>1. Init => IndInv
  BY InitWorking DEF IndInv
<1>2. IndInv /\ [Next]_vars => IndInv'
  BY StepKeeps
<1> QED
  BY <1>1, <1>2, PTL DEF Spec

-----------------------------------------------------------------------------
(* The parts of the invariant a renumbering rank is described by. *)
LEMMA RenumberingFacts ==
    ASSUME NEW H, NEW U, NEW N, NEW M, NEW e, TypeOK, Renumbering(H, U, N, M, e),
           NEW r \in Rank
    PROVE  /\ pc[r] = "gather" => Gathering(r, H, U, N)
           /\ pc[r] # "gather" => Squeezing(r, H, U) /\ active0[r] \in 0..NRank
           /\ pc[r] = "count" => active0[r] = 0
           /\ pc[r] = "share" => active0[r] = NRank
           /\ pc[r] \in {"gather", "count", "slice", "share"}
           /\ upto(U, active0[r]) \in SUBSET Nat
           /\ r >= active0[r] => upto(U, active0[r]) \cap U[r] = {}
           /\ U[r] \in SUBSET Nat
           /\ \A v \in held(r) : /\ v \in alive /\ H[v] \in Nat /\ H[v] \notin U[r]
                                 /\ H[v] \notin upto(U, active0[r])
<1>1. At(r, H, U, N, M, e) /\ Numbering(H, U, M)
  BY DEF Renumbering
<1>2. active0[r] \in 0..NRank
  BY DEF TypeOK
<1>3. NRank \in Nat /\ Shares(U) /\ U[r] \in SUBSET Nat
  BY <1>1, NRankAssumption DEF Numbering, Shares
<1> DEFINE a == active0[r]
           G == sliced(U, a, a)
<1>4. a \in 0..NRank /\ a <= a /\ G = sliced(U, a, a)
  BY <1>2, <1>3
<1>5. \A q \in 0..(a - 1) : q \in Rank
  BY <1>2, <1>3 DEF Rank
<1> HIDE DEF a, G
<1>6. upto(U, a) \in SUBSET Nat /\ (r >= a => upto(U, a) \cap U[r] = {})
  BY <1>3, <1>4, UptoSlice
<1>7. ASSUME NEW v \in held(r)
      PROVE  v \in alive /\ H[v] \in Nat /\ H[v] \notin U[r] /\ H[v] \notin upto(U, a)
  <2>1. v \in Vert /\ v \in alive
    BY DEF held, alive, copies
  <2>2. H[v] \in Nat /\ \A q \in Rank : H[v] \notin U[q]
    BY <1>1, <2>1 DEF Numbering
  <2> QED
    BY <1>5, <2>1, <2>2 DEF upto
<1> QED
  BY <1>1, <1>2, <1>3, <1>6, <1>7 DEF At, a

(* On one rank a number is used once, whatever it is doing. *)
LEMMA LocalIds == ASSUME IndInv PROVE LocalIdsUnique
<1>0. TypeOK
  BY DEF IndInv
<1> SUFFICES ASSUME NEW r \in Rank
             PROVE  /\ \A v, w \in held(r) : glob[r][v] = glob[r][w] => v = w
                    /\ \A i, j \in DOMAIN unused[r] : unused[r][i] = unused[r][j] => i = j
                    /\ \A v \in held(r), i \in DOMAIN unused[r] : glob[r][v] # unused[r][i]
  BY <1>0 DEF LocalIdsUnique
<1>1. ASSUME NEW N, NEW e, Working(N, e)
      PROVE  /\ \A v, w \in held(r) : glob[r][v] = glob[r][w] => v = w
             /\ \A i, j \in DOMAIN unused[r] : unused[r][i] = unused[r][j] => i = j
             /\ \A v \in held(r), i \in DOMAIN unused[r] : glob[r][v] # unused[r][i]
  <2>1. OneVertex(N) /\ OneEntry(N) /\ Apart(N)
    BY <1>1 DEF Working, Ids
  <2> QED
    BY <2>1 DEF OneVertex, OneEntry, Apart, common
<1>2. ASSUME NEW H, NEW U, NEW N, NEW M, NEW e, Renumbering(H, U, N, M, e)
      PROVE  /\ \A v, w \in held(r) : glob[r][v] = glob[r][w] => v = w
             /\ \A i, j \in DOMAIN unused[r] : unused[r][i] = unused[r][j] => i = j
             /\ \A v \in held(r), i \in DOMAIN unused[r] : glob[r][v] # unused[r][i]
  <2> DEFINE E == upto(U, active0[r])
  <2>1. /\ pc[r] = "gather" => Gathering(r, H, U, N)
        /\ pc[r] # "gather" => Squeezing(r, H, U) /\ active0[r] \in 0..NRank
        /\ E \in SUBSET Nat /\ (r >= active0[r] => E \cap U[r] = {}) /\ U[r] \in SUBSET Nat
        /\ \A v \in held(r) : v \in alive /\ H[v] \in Nat /\ H[v] \notin U[r] /\ H[v] \notin E
    BY <1>0, <1>2, RenumberingFacts
  <2>2. \A v, w \in held(r) : H[v] = H[w] => v = w
    BY <1>2, <2>1 DEF Renumbering, Numbering
  <2> HIDE DEF E
  <2>3. CASE pc[r] = "gather"
    <3>1. Gathering(r, H, U, N)
      BY <2>1, <2>3
    <3>2. \A v, w \in held(r) : glob[r][v] = glob[r][w] => v = w
      BY <2>2, <3>1 DEF Gathering
    <3>3. \A v \in held(r), i \in DOMAIN unused[r] : glob[r][v] # unused[r][i]
      <4> SUFFICES ASSUME NEW v \in held(r), NEW i \in DOMAIN unused[r], glob[r][v] = unused[r][i]
                   PROVE  FALSE
        OBVIOUS
      <4>1. H[v] = shift_unused(unused[r][i], N, offset(r))
        BY <3>1 DEF Gathering, shift_unused, shift_new_global
      <4>2. H[v] \in U[r]
        BY <3>1, <4>1 DEF Gathering
      <4> QED
        BY <2>1, <4>2
    <3> QED
      BY <3>1, <3>2, <3>3 DEF Gathering
  <2>4. CASE pc[r] # "gather"
    <3>1. Squeezing(r, H, U) /\ active0[r] \in 0..NRank
      BY <2>1, <2>4
    <3>2. \A v \in held(r) : glob[r][v] = squeeze(E, H[v])
      BY <3>1 DEF Squeezing, E
    <3>3. ASSUME NEW v \in held(r), NEW w \in held(r), glob[r][v] = glob[r][w] PROVE v = w
      <4>1. squeeze(E, H[v]) = squeeze(E, H[w])
        BY <3>2, <3>3
      <4>2. H[v] = H[w]
        BY <2>1, <4>1, SqueezeOrder
      <4> QED
        BY <2>2, <4>2
    <3>4. CASE r < active0[r]
      <4>1. DOMAIN unused[r] = {}
        BY <3>1, <3>4 DEF Squeezing
      <4> QED
        BY <3>3, <4>1
    <3>5. CASE r >= active0[r]
      <4>1. Lists(unused[r], E, U[r])
        BY <3>1, <3>5 DEF Squeezing, E
      <4>2. ASSUME NEW v \in held(r), NEW i \in DOMAIN unused[r], glob[r][v] = unused[r][i]
            PROVE  FALSE
        <5>1. unused[r][i] \in squeezed(E, U[r])
          BY <4>1 DEF Lists
        <5>2. PICK u \in U[r] : unused[r][i] = squeeze(E, u)
          BY <5>1 DEF squeezed
        <5>3. u \in Nat /\ u \notin E
          BY <2>1, <3>5
        <5>4. squeeze(E, H[v]) = squeeze(E, u)
          BY <3>2, <4>2, <5>2
        <5>5. H[v] = u
          BY <2>1, <5>3, <5>4, SqueezeOrder
        <5> QED
          BY <2>1, <5>5
      <4> QED
        BY <3>3, <4>1, <4>2 DEF Lists
    <3>6. r < active0[r] \/ r >= active0[r]
      BY <3>1, NRankAssumption DEF Rank
    <3> QED
      BY <3>4, <3>5, <3>6
  <2> QED
    BY <2>3, <2>4
<1> QED
  BY <1>1, <1>2 DEF IndInv

(* Copies on ranks at the same place have the same number. *)
LEMMA Ghosts == ASSUME IndInv PROVE GhostAgrees
<1>0. TypeOK
  BY DEF IndInv
<1> SUFFICES ASSUME NEW r \in Rank, NEW q \in Rank, NEW v \in held(r) \cap held(q), Aligned(r, q)
             PROVE  glob[r][v] = glob[q][v]
  BY DEF GhostAgrees
<1>1. ASSUME NEW N, NEW e, Working(N, e) PROVE glob[r][v] = glob[q][v]
  BY <1>1 DEF Working, Ids, Agreed
<1>2. ASSUME NEW H, NEW U, NEW N, NEW M, NEW e, Renumbering(H, U, N, M, e)
      PROVE  glob[r][v] = glob[q][v]
  <2>1. /\ pc[r] = "gather" => Gathering(r, H, U, N)
        /\ pc[r] # "gather" => Squeezing(r, H, U)
        /\ pc[r] = "count" => active0[r] = 0
        /\ pc[r] = "share" => active0[r] = NRank
        /\ pc[r] \in {"gather", "count", "slice", "share"}
    BY <1>0, <1>2, RenumberingFacts
  <2>2. /\ pc[q] = "gather" => Gathering(q, H, U, N)
        /\ pc[q] # "gather" => Squeezing(q, H, U)
        /\ pc[q] = "count" => active0[q] = 0
        /\ pc[q] = "share" => active0[q] = NRank
        /\ pc[q] \in {"gather", "count", "slice", "share"}
    BY <1>0, <1>2, RenumberingFacts
  <2>3. pc[r] = pc[q] /\ (pc[r] = "slice" => active0[r] = active0[q])
    BY <2>1, <2>2 DEF Aligned
  <2>4. CASE pc[r] = "gather"
    BY <1>2, <2>3, <2>4 DEF Renumbering, Agreeing
  <2>5. CASE pc[r] # "gather"
    <3>1. active0[r] = active0[q] /\ Squeezing(r, H, U) /\ Squeezing(q, H, U)
      BY <2>1, <2>2, <2>3, <2>5
    <3> QED
      BY <3>1 DEF Squeezing
  <2> QED
    BY <2>4, <2>5
<1> QED
  BY <1>1, <1>2 DEF IndInv

(* Between synchronizations an old number means one vertex to all ranks. *)
LEMMA OldIds == ASSUME IndInv PROVE OldIdsUnique
<1> SUFFICES ASSUME NEW r \in Rank, NEW q \in Rank, pc[r] = "adapt", pc[q] = "adapt"
             PROVE  /\ oldN[r] = oldN[q]
                    /\ \A v \in held(r), w \in held(q) :
                          glob[r][v] = glob[q][w] /\ glob[r][v] < oldN[r] => v = w
                    /\ \A i \in DOMAIN unused[r] : unused[r][i] < oldN[r] =>
                          /\ \A w \in held(q) : glob[q][w] # unused[r][i]
                          /\ r # q => \A j \in DOMAIN unused[q] : unused[q][j] # unused[r][i]
  BY DEF OldIdsUnique
<1>1. PICK N, e : Working(N, e)
  <2>1. ASSUME NEW H, NEW U, NEW N, NEW M, NEW e, Renumbering(H, U, N, M, e) PROVE FALSE
    BY <2>1 DEF Renumbering, At
  <2> QED
    BY <2>1 DEF IndInv
<1>2. oldN[r] = N /\ oldN[q] = N /\ doomed = {} /\ OneVertex(N) /\ OneEntry(N) /\ Apart(N)
  BY <1>1 DEF Working, Places, Ids
<1>3. \A v \in held(r), w \in held(q) :
         glob[r][v] = glob[q][w] /\ glob[r][v] < N => v = w
  BY <1>2 DEF OneVertex, common
<1>4. ASSUME NEW i \in DOMAIN unused[r], unused[r][i] < N, NEW w \in held(q)
      PROVE  glob[q][w] # unused[r][i]
  BY <1>2, <1>4 DEF Apart, common
<1>5. ASSUME NEW i \in DOMAIN unused[r], unused[r][i] < N, r # q, NEW j \in DOMAIN unused[q]
      PROVE  unused[q][j] # unused[r][i]
  BY <1>2, <1>5 DEF OneEntry, common
<1> QED
  BY <1>2, <1>3, <1>4, <1>5

(* When every rank is through, the numbers are compact. *)
LEMMA Compacts == ASSUME IndInv PROVE SyncCompacts
<1> SUFFICES ASSUME \A r, q \in Rank : pc[r] = "share" /\ epoch[r] = epoch[q]
             PROVE  /\ \A r \in Rank : /\ oldN[r] = Cardinality(alive)
                                       /\ newN[r] = oldN[r]
                                       /\ unused[r] = <<>>
                    /\ {glob[owner[v]][v] : v \in alive} = 0..(Cardinality(alive) - 1)
  BY DEF SyncCompacts
<1>1. TypeOK /\ 0 \in Rank
  BY NRankAssumption DEF IndInv, Rank
<1>2. PICK H, U, N, M, e : Renumbering(H, U, N, M, e)
  <2>1. ASSUME NEW N, NEW e, Working(N, e) PROVE FALSE
    BY <1>1, <2>1 DEF Working, Places
  <2> QED
    BY <2>1 DEF IndInv
<1> QED
  BY <1>1, <1>2, ThroughCompact

-----------------------------------------------------------------------------
(***************************************************************************)
(* On every rank, at every point of a synchronization too, no two vertices *)
(* have the same number and no unused number is that of a vertex or listed *)
(* twice: ref_node_next_global, ref_node_remove, the shift and every slice *)
(* of ref_node_eliminate_unused_globals keep the numbers of a rank apart.  *)
(***************************************************************************)
THEOREM NumbersStayApart == Spec => []LocalIdsUnique
<1>1. IndInv => LocalIdsUnique
  BY LocalIds
<1> QED
  BY <1>1, Invariance, PTL

(***************************************************************************)
(* A ghost copy has the number of every other copy of the vertex on a rank *)
(* at the same place of the renumbering: each rank shifts and squeezes by  *)
(* itself, and all arrive at the same numbers.                             *)
(***************************************************************************)
THEOREM GhostsFollow == Spec => []GhostAgrees
<1>1. IndInv => GhostAgrees
  BY Ghosts
<1> QED
  BY <1>1, Invariance, PTL

(***************************************************************************)
(* Between synchronizations a number below the common count is that of one *)
(* vertex on all ranks, and one on an unused list is nowhere else: two     *)
(* ranks cannot hand out the same old number.                              *)
(***************************************************************************)
THEOREM OldNumbersStayUnique == Spec => []OldIdsUnique
<1>1. IndInv => OldIdsUnique
  BY OldIds
<1> QED
  BY <1>1, Invariance, PTL

(***************************************************************************)
(* ref_node_synchronize_globals leaves the numbers 0 .. n-1, without a gap *)
(* or a duplicate, n the count every rank stores, and nothing unused, in   *)
(* whatever slices the unused numbers were gathered.                       *)
(***************************************************************************)
THEOREM SynchronizationCompacts == Spec => []SyncCompacts
<1>1. IndInv => SyncCompacts
  BY Compacts
<1> QED
  BY <1>1, Invariance, PTL

(***************************************************************************)
(* No step reorders the numbers of the vertices a rank keeps: the sorted   *)
(* index, renumbered in place by the shift and by the elimination, stays   *)
(* sorted.                                                                 *)
(***************************************************************************)
THEOREM OrderIsKept == Spec => OrderKept
<1>1. IndInv /\ [Next]_vars => [OrderStep]_vars
  BY StepKeeps
<1>2. Spec => [][OrderStep]_vars
  BY <1>1, Invariance, PTL DEF Spec
<1> QED
  BY <1>2 DEF OrderKept, OrderStep
=============================================================================
