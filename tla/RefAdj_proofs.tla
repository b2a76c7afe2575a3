--------------------------- MODULE RefAdj_proofs ---------------------------
(***************************************************************************)
(* The pool of ref_adj.c for any number of nodes and items: behind the     *)
(* pointers there is one list per node and one of the unused items, every  *)
(* item is in one place of one of them, and each operation changes the list*)
(* it is about.  From this the pool is exact and the adjacency implements  *)
(* AdjLists.                                                               *)
(***************************************************************************)
EXTENDS RefAdj, RefLemmas, FiniteSetTheorems, SequenceTheorems

-----------------------------------------------------------------------------
(***************************************************************************)
(* The lists behind the pointers.  list is the chain of items that starts  *)
(* at start and follows the links nx to their end.                         *)
(***************************************************************************)
Chained(M, nx, list, start) ==
    /\ list \in Seq(0..(M - 1))
    /\ start = IF Len(list) = 0 THEN EMPTY ELSE list[1]
    /\ \A k \in 1..Len(list) :
          nx[list[k]] = IF k = Len(list) THEN EMPTY ELSE list[k + 1]

(* The lists: one of each node, and with the key EMPTY the unused items. *)
Key(N) == 0..(N - 1) \cup {EMPTY}

(* The types of the members. *)
Typed(N, M, f, nx, rf, b) ==
    /\ N \in Nat \ {0} /\ M \in Nat \ {0}
    /\ f \in [0..(N - 1) -> 0..(M - 1) \cup {EMPTY}]
    /\ nx \in [0..(M - 1) -> 0..(M - 1) \cup {EMPTY}]
    /\ rf \in [0..(M - 1) -> Ref \cup {EMPTY}]
    /\ b \in 0..(M - 1) \cup {EMPTY}

(* Every item is in exactly one place of one list. *)
Once(N, M, L) ==
    /\ \A i \in 0..(M - 1) : \E k \in Key(N) : \E j \in 1..Len(L[k]) : L[k][j] = i
    /\ \A k1, k2 \in Key(N) : \A j1 \in 1..Len(L[k1]), j2 \in 1..Len(L[k2]) :
          L[k1][j1] = L[k2][j2] => k1 = k2 /\ j1 = j2

(* The lists L are the ones behind these members. *)
Threads(N, M, f, nx, rf, b, L) ==
    /\ Typed(N, M, f, nx, rf, b)
    /\ L \in [Key(N) -> Seq(0..(M - 1))]
    /\ \A k \in Key(N) : Chained(M, nx, L[k], IF k = EMPTY THEN b ELSE f[k])
    /\ Once(N, M, L)
    /\ \A i \in 0..(M - 1) :
          rf[i] = EMPTY <=> \E j \in 1..Len(L[EMPTY]) : L[EMPTY][j] = i

(* The lists behind the members as they are. *)
Threaded(L) == Threads(nnode, nitem, first, next, ref, blank, L)

(***************************************************************************)
(* The recursive function of items, as its definition leaves it.           *)
(***************************************************************************)
unrolls(from) ==
    from = [left \in 0..nitem |->
               [item \in DOMAIN next \cup {EMPTY} |->
                   IF item = EMPTY \/ left = 0 THEN <<>>
                   ELSE <<item>> \o from[left - 1][next[item]]]]

(* A sequence with an element put in front. *)
LEMMA ConsProperties ==
    ASSUME NEW S, NEW e \in S, NEW s \in Seq(S)
    PROVE  /\ <<e>> \o s \in Seq(S)
           /\ Len(<<e>> \o s) = Len(s) + 1
           /\ \A j \in 1..(Len(s) + 1) :
                 (<<e>> \o s)[j] = IF j = 1 THEN e ELSE s[j - 1]
<1>1. <<e>> \in Seq(S) /\ Len(<<e>>) = 1 /\ <<e>>[1] = e
  OBVIOUS
<1>2. Len(s) \in Nat
  OBVIOUS
<1> QED
  BY <1>1, <1>2, ConcatProperties

(* Arithmetic of taking one of several places away. *)
LEMMA OneLess ==
    \A m, n \in Nat : n # 0 /\ n = m - 1 => 1 \in 1..n /\ 1 # m
OBVIOUS

(* A function on 1..k is a sequence of length k. *)
LEMMA FunctionIsSeq ==
    ASSUME NEW S, NEW k \in Nat, NEW s \in [1..k -> S]
    PROVE  s \in Seq(S) /\ Len(s) = k
OBVIOUS

(* The recursive function of items exists, so its equation may be used:    *)
(* following the links of ref_adj for at most nitem steps ends.            *)
LEMMA ItemsUnroll ==
    ASSUME nitem \in Nat, DOMAIN next = 0..(nitem - 1),
           next \in [DOMAIN next -> DOMAIN next \cup {EMPTY}]
    PROVE  \E from \in [0..nitem ->
                          [DOMAIN next \cup {EMPTY} -> Seq(DOMAIN next)]] :
              /\ unrolls(from)
              /\ \A start : items(start) = from[nitem][start]
<1> DEFINE I == DOMAIN next
           D == 0..nitem
           S == [I \cup {EMPTY} -> Seq(I)]
           m == [x \in D |-> x]
           G == [x \in D |-> [f \in [D -> S] |->
                   [item \in I \cup {EMPTY} |->
                      IF item = EMPTY \/ x = 0 THEN <<>>
                      ELSE <<item>> \o f[x - 1][next[item]]]]]
<1> HIDE DEF I
<1>1. S # {}
  <2>1. [item \in I \cup {EMPTY} |-> <<>>] \in S
    BY EmptySeq
  <2> QED
    BY <2>1
<1>2. m \in [D -> Nat]
  OBVIOUS
<1>3. G \in [D -> [[D -> S] -> S]]
  <2> SUFFICES ASSUME NEW x \in D, NEW f \in [D -> S], NEW i \in I \cup {EMPTY}
               PROVE  (IF i = EMPTY \/ x = 0 THEN <<>>
                       ELSE <<i>> \o f[x - 1][next[i]]) \in Seq(I)
    OBVIOUS
  <2>1. CASE i = EMPTY \/ x = 0
    BY <2>1, EmptySeq
  <2>2. CASE ~ (i = EMPTY \/ x = 0)
    <3>1. x - 1 \in D /\ next[i] \in I \cup {EMPTY} /\ i \in I
      BY <2>2 DEF I
    <3>2. f[x - 1][next[i]] \in Seq(I)
      BY <3>1
    <3> QED
      BY <2>2, <3>1, <3>2, ConsProperties
  <2> QED
    BY <2>1, <2>2
<1>4. LooksBelow(D, S, m, G)
  <2> SUFFICES ASSUME NEW x \in D, NEW f \in [D -> S], NEW g \in [D -> S],
                      \A y \in D : m[y] < m[x] => f[y] = g[y]
               PROVE  G[x][f] = G[x][g]
    BY DEF LooksBelow
  <2>1. x # 0 => x - 1 \in D /\ f[x - 1] = g[x - 1]
    OBVIOUS
  <2> QED
    BY <2>1
<1>5. Recursion(D, S, m, G)
  BY <1>1, <1>2, <1>3, <1>4 DEF Recursion
<1>6. PICK h \in [D -> S] : Solves(D, G, h)
  <2> HIDE DEF D, S, m, G
  <2> QED
    BY <1>5, RecursionExists
<1>7. unrolls(h)
  BY <1>6 DEF unrolls, I, Solves
<1> DEFINE c == CHOOSE from : unrolls(from)
<1>8. unrolls(c)
  BY <1>7
<1>9. \A start : items(start) = c[nitem][start]
  BY DEF items, unrolls
<1>10. c = h
  <2> HIDE DEF c, G, m, S
  <2> DEFINE row(f, left) == [item \in DOMAIN next \cup {EMPTY} |->
                                IF item = EMPTY \/ left = 0 THEN <<>>
                                ELSE <<item>> \o f[left - 1][next[item]]]
  <2>1. ASSUME NEW f, unrolls(f)
        PROVE  /\ f = [left \in 0..nitem |-> f[left]]
               /\ \A left \in 0..nitem : f[left] = row(f, left)
    BY <2>1 DEF unrolls
  <2> HIDE DEF row
  <2> DEFINE T == {k \in 0..nitem : c[k] = h[k]}
  <2>2. 0 \in T
    <3>1. ASSUME NEW f, unrolls(f)
          PROVE  f[0] = [item \in DOMAIN next \cup {EMPTY} |-> <<>>]
      BY <3>1, <2>1 DEF row
    <3>2. c[0] = h[0]
      BY <3>1, <1>7, <1>8
    <3> QED
      BY <3>2
  <2>3. ASSUME NEW k \in 0..nitem, k # nitem, k \in T PROVE k + 1 \in T
    <3>1. k + 1 \in 0..nitem /\ (k + 1) - 1 = k
      BY <2>3
    <3>2. ASSUME NEW f, unrolls(f)
          PROVE  f[k + 1] = [item \in DOMAIN next \cup {EMPTY} |->
                               IF item = EMPTY THEN <<>>
                               ELSE <<item>> \o f[k][next[item]]]
      <4> DEFINE l == k + 1
      <4>1. l \in 0..nitem /\ l # 0 /\ l - 1 = k
        BY <3>1
      <4> HIDE DEF l
      <4>2. f[l] = row(f, l)
        BY <3>2, <2>1, <4>1
      <4>3. f[l] = [item \in DOMAIN next \cup {EMPTY} |->
                      IF item = EMPTY THEN <<>>
                      ELSE <<item>> \o f[k][next[item]]]
        BY <4>1, <4>2 DEF row
      <4> QED
        BY <4>3 DEF l
    <3>3. c[k] = h[k]
      BY <2>3
    <3>4. c[k + 1] = h[k + 1]
      BY <3>2, <3>3, <1>7, <1>8
    <3> QED
      BY <3>1, <3>4
  <2>4. \A k \in 0..nitem : k \in T
    <3> HIDE DEF T
    <3> QED
      BY <2>2, <2>3, UptoInduction
  <2>5. \A k \in 0..nitem : c[k] = h[k]
    BY <2>4
  <2> QED
    BY <2>5, <2>1, <1>7, <1>8
<1> QED
  BY <1>7, <1>9, <1>10 DEF I

(* The same, entry by entry. *)
LEMMA ItemsStep ==
    ASSUME nitem \in Nat, DOMAIN next = 0..(nitem - 1),
           next \in [DOMAIN next -> DOMAIN next \cup {EMPTY}]
    PROVE  \E from : /\ \A left \in 0..nitem : from[left][EMPTY] = <<>>
                     /\ \A left \in 0..nitem, i \in DOMAIN next : left # 0 =>
                           from[left][i] = <<i>> \o from[left - 1][next[i]]
                     /\ \A start : items(start) = from[nitem][start]
<1>1. PICK from : unrolls(from) /\ \A s : items(s) = from[nitem][s]
  BY ItemsUnroll
<1>2. \A left \in 0..nitem :
         from[left] = [item \in DOMAIN next \cup {EMPTY} |->
                         IF item = EMPTY \/ left = 0 THEN <<>>
                         ELSE <<item>> \o from[left - 1][next[item]]]
  BY <1>1 DEF unrolls
<1>3. \A i \in DOMAIN next : i # EMPTY
  BY DEF EMPTY
<1>4. \A left \in 0..nitem : from[left][EMPTY] = <<>>
  BY <1>2
<1>5. \A left \in 0..nitem, i \in DOMAIN next : left # 0 =>
         from[left][i] = <<i>> \o from[left - 1][next[i]]
  <2> SUFFICES ASSUME NEW left \in 0..nitem, NEW i \in DOMAIN next, left # 0
               PROVE  from[left][i] = <<i>> \o from[left - 1][next[i]]
    OBVIOUS
  <2>1. from[left] = [item \in DOMAIN next \cup {EMPTY} |->
                        IF item = EMPTY \/ left = 0 THEN <<>>
                        ELSE <<item>> \o from[left - 1][next[item]]]
    BY <1>2
  <2> QED
    BY <2>1, <1>3
<1> QED
  BY <1>1, <1>4, <1>5

(***************************************************************************)
(* A chain no longer than the pool is what items returns.                  *)
(***************************************************************************)
LEMMA ChainItems ==
    ASSUME nitem \in Nat, DOMAIN next = 0..(nitem - 1),
           next \in [DOMAIN next -> DOMAIN next \cup {EMPTY}],
           NEW list, NEW start, Chained(nitem, next, list, start),
           Len(list) <= nitem
    PROVE  items(start) = list
<1> DEFINE I == DOMAIN next
           n == Len(list)
           suffix(k) == [j \in 1..k |-> list[n - k + j]]
           begin(k) == IF k = 0 THEN EMPTY ELSE list[n - k + 1]
<1>1. PICK from : /\ \A left \in 0..nitem : from[left][EMPTY] = <<>>
                  /\ \A left \in 0..nitem, i \in DOMAIN next : left # 0 =>
                        from[left][i] = <<i>> \o from[left - 1][next[i]]
                  /\ \A s : items(s) = from[nitem][s]
  BY ItemsStep
<1>2. /\ n \in Nat /\ list \in Seq(I)
      /\ \A k \in 1..n : list[k] \in I
  BY DEF Chained
<1> DEFINE good(k) == \A left \in k..nitem : from[left][begin(k)] = suffix(k)
           T == {k \in 0..n : good(k)}
<1>3. 0 \in T
  <2>1. suffix(0) = <<>> /\ begin(0) = EMPTY
    OBVIOUS
  <2> HIDE DEF suffix, begin
  <2> QED
    BY <1>1, <1>2, <2>1
<1>4. ASSUME NEW k \in 0..n, k # n, k \in T PROVE k + 1 \in T
  <2> DEFINE i == list[n - k]
  <2>1. k + 1 \in 0..n /\ n - k \in 1..n
    BY <1>4, <1>2
  <2>2. i \in I /\ begin(k + 1) = i
    <3>1. n - (k + 1) + 1 = n - k /\ k + 1 # 0
      BY <1>2
    <3> QED
      BY <1>2, <2>1, <3>1
  <2>3. next[i] = begin(k)
    <3>1. n - k = n <=> k = 0
      BY <1>2
    <3> QED
      BY <2>1, <3>1 DEF Chained
  <2>4. /\ suffix(k) \in Seq(I) /\ Len(suffix(k)) = k
        /\ suffix(k + 1) \in Seq(I) /\ Len(suffix(k + 1)) = k + 1
    <3>1. \A j \in 1..k : n - k + j \in 1..n
      BY <2>1, <1>2
    <3>2. \A j \in 1..(k + 1) : n - (k + 1) + j \in 1..n
      BY <2>1, <1>2
    <3>3. suffix(k) \in [1..k -> I]
      BY <3>1, <1>2
    <3>4. suffix(k + 1) \in [1..(k + 1) -> I]
      BY <3>2, <1>2
    <3> HIDE DEF suffix
    <3> QED
      BY <3>3, <3>4, <2>1, FunctionIsSeq
  <2>5. \A j \in 1..(k + 1) :
           suffix(k + 1)[j] = IF j = 1 THEN i ELSE suffix(k)[j - 1]
    <3>1. ASSUME NEW j \in 1..(k + 1)
          PROVE  /\ n - (k + 1) + j = n - k + (j - 1)
                 /\ j # 1 => j - 1 \in 1..k
      BY <1>2
    <3>2. n - k + (1 - 1) = n - k
      BY <1>2
    <3> QED
      BY <3>1, <3>2
  <2> HIDE DEF suffix, begin, i
  <2>6. suffix(k + 1) = <<i>> \o suffix(k)
    <3> DEFINE t == <<i>> \o suffix(k)
    <3>1. /\ t \in Seq(I) /\ Len(t) = k + 1
          /\ \A j \in 1..(k + 1) : t[j] = IF j = 1 THEN i ELSE suffix(k)[j - 1]
      BY <2>2, <2>4, ConsProperties
    <3> HIDE DEF t
    <3>2. /\ Len(suffix(k + 1)) = Len(t)
          /\ \A j \in 1..Len(suffix(k + 1)) : suffix(k + 1)[j] = t[j]
      BY <2>4, <2>5, <3>1
    <3>3. suffix(k + 1) = t
      BY <2>4, <3>1, <3>2, SeqEqual
    <3> QED
      BY <3>3 DEF t
  <2>7. ASSUME NEW left \in (k + 1)..nitem
        PROVE  from[left][begin(k + 1)] = suffix(k + 1)
    <3>1. left \in 0..nitem /\ left # 0 /\ left - 1 \in k..nitem
      OBVIOUS
    <3>2. from[left - 1][begin(k)] = suffix(k)
      BY <3>1, <1>4
    <3> QED
      BY <3>1, <3>2, <2>2, <2>3, <2>6, <1>1
  <2> QED
    BY <2>1, <2>7
<1>5. n \in T
  <2> HIDE DEF T
  <2>1. \A k \in 0..n : k \in T
    BY <1>2, <1>3, <1>4, UptoInduction
  <2> QED
    BY <2>1, <1>2
<1>6. begin(n) = start
  BY <1>2 DEF Chained
<1>7. suffix(n) = list
  <2>1. \A j \in 1..n : n - n + j = j
    BY <1>2
  <2> QED
    BY <1>2, <2>1
<1> HIDE DEF begin, suffix
<1>8. good(n) /\ nitem \in n..nitem
  BY <1>2, <1>5
<1> QED
  BY <1>1, <1>6, <1>7, <1>8

-----------------------------------------------------------------------------
(***************************************************************************)
(* A list is not longer than the pool, since its items differ.             *)
(***************************************************************************)
LEMMA ListFits ==
    ASSUME NEW N, NEW M, NEW f, NEW nx, NEW rf, NEW b, NEW L,
           Threads(N, M, f, nx, rf, b, L), NEW k \in Key(N)
    PROVE  Len(L[k]) <= M
<1>1. L[k] \in Seq(0..(M - 1)) /\ M \in Nat \ {0}
  BY DEF Threads, Typed
<1>2. L[k] \in [1..Len(L[k]) -> 0..(M - 1)] /\ Len(L[k]) \in Nat
  BY <1>1, LenProperties
<1>3. \A i, j \in 1..Len(L[k]) : L[k][i] = L[k][j] => i = j
  BY DEF Threads, Once
<1>4. L[k] \in Injection(1..Len(L[k]), 0..(M - 1))
  BY <1>2, <1>3 DEF Injection, IsInjective
<1>5. IsFiniteSet(0..(M - 1)) /\ Cardinality(0..(M - 1)) = M
  BY <1>1, FS_Interval
<1>6. Cardinality(1..Len(L[k])) = Len(L[k])
  BY <1>2, FS_Interval
<1> QED
  BY <1>4, <1>5, <1>6, FS_Injection

(***************************************************************************)
(* ref_adj_add moves the first unused item to the front of a list.         *)
(***************************************************************************)
LEMMA PushThreads ==
    ASSUME NEW N, NEW M, NEW f, NEW nx, NEW rf, NEW b, NEW L,
           Threads(N, M, f, nx, rf, b, L), b # EMPTY,
           NEW node \in 0..(N - 1), NEW r \in Ref
    PROVE  Threads(N, M, [f EXCEPT ![node] = b], [nx EXCEPT ![b] = f[node]],
                   [rf EXCEPT ![b] = r], nx[b],
                   [L EXCEPT ![node] = <<b>> \o L[node],
                             ![EMPTY] = Tail(L[EMPTY])])
<1> DEFINE f2 == [f EXCEPT ![node] = b]
           nx2 == [nx EXCEPT ![b] = f[node]]
           rf2 == [rf EXCEPT ![b] = r]
           s == <<b>> \o L[node]
           t == Tail(L[EMPTY])
           L2 == [L EXCEPT ![node] = s, ![EMPTY] = t]
           I == 0..(M - 1)
<1>1. /\ N \in Nat \ {0} /\ M \in Nat \ {0} /\ b \in I
      /\ f \in [0..(N - 1) -> I \cup {EMPTY}] /\ nx \in [I -> I \cup {EMPTY}]
      /\ rf \in [I -> Ref \cup {EMPTY}] /\ L \in [Key(N) -> Seq(I)]
      /\ \A k \in Key(N) : L[k] \in Seq(I) /\ Len(L[k]) \in Nat
  BY DEF Threads, Typed
<1>2. /\ node \in Key(N) /\ EMPTY \in Key(N) /\ node # EMPTY /\ r # EMPTY
      /\ \A i \in I : i # EMPTY
  BY DEF Key, EMPTY, Ref
<1>3. \A k \in Key(N) : Chained(M, nx, L[k], IF k = EMPTY THEN b ELSE f[k])
  BY DEF Threads
<1>4. Len(L[EMPTY]) # 0 /\ L[EMPTY][1] = b
  BY <1>2, <1>3 DEF Chained
<1>5. /\ s \in Seq(I) /\ Len(s) = Len(L[node]) + 1
      /\ s[1] = b /\ \A j \in 1..Len(L[node]) : s[j + 1] = L[node][j]
      /\ \A j \in 1..Len(s) : j # 1 => j - 1 \in 1..Len(L[node]) /\ s[j] = L[node][j - 1]
  BY <1>1, <1>2, ConsProperties
<1>6. /\ t \in Seq(I) /\ Len(t) = Len(L[EMPTY]) - 1
      /\ \A j \in 1..Len(t) : t[j] = L[EMPTY][j + 1] /\ j + 1 \in 1..Len(L[EMPTY])
  BY <1>1, <1>2, <1>4, HeadTailProperties
<1> HIDE DEF s, t
<1>7. /\ L2 \in [Key(N) -> Seq(I)] /\ L2[node] = s /\ L2[EMPTY] = t
      /\ \A k \in Key(N) : k # node /\ k # EMPTY => L2[k] = L[k]
  BY <1>1, <1>2, <1>5, <1>6
<1> HIDE DEF L2
<1>8. \A k1, k2 \in Key(N) : \A j1 \in 1..Len(L[k1]), j2 \in 1..Len(L[k2]) :
          L[k1][j1] = L[k2][j2] => k1 = k2 /\ j1 = j2
  BY DEF Threads, Once
<1>9. Typed(N, M, f2, nx2, rf2, nx[b])
  BY <1>1 DEF Typed
<1>10. \A k \in Key(N) : \A j \in 1..Len(L[k]) :
          k # EMPTY \/ j # 1 => L[k][j] # b
  <2>1. 1 \in 1..Len(L[EMPTY])
    BY <1>1, <1>2, <1>4
  <2> SUFFICES ASSUME NEW k \in Key(N), NEW j \in 1..Len(L[k]), L[k][j] = b
               PROVE  k = EMPTY /\ j = 1
    OBVIOUS
  <2>2. L[k][j] = L[EMPTY][1] /\ EMPTY \in Key(N)
    BY <1>2, <1>4
  <2> QED
    BY <1>8, <2>1, <2>2
<1>11. ASSUME NEW k \in Key(N)
       PROVE  Chained(M, nx2, L2[k], IF k = EMPTY THEN nx[b] ELSE f2[k])
  <2>1. CASE k = node
    <3>1. f2[node] = s[1] /\ Len(s) # 0
      BY <1>1, <1>2, <1>5
    <3>2. nx2[s[1]] = IF 1 = Len(s) THEN EMPTY ELSE s[1 + 1]
      <4>1. nx2[s[1]] = f[node]
        BY <1>1, <1>5
      <4>2. f[node] = IF Len(L[node]) = 0 THEN EMPTY ELSE L[node][1]
        BY <1>2, <1>3 DEF Chained
      <4>3. CASE Len(L[node]) = 0
        BY <4>1, <4>2, <4>3, <1>5
      <4>4. CASE Len(L[node]) # 0
        <5>1. 1 \in 1..Len(L[node]) /\ 1 # Len(s)
          BY SMTT(60), <4>4, <1>1, <1>2, <1>5
        <5>2. s[1 + 1] = L[node][1]
          BY <5>1, <1>5
        <5> QED
          BY <4>1, <4>2, <4>4, <5>1, <5>2
      <4> QED
        BY <4>3, <4>4
    <3>3. ASSUME NEW j \in 1..Len(s), j # 1
          PROVE  nx2[s[j]] = IF j = Len(s) THEN EMPTY ELSE s[j + 1]
      <4>1. j - 1 \in 1..Len(L[node]) /\ s[j] = L[node][j - 1]
        BY <1>5, <3>3
      <4>2. nx2[s[j]] = nx[L[node][j - 1]]
        BY SMTT(60), <4>1, <1>1, <1>2, <1>10
      <4>3. nx[L[node][j - 1]] = IF j - 1 = Len(L[node]) THEN EMPTY ELSE L[node][j - 1 + 1]
        BY <4>1, <1>2, <1>3 DEF Chained
      <4>4. j = Len(s) <=> j - 1 = Len(L[node])
        BY <1>1, <1>2, <1>5
      <4>5. j # Len(s) => j \in 1..Len(L[node]) /\ s[j + 1] = L[node][j]
        BY SMTT(60), <1>1, <1>2, <1>5
      <4> QED
        BY <4>2, <4>3, <4>4, <4>5
    <3> QED
      BY <2>1, <3>1, <3>2, <3>3, <1>2, <1>5, <1>7 DEF Chained
  <2>2. CASE k = EMPTY
    <3>1. nx[b] = IF Len(t) = 0 THEN EMPTY ELSE t[1]
      <4>1. nx[b] = IF 1 = Len(L[EMPTY]) THEN EMPTY ELSE L[EMPTY][1 + 1]
        <5>1. 1 \in 1..Len(L[EMPTY])
          BY <1>1, <1>2, <1>4
        <5> QED
          BY <5>1, <1>2, <1>3, <1>4 DEF Chained
      <4>2. CASE Len(t) = 0
        BY <4>1, <4>2, <1>1, <1>2, <1>6
      <4>3. CASE Len(t) # 0
        <5>1. 1 \in 1..Len(t) /\ 1 # Len(L[EMPTY])
          <6>1. Len(t) \in Nat /\ Len(L[EMPTY]) \in Nat /\ Len(t) = Len(L[EMPTY]) - 1
            BY <1>1, <1>2, <1>6
          <6> QED
            BY <4>3, <6>1, OneLess
        <5>2. t[1] = L[EMPTY][1 + 1]
          BY <5>1, <1>6
        <5> QED
          BY <4>1, <4>3, <5>1, <5>2
      <4> QED
        BY <4>2, <4>3
    <3>2. ASSUME NEW j \in 1..Len(t)
          PROVE  nx2[t[j]] = IF j = Len(t) THEN EMPTY ELSE t[j + 1]
      <4>1. j + 1 \in 1..Len(L[EMPTY]) /\ t[j] = L[EMPTY][j + 1] /\ j + 1 # 1
        BY <1>6
      <4>2. nx2[t[j]] = nx[L[EMPTY][j + 1]]
        BY <4>1, <1>1, <1>2, <1>10
      <4>3. nx[L[EMPTY][j + 1]] = IF j + 1 = Len(L[EMPTY]) THEN EMPTY ELSE L[EMPTY][j + 1 + 1]
        BY <4>1, <1>2, <1>3 DEF Chained
      <4>4. j = Len(t) <=> j + 1 = Len(L[EMPTY])
        BY <1>1, <1>2, <1>6
      <4>5. j # Len(t) => t[j + 1] = L[EMPTY][j + 1 + 1]
        <5>1. j # Len(t) => j + 1 \in 1..Len(t)
          BY <1>1, <1>2, <1>6
        <5> QED
          BY <5>1, <1>6
      <4> QED
        BY <4>2, <4>3, <4>4, <4>5
    <3> QED
      BY ZenonT(60), <2>2, <3>1, <3>2, <1>6, <1>7 DEF Chained
  <2>3. CASE k # node /\ k # EMPTY
    <3>1. L2[k] = L[k] /\ f2[k] = f[k]
      BY <2>3, <1>1, <1>7 DEF Key
    <3>2. \A j \in 1..Len(L[k]) : nx2[L[k][j]] = nx[L[k][j]]
      BY <2>3, <1>1, <1>10
    <3> QED
      BY <2>3, <3>1, <3>2, <1>3 DEF Chained
  <2> QED
    BY <2>1, <2>2, <2>3
<1>12. ASSUME NEW i \in I
       PROVE  \E k \in Key(N) : \E j \in 1..Len(L2[k]) : L2[k][j] = i
  <2>1. PICK k \in Key(N) : \E j \in 1..Len(L[k]) : L[k][j] = i
    BY DEF Threads, Once
  <2>0. PICK j \in 1..Len(L[k]) : L[k][j] = i
    BY <2>1
  <2>2. CASE k = node
    <3>1. j + 1 \in 1..Len(s) /\ s[j + 1] = i
      BY SMTT(60), <2>0, <2>2, <1>1, <1>5
    <3> QED
      BY <2>2, <3>1, <1>7
  <2>3. CASE k = EMPTY /\ j = 1
    BY SMTT(60), <2>0, <2>3, <1>1, <1>2, <1>4, <1>5, <1>7
  <2>4. CASE k = EMPTY /\ j # 1
    <3>1. j - 1 \in 1..Len(t) /\ t[j - 1] = L[EMPTY][j]
      BY <2>4, <1>1, <1>2, <1>6
    <3> QED
      BY <2>0, <2>4, <3>1, <1>2, <1>7
  <2>5. CASE k # node /\ k # EMPTY
    BY <2>0, <2>5, <1>7
  <2> QED
    BY <2>2, <2>3, <2>4, <2>5
<1> DEFINE key(k, j) == IF k = node /\ j = 1 THEN EMPTY ELSE k
           place(k, j) == IF k = node THEN (IF j = 1 THEN 1 ELSE j - 1)
                          ELSE IF k = EMPTY THEN j + 1 ELSE j
<1>13. ASSUME NEW k \in Key(N), NEW j \in 1..Len(L2[k])
       PROVE  /\ key(k, j) \in Key(N) /\ place(k, j) \in 1..Len(L[key(k, j)])
              /\ L2[k][j] = L[key(k, j)][place(k, j)]
  <2>1. CASE k = node /\ j = 1
    <3>1. 1 \in 1..Len(L[EMPTY])
      BY <1>1, <1>2, <1>4
    <3> QED
      BY <2>1, <3>1, <1>2, <1>4, <1>5, <1>7
  <2>2. CASE k = node /\ j # 1
    BY <2>2, <1>2, <1>5, <1>7
  <2>3. CASE k = EMPTY
    BY <2>3, <1>2, <1>6, <1>7
  <2>4. CASE k # node /\ k # EMPTY
    BY <2>4, <1>7
  <2> QED
    BY <2>1, <2>2, <2>3, <2>4
<1>14. ASSUME NEW k1 \in Key(N), NEW k2 \in Key(N), NEW j1 \in 1..Len(L2[k1]),
              NEW j2 \in 1..Len(L2[k2]), L2[k1][j1] = L2[k2][j2]
       PROVE  k1 = k2 /\ j1 = j2
  <2>1. key(k1, j1) = key(k2, j2) /\ place(k1, j1) = place(k2, j2)
    <3> HIDE DEF key, place
    <3> QED
      BY SMTT(60), <1>8, <1>13, <1>14
  <2>2. Len(L2[k1]) \in Nat /\ Len(L2[k2]) \in Nat
    BY <1>7
  <2> QED
    BY <2>1, <2>2, <1>2
<1>15. \A i \in I : rf2[i] = EMPTY <=> \E j \in 1..Len(L2[EMPTY]) : L2[EMPTY][j] = i
  <2>1. \A i \in I : rf[i] = EMPTY <=> \E j \in 1..Len(L[EMPTY]) : L[EMPTY][j] = i
    BY DEF Threads
  <2> TAKE i \in I
  <2>2. CASE i = b
    <3>1. rf2[i] # EMPTY
      BY <2>2, <1>1, <1>2
    <3>2. ASSUME NEW j \in 1..Len(t) PROVE t[j] # b
      <4>1. t[j] = L[EMPTY][j + 1] /\ j + 1 \in 1..Len(L[EMPTY]) /\ j + 1 # 1
        BY <1>6
      <4> QED
        BY <4>1, <1>2, <1>10
    <3> QED
      BY <2>2, <3>1, <3>2, <1>7
  <2>3. CASE i # b
    <3>1. rf2[i] = rf[i]
      BY <2>3, <1>1
    <3>2. ASSUME NEW j \in 1..Len(L[EMPTY]), L[EMPTY][j] = i
          PROVE  j - 1 \in 1..Len(t) /\ t[j - 1] = i
      <4>1. j # 1
        BY <2>3, <3>2, <1>4
      <4>2. j - 1 \in 1..Len(t) /\ (j - 1) + 1 = j
        BY <4>1, <1>1, <1>2, <1>6
      <4> QED
        BY <3>2, <4>2, <1>6
    <3>3. \A j \in 1..Len(t) : j + 1 \in 1..Len(L[EMPTY]) /\ t[j] = L[EMPTY][j + 1]
      BY <1>6
    <3> QED
      BY <2>1, <3>1, <3>2, <3>3, <1>7
  <2> QED
    BY <2>2, <2>3
<1> HIDE DEF key, place, f2, nx2, rf2
<1>16. Threads(N, M, f2, nx2, rf2, nx[b], L2)
  BY <1>7, <1>9, <1>11, <1>12, <1>14, <1>15 DEF Threads, Once
<1> QED
  BY <1>16 DEF f2, nx2, rf2, L2, s, t

(***************************************************************************)
(* The nodes that ref_adj_add makes room for have empty lists.             *)
(***************************************************************************)
LEMMA MoreNodes ==
    ASSUME NEW N, NEW M, NEW f, NEW nx, NEW rf, NEW b, NEW L,
           Threads(N, M, f, nx, rf, b, L), NEW N2 \in Nat, N <= N2
    PROVE  Threads(N2, M, [i \in 0..(N2 - 1) |-> IF i < N THEN f[i] ELSE EMPTY],
                   nx, rf, b,
                   [k \in Key(N2) |-> IF k \in Key(N) THEN L[k] ELSE <<>>])
<1> DEFINE f2 == [i \in 0..(N2 - 1) |-> IF i < N THEN f[i] ELSE EMPTY]
           L2 == [k \in Key(N2) |-> IF k \in Key(N) THEN L[k] ELSE <<>>]
           I == 0..(M - 1)
<1>1. /\ N \in Nat \ {0} /\ M \in Nat \ {0} /\ Typed(N, M, f, nx, rf, b)
      /\ f \in [0..(N - 1) -> I \cup {EMPTY}] /\ L \in [Key(N) -> Seq(I)]
      /\ \A k \in Key(N) : Chained(M, nx, L[k], IF k = EMPTY THEN b ELSE f[k])
  BY DEF Threads, Typed
<1>0. /\ \A i \in I : \E k \in Key(N) : \E j \in 1..Len(L[k]) : L[k][j] = i
      /\ \A k1, k2 \in Key(N) : \A j1 \in 1..Len(L[k1]), j2 \in 1..Len(L[k2]) :
            L[k1][j1] = L[k2][j2] => k1 = k2 /\ j1 = j2
  BY DEF Threads, Once
<1>2. Key(N) \subseteq Key(N2) /\ EMPTY \in Key(N)
  BY <1>1 DEF Key
<1>3. /\ \A k \in Key(N) : L2[k] = L[k]
      /\ \A k \in Key(N2) : k \notin Key(N) => L2[k] = <<>> /\ Len(L2[k]) = 0
      /\ L2 \in [Key(N2) -> Seq(I)]
  BY <1>1, <1>2, EmptySeq
<1> HIDE DEF L2
<1>4. Typed(N2, M, f2, nx, rf, b)
  BY <1>1 DEF Typed
<1>5. ASSUME NEW k \in Key(N2)
      PROVE  Chained(M, nx, L2[k], IF k = EMPTY THEN b ELSE f2[k])
  <2>1. CASE k \in Key(N)
    <3>1. k # EMPTY => f2[k] = f[k]
      BY <2>1, <1>1 DEF Key
    <3> QED
      BY <2>1, <3>1, <1>1, <1>3
  <2>2. CASE k \notin Key(N)
    <3>1. k # EMPTY /\ f2[k] = EMPTY
      BY <2>2, <1>1, <1>2 DEF Key
    <3> QED
      BY <2>2, <3>1, <1>3 DEF Chained
  <2> QED
    BY <2>1, <2>2
<1>6. Once(N2, M, L2)
  <2>1. \A i \in I : \E k \in Key(N2) : \E j \in 1..Len(L2[k]) : L2[k][j] = i
    BY <1>0, <1>2, <1>3
  <2>2. \A k \in Key(N2) : k \notin Key(N) => 1..Len(L2[k]) = {}
    BY <1>3
  <2>3. \A k1, k2 \in Key(N2) : \A j1 \in 1..Len(L2[k1]), j2 \in 1..Len(L2[k2]) :
           L2[k1][j1] = L2[k2][j2] => k1 = k2 /\ j1 = j2
    BY <2>2, <1>0, <1>3
  <2> QED
    BY <2>1, <2>3 DEF Once
<1>7. \A i \in I : rf[i] = EMPTY <=> \E j \in 1..Len(L2[EMPTY]) : L2[EMPTY][j] = i
  BY <1>2, <1>3 DEF Threads
<1> HIDE DEF f2
<1>8. Threads(N2, M, f2, nx, rf, b, L2)
  BY <1>3, <1>4, <1>5, <1>6, <1>7 DEF Threads
<1> QED
  BY <1>8 DEF f2, L2

(***************************************************************************)
(* The pool that ref_adj_add makes when there is no unused item: the new   *)
(* items are all unused.                                                   *)
(***************************************************************************)
LEMMA MoreItems ==
    ASSUME NEW N, NEW M, NEW f, NEW nx, NEW rf, NEW b, NEW L,
           Threads(N, M, f, nx, rf, b, L), b = EMPTY, NEW M2 \in Nat, M < M2
    PROVE  Threads(N, M2, f,
                   [i \in 0..(M2 - 1) |-> IF i < M THEN nx[i] ELSE chain(i, M2)],
                   [i \in 0..(M2 - 1) |-> IF i < M THEN rf[i] ELSE EMPTY], M,
                   [L EXCEPT ![EMPTY] = [j \in 1..(M2 - M) |-> M + j - 1]])
<1> DEFINE nx2 == [i \in 0..(M2 - 1) |-> IF i < M THEN nx[i] ELSE chain(i, M2)]
           rf2 == [i \in 0..(M2 - 1) |-> IF i < M THEN rf[i] ELSE EMPTY]
           t == [j \in 1..(M2 - M) |-> M + j - 1]
           L2 == [L EXCEPT ![EMPTY] = t]
           I == 0..(M - 1)
           I2 == 0..(M2 - 1)
<1>1. /\ N \in Nat \ {0} /\ M \in Nat \ {0}
      /\ f \in [0..(N - 1) -> I \cup {EMPTY}] /\ nx \in [I -> I \cup {EMPTY}]
      /\ rf \in [I -> Ref \cup {EMPTY}] /\ L \in [Key(N) -> Seq(I)]
      /\ \A k \in Key(N) : L[k] \in Seq(I) /\ Len(L[k]) \in Nat
                           /\ \A j \in 1..Len(L[k]) : L[k][j] \in I
  BY DEF Threads, Typed
<1>a. \A k \in Key(N) : Chained(M, nx, L[k], IF k = EMPTY THEN b ELSE f[k])
  BY DEF Threads
<1>b. \A i \in I : \E k \in Key(N) : \E j \in 1..Len(L[k]) : L[k][j] = i
  BY DEF Threads, Once
<1>c. \A k1, k2 \in Key(N) : \A j1 \in 1..Len(L[k1]), j2 \in 1..Len(L[k2]) :
         L[k1][j1] = L[k2][j2] => k1 = k2 /\ j1 = j2
  BY DEF Threads, Once
<1>d. \A i \in I : rf[i] = EMPTY <=> \E j \in 1..Len(L[EMPTY]) : L[EMPTY][j] = i
  BY DEF Threads
<1>2. EMPTY \in Key(N) /\ I \subseteq I2 /\ M2 - M \in Nat /\ M2 - M # 0 /\ EMPTY \notin I2
  BY <1>1 DEF Key, EMPTY
<1>3. Len(L[EMPTY]) = 0
  <2>1. b = IF Len(L[EMPTY]) = 0 THEN EMPTY ELSE L[EMPTY][1]
    BY <1>a, <1>2 DEF Chained
  <2>2. Len(L[EMPTY]) # 0 => L[EMPTY][1] \in I
    BY <1>1, <1>2
  <2> QED
    BY <2>1, <2>2, <1>2
<1>4. /\ t \in Seq(I2) /\ Len(t) = M2 - M
      /\ \A j \in 1..Len(t) : t[j] = M + j - 1 /\ t[j] \in I2 /\ t[j] \notin I
  <2>1. t \in [1..(M2 - M) -> I2]
    BY <1>1, <1>2
  <2>2. t \in Seq(I2) /\ Len(t) = M2 - M
    BY <1>2, <2>1, FunctionIsSeq
  <2> QED
    BY <2>1, <2>2, <1>1
<1> HIDE DEF t
<1>5. /\ L2[EMPTY] = t /\ \A k \in Key(N) : k # EMPTY => L2[k] = L[k]
      /\ L2 \in [Key(N) -> Seq(I2)]
  <2>1. \A k \in Key(N) : L[k] \in Seq(I2)
    BY <1>1, <1>2, SeqMonotonic
  <2> QED
    BY <2>1, <1>1, <1>2, <1>4
<1> HIDE DEF L2
<1>6. Typed(N, M2, f, nx2, rf2, M)
  <2>1. \A i \in I2 : chain(i, M2) \in I2 \cup {EMPTY}
    BY DEF chain
  <2> QED
    BY <2>1, <1>1, <1>2 DEF Typed
<1>7. ASSUME NEW k \in Key(N)
      PROVE  Chained(M2, nx2, L2[k], IF k = EMPTY THEN M ELSE f[k])
  <2>1. CASE k = EMPTY
    <3>1. M = t[1] /\ Len(t) # 0
      BY <1>1, <1>2, <1>4
    <3>2. ASSUME NEW j \in 1..Len(t)
          PROVE  nx2[t[j]] = IF j = Len(t) THEN EMPTY ELSE t[j + 1]
      <4>1. nx2[t[j]] = chain(M + j - 1, M2)
        BY <1>1, <1>4
      <4>2. j = Len(t) <=> M + j - 1 = M2 - 1
        BY <1>1, <1>2, <1>4
      <4>3. j # Len(t) => t[j + 1] = M + j - 1 + 1
        <5>1. j # Len(t) => j + 1 \in 1..Len(t)
          BY <1>2, <1>4
        <5>2. M + (j + 1) - 1 = M + j - 1 + 1
          BY <1>1, <1>2, <1>4
        <5> QED
          BY <5>1, <5>2, <1>4
      <4> QED
        BY <4>1, <4>2, <4>3 DEF chain
    <3> QED
      BY <2>1, <3>1, <3>2, <1>4, <1>5 DEF Chained
  <2>2. CASE k # EMPTY
    <3>1. \A j \in 1..Len(L[k]) : nx2[L[k][j]] = nx[L[k][j]]
      BY <1>1, <1>2
    <3>2. Chained(M, nx, L[k], f[k])
      BY <2>2, <1>a
    <3>3. L2[k] = L[k] /\ L2[k] \in Seq(I2)
      BY <2>2, <1>5
    <3> HIDE DEF nx2
    <3> QED
      BY <2>2, <3>1, <3>2, <3>3 DEF Chained
  <2> QED
    BY <2>1, <2>2
<1>8. Once(N, M2, L2)
  <2>1. ASSUME NEW i \in I2
        PROVE  \E k \in Key(N) : \E j \in 1..Len(L2[k]) : L2[k][j] = i
    <3>1. CASE i \in I
      <4>1. PICK k \in Key(N) : \E j \in 1..Len(L[k]) : L[k][j] = i
        BY <3>1, <1>b
      <4>2. k # EMPTY
        BY <4>1, <1>3
      <4> QED
        BY <4>1, <4>2, <1>5
    <3>2. CASE i \notin I
      <4>1. i - M + 1 \in 1..Len(t) /\ M + (i - M + 1) - 1 = i
        BY <3>2, <1>1, <1>2, <1>4
      <4>2. t[i - M + 1] = i
        BY <4>1, <1>4
      <4> QED
        BY <4>1, <4>2, <1>2, <1>5
    <3> QED
      BY <3>1, <3>2
  <2>2. ASSUME NEW k1 \in Key(N), NEW k2 \in Key(N), NEW j1 \in 1..Len(L2[k1]),
               NEW j2 \in 1..Len(L2[k2]), L2[k1][j1] = L2[k2][j2]
        PROVE  k1 = k2 /\ j1 = j2
    <3>1. CASE k1 = EMPTY /\ k2 = EMPTY
      <4>1. j1 \in 1..Len(t) /\ j2 \in 1..Len(t) /\ M + j1 - 1 = M + j2 - 1
        BY <3>1, <2>2, <1>4, <1>5
      <4> QED
        BY <3>1, <4>1, <1>1, <1>2, <1>4
    <3>2. CASE k1 # EMPTY /\ k2 # EMPTY
      <4>1. L2[k1] = L[k1] /\ L2[k2] = L[k2]
        BY <3>2, <1>5
      <4> QED
        BY <4>1, <2>2, <1>c
    <3>3. CASE k1 = EMPTY /\ k2 # EMPTY
      <4>1. L2[k1][j1] \notin I
        BY <3>3, <1>4, <1>5
      <4>2. L2[k2][j2] \in I
        BY <3>3, <1>1, <1>5
      <4> QED
        BY <2>2, <4>1, <4>2
    <3>4. CASE k1 # EMPTY /\ k2 = EMPTY
      <4>1. L2[k2][j2] \notin I
        BY <3>4, <1>4, <1>5
      <4>2. L2[k1][j1] \in I
        BY <3>4, <1>1, <1>5
      <4> QED
        BY <2>2, <4>1, <4>2
    <3> QED
      BY <3>1, <3>2, <3>3, <3>4
  <2> QED
    BY <2>1, <2>2 DEF Once
<1>9. ASSUME NEW i \in I2
      PROVE  rf2[i] = EMPTY <=> \E j \in 1..Len(L2[EMPTY]) : L2[EMPTY][j] = i
  <2>1. CASE i \in I
    <3>1. rf2[i] # EMPTY
      BY <2>1, <1>1, <1>d, <1>2, <1>3
    <3> QED
      BY <2>1, <3>1, <1>4, <1>5
  <2>2. CASE i \notin I
    <3>1. rf2[i] = EMPTY
      BY <2>2, <1>1
    <3>2. i - M + 1 \in 1..Len(t) /\ M + (i - M + 1) - 1 = i
      BY <2>2, <1>1, <1>2, <1>4
    <3>3. t[i - M + 1] = i
      BY <3>2, <1>4
    <3> QED
      BY <3>1, <3>2, <3>3, <1>5
  <2> QED
    BY <2>1, <2>2
<1> HIDE DEF nx2, rf2
<1>10. Threads(N, M2, f, nx2, rf2, M, L2)
  BY <1>5, <1>6, <1>7, <1>8, <1>9 DEF Threads
<1> QED
  BY <1>10 DEF nx2, rf2, L2, t

(***************************************************************************)
(* A sequence without its entry k.                                         *)
(***************************************************************************)
without(s, k) == SubSeq(s, 1, k - 1) \o SubSeq(s, k + 1, Len(s))

(* A sequence with one place left out. *)
LEMMA WithoutProperties ==
    ASSUME NEW S, NEW s \in Seq(S), NEW k \in 1..Len(s)
    PROVE  /\ without(s, k) \in Seq(S) /\ Len(without(s, k)) = Len(s) - 1
           /\ \A j \in 1..(Len(s) - 1) :
                 without(s, k)[j] = IF j < k THEN s[j] ELSE s[j + 1]
<1> DEFINE n == Len(s)
           u == SubSeq(s, 1, k - 1)
           v == SubSeq(s, k + 1, n)
<1>1. n \in Nat /\ \A j \in 1..n : s[j] \in S
  OBVIOUS
<1>2. u \in Seq(S) /\ Len(u) = k - 1 /\ \A j \in 1..(k - 1) : u[j] = s[j]
  <2>1. 1 \in Int /\ k - 1 \in Int /\ \A j \in 1..(k - 1) : s[j] \in S
    BY <1>1
  <2>2. /\ SubSeq(s, 1, k - 1) \in Seq(S)
        /\ Len(SubSeq(s, 1, k - 1)) = IF 1 <= k - 1 THEN k - 1 - 1 + 1 ELSE 0
        /\ \A j \in 1..(k - 1 - 1 + 1) : SubSeq(s, 1, k - 1)[j] = s[1 + j - 1]
    BY <2>1, SubSeqProperties
  <2> QED
    BY <2>2, <1>1
<1>3. v \in Seq(S) /\ Len(v) = n - k /\ \A j \in 1..(n - k) : v[j] = s[k + j]
  <2>1. k + 1 \in Int /\ n \in Int /\ \A j \in (k + 1)..n : s[j] \in S
    BY <1>1
  <2>2. /\ SubSeq(s, k + 1, n) \in Seq(S)
        /\ Len(SubSeq(s, k + 1, n)) = IF k + 1 <= n THEN n - (k + 1) + 1 ELSE 0
        /\ \A j \in 1..(n - (k + 1) + 1) : SubSeq(s, k + 1, n)[j] = s[k + 1 + j - 1]
    BY <2>1, SubSeqProperties
  <2> QED
    BY <2>2, <1>1
<1> HIDE DEF u, v
<1>4. /\ u \o v \in Seq(S) /\ Len(u \o v) = Len(u) + Len(v)
      /\ \A j \in 1..(Len(u) + Len(v)) :
            (u \o v)[j] = IF j <= Len(u) THEN u[j] ELSE v[j - Len(u)]
  BY <1>2, <1>3, ConcatProperties
<1>5. Len(u) + Len(v) = n - 1
  BY <1>1, <1>2, <1>3
<1>6. ASSUME NEW j \in 1..(n - 1)
      PROVE  (u \o v)[j] = IF j < k THEN s[j] ELSE s[j + 1]
  <2>1. CASE j < k
    <3>1. j \in 1..(k - 1)
      BY <2>1, <1>1
    <3> QED
      BY <2>1, <3>1, <1>2, <1>4, <1>5
  <2>2. CASE ~ (j < k)
    <3>1. j - (k - 1) \in 1..(n - k) /\ k + (j - (k - 1)) = j + 1 /\ ~ (j <= k - 1)
      BY <2>2, <1>1
    <3>2. (u \o v)[j] = v[j - (k - 1)]
      BY <3>1, <1>2, <1>4, <1>5
    <3>3. v[j - (k - 1)] = s[k + (j - (k - 1))]
      BY <3>1, <1>3
    <3> QED
      BY <2>2, <3>1, <3>2, <3>3
  <2> QED
    BY <2>1, <2>2
<1>7. without(s, k) = u \o v
  BY DEF without, u, v
<1> QED
  BY <1>4, <1>5, <1>6, <1>7

(* The arrays and the lists once an item is unlinked from a node. *)
firstUnlinked(f, nx, node, item, parent) ==
    [f EXCEPT ![node] = IF parent = EMPTY THEN nx[item] ELSE @]

(* The links and the lists after ref_adj_remove took an item out. *)
nextUnlinked(nx, b, item, parent) ==
    [i \in DOMAIN nx |-> IF i = item THEN b
                         ELSE IF i = parent THEN nx[item]
                         ELSE nx[i]]

listsUnlinked(L, node, p, item) ==
    [L EXCEPT ![node] = without(L[node], p), ![EMPTY] = <<item>> \o L[EMPTY]]

(***************************************************************************)
(* ref_adj_remove moves an item from inside a list to the front of the     *)
(* unused ones.                                                            *)
(***************************************************************************)
LEMMA UnlinkThreads ==
    ASSUME NEW N, NEW M, NEW f, NEW nx, NEW rf, NEW b, NEW L,
           Threads(N, M, f, nx, rf, b, L),
           NEW node \in 0..(N - 1), NEW p \in 1..Len(L[node]),
           NEW item, item = L[node][p],
           NEW parent, parent = IF p = 1 THEN EMPTY ELSE L[node][p - 1]
    PROVE  Threads(N, M, firstUnlinked(f, nx, node, item, parent),
                   nextUnlinked(nx, b, item, parent), [rf EXCEPT ![item] = EMPTY],
                   item, listsUnlinked(L, node, p, item))
<1> DEFINE f2 == [f EXCEPT ![node] = IF parent = EMPTY THEN nx[item] ELSE @]
           nx2 == [i \in DOMAIN nx |-> IF i = item THEN b
                                       ELSE IF i = parent THEN nx[item]
                                       ELSE nx[i]]
           rf2 == [rf EXCEPT ![item] = EMPTY]
           s == without(L[node], p)
           t == <<item>> \o L[EMPTY]
           L2 == [L EXCEPT ![node] = s, ![EMPTY] = t]
           I == 0..(M - 1)
           n == Len(L[node])
<1>1. /\ N \in Nat \ {0} /\ M \in Nat \ {0} /\ b \in I \cup {EMPTY}
      /\ f \in [0..(N - 1) -> I \cup {EMPTY}] /\ nx \in [I -> I \cup {EMPTY}]
      /\ rf \in [I -> Ref \cup {EMPTY}] /\ L \in [Key(N) -> Seq(I)]
  BY DEF Threads, Typed
<1>2. \A k \in Key(N) : /\ L[k] \in Seq(I) /\ Len(L[k]) \in Nat
                        /\ \A j \in 1..Len(L[k]) : L[k][j] \in I
  BY <1>1
<1>3. /\ node \in Key(N) /\ EMPTY \in Key(N) /\ node # EMPTY
      /\ \A i \in I : i # EMPTY
  BY <1>1 DEF Key, EMPTY
<1>4. /\ n \in Nat /\ Len(L[EMPTY]) \in Nat /\ item \in I /\ L[node] \in Seq(I)
      /\ p = 1 => parent = EMPTY
      /\ p # 1 => parent = L[node][p - 1] /\ p - 1 \in 1..n /\ parent \in I
  BY SMTT(60), <1>2, <1>3
<1>a. \A k \in Key(N) : Chained(M, nx, L[k], IF k = EMPTY THEN b ELSE f[k])
  BY DEF Threads
<1>b. \A i \in I : \E k \in Key(N) : \E j \in 1..Len(L[k]) : L[k][j] = i
  BY DEF Threads, Once
<1>c. \A k1, k2 \in Key(N) : \A j1 \in 1..Len(L[k1]), j2 \in 1..Len(L[k2]) :
         L[k1][j1] = L[k2][j2] => k1 = k2 /\ j1 = j2
  BY DEF Threads, Once
<1>d. \A i \in I : rf[i] = EMPTY <=> \E j \in 1..Len(L[EMPTY]) : L[EMPTY][j] = i
  BY DEF Threads
<1>5. /\ s \in Seq(I) /\ Len(s) = n - 1
      /\ \A j \in 1..(n - 1) : s[j] = IF j < p THEN L[node][j] ELSE L[node][j + 1]
  BY <1>4, WithoutProperties
<1>6. /\ t \in Seq(I) /\ Len(t) = Len(L[EMPTY]) + 1
      /\ \A j \in 1..(Len(L[EMPTY]) + 1) :
            t[j] = IF j = 1 THEN item ELSE L[EMPTY][j - 1]
  <2>1. L[EMPTY] \in Seq(I)
    BY <1>2, <1>3
  <2> QED
    BY <1>4, <2>1, ConsProperties
<1> HIDE DEF s, t
<1>7. /\ L2 \in [Key(N) -> Seq(I)] /\ L2[node] = s /\ L2[EMPTY] = t
      /\ \A k \in Key(N) : k # node /\ k # EMPTY => L2[k] = L[k]
  BY <1>1, <1>3, <1>5, <1>6
<1> HIDE DEF L2
<1>8. Typed(N, M, f2, nx2, rf2, item)
  BY <1>1, <1>4 DEF Typed
<1>9. nx[item] = IF p = n THEN EMPTY ELSE L[node][p + 1]
  BY <1>3, <1>a DEF Chained
<1>10. ASSUME NEW k \in Key(N), NEW j \in 1..Len(L[k]),
              k # node \/ (j # p /\ j # p - 1)
       PROVE  nx2[L[k][j]] = nx[L[k][j]]
  <2>1. L[k][j] # item
    BY <1>10, <1>3, <1>c
  <2>2. L[k][j] # parent
    <3>1. CASE p = 1
      BY <3>1, <1>2, <1>3, <1>4
    <3>2. CASE p # 1
      <4> DEFINE q == p - 1
      <4>1. q \in 1..n /\ parent = L[node][q] /\ (k # node \/ j # q)
        BY <3>2, <1>10, <1>4
      <4> HIDE DEF q
      <4> QED
        BY <4>1, <1>3, <1>c
    <3> QED
      BY <3>1, <3>2
  <2>3. L[k][j] \in I
    BY <1>2
  <2> QED
    BY <2>1, <2>2, <2>3, <1>1
<1>11. nx2[item] = b /\ (p # 1 => nx2[parent] = nx[item])
  <2>1. p # 1 => parent # item
    <3>1. p # 1 => p - 1 # p
      BY <1>4
    <3> QED
      BY <3>1, <1>3, <1>4, <1>c
  <2> QED
    BY <2>1, <1>1, <1>4
<1>12. ASSUME NEW k \in Key(N)
       PROVE  Chained(M, nx2, L2[k], IF k = EMPTY THEN item ELSE f2[k])
  <2>1. CASE k = node
    <3>0. /\ f[node] = IF n = 0 THEN EMPTY ELSE L[node][1]
          /\ \A j \in 1..n : nx[L[node][j]] = IF j = n THEN EMPTY ELSE L[node][j + 1]
      BY <1>3, <1>a DEF Chained
    <3>1. f2[node] = IF Len(s) = 0 THEN EMPTY ELSE s[1]
      <4>1. CASE p = 1
        <5>1. f2[node] = nx[item]
          BY <4>1, <1>1, <1>4
        <5>2. CASE n = 1
          BY <4>1, <5>1, <5>2, <1>5, <1>9
        <5>3. CASE n # 1
          <6>1. 1 \in 1..(n - 1) /\ Len(s) # 0 /\ ~ (1 < 1)
            <7>1. n \in Nat /\ n # 0 /\ n - 1 \in Nat /\ n - 1 # 0
              BY <5>3, <1>4
            <7>2. Len(s) = n - 1
              BY <1>5
            <7> HIDE DEF n
            <7> QED
              BY <7>1, <7>2, OneLess
          <6>2. s[1] = L[node][1 + 1]
            BY <4>1, <6>1, <1>5
          <6> QED
            BY <4>1, <5>1, <5>3, <6>1, <6>2, <1>9
        <5> QED
          BY <5>2, <5>3
      <4>2. CASE p # 1
        <5>1. f2[node] = f[node]
          BY <4>2, <1>1, <1>3, <1>4
        <5>2. 1 \in 1..(n - 1) /\ Len(s) # 0 /\ 1 < p /\ n # 0
          BY <4>2, <1>4, <1>5
        <5>3. s[1] = L[node][1]
          BY <5>2, <1>5
        <5> QED
          BY <5>1, <5>2, <5>3, <3>0
      <4> QED
        BY <4>1, <4>2
    <3>2. ASSUME NEW j \in 1..Len(s)
          PROVE  nx2[s[j]] = IF j = Len(s) THEN EMPTY ELSE s[j + 1]
      <4>0. j \in 1..(n - 1) /\ j \in 1..n /\ j + 1 \in 1..n
            /\ (j # Len(s) => j + 1 \in 1..(n - 1))
        BY <1>4, <1>5
      <4>1. CASE j < p - 1
        <5>1. /\ s[j] = L[node][j] /\ s[j + 1] = L[node][j + 1] /\ j # Len(s)
              /\ j # n /\ j # p /\ j # p - 1
          <6>1. j < p /\ j + 1 < p /\ j # Len(s) /\ j # n /\ j # p /\ j # p - 1
            BY <4>0, <4>1, <1>4, <1>5
          <6> QED
            BY <6>1, <4>0, <1>5
        <5>2. nx2[s[j]] = nx[L[node][j]]
          BY SMTT(60), <5>1, <4>0, <1>3, <1>10
        <5> QED
          BY <5>1, <5>2, <4>0, <3>0
      <4>2. CASE j = p - 1
        <5>1. p # 1 /\ s[j] = parent /\ nx2[s[j]] = nx[item]
          <6>1. p # 1 /\ j < p
            BY <4>0, <4>2, <1>4
          <6> QED
            BY <6>1, <4>0, <4>2, <1>4, <1>5, <1>11
        <5>2. CASE j = Len(s)
          <6>1. p = n
            BY <4>2, <5>2, <1>4, <1>5
          <6> QED
            BY <5>1, <5>2, <6>1, <1>9
        <5>3. CASE j # Len(s)
          <6>1. p # n /\ ~ (j + 1 < p) /\ j + 1 + 1 = p + 1
            BY <4>2, <5>3, <1>4, <1>5
          <6>2. s[j + 1] = L[node][j + 1 + 1]
            BY <6>1, <4>0, <5>3, <1>5
          <6> QED
            BY <5>1, <5>3, <6>1, <6>2, <1>9
        <5> QED
          BY <5>2, <5>3
      <4>3. CASE p <= j
        <5>1. s[j] = L[node][j + 1] /\ j + 1 # p /\ j + 1 # p - 1
          <6>1. ~ (j < p) /\ j + 1 # p /\ j + 1 # p - 1
            BY <4>0, <4>3, <1>4
          <6> QED
            BY <6>1, <4>0, <1>5
        <5>2. nx2[s[j]] = nx[L[node][j + 1]]
          BY <5>1, <4>0, <1>3, <1>10
        <5>3. nx[L[node][j + 1]] = IF j + 1 = n THEN EMPTY ELSE L[node][j + 1 + 1]
          BY <4>0, <3>0
        <5>4. j + 1 = n <=> j = Len(s)
          BY <4>0, <1>4, <1>5
        <5>5. j # Len(s) => s[j + 1] = L[node][j + 1 + 1]
          <6>1. ~ (j + 1 < p)
            BY <4>0, <4>3, <1>4
          <6> QED
            BY <6>1, <4>0, <1>5
        <5> QED
          BY <5>2, <5>3, <5>4, <5>5
      <4> QED
        BY <4>1, <4>2, <4>3, <4>0, <1>4
    <3> HIDE DEF f2, nx2
    <3> QED
      BY <2>1, <3>1, <3>2, <1>3, <1>5, <1>7 DEF Chained
  <2>2. CASE k = EMPTY
    <3>0. /\ b = IF Len(L[EMPTY]) = 0 THEN EMPTY ELSE L[EMPTY][1]
          /\ \A j \in 1..Len(L[EMPTY]) :
                nx[L[EMPTY][j]] = IF j = Len(L[EMPTY]) THEN EMPTY ELSE L[EMPTY][j + 1]
      BY <1>3, <1>a DEF Chained
    <3>1. item = t[1] /\ Len(t) # 0
      BY <1>4, <1>6
    <3>2. ASSUME NEW j \in 1..Len(t)
          PROVE  nx2[t[j]] = IF j = Len(t) THEN EMPTY ELSE t[j + 1]
      <4>0. /\ j \in 1..(Len(L[EMPTY]) + 1)
            /\ (j # Len(t) => j + 1 \in 1..(Len(L[EMPTY]) + 1))
            /\ j + 1 # 1 /\ (j + 1) - 1 = j
        BY SMTT(60), <1>4, <1>6
      <4>1. j # Len(t) => t[j + 1] = L[EMPTY][j]
        BY <4>0, <1>6
      <4>2. CASE j = 1
        <5>1. nx2[t[1]] = b
          BY <3>1, <1>11
        <5>2. 1 = Len(t) <=> Len(L[EMPTY]) = 0
          BY <1>4, <1>6
        <5> QED
          BY <4>1, <4>2, <5>1, <5>2, <3>0
      <4>3. CASE j # 1
        <5>1. j - 1 \in 1..Len(L[EMPTY]) /\ t[j] = L[EMPTY][j - 1] /\ (j - 1) + 1 = j
          BY <4>0, <4>3, <1>4, <1>6
        <5>2. nx2[t[j]] = nx[L[EMPTY][j - 1]]
          BY <5>1, <1>3, <1>10
        <5>3. j - 1 = Len(L[EMPTY]) <=> j = Len(t)
          BY <4>0, <1>4, <1>6
        <5> QED
          BY <4>1, <5>1, <5>2, <5>3, <3>0
      <4> QED
        BY <4>2, <4>3
    <3> HIDE DEF nx2
    <3> QED
      BY <2>2, <3>1, <3>2, <1>6, <1>7 DEF Chained
  <2>3. CASE k # node /\ k # EMPTY
    <3>1. L2[k] = L[k] /\ f2[k] = f[k]
      BY <2>3, <1>1, <1>7 DEF Key
    <3>2. \A j \in 1..Len(L[k]) : nx2[L[k][j]] = nx[L[k][j]]
      BY <2>3, <1>10
    <3>3. Chained(M, nx, L[k], f[k])
      BY <2>3, <1>a
    <3> HIDE DEF f2, nx2
    <3> QED
      BY <2>3, <3>1, <3>2, <3>3 DEF Chained
  <2> QED
    BY <2>1, <2>2, <2>3
<1>13. ASSUME NEW i \in I
       PROVE  \E k \in Key(N) : \E j \in 1..Len(L2[k]) : L2[k][j] = i
  <2>1. PICK k \in Key(N) : \E j \in 1..Len(L[k]) : L[k][j] = i
    BY <1>b
  <2>2. PICK j \in 1..Len(L[k]) : L[k][j] = i
    BY <2>1
  <2>3. CASE k = node /\ j = p
    <3>1. 1 \in 1..Len(t) /\ t[1] = i
      BY <2>2, <2>3, <1>4, <1>6
    <3> QED
      BY <3>1, <1>3, <1>7
  <2>4. CASE k = node /\ j < p
    <3>1. j \in 1..(n - 1)
      BY <2>4, <1>4
    <3>2. s[j] = i
      BY <2>2, <2>4, <3>1, <1>5
    <3> QED
      BY <2>4, <3>1, <3>2, <1>5, <1>7
  <2>5. CASE k = node /\ p < j
    <3>1. j - 1 \in 1..(n - 1) /\ ~ (j - 1 < p) /\ (j - 1) + 1 = j
      BY <2>5, <1>4
    <3>2. s[j - 1] = i
      BY <2>2, <2>5, <3>1, <1>5
    <3> QED
      BY <2>5, <3>1, <3>2, <1>5, <1>7
  <2>6. CASE k = EMPTY
    <3>1. j + 1 \in 1..(Len(L[EMPTY]) + 1) /\ j + 1 # 1 /\ (j + 1) - 1 = j
      BY <2>6, <1>4
    <3>2. t[j + 1] = i
      BY <2>2, <2>6, <3>1, <1>6
    <3> QED
      BY <2>6, <3>1, <3>2, <1>6, <1>7
  <2>7. CASE k # node /\ k # EMPTY
    BY <2>2, <2>7, <1>7
  <2>8. k = node => j = p \/ j < p \/ p < j
    BY <1>4
  <2> QED
    BY <2>3, <2>4, <2>5, <2>6, <2>7, <2>8
<1> DEFINE key(k, j) == IF k = EMPTY /\ j = 1 THEN node ELSE k
           place(k, j) == IF k = EMPTY THEN (IF j = 1 THEN p ELSE j - 1)
                          ELSE IF k = node /\ ~ (j < p) THEN j + 1 ELSE j
<1>14. ASSUME NEW k \in Key(N), NEW j \in 1..Len(L2[k])
       PROVE  /\ key(k, j) \in Key(N) /\ place(k, j) \in 1..Len(L[key(k, j)])
              /\ L2[k][j] = L[key(k, j)][place(k, j)]
  <2>1. CASE k = EMPTY /\ j = 1
    <3>1. t[1] = item
      BY <1>4, <1>6
    <3> QED
      BY <2>1, <3>1, <1>3, <1>7
  <2>2. CASE k = EMPTY /\ j # 1
    <3>1. j \in 1..(Len(L[EMPTY]) + 1) /\ j - 1 \in 1..Len(L[EMPTY])
      BY <2>2, <1>4, <1>6, <1>7
    <3> QED
      BY <2>2, <3>1, <1>3, <1>6, <1>7
  <2>3. CASE k = node
    <3>1. j \in 1..(n - 1) /\ j \in 1..n /\ j + 1 \in 1..n
      BY <2>3, <1>4, <1>5, <1>7
    <3> QED
      BY <2>3, <3>1, <1>3, <1>5, <1>7
  <2>4. CASE k # node /\ k # EMPTY
    BY <2>4, <1>7
  <2> QED
    BY <2>1, <2>2, <2>3, <2>4
<1>15. ASSUME NEW k1 \in Key(N), NEW k2 \in Key(N), NEW j1 \in 1..Len(L2[k1]),
              NEW j2 \in 1..Len(L2[k2]), L2[k1][j1] = L2[k2][j2]
       PROVE  k1 = k2 /\ j1 = j2
  <2>1. key(k1, j1) = key(k2, j2) /\ place(k1, j1) = place(k2, j2)
    <3> HIDE DEF key, place
    <3> QED
      <4>1. /\ key(k1, j1) \in Key(N) /\ place(k1, j1) \in 1..Len(L[key(k1, j1)])
            /\ L2[k1][j1] = L[key(k1, j1)][place(k1, j1)]
        BY <1>14
      <4>2. /\ key(k2, j2) \in Key(N) /\ place(k2, j2) \in 1..Len(L[key(k2, j2)])
            /\ L2[k2][j2] = L[key(k2, j2)][place(k2, j2)]
        BY <1>14
      <4>3. L[key(k1, j1)][place(k1, j1)] = L[key(k2, j2)][place(k2, j2)]
        BY <4>1, <4>2, <1>15
      <4> DEFINE a1 == key(k1, j1)
                 a2 == key(k2, j2)
                 b1 == place(k1, j1)
                 b2 == place(k2, j2)
      <4>4. /\ a1 \in Key(N) /\ a2 \in Key(N) /\ b1 \in 1..Len(L[a1])
            /\ b2 \in 1..Len(L[a2]) /\ L[a1][b1] = L[a2][b2]
        BY <4>1, <4>2, <4>3
      <4> HIDE DEF a1, a2, b1, b2
      <4>5. a1 = a2 /\ b1 = b2
        BY <4>4, <1>c
      <4> QED
        BY <4>5 DEF a1, a2, b1, b2
  <2>2. j1 \in Nat /\ j2 \in Nat
    <3>1. Len(L2[k1]) \in Nat /\ Len(L2[k2]) \in Nat
      BY <1>7
    <3> QED
      BY <3>1
  <2> QED
    BY <2>1, <2>2, <1>3, <1>4
<1>16. ASSUME NEW i \in I
       PROVE  rf2[i] = EMPTY <=> \E j \in 1..Len(L2[EMPTY]) : L2[EMPTY][j] = i
  <2>1. CASE i = item
    <3>1. rf2[i] = EMPTY
      BY <2>1, <1>1, <1>4
    <3>2. 1 \in 1..Len(t) /\ t[1] = i
      BY <2>1, <1>4, <1>6
    <3> QED
      BY <3>1, <3>2, <1>7
  <2>2. CASE i # item
    <3>1. rf2[i] = rf[i]
      BY <2>2, <1>1
    <3>2. ASSUME NEW j \in 1..Len(L[EMPTY]), L[EMPTY][j] = i
          PROVE  j + 1 \in 1..Len(t) /\ t[j + 1] = i
      <4>1. j + 1 \in 1..(Len(L[EMPTY]) + 1) /\ j + 1 # 1 /\ (j + 1) - 1 = j
        BY <1>4
      <4> QED
        BY <3>2, <4>1, <1>6
    <3>3. ASSUME NEW j \in 1..Len(t), t[j] = i
          PROVE  j - 1 \in 1..Len(L[EMPTY]) /\ L[EMPTY][j - 1] = i
      <4>1. j \in 1..(Len(L[EMPTY]) + 1) /\ j # 1 /\ j - 1 \in 1..Len(L[EMPTY])
        BY <2>2, <3>3, <1>4, <1>6
      <4> QED
        BY <3>3, <4>1, <1>6
    <3> QED
      BY <3>1, <3>2, <3>3, <1>d, <1>7
  <2> QED
    BY <2>1, <2>2
<1> HIDE DEF key, place, f2, nx2, rf2
<1>17. Threads(N, M, f2, nx2, rf2, item, L2)
  BY <1>7, <1>8, <1>12, <1>13, <1>15, <1>16 DEF Threads, Once
<1> QED
  BY <1>17 DEF f2, nx2, rf2, L2, s, t, firstUnlinked, nextUnlinked, listsUnlinked

-----------------------------------------------------------------------------
(***************************************************************************)
(* The lists of references behind the pointers.                            *)
(***************************************************************************)
listOf(N, L, k) == IF k \in 0..(N - 1) THEN L[k] ELSE <<>>

(* The references of a node, along its list. *)
refsOf(N, L, rf, k) == [j \in 1..Len(listOf(N, L, k)) |-> rf[listOf(N, L, k)[j]]]

(* What the walk from ref_adj_first returns: the lists behind the          *)
(* pointers.                                                               *)
LEMMA Contents ==
    \A L : Threaded(L) =>
              /\ \A k \in Nat : items(first_item(k)) = listOf(nnode, L, k)
              /\ items(blank) = L[EMPTY]
<1> SUFFICES ASSUME NEW L, Threaded(L)
             PROVE  /\ \A k \in Nat : items(first_item(k)) = listOf(nnode, L, k)
                    /\ items(blank) = L[EMPTY]
  OBVIOUS
<1>1. Threads(nnode, nitem, first, next, ref, blank, L)
  BY DEF Threaded
<1>2. /\ nitem \in Nat /\ nnode \in Nat \ {0} /\ DOMAIN next = 0..(nitem - 1)
      /\ next \in [DOMAIN next -> DOMAIN next \cup {EMPTY}]
      /\ DOMAIN first = 0..(nnode - 1)
  BY <1>1 DEF Threads, Typed
<1>3. \A k \in Key(nnode) :
         /\ Chained(nitem, next, L[k], IF k = EMPTY THEN blank ELSE first[k])
         /\ Len(L[k]) <= nitem
  <2>1. \A k \in Key(nnode) : Len(L[k]) <= nitem
    BY <1>1, ListFits
  <2> QED
    BY <1>1, <2>1 DEF Threads
<1>4. items(blank) = L[EMPTY]
  <2>1. EMPTY \in Key(nnode)
    BY DEF Key
  <2>2. Chained(nitem, next, L[EMPTY], blank) /\ Len(L[EMPTY]) <= nitem
    BY <1>3, <2>1
  <2> QED
    BY <1>2, <2>2, ChainItems
<1>5. ASSUME NEW k \in Nat PROVE items(first_item(k)) = listOf(nnode, L, k)
  <2>1. CASE k \in 0..(nnode - 1)
    <3>1. k \in Key(nnode) /\ k # EMPTY
      BY <2>1 DEF Key, EMPTY
    <3>2. Chained(nitem, next, L[k], first[k]) /\ Len(L[k]) <= nitem
      BY <1>3, <3>1
    <3>3. first_item(k) = first[k] /\ listOf(nnode, L, k) = L[k]
      BY <1>2, <2>1 DEF first_item, listOf
    <3> QED
      BY <1>2, <3>2, <3>3, ChainItems
  <2>2. CASE k \notin 0..(nnode - 1)
    <3>1. first_item(k) = EMPTY /\ listOf(nnode, L, k) = <<>>
      BY <1>2, <2>2 DEF first_item, listOf
    <3>2. Chained(nitem, next, <<>>, EMPTY) /\ Len(<<>>) <= nitem
      BY <1>2, EmptySeq DEF Chained
    <3> QED
      BY <1>2, <3>1, <3>2, ChainItems
  <2> QED
    BY <2>1, <2>2
<1> QED
  BY <1>4, <1>5

(***************************************************************************)
(* The sizes are the N and M of the threads.                               *)
(***************************************************************************)
LEMMA Sizes ==
    ASSUME NEW N, NEW M, NEW f, NEW nx, NEW rf, NEW b, NEW L,
           Threads(N, M, f, nx, rf, b, L)
    PROVE  Cardinality(DOMAIN f) = N /\ Cardinality(DOMAIN nx) = M
<1>1. N \in Nat \ {0} /\ M \in Nat \ {0} /\ DOMAIN f = 0..(N - 1) /\ DOMAIN nx = 0..(M - 1)
  BY DEF Threads, Typed
<1>2. Cardinality(0..(N - 1)) = N
  BY <1>1, FS_Interval
<1>3. Cardinality(0..(M - 1)) = M
  BY <1>1, FS_Interval
<1> QED
  BY <1>1, <1>2, <1>3

(* MAX and MIN of two numbers. *)
LEMMA TwoMax ==
    ASSUME NEW a \in Int, NEW b \in Int
    PROVE  /\ Max({a, b}) = IF a >= b THEN a ELSE b
           /\ Min({a, b}) = IF a <= b THEN a ELSE b
<1>1. CASE a >= b
  <2>1. Max({a, b}) = a
    BY <1>1 DEF Max
  <2>2. Min({a, b}) = b
    BY <1>1 DEF Min
  <2> QED
    BY <1>1, <2>1, <2>2
<1>2. CASE ~ (a >= b)
  <2>1. Max({a, b}) = b
    BY <1>2 DEF Max
  <2>2. Min({a, b}) = a
    BY <1>2 DEF Min
  <2> QED
    BY <1>2, <2>1, <2>2
<1> QED
  BY <1>1, <1>2

(***************************************************************************)
(* The inductive invariant.                                                *)
(***************************************************************************)
IndInv ==
    /\ nnode <= MaxInt /\ nitem <= MaxInt
    /\ \E L : Threaded(L)

(* ref_adj_create links all items behind blank and leaves every node       *)
(* empty.                                                                  *)
LEMMA IndInvInit == Init => IndInv
<1> SUFFICES ASSUME Init PROVE IndInv
  OBVIOUS
<1> DEFINE t == [j \in 1..InitItem |-> j - 1]
           L == [k \in Key(InitNode) |-> IF k = EMPTY THEN t ELSE <<>>]
           I == 0..(InitItem - 1)
<1>1. /\ InitNode \in Nat \ {0} /\ InitItem \in Nat \ {0}
      /\ InitNode <= MaxInt /\ InitItem <= MaxInt
  BY SizeAssumption
<1>2. t \in [1..InitItem -> I] /\ \A j \in 1..InitItem : t[j] = j - 1
  BY <1>1
<1> HIDE DEF t
<1>3. t \in Seq(I) /\ Len(t) = InitItem
  BY <1>1, <1>2, FunctionIsSeq
<1>4. /\ EMPTY \in Key(InitNode) /\ L[EMPTY] = t
      /\ \A k \in Key(InitNode) : k # EMPTY => L[k] = <<>> /\ Len(L[k]) = 0
      /\ L \in [Key(InitNode) -> Seq(I)]
  BY <1>3, EmptySeq DEF Key
<1> HIDE DEF L
<1>5. Typed(InitNode, InitItem, first, next, ref, blank)
  <2>1. \A i \in I : chain(i, InitItem) \in I \cup {EMPTY}
    BY <1>1 DEF chain
  <2> QED
    BY <1>1, <2>1 DEF Init, Typed
<1>6. ASSUME NEW k \in Key(InitNode)
      PROVE  Chained(InitItem, next, L[k], IF k = EMPTY THEN blank ELSE first[k])
  <2>1. CASE k = EMPTY
    <3>1. blank = t[1] /\ Len(t) # 0
      BY <1>1, <1>2, <1>3 DEF Init
    <3>2. ASSUME NEW j \in 1..Len(t)
          PROVE  next[t[j]] = IF j = Len(t) THEN EMPTY ELSE t[j + 1]
      <4>1. next[t[j]] = chain(j - 1, InitItem)
        BY <1>1, <1>2, <1>3 DEF Init
      <4>2. j = Len(t) <=> j - 1 = InitItem - 1
        BY <1>1, <1>3
      <4>3. j # Len(t) => t[j + 1] = j - 1 + 1
        BY <1>1, <1>2, <1>3
      <4> QED
        BY <4>1, <4>2, <4>3 DEF chain
    <3> QED
      BY <2>1, <3>1, <3>2, <1>3, <1>4 DEF Chained
  <2>2. CASE k # EMPTY
    <3>1. first[k] = EMPTY
      BY <2>2 DEF Init, Key
    <3> QED
      BY <2>2, <3>1, <1>4 DEF Chained
  <2> QED
    BY <2>1, <2>2
<1>7. Once(InitNode, InitItem, L)
  <2>1. ASSUME NEW i \in I
        PROVE  \E k \in Key(InitNode) : \E j \in 1..Len(L[k]) : L[k][j] = i
    <3>1. i + 1 \in 1..Len(t) /\ t[i + 1] = i
      BY <1>1, <1>2, <1>3
    <3> QED
      BY <3>1, <1>4
  <2>2. ASSUME NEW k1 \in Key(InitNode), NEW k2 \in Key(InitNode),
               NEW j1 \in 1..Len(L[k1]), NEW j2 \in 1..Len(L[k2]),
               L[k1][j1] = L[k2][j2]
        PROVE  k1 = k2 /\ j1 = j2
    <3>1. k1 = EMPTY /\ k2 = EMPTY
      BY <1>4
    <3>2. j1 \in 1..InitItem /\ j2 \in 1..InitItem /\ j1 - 1 = j2 - 1
      BY <2>2, <3>1, <1>2, <1>3, <1>4
    <3> QED
      BY <3>1, <3>2
  <2> QED
    BY <2>1, <2>2 DEF Once
<1>8. \A i \in I : ref[i] = EMPTY <=> \E j \in 1..Len(L[EMPTY]) : L[EMPTY][j] = i
  <2> TAKE i \in I
  <2>1. i + 1 \in 1..Len(t) /\ t[i + 1] = i
    BY <1>1, <1>2, <1>3
  <2>2. ref[i] = EMPTY
    BY DEF Init
  <2> QED
    BY <2>1, <2>2, <1>4
<1>9. Threads(InitNode, InitItem, first, next, ref, blank, L)
  BY <1>4, <1>5, <1>6, <1>7, <1>8 DEF Threads
<1>10. nnode = InitNode /\ nitem = InitItem
  BY <1>9, Sizes DEF nnode, nitem
<1> QED
  BY <1>1, <1>9, <1>10 DEF IndInv, Threaded

(***************************************************************************)
(* The two arrays that ref_adj_add may grow: both stay within the largest  *)
(* int, the node is inside, and a grown pool has an unused item.           *)
(***************************************************************************)
LEMMA FirstFor ==
    ASSUME NEW L, Threaded(L), nnode <= MaxInt, NEW node \in Node
    PROVE  \E N2 \in Nat :
              /\ nnode <= N2 /\ N2 <= MaxInt /\ node \in 0..(N2 - 1)
              /\ first_for(node) = [i \in 0..(N2 - 1) |->
                                      IF i < nnode THEN first[i] ELSE EMPTY]
<1>1. /\ nnode \in Nat \ {0} /\ MaxInt \in Nat /\ GrowNode \in Nat \ {0}
      /\ node \in Nat /\ node + GrowNode <= MaxInt
      /\ first \in [0..(nnode - 1) -> 0..(nitem - 1) \cup {EMPTY}]
  BY SizeAssumption, NodeAssumption DEF Threaded, Threads, Typed, Node
<1>2. CASE node < nnode
  <2>1. first = [i \in 0..(nnode - 1) |-> IF i < nnode THEN first[i] ELSE EMPTY]
    BY <1>1
  <2> QED
    BY <1>1, <1>2, <2>1 DEF first_for
<1>3. CASE ~ (node < nnode)
  <2> DEFINE more == Max({0, node - nnode})
             half == nnode \div 2
             size == Max({GrowNode + more, half})
             end == nnode + Min({size, MaxInt - nnode})
  <2>1. more = node - nnode
    <3>1. 0 \in Int /\ node - nnode \in Int /\ node - nnode >= 0
      BY <1>1, <1>3
    <3> QED
      BY <3>1, TwoMax
  <2>2. half \in Nat
    BY <1>1
  <2> HIDE DEF more, half
  <2>3. size \in Nat /\ size >= GrowNode + (node - nnode)
    <3>1. GrowNode + more \in Nat /\ half \in Int
      BY <1>1, <1>3, <2>1, <2>2
    <3>2. size = IF GrowNode + more >= half THEN GrowNode + more ELSE half
      BY <3>1, TwoMax
    <3> QED
      BY <2>1, <2>2, <3>1, <3>2
  <2> HIDE DEF size
  <2>4. end \in Nat /\ nnode <= end /\ end <= MaxInt /\ node < end
    <3>1. size \in Int /\ MaxInt - nnode \in Int
      BY <1>1, <2>3
    <3>2. Min({size, MaxInt - nnode}) = IF size <= MaxInt - nnode THEN size ELSE MaxInt - nnode
      BY <3>1, TwoMax
    <3> QED
      BY <3>2, <1>1, <1>3, <2>3
  <2>5. first_for(node) = [i \in 0..(end - 1) |-> IF i < nnode THEN first[i] ELSE EMPTY]
    BY <1>3 DEF first_for, size, more, half
  <2> HIDE DEF end
  <2>6. node \in 0..(end - 1)
    BY <1>1, <2>4
  <2> QED
    BY <2>4, <2>5, <2>6
<1> QED
  BY <1>2, <1>3

(* The growth of the pool in ref_adj_add: the old items stay, the new ones *)
(* are chained behind blank.                                               *)
LEMMA MoreItemsForm ==
    ASSUME NEW L, Threaded(L), nitem <= MaxInt, nitem # MaxInt
    PROVE  \E M2 \in Nat :
              /\ nitem < M2 /\ M2 <= MaxInt
              /\ more_items.next = [i \in 0..(M2 - 1) |->
                                      IF i < nitem THEN next[i] ELSE chain(i, M2)]
              /\ more_items.ref = [i \in 0..(M2 - 1) |->
                                      IF i < nitem THEN ref[i] ELSE EMPTY]
              /\ more_items.blank = nitem
<1> DEFINE half == nitem \div 2
           size == Max({GrowItem, half})
           end == nitem + Min({size, MaxInt - nitem})
<1>1. nitem \in Nat \ {0} /\ MaxInt \in Nat /\ GrowItem \in Nat \ {0} /\ half \in Nat
  BY SizeAssumption DEF Threaded, Threads, Typed
<1> HIDE DEF half
<1>2. size \in Nat /\ size >= 1
  <2>1. size = IF GrowItem >= half THEN GrowItem ELSE half
    BY <1>1, TwoMax
  <2> QED
    BY <1>1, <2>1
<1> HIDE DEF size
<1>3. end \in Nat /\ nitem < end /\ end <= MaxInt
  <2>1. size \in Int /\ MaxInt - nitem \in Int
    BY <1>1, <1>2
  <2>2. Min({size, MaxInt - nitem}) = IF size <= MaxInt - nitem THEN size ELSE MaxInt - nitem
    BY <2>1, TwoMax
  <2> QED
    BY <2>2, <1>1, <1>2
<1>4. /\ more_items.next = [i \in 0..(end - 1) |-> IF i < nitem THEN next[i] ELSE chain(i, end)]
      /\ more_items.ref = [i \in 0..(end - 1) |-> IF i < nitem THEN ref[i] ELSE EMPTY]
      /\ more_items.blank = nitem
  BY DEF more_items, size, half
<1> HIDE DEF end
<1> QED
  BY <1>3, <1>4

(***************************************************************************)
(* ref_adj_add before it links the item: room for the node, an unused item *)
(* in the pool, and the same lists.                                        *)
(***************************************************************************)
Ready(node, L, N2, M2, L1) ==
    /\ N2 <= MaxInt /\ M2 <= MaxInt /\ nnode <= N2 /\ nitem <= M2
    /\ node \in 0..(N2 - 1)
    /\ Threads(N2, M2, first_for(node), pool.next, pool.ref, pool.blank, L1)
    /\ pool.blank # EMPTY
    /\ \A k \in Nat : listOf(N2, L1, k) = listOf(nnode, L, k)
    /\ \A i \in 0..(nitem - 1) : pool.ref[i] = ref[i]

(* After the growths of ref_adj_add there is an unused item and a place    *)
(* for the node, and no list has changed.                                  *)
LEMMA PoolThreads ==
    ASSUME NEW L, Threaded(L), nnode <= MaxInt, nitem <= MaxInt,
           NEW node \in Node, blank = EMPTY => nitem # MaxInt
    PROVE  \E N2, M2 \in Nat : \E L1 : Ready(node, L, N2, M2, L1)
<1>1. PICK N2 \in Nat :
              /\ nnode <= N2 /\ N2 <= MaxInt /\ node \in 0..(N2 - 1)
              /\ first_for(node) = [i \in 0..(N2 - 1) |->
                                      IF i < nnode THEN first[i] ELSE EMPTY]
  BY FirstFor
<1> DEFINE L0 == [k \in Key(N2) |-> IF k \in Key(nnode) THEN L[k] ELSE <<>>]
<1>2. Threads(N2, nitem, first_for(node), next, ref, blank, L0)
  BY <1>1, MoreNodes DEF Threaded
<1>3. /\ nnode \in Nat \ {0} /\ nitem \in Nat \ {0}
      /\ L \in [Key(nnode) -> Seq(0..(nitem - 1))]
      /\ ref \in [0..(nitem - 1) -> Ref \cup {EMPTY}]
  BY DEF Threaded, Threads, Typed
<1>4. \A k \in Nat : listOf(N2, L0, k) = listOf(nnode, L, k)
  <2> TAKE k \in Nat
  <2>1. CASE k \in 0..(nnode - 1)
    <3>1. k \in 0..(N2 - 1) /\ k \in Key(nnode) /\ k \in Key(N2)
      BY <2>1, <1>1, <1>3 DEF Key
    <3> QED
      BY <2>1, <3>1 DEF listOf
  <2>2. CASE k \notin 0..(nnode - 1) /\ k \in 0..(N2 - 1)
    <3>1. k \notin Key(nnode) /\ k \in Key(N2)
      BY <2>2 DEF Key, EMPTY
    <3> QED
      BY <2>2, <3>1 DEF listOf
  <2>3. CASE k \notin 0..(N2 - 1)
    <3>1. k \notin 0..(nnode - 1)
      BY <2>3, <1>1, <1>3
    <3> QED
      BY <2>3, <3>1 DEF listOf
  <2> QED
    BY <2>1, <2>2, <2>3
<1> HIDE DEF L0
<1>5. CASE blank # EMPTY
  <2>1. pool.next = next /\ pool.ref = ref /\ pool.blank = blank
    BY <1>5 DEF pool
  <2>2. Ready(node, L, N2, nitem, L0)
    BY <1>1, <1>2, <1>3, <1>4, <1>5, <2>1 DEF Ready
  <2> QED
    BY <1>3, <2>2
<1>6. CASE blank = EMPTY
  <2>1. PICK M2 \in Nat :
              /\ nitem < M2 /\ M2 <= MaxInt
              /\ more_items.next = [i \in 0..(M2 - 1) |->
                                      IF i < nitem THEN next[i] ELSE chain(i, M2)]
              /\ more_items.ref = [i \in 0..(M2 - 1) |->
                                      IF i < nitem THEN ref[i] ELSE EMPTY]
              /\ more_items.blank = nitem
    BY <1>6, MoreItemsForm
  <2>2. pool = more_items
    BY <1>6 DEF pool
  <2> DEFINE L1 == [L0 EXCEPT ![EMPTY] = [j \in 1..(M2 - nitem) |-> nitem + j - 1]]
  <2>3. Threads(N2, M2, first_for(node), pool.next, pool.ref, pool.blank, L1)
    BY <1>2, <1>6, <2>1, <2>2, MoreItems
  <2>4. \A k \in Nat : listOf(N2, L1, k) = listOf(N2, L0, k)
    <3>1. \A k \in Nat : k # EMPTY
      BY DEF EMPTY
    <3>2. L0 \in [Key(N2) -> Seq(0..(nitem - 1))]
      BY <1>2 DEF Threads
    <3>3. \A k \in 0..(N2 - 1) : L1[k] = L0[k]
      BY <3>1, <3>2 DEF Key
    <3> HIDE DEF L1
    <3> QED
      BY <3>3 DEF listOf
  <2>5. pool.blank # EMPTY
    BY <1>3, <2>1, <2>2 DEF EMPTY
  <2>6. \A i \in 0..(nitem - 1) : pool.ref[i] = ref[i]
    BY <1>3, <2>1, <2>2
  <2>7. nitem <= M2
    BY <1>3, <2>1
  <2> HIDE DEF L1
  <2>8. Ready(node, L, N2, M2, L1)
    BY <1>1, <1>4, <2>1, <2>3, <2>4, <2>5, <2>6, <2>7 DEF Ready
  <2> QED
    BY <2>8
<1> QED
  BY <1>5, <1>6

(***************************************************************************)
(* What one step does to the lists.                                        *)
(***************************************************************************)
Threaded2(L2) == Threads(nnode', nitem', first', next', ref', blank', L2)

(* The lists after an addition. *)
Pushed(node, r, L, L2) ==
    /\ Threaded2(L2) /\ nnode' <= MaxInt /\ nitem' <= MaxInt
    /\ \E item \in 0..(nitem' - 1) :
          /\ listOf(nnode', L2, node) = <<item>> \o listOf(nnode, L, node)
          /\ ref'[item] = r
    /\ \A k \in Node : k # node => listOf(nnode', L2, k) = listOf(nnode, L, k)
    /\ \A k \in Node : \A j \in 1..Len(listOf(nnode, L, k)) :
          ref'[listOf(nnode, L, k)[j]] = ref[listOf(nnode, L, k)[j]]

(* ref_adj_add puts the first unused item in front of the node's list. *)
LEMMA AddStep ==
    ASSUME NEW L, Threaded(L), nnode <= MaxInt, nitem <= MaxInt,
           NEW node \in Node, NEW r \in Ref, Add(node, r)
    PROVE  \E L2 : Pushed(node, r, L, L2)
<1>a. PICK N2 \in Nat, M2 \in Nat : \E L1 : Ready(node, L, N2, M2, L1)
  BY PoolThreads DEF Add
<1>1. PICK L1 : Ready(node, L, N2, M2, L1)
  BY <1>a
<1> DEFINE f == first_for(node)
           item == pool.blank
           L2 == [L1 EXCEPT ![node] = <<item>> \o L1[node], ![EMPTY] = Tail(L1[EMPTY])]
<1>2. /\ blank' = pool.next[item] /\ ref' = [pool.ref EXCEPT ![item] = r]
      /\ next' = [pool.next EXCEPT ![item] = f[node]]
      /\ first' = [f EXCEPT ![node] = item]
  BY DEF Add
<1>3. Threads(N2, M2, f, pool.next, pool.ref, item, L1) /\ item # EMPTY
      /\ node \in 0..(N2 - 1)
  BY <1>1 DEF Ready
<1> HIDE DEF f, item
<1>4. Threads(N2, M2, first', next', ref', blank', L2)
  BY <1>2, <1>3, PushThreads
<1>5. nnode' = N2 /\ nitem' = M2
  BY <1>4, Sizes DEF nnode, nitem
<1>6. /\ L1 \in [Key(N2) -> Seq(0..(M2 - 1))] /\ item \in 0..(M2 - 1)
      /\ pool.ref \in [0..(M2 - 1) -> Ref \cup {EMPTY}]
      /\ N2 \in Nat \ {0} /\ M2 \in Nat \ {0}
  BY <1>3 DEF Threads, Typed
<1>7. \A k \in Nat : listOf(N2, L1, k) = listOf(nnode, L, k)
  BY <1>1 DEF Ready
<1>8. Node \subseteq Nat /\ \A k \in Nat : k # EMPTY
  BY NodeAssumption DEF Node, EMPTY
<1>9. listOf(N2, L2, node) = <<item>> \o listOf(nnode, L, node)
  <2>1. L2[node] = <<item>> \o L1[node]
    BY <1>3, <1>6, <1>8 DEF Key
  <2>2. listOf(N2, L1, node) = L1[node] /\ listOf(N2, L2, node) = L2[node]
    BY <1>3 DEF listOf
  <2> QED
    BY <2>1, <2>2, <1>7, <1>8
<1>10. ASSUME NEW k \in Node, k # node
       PROVE  listOf(N2, L2, k) = listOf(nnode, L, k)
  <2>1. k \in 0..(N2 - 1) => L2[k] = L1[k]
    BY <1>10, <1>6, <1>8 DEF Key
  <2>2. listOf(N2, L2, k) = listOf(N2, L1, k)
    BY <2>1 DEF listOf
  <2> QED
    BY <2>2, <1>7, <1>8
<1>11. ref'[item] = r
  BY <1>2, <1>6
<1>12. ASSUME NEW k \in Node, NEW j \in 1..Len(listOf(nnode, L, k))
       PROVE  ref'[listOf(nnode, L, k)[j]] = ref[listOf(nnode, L, k)[j]]
  <2> DEFINE i == listOf(nnode, L, k)[j]
  <2>1. k \in 0..(nnode - 1) /\ listOf(nnode, L, k) = L[k]
    BY EmptySeq DEF listOf
  <2>2. L[k] \in Seq(0..(nitem - 1)) /\ i \in 0..(nitem - 1)
    <3>1. L[k] \in Seq(0..(nitem - 1))
      BY <2>1 DEF Threaded, Threads, Key
    <3>2. j \in 1..Len(L[k]) /\ i = L[k][j]
      BY <2>1
    <3> HIDE DEF i
    <3> QED
      BY <3>1, <3>2, ElementOfSeq
  <2>3. pool.ref[i] = ref[i] /\ nitem \in Nat /\ nitem <= M2
    BY <1>1, <2>2 DEF Ready, Threaded, Threads, Typed
  <2>4. i # item
    <3>1. k \in 0..(N2 - 1) /\ i = L1[k][j] /\ j \in 1..Len(L1[k])
      <4>1. listOf(N2, L1, k) = listOf(nnode, L, k)
        BY <1>7, <1>8
      <4>2. CASE k \in 0..(N2 - 1)
        BY <4>1, <4>2 DEF listOf
      <4>3. CASE k \notin 0..(N2 - 1)
        BY <4>1, <4>3, EmptySeq DEF listOf
      <4> QED
        BY <4>2, <4>3
    <3>2. k \in Key(N2) /\ EMPTY \in Key(N2) /\ k # EMPTY
      BY <3>1, <1>8 DEF Key
    <3>3. item = L1[EMPTY][1] /\ 1 \in 1..Len(L1[EMPTY])
      <4>1. Chained(M2, pool.next, L1[EMPTY], item)
        BY <1>3, <3>2 DEF Threads
      <4>2. Len(L1[EMPTY]) # 0 /\ Len(L1[EMPTY]) \in Nat /\ item = L1[EMPTY][1]
        BY <4>1, <1>3 DEF Chained
      <4> QED
        BY <4>2
    <3> HIDE DEF i
    <3>4. \A k1, k2 \in Key(N2) : \A j1 \in 1..Len(L1[k1]), j2 \in 1..Len(L1[k2]) :
             L1[k1][j1] = L1[k2][j2] => k1 = k2 /\ j1 = j2
      BY <1>3 DEF Threads, Once
    <3> QED
      BY <3>1, <3>2, <3>3, <3>4
  <2> HIDE DEF i
  <2>5. i \in 0..(M2 - 1)
    BY <2>2, <2>3
  <2>6. ref'[i] = pool.ref[i]
    BY <1>2, <1>6, <2>4, <2>5
  <2> QED
    BY <2>3, <2>6 DEF i
<1> HIDE DEF L2
<1>13. N2 <= MaxInt /\ M2 <= MaxInt
  BY <1>1 DEF Ready
<1>14. Pushed(node, r, L, L2)
  BY <1>4, <1>5, <1>6, <1>9, <1>10, <1>11, <1>12, <1>13 DEF Pushed, Threaded2
<1> QED
  BY <1>14

(* ref_adj_add that cannot grow the pool leaves the lists alone. *)
Kept(L, L2) ==
    /\ Threaded2(L2) /\ nnode' <= MaxInt /\ nitem' <= MaxInt
    /\ \A k \in Node : listOf(nnode', L2, k) = listOf(nnode, L, k)
    /\ ref' = ref

(* When the pool cannot grow, ref_adj_add leaves every list as it is. *)
LEMMA AddFullStep ==
    ASSUME NEW L, Threaded(L), nnode <= MaxInt, nitem <= MaxInt,
           NEW node \in Node, AddFull(node)
    PROVE  \E L2 : Kept(L, L2)
<1>1. PICK N2 \in Nat :
              /\ nnode <= N2 /\ N2 <= MaxInt /\ node \in 0..(N2 - 1)
              /\ first_for(node) = [i \in 0..(N2 - 1) |->
                                      IF i < nnode THEN first[i] ELSE EMPTY]
  BY FirstFor
<1> DEFINE L2 == [k \in Key(N2) |-> IF k \in Key(nnode) THEN L[k] ELSE <<>>]
<1>2. Threads(N2, nitem, first', next', ref', blank', L2)
  <2>1. Threads(N2, nitem, first_for(node), next, ref, blank, L2)
    BY <1>1, MoreNodes DEF Threaded
  <2> QED
    BY <2>1 DEF AddFull
<1>3. nnode' = N2 /\ nitem' = nitem
  BY <1>2, Sizes DEF nnode, nitem
<1>4. nnode \in Nat \ {0}
  BY DEF Threaded, Threads, Typed
<1>5. Node \subseteq Nat
  BY NodeAssumption DEF Node
<1>6. ASSUME NEW k \in Node PROVE listOf(N2, L2, k) = listOf(nnode, L, k)
  <2>1. CASE k \in 0..(nnode - 1)
    <3>1. k \in 0..(N2 - 1) /\ k \in Key(nnode) /\ k \in Key(N2)
      BY <2>1, <1>1, <1>4 DEF Key
    <3> QED
      BY <2>1, <3>1 DEF listOf
  <2>2. CASE k \notin 0..(nnode - 1) /\ k \in 0..(N2 - 1)
    <3>1. k \notin Key(nnode) /\ k \in Key(N2)
      BY <2>2 DEF Key, EMPTY
    <3> QED
      BY <2>2, <3>1 DEF listOf
  <2>3. CASE k \notin 0..(N2 - 1)
    <3>1. k \notin 0..(nnode - 1)
      BY <2>3, <1>1, <1>4, <1>5
    <3> QED
      BY <2>3, <3>1 DEF listOf
  <2> QED
    BY <2>1, <2>2, <2>3
<1> HIDE DEF L2
<1>7. Kept(L, L2)
  BY <1>1, <1>2, <1>3, <1>6 DEF Kept, Threaded2, AddFull
<1> QED
  BY <1>7

(* ref_adj_remove takes out the first item with the reference. *)
Dropped(node, r, L, L2) ==
    /\ Threaded2(L2) /\ nnode' <= MaxInt /\ nitem' <= MaxInt
    /\ \E p \in 1..Len(listOf(nnode, L, node)) :
          /\ ref[listOf(nnode, L, node)[p]] = r
          /\ \A j \in 1..(p - 1) : ref[listOf(nnode, L, node)[j]] # r
          /\ listOf(nnode', L2, node) = without(listOf(nnode, L, node), p)
          /\ \A k \in Node : \A j \in 1..Len(listOf(nnode, L, k)) :
                k # node \/ j # p =>
                   ref'[listOf(nnode, L, k)[j]] = ref[listOf(nnode, L, k)[j]]
    /\ \A k \in Node : k # node => listOf(nnode', L2, k) = listOf(nnode, L, k)

(* ref_adj_remove takes the first item with the reference out of the       *)
(* node's list and returns it to the unused ones.                          *)
LEMMA RemoveStep ==
    ASSUME NEW L, Threaded(L), nnode <= MaxInt, nitem <= MaxInt,
           NEW node \in Node, NEW r \in Ref, Remove(node, r)
    PROVE  \E L2 : Dropped(node, r, L, L2)
<1> DEFINE list == listOf(nnode, L, node)
           at == {j \in 1..Len(list) : ref[list[j]] = r}
           p == Min(at)
           item == list[p]
           parent == IF p = 1 THEN EMPTY ELSE list[p - 1]
<1>1. Node \subseteq Nat /\ \A k \in Nat : k # EMPTY
  BY NodeAssumption DEF Node, EMPTY
<1>2. items(first_item(node)) = list
  BY <1>1, Contents
<1>3. /\ nnode \in Nat \ {0} /\ nitem \in Nat \ {0}
      /\ L \in [Key(nnode) -> Seq(0..(nitem - 1))]
      /\ ref \in [0..(nitem - 1) -> Ref \cup {EMPTY}]
      /\ DOMAIN next = 0..(nitem - 1)
  BY DEF Threaded, Threads, Typed
<1>4. list \in Seq(0..(nitem - 1)) /\ Len(list) \in Nat /\ DOMAIN list = 1..Len(list)
  <2>1. node \in 0..(nnode - 1) => L[node] \in Seq(0..(nitem - 1))
    BY <1>3 DEF Key
  <2>2. list \in Seq(0..(nitem - 1))
    BY <2>1, EmptySeq DEF listOf
  <2> HIDE DEF list
  <2> QED
    BY <2>2, LenProperties
<1>5. occurrences(node, r) = at
  BY <1>2, <1>4 DEF occurrences
<1>6. at # {} /\ Unlink(node, item, parent) /\ ref' = [ref EXCEPT ![item] = EMPTY]
      /\ blank' = item
  BY <1>2, <1>5 DEF Remove
<1>7. p \in at /\ \A j \in at : p <= j
  <2>1. at \in SUBSET Nat
    BY <1>4
  <2>2. \E m \in at : \A j \in at : m <= j
    <3> HIDE DEF at
    <3> QED
      BY <1>6, <2>1, LeastNatural
  <2> HIDE DEF at
  <2> QED
    BY <2>2 DEF Min
<1> HIDE DEF p
<1>8. p \in 1..Len(list) /\ ref[list[p]] = r /\ \A j \in 1..(p - 1) : ref[list[j]] # r
  BY <1>4, <1>7
<1>9. node \in 0..(nnode - 1) /\ list = L[node]
  BY <1>8, EmptySeq DEF listOf
<1> DEFINE L2 == listsUnlinked(L, node, p, item)
<1>10. Threads(nnode, nitem, first', next', ref', blank', L2)
  <2>1. p \in 1..Len(L[node]) /\ item = L[node][p]
        /\ parent = IF p = 1 THEN EMPTY ELSE L[node][p - 1]
    BY <1>8, <1>9
  <2>2. /\ first' = firstUnlinked(first, next, node, item, parent)
        /\ next' = nextUnlinked(next, blank, item, parent)
    BY <1>6 DEF Unlink, firstUnlinked, nextUnlinked
  <2>3. ref' = [ref EXCEPT ![item] = EMPTY] /\ blank' = item
    BY <1>6
  <2> HIDE DEF item, parent, list, at
  <2>4. Threads(nnode, nitem, first, next, ref, blank, L)
    BY DEF Threaded
  <2>5. Threads(nnode, nitem, firstUnlinked(first, next, node, item, parent),
                nextUnlinked(next, blank, item, parent), [ref EXCEPT ![item] = EMPTY],
                item, L2)
    BY <2>1, <2>4, <1>9, UnlinkThreads
  <2> QED
    BY <2>2, <2>3, <2>5
<1>11. nnode' = nnode /\ nitem' = nitem
  BY <1>10, Sizes DEF nnode, nitem
<1>12. listOf(nnode, L2, node) = without(list, p)
  BY <1>1, <1>3, <1>9 DEF listOf, Key, listsUnlinked
<1>13. \A k \in Node : k # node => listOf(nnode, L2, k) = listOf(nnode, L, k)
  <2> TAKE k \in Node
  <2> HAVE k # node
  <2>1. k \in 0..(nnode - 1) => L2[k] = L[k]
    BY <1>1, <1>3 DEF Key, listsUnlinked
  <2> HIDE DEF L2
  <2> QED
    BY <2>1 DEF listOf
<1>14. ASSUME NEW k \in Node, NEW j \in 1..Len(listOf(nnode, L, k)), k # node \/ j # p
       PROVE  ref'[listOf(nnode, L, k)[j]] = ref[listOf(nnode, L, k)[j]]
  <2>1. k \in 0..(nnode - 1) /\ listOf(nnode, L, k) = L[k]
    BY EmptySeq DEF listOf
  <2>2. k \in Key(nnode) /\ node \in Key(nnode)
    BY <2>1, <1>9 DEF Key
  <2>3. L[k][j] # item
    BY <1>8, <1>9, <1>14, <2>1, <2>2 DEF Threaded, Threads, Once
  <2>4. L[k][j] \in 0..(nitem - 1)
    BY <1>3, <2>1, <2>2
  <2> QED
    BY <1>3, <1>6, <2>1, <2>3, <2>4
<1> HIDE DEF L2, list, item, parent, at
<1>15. Dropped(node, r, L, L2)
  BY <1>8, <1>10, <1>11, <1>12, <1>13, <1>14 DEF Dropped, Threaded2, list
<1> QED
  BY <1>15

-----------------------------------------------------------------------------
(***************************************************************************)
(* Every call of ref_adj.c keeps the arrays threaded by some lists.        *)
(***************************************************************************)
LEMMA IndInvNext == IndInv /\ [Next]_vars => IndInv'
<1> SUFFICES ASSUME IndInv, [Next]_vars PROVE IndInv'
  OBVIOUS
<1>1. PICK L : Threaded(L)
  BY DEF IndInv
<1>2. nnode <= MaxInt /\ nitem <= MaxInt
  BY DEF IndInv
<1>3. \A L2 : Threaded2(L2) /\ nnode' <= MaxInt /\ nitem' <= MaxInt => IndInv'
  BY DEF IndInv, Threaded, Threaded2
<1>4. ASSUME NEW node \in Node, NEW r \in Ref, Add(node, r) PROVE IndInv'
  <2>1. PICK L2 : Pushed(node, r, L, L2)
    BY <1>1, <1>2, <1>4, AddStep
  <2> QED
    BY <2>1, <1>3 DEF Pushed
<1>5. ASSUME NEW node \in Node, AddFull(node) PROVE IndInv'
  <2>1. PICK L2 : Kept(L, L2)
    BY <1>1, <1>2, <1>5, AddFullStep
  <2> QED
    BY <2>1, <1>3 DEF Kept
<1>6. ASSUME NEW node \in Node, NEW r \in Ref, Remove(node, r) PROVE IndInv'
  <2>1. PICK L2 : Dropped(node, r, L, L2)
    BY <1>1, <1>2, <1>6, RemoveStep
  <2> QED
    BY <2>1, <1>3 DEF Dropped
<1>7. ASSUME UNCHANGED vars PROVE IndInv'
  <2>1. nnode' = nnode /\ nitem' = nitem
    BY <1>7 DEF vars, nnode, nitem
  <2>2. Threaded2(L)
    BY <1>1, <1>7, <2>1 DEF vars, Threaded, Threaded2
  <2> QED
    BY <1>2, <1>3, <2>1, <2>2
<1> QED
  BY <1>4, <1>5, <1>6, <1>7 DEF Next, AddUniquely

(* The lists exist behind the pointers in every reachable state. *)
LEMMA IndInvAlways == Spec => []IndInv
  BY IndInvInit, IndInvNext, PTL DEF Spec

(* The list that PoolExact follows from starts[k]: that of node k, or the  *)
(* unused items for the number after the last node.                        *)
keyOf(k) == IF k = nnode THEN EMPTY ELSE k

(* The lists make the pool exact. *)
LEMMA Exact == IndInv => PoolExact
<1> SUFFICES ASSUME IndInv PROVE PoolExact
  OBVIOUS
<1>1. PICK L : Threaded(L)
  BY DEF IndInv
<1>2. /\ nnode \in Nat \ {0} /\ nitem \in Nat \ {0}
      /\ nnode <= MaxInt /\ nitem <= MaxInt
  BY <1>1 DEF IndInv, Threaded, Threads, Typed
<1>3. TypeOK
  <2>1. Typed(nnode, nitem, first, next, ref, blank) /\ MaxInt \in Nat
    BY <1>1, SizeAssumption DEF Threaded, Threads
  <2> QED
    BY <1>2, <2>1 DEF Typed, TypeOK
<1> DEFINE starts == [k \in 0..nnode |-> IF k = nnode THEN blank ELSE first[k]]
           on(k) == {items(starts[k])[i] : i \in DOMAIN items(starts[k])}
           ends(k) == starts[k] = EMPTY \/
                      LET list == items(starts[k]) IN next[list[Len(list)]] = EMPTY
<1>4. ASSUME NEW k \in 0..nnode
      PROVE  /\ keyOf(k) \in Key(nnode) /\ items(starts[k]) = L[keyOf(k)]
             /\ Chained(nitem, next, L[keyOf(k)], starts[k])
  <2>1. CASE k = nnode
    <3>1. keyOf(k) = EMPTY /\ EMPTY \in Key(nnode) /\ starts[k] = blank
      BY <2>1 DEF keyOf, Key
    <3>2. items(blank) = L[EMPTY]
      BY <1>1, Contents
    <3>3. Chained(nitem, next, L[EMPTY], blank)
      BY <1>1, <3>1 DEF Threaded, Threads
    <3> QED
      BY <3>1, <3>2, <3>3
  <2>2. CASE k # nnode
    <3>1. k \in 0..(nnode - 1) /\ k \in Nat
      BY <1>2, <2>2
    <3>2. keyOf(k) = k /\ k \in Key(nnode) /\ k # EMPTY
      BY <2>2, <3>1 DEF keyOf, Key, EMPTY
    <3>3. starts[k] = first[k] /\ DOMAIN first = 0..(nnode - 1)
      BY <2>2, <1>3 DEF TypeOK
    <3>4. items(first_item(k)) = listOf(nnode, L, k)
      BY <1>1, <3>1, Contents
    <3>5. first_item(k) = first[k] /\ listOf(nnode, L, k) = L[k]
      BY <3>1, <3>3 DEF first_item, listOf
    <3>6. Chained(nitem, next, L[k], first[k])
      BY <1>1, <3>2 DEF Threaded, Threads
    <3> HIDE DEF starts
    <3> QED
      BY <3>2, <3>3, <3>4, <3>5, <3>6
  <2> QED
    BY <2>1, <2>2
<1> HIDE DEF starts
<1>5. ASSUME NEW k \in 0..nnode PROVE ends(k)
  <2> DEFINE list == L[keyOf(k)]
  <2>1. Chained(nitem, next, list, starts[k]) /\ items(starts[k]) = list
    BY <1>4
  <2> HIDE DEF list
  <2>2. Len(list) \in Nat
    BY <2>1 DEF Chained
  <2>3. Len(list) # 0 => next[list[Len(list)]] = EMPTY
    BY <2>1, <2>2 DEF Chained
  <2>4. Len(list) = 0 => starts[k] = EMPTY
    BY <2>1 DEF Chained
  <2> QED
    BY <2>1, <2>3, <2>4
<1>6. ASSUME NEW k \in 0..nnode
      PROVE  on(k) = {L[keyOf(k)][j] : j \in 1..Len(L[keyOf(k)])}
  <2>1. items(starts[k]) = L[keyOf(k)] /\ L[keyOf(k)] \in Seq(0..(nitem - 1))
    BY <1>4 DEF Chained
  <2>2. DOMAIN L[keyOf(k)] = 1..Len(L[keyOf(k)])
    BY <2>1, LenProperties
  <2> QED
    BY <2>1, <2>2
<1>7. \A k1, k2 \in 0..nnode : keyOf(k1) = keyOf(k2) => k1 = k2
  BY <1>2 DEF keyOf, EMPTY
<1>8. \A key \in Key(nnode) : \E k \in 0..nnode : keyOf(k) = key
  <2> TAKE key \in Key(nnode)
  <2>1. CASE key = EMPTY
    <3>1. keyOf(nnode) = EMPTY /\ nnode \in 0..nnode
      BY <1>2 DEF keyOf
    <3> QED
      BY <2>1, <3>1
  <2>2. CASE key # EMPTY
    <3>1. key \in 0..nnode /\ keyOf(key) = key
      BY <1>2, <2>2 DEF keyOf, Key
    <3> QED
      BY <3>1
  <2> QED
    BY <2>1, <2>2
<1> HIDE DEF on, ends
<1>9. ASSUME NEW i \in 0..(nitem - 1)
      PROVE  Cardinality({k \in 0..nnode : i \in on(k)}) = 1
  <2>1. Once(nnode, nitem, L)
    BY <1>1 DEF Threaded, Threads
  <2>2. PICK key \in Key(nnode) : \E j \in 1..Len(L[key]) : L[key][j] = i
    BY <2>1 DEF Once
  <2>3. PICK k \in 0..nnode : keyOf(k) = key
    BY <1>8
  <2>4. i \in on(k)
    BY <2>2, <2>3, <1>6
  <2>5. ASSUME NEW k2 \in 0..nnode, i \in on(k2) PROVE k2 = k
    <3>1. PICK j2 \in 1..Len(L[keyOf(k2)]) : L[keyOf(k2)][j2] = i
      BY <1>6, <2>5
    <3>2. keyOf(k2) \in Key(nnode)
      BY <1>4
    <3>3. keyOf(k2) = key
      BY <2>1, <2>2, <3>1, <3>2 DEF Once
    <3> QED
      BY <2>3, <3>3, <1>7
  <2>6. {k2 \in 0..nnode : i \in on(k2)} = {k}
    BY <2>4, <2>5
  <2> QED
    BY <2>6, FS_Singleton
<1>10. on(nnode) = {i \in 0..(nitem - 1) : ref[i] = EMPTY}
  <2>1. nnode \in 0..nnode /\ keyOf(nnode) = EMPTY
    BY <1>2 DEF keyOf
  <2>2. on(nnode) = {L[EMPTY][j] : j \in 1..Len(L[EMPTY])}
    BY <1>6, <2>1
  <2>3. /\ L[EMPTY] \in Seq(0..(nitem - 1))
        /\ \A i \in 0..(nitem - 1) :
              ref[i] = EMPTY <=> \E j \in 1..Len(L[EMPTY]) : L[EMPTY][j] = i
    BY <1>1 DEF Threaded, Threads, Key
  <2>4. \A j \in 1..Len(L[EMPTY]) : L[EMPTY][j] \in 0..(nitem - 1)
    BY <2>3, ElementOfSeq
  <2> QED
    BY <2>2, <2>3, <2>4
<1> QED
  BY <1>3, <1>5, <1>9, <1>10 DEF PoolExact, starts, on, ends

(***************************************************************************)
(* The pool of ref_adj.c is exact for every size, growth and sequence of   *)
(* calls: all lists end, every item is on exactly one of them, and the     *)
(* unused ones are those without a reference.                              *)
(***************************************************************************)
THEOREM PoolStaysExact == Spec => []PoolExact
  BY IndInvAlways, Exact, PTL

-----------------------------------------------------------------------------
(***************************************************************************)
(* The pool implements the lists of AdjLists: the references along the     *)
(* items of a node are its list.                                           *)
(***************************************************************************)
LEMMA Refs ==
    \A L : Threaded(L) =>
       \A k \in Node : /\ refs(k) = refsOf(nnode, L, ref, k)
                       /\ listOf(nnode, L, k) \in Seq(0..(nitem - 1))
                       /\ ref \in [0..(nitem - 1) -> Ref \cup {EMPTY}]
<1> SUFFICES ASSUME NEW L, Threaded(L), NEW k \in Node
             PROVE  /\ refs(k) = refsOf(nnode, L, ref, k)
                    /\ listOf(nnode, L, k) \in Seq(0..(nitem - 1))
                    /\ ref \in [0..(nitem - 1) -> Ref \cup {EMPTY}]
  OBVIOUS
<1>1. k \in Nat
  BY NodeAssumption DEF Node
<1>2. items(first_item(k)) = listOf(nnode, L, k)
  BY <1>1, Contents
<1>3. listOf(nnode, L, k) \in Seq(0..(nitem - 1))
  <2>1. CASE k \in 0..(nnode - 1)
    BY <2>1 DEF listOf, Threaded, Threads, Key
  <2>2. CASE k \notin 0..(nnode - 1)
    BY <2>2, EmptySeq DEF listOf
  <2> QED
    BY <2>1, <2>2
<1>4. DOMAIN listOf(nnode, L, k) = 1..Len(listOf(nnode, L, k))
  BY <1>3, LenProperties
<1>5. refs(k) = refsOf(nnode, L, ref, k)
  BY <1>2, <1>4 DEF refs, refsOf
<1>6. ref \in [0..(nitem - 1) -> Ref \cup {EMPTY}]
  BY DEF Threaded, Threads, Typed
<1> QED
  BY <1>3, <1>5, <1>6

(* What the list of a node holds after a step, in terms of its items. *)
LEMMA RefsNext ==
    \A L : Threaded2(L) =>
       \A k \in Node : /\ refs(k)' = refsOf(nnode', L, ref', k)
                       /\ listOf(nnode', L, k) \in Seq(0..(nitem' - 1))
                       /\ ref' \in [0..(nitem' - 1) -> Ref \cup {EMPTY}]
<1>1. (\A L : Threaded(L) =>
         \A k \in Node : /\ refs(k) = refsOf(nnode, L, ref, k)
                         /\ listOf(nnode, L, k) \in Seq(0..(nitem - 1))
                         /\ ref \in [0..(nitem - 1) -> Ref \cup {EMPTY}])'
  BY Refs, PTL
<1> QED
  BY <1>1 DEF Threaded, Threaded2, refsOf, listOf

(* Taking out the first occurrence, as AdjLists says it. *)
LEMMA RemoveFirstForm ==
    ASSUME NEW S, NEW s \in Seq(S), NEW r, NEW p \in 1..Len(s), s[p] = r,
           \A j \in 1..(p - 1) : s[j] # r
    PROVE  Lists!RemoveFirst(s, r) = without(s, p) /\ Lists!Contains(s, r)
<1> DEFINE at == {i \in 1..Len(s) : s[i] = r}
<1>1. Len(s) \in Nat
  OBVIOUS
<1>2. p \in at /\ \A j \in at : p <= j
  BY <1>1
<1>3. at \subseteq Nat
  BY <1>1
<1> HIDE DEF at
<1>4. Min(at) = p
  <2>1. Min(at) \in at /\ \A j \in at : Min(at) <= j
    BY <1>2 DEF Min
  <2> DEFINE m == Min(at)
  <2>2. m \in Nat /\ p \in Nat /\ p <= m /\ m <= p
    BY <1>2, <1>3, <2>1
  <2> HIDE DEF m
  <2>3. m = p
    BY <2>2
  <2> QED
    BY <2>3 DEF m
<1>5. Lists!SelectInSeq(s, LAMBDA v : v = r) = p
  BY <1>2, <1>4 DEF Lists!SelectInSeq, at, Min, Lists!Min
<1>6. \E i \in 1..Len(s) : s[i] = r
  OBVIOUS
<1> QED
  BY <1>5, <1>6 DEF Lists!RemoveFirst, Lists!RemoveAt, without, Lists!Contains

(* A new adjacency is an empty list of every node. *)
LEMMA ListsInit == Init => Lists!Init
<1> SUFFICES ASSUME Init PROVE Lists!Init
  OBVIOUS
<1>1. PICK L : Threaded(L)
  BY IndInvInit DEF IndInv
<1>2. ASSUME NEW k \in Node PROVE refs(k) = <<>>
  <2>1. first_item(k) = EMPTY
    BY DEF first_item, Init
  <2>2. items(first_item(k)) = listOf(nnode, L, k)
    <3>1. k \in Nat
      BY NodeAssumption DEF Node
    <3> QED
      BY <1>1, <3>1, Contents
  <2>3. listOf(nnode, L, k) = <<>>
    <3>1. CASE k \notin 0..(nnode - 1)
      BY <3>1 DEF listOf
    <3>2. CASE k \in 0..(nnode - 1)
      <4>1. k \in Key(nnode) /\ k # EMPTY
        BY <3>2 DEF Key, EMPTY
      <4>2. Chained(nitem, next, L[k], first[k])
        BY <1>1, <4>1 DEF Threaded, Threads
      <4>3. DOMAIN first = 0..(nnode - 1)
        BY <1>1 DEF Threaded, Threads, Typed
      <4>4. first[k] = EMPTY
        BY <2>1, <3>2, <4>3 DEF first_item
      <4>5. L[k] \in Seq(0..(nitem - 1)) /\ (Len(L[k]) = 0 \/ L[k][1] = EMPTY)
        BY <4>2, <4>4 DEF Chained
      <4>6. Len(L[k]) = 0
        <5>1. Len(L[k]) # 0 => L[k][1] \in 0..(nitem - 1)
          <6>1. Len(L[k]) # 0 => 1 \in 1..Len(L[k])
            BY <4>5, LenProperties
          <6> QED
            BY <4>5, <6>1, ElementOfSeq
        <5> QED
          BY <4>5, <5>1 DEF EMPTY
      <4>7. L[k] = <<>>
        BY <4>5, <4>6, EmptySeq
      <4> QED
        BY <3>2, <4>7 DEF listOf
    <3> QED
      BY <3>1, <3>2
  <2> QED
    BY <2>2, <2>3 DEF refs
<1> QED
  BY <1>2 DEF Lists!Init

(* ref_adj_add puts the reference in front of the list of the node. *)
LEMMA ListsAdd ==
    ASSUME NEW L, Threaded(L), NEW L2, NEW node \in Node, NEW r \in Ref,
           Pushed(node, r, L, L2)
    PROVE  Lists!Add(node, r)
<1>1. Threaded2(L2)
  BY DEF Pushed
<1>2. \A k \in Node : /\ refs(k) = refsOf(nnode, L, ref, k)
                      /\ listOf(nnode, L, k) \in Seq(0..(nitem - 1))
  BY Refs
<1>3. \A k \in Node : /\ refs(k)' = refsOf(nnode', L2, ref', k)
                      /\ listOf(nnode', L2, k) \in Seq(0..(nitem' - 1))
  BY <1>1, RefsNext
<1>4. ref \in [0..(nitem - 1) -> Ref \cup {EMPTY}]
  BY Refs
<1>5. \A k \in Node : \A j \in 1..Len(listOf(nnode, L, k)) :
         ref'[listOf(nnode, L, k)[j]] = ref[listOf(nnode, L, k)[j]]
  BY DEF Pushed
<1>6. ASSUME NEW k \in Node, k # node PROVE refs(k)' = refs(k)
  <2>1. listOf(nnode', L2, k) = listOf(nnode, L, k)
    BY <1>6 DEF Pushed
  <2>2. refsOf(nnode', L2, ref', k) = refsOf(nnode, L, ref, k)
    BY <2>1, <1>5 DEF refsOf
  <2> QED
    BY <2>2, <1>2, <1>3
<1>7. refs(node)' = <<r>> \o refs(node)
  <2> DEFINE s == listOf(nnode, L, node)
             t == listOf(nnode', L2, node)
             u == refs(node)
             v == refs(node)'
             S == Ref \cup {EMPTY}
  <2>1. PICK item \in 0..(nitem' - 1) : t = <<item>> \o s /\ ref'[item] = r
    BY DEF Pushed
  <2>2. s \in Seq(0..(nitem - 1)) /\ Len(s) \in Nat
        /\ u = [j \in 1..Len(s) |-> ref[s[j]]]
    BY <1>2 DEF refsOf
  <2>3. v = [j \in 1..Len(t) |-> ref'[t[j]]]
    BY <1>3 DEF refsOf
  <2>4. \A j \in 1..Len(s) : ref'[s[j]] = ref[s[j]] /\ s[j] \in 0..(nitem - 1)
    <3>1. \A j \in 1..Len(s) : s[j] \in 0..(nitem - 1)
      BY <2>2, ElementOfSeq
    <3> QED
      BY <1>5, <3>1
  <2> HIDE DEF s, t, u, v, S
  <2>5. /\ Len(t) = Len(s) + 1
        /\ \A j \in 1..(Len(s) + 1) : t[j] = IF j = 1 THEN item ELSE s[j - 1]
    <3> DEFINE I == 0..(nitem - 1) \cup 0..(nitem' - 1)
    <3>1. s \in Seq(I) /\ item \in I
      <4>1. s \in [1..Len(s) -> I]
        BY <2>2, <2>4, LenProperties
      <4> HIDE DEF I
      <4>2. s \in Seq(I)
        BY <2>2, <4>1, FunctionIsSeq
      <4> QED
        BY <4>2 DEF I
    <3> HIDE DEF I
    <3> QED
      BY <2>1, <3>1, ConsProperties
  <2>6. u \in Seq(S) /\ Len(u) = Len(s) /\ r \in S
    <3>1. u \in [1..Len(s) -> S] /\ r \in S
      BY <2>2, <2>4, <1>4 DEF S
    <3> QED
      BY <2>2, <3>1, FunctionIsSeq
  <2>7. /\ <<r>> \o u \in Seq(S) /\ Len(<<r>> \o u) = Len(s) + 1
        /\ \A j \in 1..(Len(s) + 1) : (<<r>> \o u)[j] = IF j = 1 THEN r ELSE u[j - 1]
    BY <2>6, ConsProperties
  <2>8. ASSUME NEW j \in 1..(Len(s) + 1) PROVE v[j] = IF j = 1 THEN r ELSE u[j - 1]
    <3>1. v[j] = ref'[t[j]]
      BY <2>3, <2>5
    <3>2. CASE j = 1
      BY <2>1, <2>2, <2>5, <3>1, <3>2
    <3>3. CASE j # 1
      <4>1. j - 1 \in 1..Len(s) /\ t[j] = s[j - 1]
        BY <2>2, <2>5, <3>3
      <4> QED
        BY <2>2, <2>4, <3>1, <3>3, <4>1
    <3> QED
      BY <3>2, <3>3
  <2>9. v \in [1..(Len(s) + 1) -> S]
    <3>1. \A j \in 1..(Len(s) + 1) : (IF j = 1 THEN r ELSE u[j - 1]) \in S
      <4> TAKE j \in 1..(Len(s) + 1)
      <4>1. j # 1 => j - 1 \in 1..Len(u)
        BY <2>2, <2>6
      <4>2. j # 1 => u[j - 1] \in S
        BY <4>1, <2>6, ElementOfSeq
      <4> QED
        BY <4>2, <2>6
    <3> QED
      BY <2>3, <2>5, <2>8, <3>1
  <2>10. v \in Seq(S) /\ Len(v) = Len(s) + 1
    <3>1. Len(s) + 1 \in Nat
      BY <2>2
    <3> QED
      BY <2>9, <3>1, FunctionIsSeq
  <2>11. v = <<r>> \o u
    BY <2>7, <2>8, <2>10, SeqEqual
  <2> QED
    BY <2>11 DEF u, v
<1>8. [k \in Node |-> refs(k)'] = [[k \in Node |-> refs(k)] EXCEPT ![node] = <<r>> \o @]
  BY <1>6, <1>7
<1> QED
  BY <1>8 DEF Lists!Add, Lists!Cons

(* ref_adj_remove takes out the first occurrence of the reference. *)
LEMMA ListsDrop ==
    ASSUME NEW L, Threaded(L), NEW L2, NEW node \in Node, NEW r \in Ref,
           Dropped(node, r, L, L2)
    PROVE  Lists!Drop(node, r)
<1>1. Threaded2(L2)
  BY DEF Dropped
<1>2. \A k \in Node : /\ refs(k) = refsOf(nnode, L, ref, k)
                      /\ listOf(nnode, L, k) \in Seq(0..(nitem - 1))
  BY Refs
<1>3. \A k \in Node : /\ refs(k)' = refsOf(nnode', L2, ref', k)
                      /\ listOf(nnode', L2, k) \in Seq(0..(nitem' - 1))
  BY <1>1, RefsNext
<1>4. ref \in [0..(nitem - 1) -> Ref \cup {EMPTY}]
  BY Refs
<1> DEFINE s == listOf(nnode, L, node)
           t == listOf(nnode', L2, node)
           u == refs(node)
           v == refs(node)'
           S == Ref \cup {EMPTY}
<1>5. PICK p \in 1..Len(s) :
         /\ ref[s[p]] = r
         /\ \A j \in 1..(p - 1) : ref[s[j]] # r
         /\ t = without(s, p)
         /\ \A k \in Node : \A j \in 1..Len(listOf(nnode, L, k)) :
               k # node \/ j # p =>
                  ref'[listOf(nnode, L, k)[j]] = ref[listOf(nnode, L, k)[j]]
  BY DEF Dropped
<1>6. ASSUME NEW k \in Node, k # node PROVE refs(k)' = refs(k)
  <2>1. listOf(nnode', L2, k) = listOf(nnode, L, k)
    BY <1>6 DEF Dropped
  <2>2. \A j \in 1..Len(listOf(nnode, L, k)) :
           ref'[listOf(nnode, L, k)[j]] = ref[listOf(nnode, L, k)[j]]
    BY <1>5, <1>6
  <2>3. refsOf(nnode', L2, ref', k) = refsOf(nnode, L, ref, k)
    BY <2>1, <2>2 DEF refsOf
  <2> QED
    BY <2>3, <1>2, <1>3
<1>7. s \in Seq(0..(nitem - 1)) /\ Len(s) \in Nat
      /\ u = [j \in 1..Len(s) |-> ref[s[j]]]
  BY <1>2 DEF refsOf
<1>8. v = [j \in 1..Len(t) |-> ref'[t[j]]]
  BY <1>3 DEF refsOf
<1>9. \A j \in 1..Len(s) : s[j] \in 0..(nitem - 1) /\ (j # p => ref'[s[j]] = ref[s[j]])
  <2>1. \A j \in 1..Len(s) : s[j] \in 0..(nitem - 1)
    BY <1>7, ElementOfSeq
  <2> QED
    BY <1>5, <2>1
<1>10. t = without(s, p) /\ ref[s[p]] = r /\ \A j \in 1..(p - 1) : ref[s[j]] # r
  BY <1>5
<1> HIDE DEF s, t, u, v, S
<1>11. Len(t) = Len(s) - 1 /\ \A j \in 1..(Len(s) - 1) : t[j] = IF j < p THEN s[j] ELSE s[j + 1]
  BY <1>7, <1>10, WithoutProperties
<1>12. u \in Seq(S) /\ Len(u) = Len(s) /\ r \in S
  <2>1. u \in [1..Len(s) -> S] /\ r \in S
    BY <1>7, <1>9, <1>4 DEF S
  <2> QED
    BY <1>7, <2>1, FunctionIsSeq
<1>13. /\ without(u, p) \in Seq(S) /\ Len(without(u, p)) = Len(s) - 1
       /\ \A j \in 1..(Len(s) - 1) : without(u, p)[j] = IF j < p THEN u[j] ELSE u[j + 1]
  <2>1. p \in 1..Len(u)
    BY <1>12
  <2> QED
    BY <2>1, <1>12, WithoutProperties
<1>14. ASSUME NEW j \in 1..(Len(s) - 1) PROVE v[j] = IF j < p THEN u[j] ELSE u[j + 1]
  <2>1. v[j] = ref'[t[j]]
    BY <1>8, <1>11
  <2>2. CASE j < p
    <3>1. j \in 1..Len(s) /\ j # p /\ t[j] = s[j]
      BY <1>7, <1>11, <2>2
    <3> QED
      BY <1>7, <1>9, <2>1, <2>2, <3>1
  <2>3. CASE ~ (j < p)
    <3>1. j + 1 \in 1..Len(s) /\ j + 1 # p /\ t[j] = s[j + 1]
      BY <1>7, <1>11, <2>3
    <3> QED
      BY <1>7, <1>9, <2>1, <2>3, <3>1
  <2> QED
    BY <2>2, <2>3
<1>15. v \in Seq(S) /\ Len(v) = Len(s) - 1
  <2>1. \A j \in 1..(Len(s) - 1) : (IF j < p THEN u[j] ELSE u[j + 1]) \in S
    <3> TAKE j \in 1..(Len(s) - 1)
    <3>1. j \in 1..Len(u) /\ j + 1 \in 1..Len(u)
      BY <1>7, <1>12
    <3>2. u[j] \in S /\ u[j + 1] \in S
      BY <3>1, <1>12, ElementOfSeq
    <3> QED
      BY <3>2
  <2>2. v \in [1..(Len(s) - 1) -> S]
    BY <1>8, <1>11, <1>14, <2>1
  <2>3. Len(s) - 1 \in Nat
    BY <1>7
  <2> QED
    BY <2>2, <2>3, FunctionIsSeq
<1>16. v = without(u, p)
  BY <1>13, <1>14, <1>15, SeqEqual
<1>17. Lists!RemoveFirst(u, r) = without(u, p) /\ Lists!Contains(u, r)
  <2>1. p \in 1..Len(u) /\ u[p] = r /\ \A j \in 1..(p - 1) : u[j] # r
    BY <1>7, <1>10, <1>12
  <2> QED
    BY <2>1, <1>12, RemoveFirstForm
<1>18. refs(node)' = Lists!RemoveFirst(refs(node), r) /\ Lists!Contains(refs(node), r)
  BY <1>16, <1>17 DEF u, v
<1>19. [k \in Node |-> refs(k)']
        = [[k \in Node |-> refs(k)] EXCEPT ![node] = Lists!RemoveFirst(@, r)]
  BY <1>6, <1>18
<1>20. Lists!Contains([k \in Node |-> refs(k)][node], r)
  BY <1>18
<1> QED
  BY <1>19, <1>20 DEF Lists!Drop

(***************************************************************************)
(* The linked items of ref_adj.c implement a list of references per node:  *)
(* every ref_adj_add puts one in front, every ref_adj_remove takes out the *)
(* first occurrence, and no growth, reuse of an item or refused call       *)
(* changes any list.                                                       *)
(***************************************************************************)
THEOREM ImplementsLists == Spec => ListsSpec
<1>1. Init => Lists!Init
  BY ListsInit
<1>2. IndInv /\ [Next]_vars => [Lists!Next]_([node \in Node |-> refs(node)])
  <2> SUFFICES ASSUME IndInv, [Next]_vars
               PROVE  [Lists!Next]_([node \in Node |-> refs(node)])
    OBVIOUS
  <2>1. PICK L : Threaded(L)
    BY DEF IndInv
  <2>2. nnode <= MaxInt /\ nitem <= MaxInt
    BY DEF IndInv
  <2>3. ASSUME NEW node \in Node, NEW r \in Ref, Add(node, r) PROVE Lists!Next
    <3>1. PICK L2 : Pushed(node, r, L, L2)
      BY <2>1, <2>2, <2>3, AddStep
    <3>2. Lists!Add(node, r)
      BY <2>1, <3>1, ListsAdd
    <3> QED
      BY <3>2 DEF Lists!Next
  <2>4. ASSUME NEW node \in Node, NEW r \in Ref, Remove(node, r) PROVE Lists!Next
    <3>1. PICK L2 : Dropped(node, r, L, L2)
      BY <2>1, <2>2, <2>4, RemoveStep
    <3>2. Lists!Drop(node, r)
      BY <2>1, <3>1, ListsDrop
    <3> QED
      BY <3>2 DEF Lists!Next
  <2>5. ASSUME NEW node \in Node, AddFull(node)
        PROVE  [k \in Node |-> refs(k)'] = [k \in Node |-> refs(k)]
    <3>1. PICK L2 : Kept(L, L2)
      BY <2>1, <2>2, <2>5, AddFullStep
    <3>2. \A k \in Node : refs(k)' = refsOf(nnode', L2, ref', k)
      BY <3>1, RefsNext DEF Kept
    <3>3. \A k \in Node : refs(k) = refsOf(nnode, L, ref, k)
      BY <2>1, Refs
    <3>4. \A k \in Node : refsOf(nnode', L2, ref', k) = refsOf(nnode, L, ref, k)
      BY <3>1 DEF Kept, refsOf
    <3> QED
      BY <3>2, <3>3, <3>4
  <2>6. ASSUME UNCHANGED vars
        PROVE  [k \in Node |-> refs(k)'] = [k \in Node |-> refs(k)]
    <3>1. nnode' = nnode /\ nitem' = nitem
      BY <2>6 DEF vars, nnode, nitem
    <3>2. Threaded2(L)
      BY <2>1, <2>6, <3>1 DEF vars, Threaded, Threaded2
    <3>3. \A k \in Node : refs(k)' = refsOf(nnode', L, ref', k)
      BY <3>2, RefsNext
    <3>4. \A k \in Node : refs(k) = refsOf(nnode, L, ref, k)
      BY <2>1, Refs
    <3>5. ref' = ref
      BY <2>6 DEF vars
    <3> QED
      BY <3>1, <3>3, <3>4, <3>5
  <2> QED
    BY <2>3, <2>4, <2>5, <2>6 DEF Next, AddUniquely
<1> QED
  BY <1>1, <1>2, IndInvAlways, PTL DEF Spec, ListsSpec, Lists!Spec
=============================================================================
