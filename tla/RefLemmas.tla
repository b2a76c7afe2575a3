----------------------------- MODULE RefLemmas -----------------------------
(***************************************************************************)
(* Facts the proofs share.  Induction over data is stated for sets and     *)
(* functions, which are first-order: a set that has 0 and is closed under  *)
(* successor has every natural; a recursion whose right-hand side looks only*)
(* at arguments of smaller measure has a solution; a loop that decreases a *)
(* measure keeps what its body keeps.                                      *)
(***************************************************************************)
EXTENDS Integers, WellFoundedInduction, TLAPS

(* A nonempty set of naturals has a least element. *)
LEMMA LeastNatural ==
    ASSUME NEW S \in SUBSET Nat, S # {}
    PROVE  \E m \in S : \A k \in S : m <= k
<1> DEFINE R == OpToRel(<, Nat)
<1>1. PICK x \in S : \A y \in S : ~ (<<y, x>> \in R)
  <2>1. IsWellFoundedOn(R, Nat)
    BY NatLessThanWellFounded
  <2> HIDE DEF R
  <2> QED
    BY <2>1, WFMin
<1>2. \A y, z \in Nat : y < z => <<y, z>> \in R
  BY DEF OpToRel
<1> HIDE DEF R
<1>3. \A y \in S : ~ (y < x)
  BY <1>1, <1>2
<1>4. \A y \in S : x <= y
  BY <1>3
<1> QED
  BY <1>4

(* Induction over the naturals, for a set. *)
LEMMA NatSetInduction ==
    ASSUME NEW S, 0 \in S, \A n \in Nat : n \in S => n + 1 \in S
    PROVE  \A n \in Nat : n \in S
<1> DEFINE T == {n \in Nat : n \notin S}
<1> SUFFICES ASSUME T # {} PROVE FALSE
  OBVIOUS
<1>1. PICK m \in T : \A k \in T : m <= k
  BY LeastNatural
<1>2. m - 1 \in Nat /\ m - 1 \notin T
  BY <1>1
<1> QED
  BY <1>2

(* Induction up to n, for a set. *)
LEMMA UptoInduction ==
    ASSUME NEW n \in Nat, NEW S, 0 \in S,
           \A k \in 0..n : k # n /\ k \in S => k + 1 \in S
    PROVE  \A k \in 0..n : k \in S
<1> DEFINE T == {k \in Nat : k <= n => k \in S}
<1>1. 0 \in T
  OBVIOUS
<1>2. \A k \in Nat : k \in T => k + 1 \in T
  <2> SUFFICES ASSUME NEW k \in Nat, k \in T, k + 1 <= n PROVE k + 1 \in S
    OBVIOUS
  <2>1. k \in 0..n /\ k # n /\ k \in S
    OBVIOUS
  <2> QED
    BY <2>1
<1>3. \A k \in Nat : k \in T
  <2> HIDE DEF T
  <2> QED
    BY <1>1, <1>2, NatSetInduction
<1> QED
  BY <1>3

(* Below n + 1 is below n or n. *)
LEMMA BelowNext ==
    \A i, n \in Nat : i < n + 1 => i < n \/ i = n
OBVIOUS

(* The recursion h[x] = G[x][h] on D with values in S: G at x looks at a   *)
(* function only where the measure m is below that of x.                   *)
LooksBelow(D, S, m, G) ==
    \A x \in D : \A f, g \in [D -> S] :
       (\A y \in D : m[y] < m[x] => f[y] = g[y]) => G[x][f] = G[x][g]

(* A recursion with its types. *)
Recursion(D, S, m, G) ==
    /\ S # {} /\ m \in [D -> Nat] /\ G \in [D -> [[D -> S] -> S]]
    /\ LooksBelow(D, S, m, G)

(* h solves the recursion. *)
Solves(D, G, h) == \A x \in D : h[x] = G[x][h]

(* Every recursion that looks below itself has a solution. *)
LEMMA RecursionExists ==
    ASSUME NEW D, NEW S, NEW m, NEW G, Recursion(D, S, m, G)
    PROVE  \E h \in [D -> S] : Solves(D, G, h)
<1>0. /\ S # {} /\ m \in [D -> Nat] /\ G \in [D -> [[D -> S] -> S]]
      /\ LooksBelow(D, S, m, G)
  BY DEF Recursion
<1> USE <1>0
<1> DEFINE upto(n, f) == \A x \in D : m[x] < n => f[x] = G[x][f]
           Has == {n \in Nat : \E f \in [D -> S] : upto(n, f)}
<1>1. \A n \in Nat : n \in Has
  <2>1. 0 \in Has
    <3>1. PICK s \in S : TRUE
      OBVIOUS
    <3>2. upto(0, [x \in D |-> s])
      OBVIOUS
    <3> QED
      BY <3>2
  <2>2. ASSUME NEW n \in Nat, n \in Has PROVE n + 1 \in Has
    <3>1. PICK f \in [D -> S] : upto(n, f)
      BY <2>2
    <3> DEFINE g == [x \in D |-> IF m[x] = n THEN G[x][f] ELSE f[x]]
    <3>2. g \in [D -> S]
      OBVIOUS
    <3>3. ASSUME NEW x \in D, m[x] < n + 1 PROVE g[x] = G[x][g]
      <4>1. \A y \in D : m[y] < m[x] => f[y] = g[y]
        BY <3>3
      <4>2. G[x][f] = G[x][g]
        BY <4>1, <3>2 DEF LooksBelow
      <4>3. m[x] < n \/ m[x] = n
        <5>1. m[x] \in Nat
          OBVIOUS
        <5> QED
          BY <3>3, <5>1, BelowNext
      <4>4. g[x] = G[x][f]
        BY <3>1, <4>3
      <4> QED
        BY <4>2, <4>4
    <3> HIDE DEF g
    <3>4. upto(n + 1, g)
      BY <3>3
    <3> QED
      BY <3>2, <3>4
  <2> HIDE DEF Has
  <2> QED
    BY <2>1, <2>2, NatSetInduction
<1>2. \A n, k \in Nat : \A f, g \in [D -> S] :
         n <= k /\ upto(n, f) /\ upto(k, g)
         => \A x \in D : m[x] < n => f[x] = g[x]
  <2> TAKE n, k \in Nat
  <2> TAKE f, g \in [D -> S]
  <2> HAVE n <= k /\ upto(n, f) /\ upto(k, g)
  <2> TAKE x \in D
  <2> HAVE m[x] < n
  <2> DEFINE T == {i \in Nat : \E y \in D : m[y] = i /\ i < n /\ f[y] # g[y]}
  <2> SUFFICES ASSUME T # {} PROVE FALSE
    OBVIOUS
  <2>1. PICK i \in T : \A j \in T : i <= j
    BY LeastNatural
  <2>2. PICK y \in D : m[y] = i /\ i < n /\ f[y] # g[y]
    OBVIOUS
  <2>3. \A z \in D : m[z] < m[y] => f[z] = g[z]
    BY <2>1, <2>2
  <2>4. G[y][f] = G[y][g]
    BY <2>3 DEF LooksBelow
  <2> QED
    BY <2>2, <2>4
<1> DEFINE approx(n) == CHOOSE f \in [D -> S] : upto(n, f)
           h == [x \in D |-> approx(m[x] + 1)[x]]
<1>3. \A n \in Nat : approx(n) \in [D -> S] /\ upto(n, approx(n))
  BY <1>1
<1> HIDE DEF approx
<1>4. h \in [D -> S]
  BY <1>3
<1>5. ASSUME NEW x \in D PROVE h[x] = G[x][h]
  <2> DEFINE f == approx(m[x] + 1)
  <2>1. f \in [D -> S] /\ upto(m[x] + 1, f)
    BY <1>3
  <2>2. ASSUME NEW y \in D, m[y] < m[x] PROVE h[y] = f[y]
    <3>1. approx(m[y] + 1) \in [D -> S] /\ upto(m[y] + 1, approx(m[y] + 1))
      BY <1>3
    <3>2. m[y] + 1 \in Nat /\ m[x] + 1 \in Nat /\ m[y] + 1 <= m[x] + 1 /\ m[y] < m[y] + 1
      BY <2>2
    <3> DEFINE a == approx(m[y] + 1)
               i == m[y] + 1
               j == m[x] + 1
    <3>3. h[y] = a[y]
      OBVIOUS
    <3>4. /\ upto(i, a) /\ upto(j, f) /\ a \in [D -> S] /\ f \in [D -> S]
          /\ i \in Nat /\ j \in Nat /\ i <= j /\ m[y] < i
      BY <2>1, <3>1, <3>2
    <3> HIDE DEF f, a, i, j, h, upto
    <3>5. a[y] = f[y]
      BY <1>2, <3>4
    <3> QED
      BY <3>3, <3>5
  <2>3. h[x] = f[x] /\ f[x] = G[x][f]
    BY <2>1
  <2> HIDE DEF f, h
  <2>4. G[x][f] = G[x][h]
    BY <2>2, <2>1, <1>4 DEF LooksBelow
  <2> QED
    BY <2>3, <2>4
<1> QED
  BY <1>4, <1>5 DEF Solves

(***************************************************************************)
(* A loop as a recursive function: from x go on to step[x] until x is in   *)
(* done, and return out[x] there.  The measure m bounds the rounds.        *)
(***************************************************************************)
Loop(D, S, m, done, step, out) ==
    /\ S # {} /\ m \in [D -> Nat]
    /\ \A x \in D : x \in done => out[x] \in S
    /\ \A x \in D : x \notin done => step[x] \in D /\ m[step[x]] < m[x]

Runs(D, done, step, out, h) ==
    \A x \in D : h[x] = IF x \in done THEN out[x] ELSE h[step[x]]

(* The function of a loop exists. *)
LEMMA LoopExists ==
    ASSUME NEW D, NEW S, NEW m, NEW done, NEW step, NEW out,
           Loop(D, S, m, done, step, out)
    PROVE  \E h \in [D -> S] : Runs(D, done, step, out, h)
<1> DEFINE G == [x \in D |-> [f \in [D -> S] |-> IF x \in done THEN out[x] ELSE f[step[x]]]]
<1>1. S # {} /\ m \in [D -> Nat]
  BY DEF Loop
<1>2. \A x \in D : \A f \in [D -> S] :
         G[x][f] = IF x \in done THEN out[x] ELSE f[step[x]]
  OBVIOUS
<1>3. G \in [D -> [[D -> S] -> S]]
  <2>1. \A x \in D : \A f \in [D -> S] :
           (IF x \in done THEN out[x] ELSE f[step[x]]) \in S
    BY DEF Loop
  <2> QED
    BY <2>1
<1> HIDE DEF G
<1>4. LooksBelow(D, S, m, G)
  <2> SUFFICES ASSUME NEW x \in D, NEW f \in [D -> S], NEW g \in [D -> S],
                      \A y \in D : m[y] < m[x] => f[y] = g[y]
               PROVE  G[x][f] = G[x][g]
    BY DEF LooksBelow
  <2>1. x \notin done => f[step[x]] = g[step[x]]
    BY DEF Loop
  <2> QED
    BY <1>2, <2>1
<1>5. Recursion(D, S, m, G)
  BY <1>1, <1>3, <1>4 DEF Recursion
<1>6. PICK h \in [D -> S] : Solves(D, G, h)
  BY <1>5, RecursionExists
<1>7. Runs(D, done, step, out, h)
  BY <1>2, <1>6 DEF Solves, Runs
<1> QED
  BY <1>7

(***************************************************************************)
(* What a loop returns, it returns from a final state that satisfies any   *)
(* invariant of the loop that holds where it starts.                       *)
(***************************************************************************)
LEMMA LoopInvariant ==
    ASSUME NEW D, NEW S, NEW m, NEW done, NEW step, NEW out,
           Loop(D, S, m, done, step, out),
           NEW h, Runs(D, done, step, out, h), NEW Good \in SUBSET D,
           \A x \in Good : x \notin done => step[x] \in Good
    PROVE  \A x \in Good : \E y \in Good : y \in done /\ h[x] = out[y]
<1> DEFINE ends(x) == \E y \in Good : y \in done /\ h[x] = out[y]
           T == {k \in Nat : \E x \in Good : m[x] = k /\ ~ ends(x)}
<1>1. m \in [D -> Nat]
  BY DEF Loop
<1> SUFFICES ASSUME T # {} PROVE FALSE
  BY <1>1
<1>2. PICK k \in T : \A j \in T : k <= j
  BY LeastNatural
<1>3. PICK x \in Good : m[x] = k /\ ~ ends(x)
  BY <1>2
<1>4. x \in D /\ x \notin done
  BY <1>3 DEF Runs
<1> DEFINE y == step[x]
<1>5. y \in Good /\ y \in D /\ m[y] < m[x] /\ h[x] = h[y]
  BY <1>4 DEF Loop, Runs
<1> HIDE DEF y
<1>6. ~ ends(y)
  BY <1>3, <1>5
<1>7. m[y] \in T
  BY <1>1, <1>5, <1>6
<1>8. m[y] \in Nat /\ m[x] \in Nat /\ m[x] <= m[y]
  BY <1>1, <1>2, <1>3, <1>4, <1>5, <1>7
<1> QED
  BY <1>5, <1>8

(* Counting up from a, by a function for each round. *)
Counts(k, S, a, F, h) ==
    /\ h \in [0..k -> S] /\ h[0] = a
    /\ \A i \in 1..k : h[i] = F[i][h[i - 1]]

(* Such a count exists. *)
LEMMA CountingExists ==
    ASSUME NEW k \in Nat, NEW S, NEW a \in S, NEW F \in [1..k -> [S -> S]]
    PROVE  \E h : Counts(k, S, a, F, h)
<1> DEFINE D == 0..k
           m == [i \in D |-> i]
           G == [i \in D |-> [f \in [D -> S] |-> IF i = 0 THEN a ELSE F[i][f[i - 1]]]]
<1>1. m \in [D -> Nat] /\ S # {}
  OBVIOUS
<1>2. \A i \in D : \A f \in [D -> S] : G[i][f] = IF i = 0 THEN a ELSE F[i][f[i - 1]]
  OBVIOUS
<1>3. \A i \in D : i # 0 => i \in 1..k /\ i - 1 \in D /\ i - 1 < i
  OBVIOUS
<1>4. G \in [D -> [[D -> S] -> S]]
  <2>1. \A i \in D : \A f \in [D -> S] : (IF i = 0 THEN a ELSE F[i][f[i - 1]]) \in S
    <3> HIDE DEF D
    <3> QED
      BY <1>3
  <2> QED
    BY <2>1
<1>5. \A i \in D : m[i] = i
  OBVIOUS
<1> HIDE DEF G, m
<1>6. LooksBelow(D, S, m, G)
  <2> SUFFICES ASSUME NEW i \in D, NEW f \in [D -> S], NEW g \in [D -> S],
                      \A j \in D : m[j] < m[i] => f[j] = g[j]
               PROVE  G[i][f] = G[i][g]
    BY DEF LooksBelow
  <2>1. i # 0 => f[i - 1] = g[i - 1]
    BY <1>3, <1>5
  <2> QED
    BY <1>2, <2>1
<1>7. Recursion(D, S, m, G)
  BY <1>1, <1>4, <1>6 DEF Recursion
<1>8. PICK h \in [D -> S] : Solves(D, G, h)
  BY <1>7, RecursionExists
<1>9. \A i \in D : h[i] = IF i = 0 THEN a ELSE F[i][h[i - 1]]
  BY <1>2, <1>8 DEF Solves
<1>10. 0 \in D /\ \A i \in 1..k : i \in D /\ i # 0
  OBVIOUS
<1>11. Counts(k, S, a, F, h)
  BY <1>8, <1>9, <1>10 DEF Counts
<1> QED
  BY <1>11
=============================================================================
