--------------------------- MODULE RefNode_proofs ---------------------------
(***************************************************************************)
(* The vertex storage of ref_node.c for every size, growth and sequence of *)
(* calls.                                                                  *)
(***************************************************************************)
EXTENDS RefNode, RefSort_proofs, FiniteSetTheorems, SequenceTheorems

-----------------------------------------------------------------------------
(* How many members of S are below l. *)
rank(S, l) == Cardinality({k \in S : k < l})

(* The rank of a slot in a finite set of slots is below its size and grows *)
(* with the slot.                                                          *)
LEMMA Ranks ==
    ASSUME NEW S \in SUBSET Int, IsFiniteSet(S)
    PROVE  /\ Cardinality(S) \in Nat
           /\ \A l \in S : rank(S, l) \in 0..(Cardinality(S) - 1)
           /\ \A l, m \in S : l < m => rank(S, l) < rank(S, m)
<1>1. Cardinality(S) \in Nat
  BY FS_CardinalityType
<1>2. ASSUME NEW l \in S PROVE rank(S, l) \in 0..(Cardinality(S) - 1)
  <2> DEFINE B == {k \in S : k < l}
  <2>1. IsFiniteSet(S \ {l}) /\ Cardinality(S \ {l}) = Cardinality(S) - 1
    BY FS_RemoveElement
  <2>2. B \in SUBSET (S \ {l})
    OBVIOUS
  <2>3. IsFiniteSet(B) /\ Cardinality(B) <= Cardinality(S \ {l})
    BY <2>1, <2>2, FS_Subset
  <2>4. Cardinality(B) \in Nat
    BY <2>3, FS_CardinalityType
  <2> QED
    BY <1>1, <2>1, <2>3, <2>4 DEF rank
<1>3. ASSUME NEW l \in S, NEW m \in S, l < m PROVE rank(S, l) < rank(S, m)
  <2> DEFINE B == {k \in S : k < l}
             C == {k \in S : k < m}
  <2>1. IsFiniteSet(B) /\ IsFiniteSet(C)
    BY FS_Subset
  <2>2. Cardinality(B) \in Nat /\ Cardinality(C) \in Nat
    BY <2>1, FS_CardinalityType
  <2>3. l \notin B /\ B \cup {l} \in SUBSET C
    <3>1. \A k \in S : k \in Int
      OBVIOUS
    <3>2. \A k \in S : k < l => k < m
      BY <1>3, <3>1
    <3>3. l \notin B
      BY <3>1
    <3> QED
      BY <1>3, <3>2, <3>3
  <2>4. Cardinality(B \cup {l}) = Cardinality(B) + 1
    BY <2>1, <2>3, FS_AddElement
  <2>5. Cardinality(B \cup {l}) <= Cardinality(C)
    BY <2>1, <2>3, FS_Subset
  <2> QED
    BY <2>2, <2>4, <2>5 DEF rank
<1> QED
  BY <1>1, <1>2, <1>3

(* The loops that pack the members of a set list each once, upwards. *)
LEMMA InOrder ==
    ASSUME NEW S \in SUBSET Int, IsFiniteSet(S)
    PROVE  /\ Cardinality(S) \in Nat
           /\ in_order(S) \in [1..Cardinality(S) -> S]
           /\ \A i, j \in 1..Cardinality(S) : i < j => in_order(S)[i] < in_order(S)[j]
           /\ \A l \in S : \E i \in 1..Cardinality(S) : in_order(S)[i] = l
<1> DEFINE c == Cardinality(S)
           q == in_order(S)
           r == [l \in S |-> rank(S, l)]
<1>1. c \in Nat
  BY Ranks
<1>2. \A l \in S : rank(S, l) \in 0..(c - 1)
  BY Ranks
<1>3. \A l, m \in S : l < m => rank(S, l) < rank(S, m)
  BY Ranks
<1>4. \A l, m \in S : rank(S, l) = rank(S, m) => l = m
  <2> TAKE l, m \in S
  <2> HAVE rank(S, l) = rank(S, m)
  <2>1. ~ (rank(S, l) < rank(S, m)) /\ ~ (rank(S, m) < rank(S, l))
    BY <1>2
  <2>2. ~ (l < m) /\ ~ (m < l)
    BY <1>3, <2>1
  <2>3. l \in Int /\ m \in Int
    OBVIOUS
  <2> QED
    BY <2>2, <2>3
<1> HIDE DEF c
<1>5. r \in Injection(S, 0..(c - 1))
  BY <1>2, <1>4 DEF Injection, IsInjective
<1>6. IsFiniteSet(0..(c - 1)) /\ Cardinality(0..(c - 1)) = c
  BY <1>1, FS_Interval
<1>7. r \in Surjection(S, 0..(c - 1))
  BY <1>5, <1>6, FS_Injection DEF c
<1>8. ASSUME NEW i \in 1..c PROVE q[i] \in S /\ rank(S, q[i]) = i - 1
  <2>1. i - 1 \in 0..(c - 1)
    BY <1>1
  <2>2. PICK l \in S : r[l] = i - 1
    BY <1>7, <2>1 DEF Surjection
  <2>3. q[i] = CHOOSE m \in S : Cardinality({k \in S : k < m}) = i - 1
    BY DEF in_order, c
  <2>4. Cardinality({k \in S : k < l}) = i - 1
    BY <2>2 DEF rank
  <2>5. q[i] \in S /\ Cardinality({k \in S : k < q[i]}) = i - 1
    BY <2>3, <2>4
  <2> QED
    BY <2>5 DEF rank
<1>9. q \in [1..c -> S]
  <2>1. DOMAIN q = 1..c /\ q = [i \in 1..c |-> q[i]]
    BY SMTT(60) DEF in_order, c
  <2> HIDE DEF q
  <2> QED
    BY <1>8, <2>1
<1> HIDE DEF q
<1>10. ASSUME NEW i \in 1..c, NEW j \in 1..c, i < j PROVE q[i] < q[j]
  <2>1. rank(S, q[i]) < rank(S, q[j]) /\ q[i] \in S /\ q[j] \in S
    BY <1>8, <1>10
  <2>a. rank(S, q[i]) \in Int /\ rank(S, q[j]) \in Int
    <3>1. \A l \in S : rank(S, l) \in Int
      BY <1>1, <1>2
    <3> QED
      BY <2>1, <3>1
  <2>b. ~ (rank(S, q[j]) < rank(S, q[i])) /\ rank(S, q[i]) # rank(S, q[j])
    BY <2>1, <2>a
  <2>2. ~ (q[j] < q[i]) /\ q[i] # q[j]
    BY <1>3, <2>1, <2>b
  <2>3. q[i] \in Int /\ q[j] \in Int
    BY <2>1
  <2> QED
    BY <2>2, <2>3
<1>11. ASSUME NEW l \in S PROVE \E i \in 1..c : q[i] = l
  <2> DEFINE i == rank(S, l) + 1
  <2>1. i \in 1..c /\ i - 1 = rank(S, l)
    BY <1>1, <1>2
  <2> HIDE DEF i
  <2>2. q[i] \in S /\ rank(S, q[i]) = rank(S, l)
    BY <1>8, <2>1
  <2> QED
    BY <1>4, <2>1, <2>2
<1> QED
  BY <1>1, <1>9, <1>10, <1>11 DEF c, q

-----------------------------------------------------------------------------
(***************************************************************************)
(* The storage: mx slots with the words gl, the free list from bl on, and  *)
(* fl, the free slots in the order in which it visits them.                *)
(***************************************************************************)
Slots(mx) == 0..(mx - 1)
(* The slots that hold a vertex. *)
UsedOf(mx, gl) == {l \in Slots(mx) : gl[l] >= 0}

(* Every slot holds a number nobody else holds, or a negative word. *)
Words(mx, gl) ==
    /\ mx \in Nat \ {0} /\ gl \in [Slots(mx) -> Int]
    /\ \A l \in Slots(mx) : gl[l] >= 0 => gl[l] \in Glob
    /\ \A l, k \in Slots(mx) : gl[l] >= 0 /\ gl[l] = gl[k] => l = k

(* The free slots are one chain, without repetition, from bl to its end. *)
FreeList(mx, gl, bl, fl) ==
    /\ fl \in Seq(Slots(mx))
    /\ bl = IF Len(fl) = 0 THEN EMPTY ELSE index2next(fl[1])
    /\ \A k \in 1..Len(fl) :
          gl[fl[k]] = IF k = Len(fl) THEN EMPTY ELSE index2next(fl[k + 1])
    /\ \A j, k \in 1..Len(fl) : fl[j] = fl[k] => j = k
    /\ \A l \in Slots(mx) : gl[l] < 0 => \E k \in 1..Len(fl) : fl[k] = l

(* A sound storage with free list fl. *)
Holds(mx, gl, bl, nn, pt, fl) ==
    /\ Words(mx, gl)
    /\ FreeList(mx, gl, bl, fl)
    /\ nn = Cardinality(UsedOf(mx, gl))
    /\ pt \in [Slots(mx) -> {Me, Other, EMPTY}]

(* A link is a negative word, also the one that ends the list. *)
LEMMA Links ==
    \A l \in Nat : /\ index2next(l) \in Int /\ index2next(l) < 0
                   /\ index2next(l) # EMPTY /\ next2index(index2next(l)) = l
  BY DEF index2next, next2index, EMPTY

(* The word of an empty list leads nowhere. *)
LEMMA EmptyLink == EMPTY \in Int /\ EMPTY < 0 /\ next2index(EMPTY) = EMPTY
<1>1. EMPTY \in Int /\ EMPTY + 1 = 0
  BY DEF EMPTY
<1>2. \A e \in Int : e + 1 = 0 => e < 0 /\ -e - 2 = e
  OBVIOUS
<1> QED
  BY <1>1, <1>2 DEF next2index

(* The slots on the list are free. *)
LEMMA FreeSlots ==
    ASSUME NEW mx, NEW gl, NEW bl, NEW fl, Words(mx, gl), FreeList(mx, gl, bl, fl)
    PROVE  /\ Len(fl) \in Nat
           /\ \A k \in 1..Len(fl) : fl[k] \in Slots(mx) /\ gl[fl[k]] < 0
           /\ bl \in Int
<1>1. fl \in Seq(Slots(mx)) /\ Len(fl) \in Nat
  BY DEF FreeList
<1>2. \A k \in 1..Len(fl) : fl[k] \in Slots(mx) /\ fl[k] \in Nat
  <2>1. \A k \in 1..Len(fl) : fl[k] \in Slots(mx)
    BY <1>1, ElementOfSeq
  <2> QED
    BY <2>1 DEF Slots, Words
<1>3. ASSUME NEW k \in 1..Len(fl) PROVE gl[fl[k]] < 0
  <2>1. gl[fl[k]] = IF k = Len(fl) THEN EMPTY ELSE index2next(fl[k + 1])
    BY DEF FreeList
  <2>2. CASE k = Len(fl)
    BY <2>1, <2>2, EmptyLink
  <2>3. CASE k # Len(fl)
    <3>1. k + 1 \in 1..Len(fl)
      BY <1>1, <2>3
    <3> QED
      BY <1>2, <2>1, <2>3, <3>1, Links
  <2> QED
    BY <2>2, <2>3
<1>4. bl \in Int
  <2>1. bl = IF Len(fl) = 0 THEN EMPTY ELSE index2next(fl[1])
    BY DEF FreeList
  <2>2. Len(fl) # 0 => 1 \in 1..Len(fl)
    BY <1>1
  <2> QED
    BY <1>2, <2>1, <2>2, EmptyLink, Links
<1> QED
  BY <1>1, <1>2, <1>3, <1>4

(* The used slots are finitely many. *)
LEMMA UsedFinite ==
    ASSUME NEW mx \in Nat, NEW gl
    PROVE  IsFiniteSet(UsedOf(mx, gl)) /\ Cardinality(UsedOf(mx, gl)) \in Nat
           /\ UsedOf(mx, gl) \in SUBSET Slots(mx)
<1>1. IsFiniteSet(Slots(mx))
  BY FS_Interval DEF Slots
<1>2. UsedOf(mx, gl) \in SUBSET Slots(mx)
  BY DEF UsedOf
<1>3. IsFiniteSet(UsedOf(mx, gl))
  BY <1>1, <1>2, FS_Subset
<1> QED
  BY <1>2, <1>3, FS_CardinalityType

(***************************************************************************)
(* What an addition and a removal do to the vertices: the ones that stay   *)
(* keep their slot, number and owner.                                      *)
(***************************************************************************)
NumbersOf(mx, gl) == {gl[l] : l \in UsedOf(mx, gl)}

(* The storage has the vertices it had, where they were, and those of new. *)
Grown(mx, gl, pt, mx2, gl2, pt2, new) ==
    /\ mx <= mx2
    /\ \A l \in UsedOf(mx, gl) : gl2[l] = gl[l] /\ pt2[l] = pt[l]
    /\ \A l \in UsedOf(mx2, gl2) : l \in UsedOf(mx, gl) \/ gl2[l] \in new
    /\ \A g \in new : \E l \in UsedOf(mx2, gl2) : gl2[l] = g
    /\ new \cap NumbersOf(mx, gl) = {}

(* The storage has the vertices it had, where they were, but for slot l. *)
Shrunk(mx, gl, pt, mx2, gl2, pt2, l) ==
    /\ mx2 = mx /\ l \in UsedOf(mx, gl)
    /\ UsedOf(mx2, gl2) = UsedOf(mx, gl) \ {l}
    /\ \A k \in UsedOf(mx2, gl2) : gl2[k] = gl[k] /\ pt2[k] = pt[k]

(* An assignment to an element of an array. *)
put(f, x, v) == [f EXCEPT ![x] = v]

(* The free slot node was taken for g. *)
Popped(mx, gl, nn, pt, node, g, owner) ==
    /\ node \in Slots(mx) /\ node \notin UsedOf(mx, gl)
    /\ \E fl2 : Holds(mx, put(gl, node, g), gl[node], nn + 1,
                      put(pt, node, owner), fl2)
    /\ UsedOf(mx, put(gl, node, g)) = UsedOf(mx, gl) \cup {node}
    /\ Grown(mx, gl, pt, mx, put(gl, node, g), put(pt, node, owner), {g})

(* Taking the first free slot for a new number. *)
LEMMA PopHolds ==
    ASSUME NEW mx, NEW gl, NEW bl, NEW nn, NEW pt, NEW fl, Holds(mx, gl, bl, nn, pt, fl),
           bl # EMPTY, NEW g \in Glob, g \notin NumbersOf(mx, gl),
           NEW owner \in {Me, Other}, NEW node, node = next2index(bl)
    PROVE  Popped(mx, gl, nn, pt, node, g, owner)
<1> DEFINE gl2 == put(gl, node, g)
           pt2 == put(pt, node, owner)
           fl2 == Tail(fl)
           I == Slots(mx)
<1>1. Words(mx, gl) /\ FreeList(mx, gl, bl, fl)
  BY DEF Holds
<1>2. /\ mx \in Nat \ {0} /\ gl \in [I -> Int] /\ pt \in [I -> {Me, Other, EMPTY}]
      /\ nn = Cardinality(UsedOf(mx, gl))
  BY DEF Holds, Words
<1>3. /\ Len(fl) \in Nat /\ fl \in Seq(I)
      /\ \A k \in 1..Len(fl) : fl[k] \in I /\ gl[fl[k]] < 0
  BY <1>1, FreeSlots DEF FreeList
<1>4. Len(fl) # 0 /\ bl = index2next(fl[1]) /\ 1 \in 1..Len(fl)
  <2>1. Len(fl) # 0 /\ bl = index2next(fl[1])
    BY <1>1 DEF FreeList
  <2> QED
    BY <1>3, <2>1
<1>5. node = fl[1] /\ node \in I /\ gl[node] < 0
  <2>1. fl[1] \in Nat
    BY <1>2, <1>3, <1>4 DEF Slots
  <2> QED
    BY <1>3, <1>4, <2>1, Links
<1>6. node \notin UsedOf(mx, gl)
  BY <1>2, <1>5 DEF UsedOf
<1>7. /\ gl2 \in [I -> Int] /\ gl2[node] = g /\ g \in Nat
      /\ \A l \in I : l # node => gl2[l] = gl[l]
  BY <1>2, <1>5, BoundAssumption DEF Glob, put
<1>8. /\ pt2 \in [I -> {Me, Other, EMPTY}] /\ pt2[node] = owner
      /\ \A l \in I : l # node => pt2[l] = pt[l]
  BY <1>2, <1>5 DEF put
<1> HIDE DEF gl2, pt2
<1>9. UsedOf(mx, gl2) = UsedOf(mx, gl) \cup {node}
  BY <1>5, <1>7 DEF UsedOf
<1>10. \A l \in I : gl[l] >= 0 => gl[l] # g
  BY DEF NumbersOf, UsedOf
<1>11. Words(mx, gl2)
  <2>1. \A l \in I : gl2[l] >= 0 => gl2[l] \in Glob
    BY <1>1, <1>7 DEF Words
  <2>2. ASSUME NEW l \in I, NEW k \in I, gl2[l] >= 0, gl2[l] = gl2[k] PROVE l = k
    <3>1. CASE l # node /\ k # node
      BY <1>1, <1>7, <2>2, <3>1 DEF Words
    <3>2. CASE l = node /\ k # node
      <4>1. gl[k] = g /\ gl[k] >= 0
        BY <1>7, <2>2, <3>2
      <4> QED
        BY <1>10, <4>1
    <3>3. CASE l # node /\ k = node
      <4>1. gl[l] = g /\ gl[l] >= 0
        BY <1>7, <2>2, <3>3
      <4> QED
        BY <1>10, <4>1
    <3> QED
      BY <3>1, <3>2, <3>3
  <2> QED
    BY <1>2, <1>7, <2>1, <2>2 DEF Words
<1>12. FreeList(mx, gl2, gl[node], fl2)
  <2> DEFINE c == Len(fl)
  <2>1. fl # <<>>
    BY <1>3, <1>4
  <2>2. fl2 \in Seq(I) /\ Len(fl2) = c - 1 /\ \A k \in 1..(c - 1) : fl2[k] = fl[k + 1]
    BY <1>3, <2>1, HeadTailProperties
  <2> HIDE DEF fl2, c
  <2>3. \A k \in 1..c : gl[fl[k]] = IF k = c THEN EMPTY ELSE index2next(fl[k + 1])
    BY <1>1 DEF FreeList, c
  <2>4. \A j, k \in 1..c : fl[j] = fl[k] => j = k
    BY <1>1 DEF FreeList, c
  <2>5. \A l \in I : gl[l] < 0 => \E k \in 1..c : fl[k] = l
    BY <1>1 DEF FreeList, c
  <2>6. c \in Nat /\ c # 0 /\ 1 \in 1..c
    BY <1>3, <1>4 DEF c
  <2>7. \A k \in 1..(c - 1) : k + 1 \in 1..c /\ k \in 1..c /\ fl[k + 1] # node
    BY <1>5, <2>4, <2>6
  <2>8. gl[node] = IF c - 1 = 0 THEN EMPTY ELSE index2next(fl2[1])
    <3>1. c - 1 # 0 => 1 \in 1..(c - 1) /\ fl2[1] = fl[1 + 1] /\ 1 # c
      BY <2>2, <2>6
    <3>2. c - 1 = 0 => c = 1
      BY <2>6
    <3> QED
      BY <1>5, <2>3, <2>6, <3>1, <3>2
  <2>9. ASSUME NEW k \in 1..(c - 1)
        PROVE  gl2[fl2[k]] = IF k = c - 1 THEN EMPTY ELSE index2next(fl2[k + 1])
    <3>1. gl2[fl2[k]] = gl[fl[k + 1]]
      <4>1. fl[k + 1] \in I /\ fl[k + 1] # node
        BY <1>3, <2>7 DEF c
      <4> QED
        BY <1>7, <2>2, <4>1
    <3> DEFINE m == k + 1
    <3>2. m \in 1..c /\ (m = c <=> k = c - 1) /\ (m # c => k + 1 \in 1..(c - 1))
      BY <2>6
    <3>3. m # c => fl2[k + 1] = fl[m + 1]
      BY <2>2, <3>2
    <3>4. gl[fl[m]] = IF m = c THEN EMPTY ELSE index2next(fl[m + 1])
      BY <2>3, <3>2
    <3> QED
      BY <3>1, <3>2, <3>3, <3>4
  <2>10. \A j, k \in 1..(c - 1) : fl2[j] = fl2[k] => j = k
    <3> TAKE j, k \in 1..(c - 1)
    <3> HAVE fl2[j] = fl2[k]
    <3>1. j + 1 = k + 1
      BY <2>2, <2>4, <2>7
    <3> QED
      BY <3>1
  <2>11. ASSUME NEW l \in I, gl2[l] < 0 PROVE \E k \in 1..(c - 1) : fl2[k] = l
    <3>1. l # node /\ gl[l] < 0
      BY <1>7, <2>11
    <3>2. PICK k \in 1..c : fl[k] = l
      BY <2>5, <3>1
    <3>3. k # 1
      BY <1>5, <3>1, <3>2
    <3>4. k - 1 \in 1..(c - 1) /\ fl2[k - 1] = fl[k - 1 + 1] /\ k - 1 + 1 = k
      BY <2>2, <2>6, <3>3
    <3> QED
      BY <3>2, <3>4
  <2> QED
    BY <2>2, <2>8, <2>9, <2>10, <2>11 DEF FreeList
<1>13. nn + 1 = Cardinality(UsedOf(mx, gl2))
  <2>1. IsFiniteSet(UsedOf(mx, gl)) /\ Cardinality(UsedOf(mx, gl)) \in Nat
    BY <1>2, UsedFinite
  <2> QED
    BY <1>2, <1>6, <1>9, <2>1, FS_AddElement
<1>14. Holds(mx, gl2, gl[node], nn + 1, pt2, fl2)
  <2> HIDE DEF fl2
  <2> QED
    BY <1>8, <1>11, <1>12, <1>13 DEF Holds
<1>15. Grown(mx, gl, pt, mx, gl2, pt2, {g})
  <2>1. mx <= mx
    BY <1>2
  <2>2. \A l \in UsedOf(mx, gl) : gl2[l] = gl[l] /\ pt2[l] = pt[l]
    BY <1>6, <1>7, <1>8 DEF UsedOf
  <2>3. \A l \in UsedOf(mx, gl2) : l \in UsedOf(mx, gl) \/ gl2[l] \in {g}
    BY <1>7, <1>9
  <2>4. node \in UsedOf(mx, gl2) /\ gl2[node] = g
    BY <1>7, <1>9
  <2> QED
    BY <2>1, <2>2, <2>3, <2>4 DEF Grown
<1> QED
  BY <1>5, <1>6, <1>9, <1>14, <1>15 DEF gl2, pt2, Popped

(***************************************************************************)
(* Growing: when no slot is free, the new slots up to end - 1 are the free *)
(* list.                                                                   *)
(***************************************************************************)
grownWords(mx, gl, end) ==
    [l \in Slots(end) |-> IF l < mx THEN gl[l] ELSE chain(l, end)]

(* The owners after a growth. *)
grownOwners(mx, pt, end) ==
    [l \in Slots(end) |-> IF l < mx THEN pt[l] ELSE EMPTY]

(* The loop that chains fresh slots makes a free list of exactly those. *)
LEMMA NewChain ==
    ASSUME NEW lo \in Nat, NEW end \in Nat, lo < end, NEW gl,
           \A l \in lo..(end - 1) : gl[l] = chain(l, end),
           NEW mx, mx = end, \A l \in Slots(mx) : gl[l] < 0 => l \in lo..(end - 1)
    PROVE  \E fl : FreeList(mx, gl, index2next(lo), fl)
<1> DEFINE c == end - lo
           fl == [j \in 1..c |-> lo + j - 1]
<1>1. c \in Nat /\ c # 0 /\ 1 \in 1..c
  OBVIOUS
<1>2. \A j \in 1..c : lo + j - 1 \in Slots(mx) /\ lo + j - 1 \in lo..(end - 1)
  BY DEF Slots
<1>3. fl \in Seq(Slots(mx)) /\ Len(fl) = c
  <2>1. fl \in [1..c -> Slots(mx)]
    BY <1>2
  <2> HIDE DEF fl, c
  <2> QED
    BY <1>1, <2>1, LenProperties DEF Seq
<1>4. \A j \in 1..c : fl[j] = lo + j - 1
  OBVIOUS
<1>5. fl[1] = lo
  BY <1>1, <1>4
<1>6. ASSUME NEW k \in 1..c
      PROVE  gl[fl[k]] = IF k = c THEN EMPTY ELSE index2next(fl[k + 1])
  <2>1. gl[lo + k - 1] = chain(lo + k - 1, end)
    BY <1>2
  <2>2. lo + k - 1 = end - 1 <=> k = c
    OBVIOUS
  <2>3. k # c => k + 1 \in 1..c /\ fl[k + 1] = lo + k - 1 + 1
    BY <1>4
  <2> QED
    BY <1>4, <2>1, <2>2, <2>3 DEF chain
<1>7. \A j, k \in 1..c : fl[j] = fl[k] => j = k
  BY <1>4
<1>8. ASSUME NEW l \in Slots(mx), gl[l] < 0 PROVE \E k \in 1..c : fl[k] = l
  <2>1. l \in lo..(end - 1)
    BY <1>8
  <2>2. l - lo + 1 \in 1..c /\ lo + (l - lo + 1) - 1 = l
    BY <2>1
  <2> QED
    BY <1>4, <2>2
<1> HIDE DEF fl, c
<1> QED
  BY <1>1, <1>3, <1>5, <1>6, <1>7, <1>8 DEF FreeList

(* A word of the new chain is a link. *)
LEMMA ChainFree ==
    \A l, end \in Nat : chain(l, end) \in Int /\ chain(l, end) < 0
  BY EmptyLink, Links DEF chain

(* ref_node_add when the free list is empty: the growth keeps all vertices *)
(* and leaves a nonempty free list.                                        *)
LEMMA GrowHolds ==
    ASSUME NEW mx, NEW gl, NEW nn, NEW pt, NEW fl, Holds(mx, gl, EMPTY, nn, pt, fl),
           NEW end \in Nat, mx < end, NEW gl2, gl2 = grownWords(mx, gl, end),
           NEW pt2, pt2 = grownOwners(mx, pt, end)
    PROVE  /\ \E fl2 : Holds(end, gl2, index2next(mx), nn, pt2, fl2)
           /\ UsedOf(end, gl2) = UsedOf(mx, gl)
           /\ \A l \in UsedOf(mx, gl) : gl2[l] = gl[l] /\ pt2[l] = pt[l]
<1>1. Words(mx, gl) /\ FreeList(mx, gl, EMPTY, fl) /\ nn = Cardinality(UsedOf(mx, gl))
  BY DEF Holds
<1>2. /\ mx \in Nat /\ mx # 0 /\ gl \in [Slots(mx) -> Int]
      /\ pt \in [Slots(mx) -> {Me, Other, EMPTY}]
  BY DEF Holds, Words
<1>3. \A l \in Slots(end) : l \in Nat /\ (l < mx <=> l \in Slots(mx))
  BY <1>2 DEF Slots
<1>4. \A l \in Slots(mx) : l \in Slots(end)
  BY <1>2 DEF Slots
<1>5. Len(fl) = 0
  <2>1. Len(fl) \in Nat /\ \A k \in 1..Len(fl) : fl[k] \in Slots(mx)
    BY <1>1, FreeSlots
  <2>2. CASE Len(fl) # 0
    <3>1. 1 \in 1..Len(fl)
      BY <2>1, <2>2
    <3>2. fl[1] \in Nat
      BY <1>3, <1>4, <2>1, <3>1
    <3>3. EMPTY = index2next(fl[1])
      BY <1>1, <2>2 DEF FreeList
    <3> QED
      BY <3>2, <3>3, Links
  <2> QED
    BY <2>2
<1>6. \A l \in Slots(mx) : gl[l] >= 0
  <2>1. \A l \in Slots(mx) : ~ (gl[l] < 0)
    BY <1>1, <1>5 DEF FreeList
  <2> QED
    BY <1>2, <2>1
<1>7. /\ \A l \in Slots(mx) : gl2[l] = gl[l] /\ pt2[l] = pt[l]
      /\ \A l \in Slots(end) : l \notin Slots(mx) => gl2[l] = chain(l, end) /\ pt2[l] = EMPTY
      /\ DOMAIN gl2 = Slots(end) /\ DOMAIN pt2 = Slots(end)
      /\ gl2 = [l \in Slots(end) |-> gl2[l]] /\ pt2 = [l \in Slots(end) |-> pt2[l]]
  BY <1>3, <1>4 DEF grownWords, grownOwners
<1>8. /\ gl2 \in [Slots(end) -> Int] /\ pt2 \in [Slots(end) -> {Me, Other, EMPTY}]
      /\ \A l \in Slots(end) : l \notin Slots(mx) => gl2[l] < 0
  <2>1. ASSUME NEW l \in Slots(end)
        PROVE  gl2[l] \in Int /\ pt2[l] \in {Me, Other, EMPTY}
    <3>1. CASE l \in Slots(mx)
      <4>1. gl2[l] = gl[l] /\ pt2[l] = pt[l]
        BY <1>7, <3>1
      <4> QED
        BY <1>2, <3>1, <4>1
    <3>2. CASE l \notin Slots(mx)
      <4>1. gl2[l] = chain(l, end) /\ pt2[l] = EMPTY /\ l \in Nat
        BY <1>3, <1>7, <3>2
      <4> QED
        BY <4>1, ChainFree
    <3> QED
      BY <3>1, <3>2
  <2>2. \A l \in Slots(end) : l \notin Slots(mx) => gl2[l] < 0
    BY <1>3, <1>7, ChainFree
  <2> QED
    BY <1>7, <2>1, <2>2
<1>9. UsedOf(end, gl2) = UsedOf(mx, gl)
  <2>1. \A l \in Slots(end) : gl2[l] >= 0 => l \in Slots(mx)
    BY <1>8
  <2> QED
    BY <1>4, <1>7, <2>1 DEF UsedOf
<1>10. Words(end, gl2)
  <2>1. end \in Nat \ {0}
    BY <1>2
  <2>2. \A l \in Slots(end) : gl2[l] >= 0 => l \in Slots(mx) /\ gl2[l] = gl[l]
    BY <1>7, <1>8
  <2>3. \A l \in Slots(end) : gl2[l] >= 0 => gl2[l] \in Glob
    BY <1>1, <2>2 DEF Words
  <2>4. \A l, k \in Slots(end) : gl2[l] >= 0 /\ gl2[l] = gl2[k] => l = k
    BY <1>1, <2>2 DEF Words
  <2> QED
    BY <1>8, <2>1, <2>3, <2>4 DEF Words
<1>11. \E fl2 : FreeList(end, gl2, index2next(mx), fl2)
  <2>1. \A l \in mx..(end - 1) : l \in Slots(end) /\ l \notin Slots(mx)
    BY <1>2 DEF Slots
  <2>2. \A l \in mx..(end - 1) : gl2[l] = chain(l, end)
    BY <1>7, <2>1
  <2>3. ASSUME NEW l \in Slots(end), gl2[l] < 0 PROVE l \in mx..(end - 1)
    <3>1. l \notin Slots(mx)
      BY <1>2, <1>6, <1>7, <2>3
    <3> QED
      BY <1>2, <3>1 DEF Slots
  <2> QED
    BY <1>2, <2>2, <2>3, NewChain
<1> QED
  BY <1>1, <1>7, <1>8, <1>9, <1>10, <1>11 DEF Holds, UsedOf

-----------------------------------------------------------------------------
(***************************************************************************)
(* Storage records, and ref_node_add_core on them.                         *)
(***************************************************************************)
Storage(s) ==
    /\ s = [max |-> s.max, global |-> s.global, blank |-> s.blank, n |-> s.n,
            part |-> s.part]
    /\ \E fl : Holds(s.max, s.global, s.blank, s.n, s.part, fl)

(* Grown, for storage records. *)
GrownTo(s, s2, new) ==
    Grown(s.max, s.global, s.part, s2.max, s2.global, s2.part, new)

(* The numbers a storage record holds. *)
NumbersIn(s) == NumbersOf(s.max, s.global)

(* The record after a growth that was needed. *)
roomy(s) == IF s.blank = EMPTY THEN grow(s) ELSE s

(* What the growth stores. *)
LEMMA GrowForm ==
    ASSUME NEW s, Storage(s)
    PROVE  \E end \in Nat :
              /\ s.max < end
              /\ grow(s) = [max |-> end, global |-> grownWords(s.max, s.global, end),
                            blank |-> index2next(s.max), n |-> s.n,
                            part |-> grownOwners(s.max, s.part, end)]
<1> DEFINE chunk == Max({GrowMin, (3 * s.max) \div 2})
           end == s.max + chunk
<1>1. s.max \in Nat \ {0}
  BY DEF Storage, Holds, Words
<1>2. chunk \in Nat /\ chunk # 0
  <2> DEFINE a == (3 * s.max) \div 2
             T == {GrowMin, a}
  <2>1. a \in Nat /\ GrowMin \in Nat /\ GrowMin # 0
    BY <1>1, SizeAssumption
  <2> HIDE DEF a
  <2>2. \E x \in T : \A y \in T : x >= y
    BY <2>1
  <2>3. chunk = CHOOSE x \in T : \A y \in T : x >= y
    BY DEF Max, a
  <2>4. chunk \in T /\ chunk >= GrowMin
    BY <2>2, <2>3
  <2> HIDE DEF chunk
  <2> QED
    BY <2>1, <2>4
<1>3. end \in Nat /\ s.max < end
  <2> HIDE DEF chunk
  <2> QED
    BY <1>1, <1>2
<1>4. grow(s) = [max |-> end, global |-> grownWords(s.max, s.global, end),
                 blank |-> index2next(s.max), n |-> s.n,
                 part |-> grownOwners(s.max, s.part, end)]
  <2>1. s = [max |-> s.max, global |-> s.global, blank |-> s.blank, n |-> s.n,
             part |-> s.part]
    BY DEF Storage
  <2>2. grow(s) = [s EXCEPT !.max = end, !.global = grownWords(s.max, s.global, end),
                            !.blank = index2next(s.max),
                            !.part = grownOwners(s.max, s.part, end)]
    BY <2>1 DEF grow, grownWords, grownOwners, Slots
  <2> HIDE DEF end
  <2> QED
    BY <2>1, <2>2
<1> QED
  BY <1>3, <1>4

(* What ref_node_add_core stores. *)
LEMMA AddCoreForm ==
    ASSUME NEW s, Storage(s), NEW g, NEW t, t = roomy(s), NEW node, node = next2index(t.blank)
    PROVE  add_core(s, g) =
              [max |-> t.max, global |-> [t.global EXCEPT ![node] = g],
               blank |-> t.global[node], n |-> t.n + 1,
               part |-> [t.part EXCEPT ![node] = Me]]
<1>1. s = [max |-> s.max, global |-> s.global, blank |-> s.blank, n |-> s.n,
           part |-> s.part]
  BY DEF Storage
<1>2. t = [max |-> t.max, global |-> t.global, blank |-> t.blank, n |-> t.n,
           part |-> t.part]
  <2>1. CASE s.blank = EMPTY
    BY <2>1, GrowForm DEF roomy
  <2>2. CASE s.blank # EMPTY
    BY <1>1, <2>2 DEF roomy
  <2> QED
    BY <2>1, <2>2
<1>3. add_core(s, g) = [t EXCEPT !.blank = t.global[node], !.global[node] = g,
                                 !.part[node] = Me, !.n = @ + 1]
  BY DEF add_core, roomy
<1> QED
  BY <1>2, <1>3

(* The slot ref_node_add_core takes. *)
LEMMA Roomy ==
    ASSUME NEW s, Storage(s), NEW t, t = roomy(s)
    PROVE  /\ Storage(t) /\ t.blank # EMPTY
           /\ t.blank = IF s.blank = EMPTY THEN index2next(s.max) ELSE s.blank
           /\ s.max <= t.max
           /\ UsedOf(t.max, t.global) = UsedOf(s.max, s.global)
           /\ \A l \in UsedOf(s.max, s.global) :
                 t.global[l] = s.global[l] /\ t.part[l] = s.part[l]
<1>1. s.max \in Nat
  BY DEF Storage, Holds, Words
<1>2. CASE s.blank = EMPTY
  <2>1. PICK end \in Nat :
          /\ s.max < end
          /\ grow(s) = [max |-> end, global |-> grownWords(s.max, s.global, end),
                        blank |-> index2next(s.max), n |-> s.n,
                        part |-> grownOwners(s.max, s.part, end)]
    BY GrowForm
  <2>2. /\ t.max = end /\ t.global = grownWords(s.max, s.global, end)
        /\ t.blank = index2next(s.max) /\ t.n = s.n
        /\ t.part = grownOwners(s.max, s.part, end)
        /\ t = [max |-> t.max, global |-> t.global, blank |-> t.blank, n |-> t.n,
                part |-> t.part]
    BY <1>2, <2>1 DEF roomy
  <2>3. PICK fl : Holds(s.max, s.global, EMPTY, s.n, s.part, fl)
    BY <1>2 DEF Storage
  <2>4. /\ \E fl2 : Holds(end, t.global, index2next(s.max), s.n, t.part, fl2)
        /\ UsedOf(end, t.global) = UsedOf(s.max, s.global)
        /\ \A l \in UsedOf(s.max, s.global) :
              t.global[l] = s.global[l] /\ t.part[l] = s.part[l]
    BY <2>1, <2>2, <2>3, GrowHolds
  <2>5. t.blank # EMPTY /\ s.max <= end
    BY <1>1, <2>1, <2>2, Links
  <2>6. Storage(t)
    BY <2>2, <2>4 DEF Storage
  <2> QED
    BY <1>2, <2>2, <2>4, <2>5, <2>6
<1>3. CASE s.blank # EMPTY
  BY <1>1, <1>3 DEF roomy
<1> QED
  BY <1>2, <1>3

(* The slot ref_node_add_core takes, and the record with the caller's owner. *)
nodeOf(s) == next2index(IF s.blank = EMPTY THEN index2next(s.max) ELSE s.blank)

(* What ref_node_add leaves in the slots, with the owner its caller stores. *)
owned(s, g, owner) == [add_core(s, g) EXCEPT !.part[nodeOf(s)] = owner]

(* g was added in slot node. *)
Added(s, g, owner, node, s2) ==
    /\ Storage(s2) /\ GrownTo(s, s2, {g})
    /\ node \notin UsedOf(s.max, s.global) /\ node \in Slots(s2.max)
    /\ UsedOf(s2.max, s2.global) = UsedOf(s.max, s.global) \cup {node}
    /\ s2.global[node] = g /\ s2.n = s.n + 1 /\ s2.part[node] = owner

(***************************************************************************)
(* ref_node_add_core stores a number that is not here yet and nothing      *)
(* else, with any owner its caller gives it afterwards.                    *)
(***************************************************************************)
LEMMA AddCore ==
    ASSUME NEW s, Storage(s), NEW g \in Glob, g \notin NumbersIn(s),
           NEW owner \in {Me, Other}
    PROVE  Added(s, g, owner, nodeOf(s), owned(s, g, owner))
<1> DEFINE node == nodeOf(s)
           s2 == owned(s, g, owner)
<1> DEFINE t == roomy(s)
           gl2 == put(t.global, node, g)
           pt1 == put(t.part, node, Me)
           pt2 == put(t.part, node, owner)
<1>1. /\ Storage(t) /\ t.blank # EMPTY
      /\ node = next2index(t.blank)
      /\ s.max <= t.max
      /\ UsedOf(t.max, t.global) = UsedOf(s.max, s.global)
      /\ \A l \in UsedOf(s.max, s.global) :
            t.global[l] = s.global[l] /\ t.part[l] = s.part[l]
  BY Roomy DEF nodeOf
<1>a. s2 = [add_core(s, g) EXCEPT !.part[node] = owner]
  BY DEF owned
<1> HIDE DEF t, node, s2
<1>2. add_core(s, g) = [max |-> t.max, global |-> gl2, blank |-> t.global[node],
                        n |-> t.n + 1, part |-> pt1]
  BY <1>1, AddCoreForm DEF t, put
<1>3. t.n = s.n
  <2>1. t.n = Cardinality(UsedOf(t.max, t.global)) /\ s.n = Cardinality(UsedOf(s.max, s.global))
    BY <1>1 DEF Storage, Holds
  <2> QED
    BY <1>1, <2>1
<1>4. NumbersOf(t.max, t.global) = NumbersIn(s)
  BY <1>1 DEF NumbersOf, NumbersIn
<1>5. PICK fl : Holds(t.max, t.global, t.blank, t.n, t.part, fl)
  BY <1>1 DEF Storage
<1>6. /\ node \in Slots(t.max) /\ node \notin UsedOf(t.max, t.global)
      /\ \E fl2 : Holds(t.max, gl2, t.global[node], t.n + 1, pt2, fl2)
      /\ UsedOf(t.max, gl2) = UsedOf(t.max, t.global) \cup {node}
      /\ Grown(t.max, t.global, t.part, t.max, gl2, pt2, {g})
  <2> DEFINE mx == t.max
             gl == t.global
             bl == t.blank
             nn == t.n
             pt == t.part
  <2>1. Holds(mx, gl, bl, nn, pt, fl) /\ bl # EMPTY /\ node = next2index(bl)
    BY <1>1, <1>5
  <2>2. g \notin NumbersOf(mx, gl)
    BY <1>4
  <2> HIDE DEF mx, gl, bl, nn, pt
  <2>3. Popped(mx, gl, nn, pt, node, g, owner)
    BY <2>1, <2>2, PopHolds
  <2> QED
    BY <2>3 DEF Popped, mx, gl, bl, nn, pt
<1>7. t.part \in [Slots(t.max) -> {Me, Other, EMPTY}] /\ t.global \in [Slots(t.max) -> Int]
  BY <1>5 DEF Holds, Words
<1>8. [pt1 EXCEPT ![node] = owner] = pt2 /\ pt2[node] = owner /\ gl2[node] = g
  BY <1>6, <1>7 DEF put
<1> HIDE DEF gl2, pt1, pt2
<1>9. s2 = [max |-> t.max, global |-> gl2, blank |-> t.global[node], n |-> t.n + 1,
            part |-> pt2]
  BY <1>a, <1>2, <1>8
<1>10. /\ s2.max = t.max /\ s2.global = gl2 /\ s2.blank = t.global[node]
       /\ s2.n = t.n + 1 /\ s2.part = pt2
  BY <1>9
<1>11. Storage(s2)
  BY <1>6, <1>9, <1>10 DEF Storage
<1>12. GrownTo(s, s2, {g})
  <2>1. \A l \in UsedOf(s.max, s.global) :
           gl2[l] = s.global[l] /\ pt2[l] = s.part[l]
    BY <1>1, <1>6 DEF Grown
  <2>2. \A l \in UsedOf(t.max, gl2) : l \in UsedOf(s.max, s.global) \/ gl2[l] \in {g}
    BY <1>1, <1>6 DEF Grown
  <2>3. \A h \in {g} : \E l \in UsedOf(t.max, gl2) : gl2[l] = h
    BY <1>6 DEF Grown
  <2>4. {g} \cap NumbersOf(s.max, s.global) = {}
    BY DEF NumbersIn
  <2> QED
    BY <1>1, <1>10, <2>1, <2>2, <2>3, <2>4 DEF GrownTo, Grown
<1> QED
  BY <1>1, <1>3, <1>6, <1>8, <1>10, <1>11, <1>12 DEF Added, node, s2

-----------------------------------------------------------------------------
(* A released slot becomes the first of the free list. *)
Released(mx, gl, bl, nn, pt, l) ==
    /\ \E fl : Holds(mx, put(gl, l, bl), index2next(l), nn - 1, put(pt, l, EMPTY), fl)
    /\ Shrunk(mx, gl, pt, mx, put(gl, l, bl), put(pt, l, EMPTY), l)
    /\ nn \in Nat \ {0}

(* A removed slot goes to the front of the free list; nobody else changes. *)
LEMMA ReleaseHolds ==
    ASSUME NEW mx, NEW gl, NEW bl, NEW nn, NEW pt, NEW fl, Holds(mx, gl, bl, nn, pt, fl),
           NEW l \in UsedOf(mx, gl)
    PROVE  Released(mx, gl, bl, nn, pt, l)
<1> DEFINE gl2 == put(gl, l, bl)
           pt2 == put(pt, l, EMPTY)
           c == Len(fl)
           fl2 == [k \in 1..(c + 1) |-> IF k = 1 THEN l ELSE fl[k - 1]]
           I == Slots(mx)
<1>1. Words(mx, gl) /\ FreeList(mx, gl, bl, fl) /\ nn = Cardinality(UsedOf(mx, gl))
  BY DEF Holds
<1>2. /\ mx \in Nat \ {0} /\ gl \in [I -> Int] /\ pt \in [I -> {Me, Other, EMPTY}]
  BY DEF Holds, Words
<1>3. /\ c \in Nat /\ \A k \in 1..c : fl[k] \in I /\ gl[fl[k]] < 0
      /\ bl \in Int
  BY <1>1, FreeSlots
<1>4. bl = IF c = 0 THEN EMPTY ELSE index2next(fl[1])
  BY <1>1 DEF FreeList
<1>5. l \in I /\ gl[l] >= 0 /\ l \in Nat
  <2>1. l \in I /\ gl[l] >= 0
    BY DEF UsedOf
  <2> QED
    BY <1>2, <2>1 DEF Slots
<1>6. bl < 0
  <2>1. c # 0 => fl[1] \in Nat
    <3>1. c # 0 => 1 \in 1..c
      BY <1>3
    <3> QED
      BY <1>2, <1>3, <3>1 DEF Slots
  <2> QED
    BY <1>4, <2>1, Links, EmptyLink
<1>7. /\ gl2 \in [I -> Int] /\ gl2[l] = bl /\ \A k \in I : k # l => gl2[k] = gl[k]
      /\ pt2 \in [I -> {Me, Other, EMPTY}] /\ \A k \in I : k # l => pt2[k] = pt[k]
  BY <1>2, <1>3, <1>5 DEF put
<1> HIDE DEF gl2, pt2
<1>8. UsedOf(mx, gl2) = UsedOf(mx, gl) \ {l}
  <2>1. ~ (gl2[l] >= 0)
    BY <1>3, <1>6, <1>7
  <2> QED
    BY <1>7, <2>1 DEF UsedOf
<1>9. Words(mx, gl2)
  <2>1. \A k \in I : gl2[k] >= 0 => k # l /\ gl2[k] = gl[k]
    BY <1>3, <1>6, <1>7
  <2>2. \A k \in I : gl2[k] >= 0 => gl2[k] \in Glob
    BY <1>1, <2>1 DEF Words
  <2>3. \A j, k \in I : gl2[j] >= 0 /\ gl2[j] = gl2[k] => j = k
    BY <1>1, <2>1 DEF Words
  <2> QED
    BY <1>2, <1>7, <2>2, <2>3 DEF Words
<1>10. FreeList(mx, gl2, index2next(l), fl2)
  <2>1. fl2 \in Seq(I) /\ Len(fl2) = c + 1
    <3>1. \A k \in 1..(c + 1) : k # 1 => k - 1 \in 1..c
      BY <1>3
    <3>2. fl2 \in [1..(c + 1) -> I]
      <4> HIDE DEF c, I
      <4> QED
        BY <1>3, <1>5, <3>1
    <3>3. c + 1 \in Nat
      BY <1>3
    <3> HIDE DEF fl2, c, I
    <3> QED
      BY <3>2, <3>3, LenProperties DEF Seq
  <2>2. \A k \in 1..(c + 1) : fl2[k] = IF k = 1 THEN l ELSE fl[k - 1]
    OBVIOUS
  <2>3. \A k \in 1..c : gl[fl[k]] = IF k = c THEN EMPTY ELSE index2next(fl[k + 1])
    BY <1>1 DEF FreeList
  <2>4. \A j, k \in 1..c : fl[j] = fl[k] => j = k
    BY <1>1 DEF FreeList
  <2>5. \A k \in I : gl[k] < 0 => \E j \in 1..c : fl[j] = k
    BY <1>1 DEF FreeList
  <2>6. \A k \in 1..c : fl[k] # l
    BY <1>2, <1>3, <1>5
  <2> HIDE DEF fl2, c
  <2>7. 1 \in 1..(c + 1) /\ fl2[1] = l /\ c + 1 # 0
    BY <1>3, <2>2
  <2>8. \A k \in 1..(c + 1) : k # 1 => k - 1 \in 1..c /\ fl2[k] = fl[k - 1]
    BY <1>3, <2>2
  <2>9. \A k \in 1..c : k + 1 \in 1..(c + 1) /\ k + 1 # 1 /\ fl2[k + 1] = fl[k]
    <3>1. \A k \in 1..c : k + 1 \in 1..(c + 1) /\ k + 1 # 1 /\ k + 1 - 1 = k
      BY <1>3
    <3> QED
      BY <2>2, <3>1
  <2>10. ASSUME NEW k \in 1..(c + 1)
         PROVE  gl2[fl2[k]] = IF k = c + 1 THEN EMPTY ELSE index2next(fl2[k + 1])
    <3>1. CASE k = 1
      <4>1. gl2[fl2[k]] = bl
        BY <1>7, <2>7, <3>1
      <4>2. c # 0 => 1 \in 1..c
        BY <1>3
      <4>3. c # 0 => fl2[k + 1] = fl[1]
        BY <2>9, <3>1, <4>2
      <4>4. c = 0 <=> k = c + 1
        BY <1>3, <3>1
      <4> QED
        BY <1>4, <4>1, <4>3, <4>4 DEF c
    <3>2. CASE k # 1
      <4> DEFINE m == k - 1
      <4>1. m \in 1..c /\ fl2[k] = fl[m] /\ (m = c <=> k = c + 1)
        BY <1>3, <2>8, <3>2
      <4>2. gl2[fl2[k]] = gl[fl[m]]
        <5>1. fl[m] \in I /\ fl[m] # l
          BY <1>3, <2>6, <4>1 DEF c
        <5> QED
          BY <1>7, <4>1, <5>1
      <4>3. m # c => fl2[k + 1] = fl[m + 1]
        <5>1. m # c => m + 1 \in 1..c /\ k + 1 = m + 1 + 1
          BY <1>3, <4>1
        <5> QED
          BY <2>9, <5>1
      <4> HIDE DEF m
      <4> QED
        BY <2>3, <4>1, <4>2, <4>3
    <3> QED
      BY <3>1, <3>2
  <2>11. ASSUME NEW j \in 1..(c + 1), NEW k \in 1..(c + 1), fl2[j] = fl2[k] PROVE j = k
    <3>1. CASE j = 1 \/ k = 1
      BY <2>6, <2>7, <2>8, <2>11, <3>1
    <3>2. CASE j # 1 /\ k # 1
      <4>1. j - 1 = k - 1
        BY <2>4, <2>8, <2>11, <3>2
      <4> QED
        BY <1>3, <4>1
    <3> QED
      BY <3>1, <3>2
  <2>12. ASSUME NEW k \in I, gl2[k] < 0 PROVE \E j \in 1..(c + 1) : fl2[j] = k
    <3>1. CASE k = l
      BY <2>7, <3>1
    <3>2. CASE k # l
      <4>1. PICK j \in 1..c : fl[j] = k
        BY <1>7, <2>5, <2>12, <3>2
      <4> QED
        BY <2>9, <4>1
    <3> QED
      BY <3>1, <3>2
  <2> QED
    BY <2>1, <2>7, <2>10, <2>11, <2>12 DEF FreeList
<1>11. nn \in Nat \ {0} /\ nn - 1 = Cardinality(UsedOf(mx, gl2))
  <2>1. IsFiniteSet(UsedOf(mx, gl)) /\ Cardinality(UsedOf(mx, gl)) \in Nat
    BY <1>2, UsedFinite
  <2>2. Cardinality(UsedOf(mx, gl) \ {l}) = Cardinality(UsedOf(mx, gl)) - 1
    BY <2>1, FS_RemoveElement
  <2>3. IsFiniteSet(UsedOf(mx, gl2)) /\ Cardinality(UsedOf(mx, gl2)) \in Nat
    BY <1>2, UsedFinite
  <2> QED
    BY <1>1, <1>8, <2>1, <2>2, <2>3
<1>12. Holds(mx, gl2, index2next(l), nn - 1, pt2, fl2)
  <2> HIDE DEF fl2
  <2> QED
    BY <1>7, <1>9, <1>10, <1>11 DEF Holds
<1>13. Shrunk(mx, gl, pt, mx, gl2, pt2, l)
  BY <1>7, <1>8 DEF Shrunk, UsedOf
<1> QED
  BY <1>11, <1>12, <1>13 DEF Released, gl2, pt2

-----------------------------------------------------------------------------
(* A pack deals out the slots below nn and threads the others in a row. *)
packedWords(mx, gl, nn, n2o) ==
    [l \in Slots(mx) |-> IF l < nn THEN gl[n2o[l]] ELSE chain(l, mx)]

packedOwners(mx, pt, nn, n2o) ==
    [l \in Slots(mx) |-> IF l < nn THEN pt[n2o[l]] ELSE EMPTY]

packedBlank(mx, nn) == IF nn < mx THEN index2next(nn) ELSE EMPTY

Packed(mx, gl, nn, pt, n2o) ==
    /\ nn \in Nat /\ nn <= mx
    /\ \E fl : Holds(mx, packedWords(mx, gl, nn, n2o), packedBlank(mx, nn), nn,
                     packedOwners(mx, pt, nn, n2o), fl)
    /\ UsedOf(mx, packedWords(mx, gl, nn, n2o)) = Index(nn)
    /\ \A l \in Index(nn) :
          /\ packedWords(mx, gl, nn, n2o)[l] = gl[n2o[l]]
          /\ packedOwners(mx, pt, nn, n2o)[l] = pt[n2o[l]]

(* ref_node_pack: the vertices fill 0..n-1 in the given order and the rest *)
(* is one free chain.                                                      *)
LEMMA PackHolds ==
    ASSUME NEW mx, NEW gl, NEW bl, NEW nn, NEW pt, NEW fl, Holds(mx, gl, bl, nn, pt, fl),
           NEW n2o \in Bijection(Index(nn), UsedOf(mx, gl))
    PROVE  Packed(mx, gl, nn, pt, n2o)
<1> DEFINE gl2 == packedWords(mx, gl, nn, n2o)
           pt2 == packedOwners(mx, pt, nn, n2o)
           I == Slots(mx)
<1>1. Words(mx, gl) /\ nn = Cardinality(UsedOf(mx, gl))
  BY DEF Holds
<1>2. /\ mx \in Nat \ {0} /\ gl \in [I -> Int] /\ pt \in [I -> {Me, Other, EMPTY}]
  BY DEF Holds, Words
<1>3. nn \in Nat /\ nn <= mx
  <2>1. /\ IsFiniteSet(UsedOf(mx, gl)) /\ Cardinality(UsedOf(mx, gl)) \in Nat
        /\ UsedOf(mx, gl) \in SUBSET I
    BY <1>2, UsedFinite
  <2>2. IsFiniteSet(I) /\ Cardinality(I) = mx
    BY <1>2, FS_Interval DEF Slots
  <2> QED
    BY <1>1, <2>1, <2>2, FS_Subset
<1>4. \A l \in I : l \in Nat /\ (l < nn <=> l \in Index(nn))
  BY <1>2, <1>3 DEF Slots, Index
<1>5. \A l \in Index(nn) : l \in I
  BY <1>2, <1>3 DEF Slots, Index
<1>6. /\ n2o \in [Index(nn) -> UsedOf(mx, gl)]
      /\ \A j, k \in Index(nn) : n2o[j] = n2o[k] => j = k
  BY DEF Bijection, Injection, IsInjective
<1>7. \A l \in Index(nn) : n2o[l] \in I /\ gl[n2o[l]] >= 0
  BY <1>6 DEF UsedOf
<1>8. /\ \A l \in Index(nn) : gl2[l] = gl[n2o[l]] /\ pt2[l] = pt[n2o[l]]
      /\ \A l \in I : l \notin Index(nn) => gl2[l] = chain(l, mx) /\ pt2[l] = EMPTY
      /\ gl2 = [l \in I |-> gl2[l]] /\ pt2 = [l \in I |-> pt2[l]]
  BY <1>4, <1>5 DEF packedWords, packedOwners
<1> HIDE DEF gl2, pt2
<1>9. ASSUME NEW l \in I PROVE gl2[l] \in Int /\ pt2[l] \in {Me, Other, EMPTY}
  <2>1. CASE l \in Index(nn)
    <3>1. gl2[l] = gl[n2o[l]] /\ pt2[l] = pt[n2o[l]] /\ n2o[l] \in I
      BY <1>7, <1>8, <2>1
    <3> QED
      BY <1>2, <3>1
  <2>2. CASE l \notin Index(nn)
    <3>1. gl2[l] = chain(l, mx) /\ pt2[l] = EMPTY /\ l \in Nat
      BY <1>4, <1>8, <2>2
    <3> QED
      BY <1>2, <3>1, ChainFree
  <2> QED
    BY <2>1, <2>2
<1>10. gl2 \in [I -> Int] /\ pt2 \in [I -> {Me, Other, EMPTY}]
  BY <1>8, <1>9
<1>11. \A l \in I : l \notin Index(nn) => gl2[l] < 0
  BY <1>2, <1>4, <1>8, ChainFree
<1>12. UsedOf(mx, gl2) = Index(nn)
  <2>1. \A l \in I : gl2[l] >= 0 => l \in Index(nn)
    BY <1>9, <1>11
  <2>2. \A l \in Index(nn) : gl2[l] >= 0
    BY <1>7, <1>8
  <2> QED
    BY <1>5, <2>1, <2>2 DEF UsedOf
<1>13. Words(mx, gl2)
  <2>1. \A l \in I : gl2[l] >= 0 => l \in Index(nn)
    BY <1>12 DEF UsedOf
  <2>2. \A l \in I : gl2[l] >= 0 => gl2[l] \in Glob
    BY <1>1, <1>7, <1>8, <2>1 DEF Words
  <2>3. ASSUME NEW l \in I, NEW k \in I, gl2[l] >= 0, gl2[l] = gl2[k] PROVE l = k
    <3>1. l \in Index(nn) /\ k \in Index(nn)
      BY <2>1, <2>3
    <3>2. gl[n2o[l]] = gl[n2o[k]]
      BY <1>8, <2>3, <3>1
    <3>3. n2o[l] = n2o[k]
      BY <1>1, <1>7, <3>1, <3>2 DEF Words
    <3> QED
      BY <1>6, <3>1, <3>3
  <2> QED
    BY <1>2, <1>10, <2>2, <2>3 DEF Words
<1>14. \E fl2 : FreeList(mx, gl2, packedBlank(mx, nn), fl2)
  <2>1. CASE nn < mx
    <3>1. \A l \in nn..(mx - 1) : l \in I /\ l \notin Index(nn)
      BY <1>2, <1>3 DEF Slots, Index
    <3>2. \A l \in nn..(mx - 1) : gl2[l] = chain(l, mx)
      BY <1>8, <3>1
    <3>3. ASSUME NEW l \in I, gl2[l] < 0 PROVE l \in nn..(mx - 1)
      <4>1. l \notin Index(nn)
        <5>1. l \in Index(nn) => gl2[l] >= 0
          BY <1>7, <1>8
        <5> QED
          BY <1>9, <3>3, <5>1
      <4> QED
        BY <1>2, <1>3, <4>1 DEF Slots, Index
    <3>4. \E fl2 : FreeList(mx, gl2, index2next(nn), fl2)
      BY <1>2, <1>3, <2>1, <3>2, <3>3, NewChain
    <3> QED
      BY <2>1, <3>4 DEF packedBlank
  <2>2. CASE ~ (nn < mx)
    <3>1. I = Index(nn)
      BY <1>2, <1>3, <2>2 DEF Slots, Index
    <3>2. \A l \in I : ~ (gl2[l] < 0)
      <4>1. \A l \in I : gl2[l] >= 0
        BY <1>7, <1>8, <3>1
      <4> QED
        BY <1>9, <4>1
    <3>3. << >> \in Seq(I) /\ Len(<< >>) = 0
      OBVIOUS
    <3>4. FreeList(mx, gl2, EMPTY, << >>)
      BY <3>2, <3>3 DEF FreeList
    <3> QED
      BY <2>2, <3>4 DEF packedBlank
  <2> QED
    BY <2>1, <2>2
<1>15. nn = Cardinality(UsedOf(mx, gl2))
  BY <1>3, <1>12, FS_Interval DEF Index
<1>16. \E fl2 : Holds(mx, gl2, packedBlank(mx, nn), nn, pt2, fl2)
  BY <1>10, <1>13, <1>14, <1>15 DEF Holds
<1> QED
  BY <1>3, <1>8, <1>12, <1>16 DEF Packed, gl2, pt2

-----------------------------------------------------------------------------
(***************************************************************************)
(* The index: sg lists the numbers of the used slots upwards, sl the slots.*)
(***************************************************************************)
Typed(mx, nn, sg, sl) == sg \in [Index(nn) -> Glob] /\ sl \in [Index(nn) -> Slots(mx)]

(* The index lists exactly the used slots, by ascending number. *)
Indexed(mx, gl, nn, sg, sl) ==
    /\ Typed(mx, nn, sg, sl)
    /\ \A i, j \in Index(nn) : i < j => sg[i] < sg[j]
    /\ \A i \in Index(nn) : sl[i] \in UsedOf(mx, gl) /\ gl[sl[i]] = sg[i]
    /\ \A l \in UsedOf(mx, gl) : \E i \in Index(nn) : sl[i] = l

(* The search of the index finds the place of a number. *)
LEMMA PlaceFound ==
    ASSUME NEW nn \in Nat, NEW sg \in [Index(nn) -> Glob],
           \A i, j \in Index(nn) : i < j => sg[i] < sg[j], NEW g \in Glob,
           NEW p, p = search_glob(nn, sg, g)
    PROVE  \/ p \in Index(nn) /\ p # EMPTY /\ sg[p] = g
           \/ p = EMPTY /\ \A i \in Index(nn) : sg[i] # g
<1>1. \A x \in Glob : x \in Int
  BY DEF Glob
<1>2. sg \in [Index(nn) -> Int] /\ g \in Int
  BY <1>1
<1>3. Ascending(nn, sg)
  <2>1. \A i \in Index(nn) : sg[i] \in Int
    BY <1>2
  <2>2. \A x, y \in Int : x < y => x <= y
    OBVIOUS
  <2> QED
    BY <2>1, <2>2 DEF Ascending
<1>4. \/ p \in Index(nn) /\ sg[p] = g
      \/ p = ABSENT /\ \A i \in Index(nn) : sg[i] # g
  BY <1>2, <1>3, SearchIsExact
<1>5. ABSENT = EMPTY
  BY DEF ABSENT, EMPTY
<1>6. \A i \in Index(nn) : i # EMPTY
  BY DEF Index, EMPTY
<1> QED
  BY <1>4, <1>5, <1>6

(* ref_node_local answers with the slot of a number exactly when it is here. *)
LEMMA SlotFound ==
    ASSUME NEW mx, NEW gl, NEW nn \in Nat, NEW sg, NEW sl, Words(mx, gl),
           Indexed(mx, gl, nn, sg, sl), NEW g \in Glob,
           NEW p, p = search_glob(nn, sg, g),
           NEW v, v = IF p = EMPTY THEN EMPTY ELSE sl[p]
    PROVE  \/ v = EMPTY /\ g \notin NumbersOf(mx, gl)
           \/ v # EMPTY /\ v \in UsedOf(mx, gl) /\ gl[v] = g
<1>1. \/ p \in Index(nn) /\ p # EMPTY /\ sg[p] = g
      \/ p = EMPTY /\ \A i \in Index(nn) : sg[i] # g
  BY PlaceFound DEF Indexed, Typed
<1>2. CASE p \in Index(nn) /\ p # EMPTY /\ sg[p] = g
  <2>1. v \in UsedOf(mx, gl) /\ gl[v] = g
    BY <1>2 DEF Indexed
  <2>2. v # EMPTY
    BY <2>1, EmptyLink DEF UsedOf, Slots
  <2> QED
    BY <2>1, <2>2
<1>3. CASE p = EMPTY /\ \A i \in Index(nn) : sg[i] # g
  <2>1. \A l \in UsedOf(mx, gl) : gl[l] # g
    BY <1>3 DEF Indexed
  <2> QED
    BY <1>3, <2>1 DEF NumbersOf
<1> QED
  BY <1>1, <1>2, <1>3

(* Where ref_node_add inserts. *)
pointOf(nn, sg, g) ==
    LET below == {i \in Index(nn) : sg[i] < g}
    IN  IF below = {} THEN 0 ELSE Max(below) + 1

(* The loop of ref_node_add that looks for the insert point from the end   *)
(* of the index finds the one place that keeps it ascending.               *)
LEMMA InsertPoint ==
    ASSUME NEW nn \in Nat, NEW sg \in [Index(nn) -> Glob],
           \A i, j \in Index(nn) : i < j => sg[i] < sg[j], NEW g \in Glob,
           \A i \in Index(nn) : sg[i] # g, NEW p, p = pointOf(nn, sg, g)
    PROVE  /\ p \in 0..nn
           /\ \A i \in Index(nn) : (i < p => sg[i] < g) /\ (~ (i < p) => g < sg[i])
<1> DEFINE below == {i \in Index(nn) : sg[i] < g}
<1>1. \A i \in Index(nn) : sg[i] \in Int /\ i \in Int /\ 0 <= i /\ i < nn
  BY DEF Glob, Index
<1>2. g \in Int
  BY DEF Glob
<1>3. CASE below = {}
  <2>1. p = 0
    BY <1>3 DEF pointOf
  <2>2. \A i \in Index(nn) : g < sg[i] /\ ~ (i < p)
    BY <1>1, <1>2, <1>3, <2>1
  <2> QED
    BY <2>1, <2>2
<1>4. CASE below # {}
  <2> DEFINE T == {nn - i : i \in below}
  <2>1. T \in SUBSET Nat /\ T # {}
    BY <1>1, <1>4
  <2>2. PICK m \in T : \A k \in T : m <= k
    BY <2>1, LeastNatural
  <2>3. PICK b \in below : m = nn - b
    OBVIOUS
  <2>4. \A i \in below : nn - b <= nn - i
    BY <2>2, <2>3
  <2>5. \A i \in below : b >= i
    <3>1. \A i \in below : i \in Int
      BY <1>1
    <3> HIDE DEF below
    <3> QED
      BY <2>4, <3>1
  <2> DEFINE x == Max(below)
  <2>6. x \in below /\ \A i \in below : x >= i
    BY <2>5 DEF Max
  <2>7. p = x + 1
    BY <1>4 DEF pointOf
  <2> HIDE DEF x
  <2>8. x \in Index(nn) /\ sg[x] < g /\ x \in Int
    BY <1>1, <2>6
  <2>9. ASSUME NEW i \in Index(nn) PROVE (i < p => sg[i] < g) /\ (~ (i < p) => g < sg[i])
    <3>1. CASE i < p
      <4>1. i < x \/ i = x
        BY <1>1, <2>7, <2>8, <3>1
      <4>2. CASE i < x
        <5>1. sg[i] < sg[x]
          BY <2>8, <4>2
        <5> QED
          BY <1>1, <1>2, <2>8, <3>1, <5>1
      <4> QED
        BY <2>8, <3>1, <4>1, <4>2
    <3>2. CASE ~ (i < p)
      <4>1. ~ (x >= i)
        BY <1>1, <2>7, <2>8, <3>2
      <4>2. i \notin below
        BY <2>6, <4>1
      <4> QED
        BY <1>1, <1>2, <3>2, <4>2
    <3> QED
      BY <3>1, <3>2
  <2>10. p \in 0..nn
    BY <1>1, <2>7, <2>8
  <2> QED
    BY <2>9, <2>10
<1> QED
  BY <1>3, <1>4

(* The index with a number inserted at its place. *)
ins(nn, list, p, x) ==
    [i \in 0..nn |-> IF i < p THEN list[i] ELSE IF i = p THEN x ELSE list[i - 1]]

(* Inserting there keeps the index exact. *)
LEMMA InsertIndexed ==
    ASSUME NEW mx, NEW gl, NEW nn \in Nat, NEW sg, NEW sl, Indexed(mx, gl, nn, sg, sl),
           NEW g \in Glob, \A i \in Index(nn) : sg[i] # g,
           NEW mx2, NEW gl2, NEW node \in Slots(mx2), gl2[node] = g,
           UsedOf(mx2, gl2) = UsedOf(mx, gl) \cup {node},
           \A l \in UsedOf(mx, gl) : gl2[l] = gl[l],
           NEW p, p = pointOf(nn, sg, g)
    PROVE  Indexed(mx2, gl2, nn + 1, ins(nn, sg, p, g), ins(nn, sl, p, node))
<1> DEFINE sg2 == ins(nn, sg, p, g)
           sl2 == ins(nn, sl, p, node)
           I == Index(nn)
           J == Index(nn + 1)
<1>1. /\ sg \in [I -> Glob] /\ sl \in [I -> Slots(mx)]
      /\ \A i, j \in I : i < j => sg[i] < sg[j]
      /\ \A i \in I : sl[i] \in UsedOf(mx, gl) /\ gl[sl[i]] = sg[i]
      /\ \A l \in UsedOf(mx, gl) : \E i \in I : sl[i] = l
  BY DEF Indexed, Typed
<1>2. /\ p \in 0..nn
      /\ \A i \in I : (i < p => sg[i] < g) /\ (~ (i < p) => g < sg[i])
  BY <1>1, InsertPoint
<1>3. /\ J = 0..nn
      /\ \A i \in J : i \in Int /\ (i < p => i \in I) /\ (i # p /\ ~ (i < p) => i - 1 \in I /\ ~ (i - 1 < p))
      /\ \A i \in I : i \in J /\ i + 1 \in J /\ i \in Int
  BY <1>2 DEF Index
<1>4. \A i \in J : /\ sg2[i] = IF i < p THEN sg[i] ELSE IF i = p THEN g ELSE sg[i - 1]
                   /\ sl2[i] = IF i < p THEN sl[i] ELSE IF i = p THEN node ELSE sl[i - 1]
  BY <1>3 DEF ins
<1>5. \A l \in UsedOf(mx2, gl2) : l \in Slots(mx2)
  BY DEF UsedOf
<1>6. sg2 = [i \in J |-> sg2[i]] /\ sl2 = [i \in J |-> sl2[i]]
  BY <1>3 DEF ins
<1> HIDE DEF sg2, sl2
<1>7. \A i \in J : sg2[i] \in Glob /\ sl2[i] \in UsedOf(mx2, gl2) /\ gl2[sl2[i]] = sg2[i]
  <2> TAKE i \in J
  <2>1. CASE i < p
    <3>1. i \in I /\ sg2[i] = sg[i] /\ sl2[i] = sl[i]
      BY <1>3, <1>4, <2>1
    <3> QED
      BY <1>1, <3>1
  <2>2. CASE ~ (i < p) /\ i = p
    <3>1. sg2[i] = g /\ sl2[i] = node
      BY <1>4, <2>2
    <3> QED
      BY <3>1
  <2>3. CASE ~ (i < p) /\ i # p
    <3>1. i - 1 \in I /\ sg2[i] = sg[i - 1] /\ sl2[i] = sl[i - 1]
      BY <1>3, <1>4, <2>3
    <3> QED
      BY <1>1, <3>1
  <2> QED
    BY <2>1, <2>2, <2>3
<1>8. Typed(mx2, nn + 1, sg2, sl2)
  <2>1. \A i \in J : sl2[i] \in Slots(mx2)
    BY <1>5, <1>7
  <2> QED
    BY <1>6, <1>7, <2>1 DEF Typed
<1>9. ASSUME NEW i \in J, NEW j \in J, i < j PROVE sg2[i] < sg2[j]
  <2>0. p \in Int /\ i \in Int /\ j \in Int /\ g \in Int /\ \A k \in I : sg[k] \in Int
    <3>1. \A x \in Glob : x \in Int
      BY DEF Glob
    <3> QED
      BY <1>1, <1>2, <1>3, <3>1
  <2>1. CASE j < p
    <3>1. i < p
      BY <1>9, <2>0, <2>1
    <3> QED
      BY <1>1, <1>3, <1>4, <1>9, <2>1, <3>1
  <2>2. CASE ~ (j < p) /\ j = p
    <3>1. i < p /\ i \in I
      BY <1>3, <1>9, <2>2
    <3> QED
      BY <1>2, <1>4, <2>2, <3>1
  <2>3. CASE ~ (j < p) /\ j # p
    <3>1. j - 1 \in I /\ ~ (j - 1 < p) /\ sg2[j] = sg[j - 1] /\ g < sg[j - 1]
      BY <1>2, <1>3, <1>4, <2>3
    <3>2. CASE i < p
      <4>1. i \in I /\ sg2[i] = sg[i] /\ sg[i] < g
        BY <1>2, <1>3, <1>4, <3>2
      <4> QED
        BY <2>0, <3>1, <4>1
    <3>3. CASE ~ (i < p) /\ i = p
      BY <1>4, <3>1, <3>3
    <3>4. CASE ~ (i < p) /\ i # p
      <4>1. i - 1 \in I /\ sg2[i] = sg[i - 1]
        BY <1>3, <1>4, <3>4
      <4>2. i - 1 < j - 1
        BY <1>9, <2>0
      <4> QED
        BY <1>1, <3>1, <4>1, <4>2
    <3> QED
      BY <3>2, <3>3, <3>4
  <2> QED
    BY <2>1, <2>2, <2>3
<1>10. ASSUME NEW l \in UsedOf(mx2, gl2) PROVE \E i \in J : sl2[i] = l
  <2>1. CASE l = node
    <3>1. p \in J /\ ~ (p < p)
      BY <1>2, <1>3
    <3> QED
      BY <1>4, <2>1, <3>1
  <2>2. CASE l # node
    <3>1. PICK i \in I : sl[i] = l
      BY <1>1, <2>2
    <3>2. CASE i < p
      BY <1>3, <1>4, <3>1, <3>2
    <3>3. CASE ~ (i < p)
      <4> DEFINE k == i + 1
      <4>1. k \in J /\ ~ (k < p) /\ k # p /\ k - 1 = i
        BY <1>2, <1>3, <3>3
      <4> HIDE DEF k
      <4>2. sl2[k] = sl[k - 1]
        BY <1>4, <4>1
      <4> QED
        BY <3>1, <4>1, <4>2
    <3> QED
      BY <3>2, <3>3
  <2> QED
    BY <2>1, <2>2
<1> QED
  BY <1>7, <1>8, <1>9, <1>10 DEF Indexed, sg2, sl2

(* The index with the entry at a place closed up. *)
del(nn, list, p) == [i \in 0..(nn - 2) |-> IF i < p THEN list[i] ELSE list[i + 1]]

(* Deleting the place the bisection returns keeps the index exact: it is   *)
(* the place of the number.                                                *)
LEMMA DeleteIndexed ==
    ASSUME NEW mx, NEW gl, NEW nn \in Nat \ {0}, NEW sg, NEW sl,
           Words(mx, gl), Indexed(mx, gl, nn, sg, sl), NEW l \in UsedOf(mx, gl),
           NEW gl2, UsedOf(mx, gl2) = UsedOf(mx, gl) \ {l},
           \A k \in UsedOf(mx, gl2) : gl2[k] = gl[k],
           NEW p, p = search_glob(nn, sg, gl[l])
    PROVE  Indexed(mx, gl2, nn - 1, del(nn, sg, p), del(nn, sl, p))
<1> DEFINE sg2 == del(nn, sg, p)
           sl2 == del(nn, sl, p)
           I == Index(nn)
           J == Index(nn - 1)
<1>1. /\ sg \in [I -> Glob] /\ sl \in [I -> Slots(mx)]
      /\ \A i, j \in I : i < j => sg[i] < sg[j]
      /\ \A i \in I : sl[i] \in UsedOf(mx, gl) /\ gl[sl[i]] = sg[i]
      /\ \A k \in UsedOf(mx, gl) : \E i \in I : sl[i] = k
  BY DEF Indexed, Typed
<1>2. /\ \A k \in UsedOf(mx, gl) : k \in Slots(mx) /\ gl[k] >= 0 /\ gl[k] \in Glob
      /\ \A k, m \in UsedOf(mx, gl) : gl[k] = gl[m] => k = m
  BY DEF Words, UsedOf
<1>3. p \in I /\ sg[p] = gl[l]
  <2>1. \/ p \in I /\ p # EMPTY /\ sg[p] = gl[l]
        \/ p = EMPTY /\ \A i \in I : sg[i] # gl[l]
    BY <1>1, <1>2, PlaceFound
  <2>2. \E i \in I : sg[i] = gl[l]
    BY <1>1
  <2> QED
    BY <2>1, <2>2
<1>4. sl[p] = l
  BY <1>1, <1>2, <1>3
<1>5. \A i, j \in I : sl[i] = sl[j] => i = j
  <2> TAKE i, j \in I
  <2> HAVE sl[i] = sl[j]
  <2>1. sg[i] = sg[j] /\ sg[i] \in Glob
    BY <1>1
  <2>2. ~ (sg[i] < sg[j]) /\ ~ (sg[j] < sg[i])
    BY <2>1 DEF Glob
  <2>3. i \in Int /\ j \in Int
    BY DEF Index
  <2> QED
    BY <1>1, <2>2, <2>3
<1>6. /\ J = 0..(nn - 2) /\ p \in Int
      /\ \A i \in J : i \in Int /\ i \in I /\ i + 1 \in I
      /\ \A i \in I : i < p => i \in J
      /\ \A i \in I : ~ (i < p) /\ i # p => i - 1 \in J /\ ~ (i - 1 < p)
  BY <1>3 DEF Index
<1>7. \A i \in J : /\ sg2[i] = IF i < p THEN sg[i] ELSE sg[i + 1]
                   /\ sl2[i] = IF i < p THEN sl[i] ELSE sl[i + 1]
  BY <1>6 DEF del
<1>8. sg2 = [i \in J |-> sg2[i]] /\ sl2 = [i \in J |-> sl2[i]]
  BY <1>6 DEF del
<1> HIDE DEF sg2, sl2
<1>9. ASSUME NEW i \in J
      PROVE  sg2[i] \in Glob /\ sl2[i] \in UsedOf(mx, gl2) /\ gl2[sl2[i]] = sg2[i]
  <2>1. PICK j \in I : j # p /\ sg2[i] = sg[j] /\ sl2[i] = sl[j]
    <3>1. CASE i < p
      <4>1. i \in I /\ i # p /\ sg2[i] = sg[i] /\ sl2[i] = sl[i]
        BY <1>6, <1>7, <3>1
      <4> QED
        BY <4>1
    <3>2. CASE ~ (i < p)
      <4>1. i + 1 \in I /\ i + 1 # p /\ sg2[i] = sg[i + 1] /\ sl2[i] = sl[i + 1]
        BY <1>6, <1>7, <3>2
      <4> QED
        BY <4>1
    <3> QED
      BY <3>1, <3>2
  <2>2. sl[j] # l
    BY <1>3, <1>4, <1>5, <2>1
  <2> QED
    BY <1>1, <2>1, <2>2
<1>10. Typed(mx, nn - 1, sg2, sl2)
  <2>1. \A i \in J : sl2[i] \in Slots(mx)
    BY <1>9 DEF UsedOf
  <2> QED
    BY <1>8, <1>9, <2>1 DEF Typed
<1>11. ASSUME NEW i \in J, NEW j \in J, i < j PROVE sg2[i] < sg2[j]
  <2>1. CASE j < p
    <3>1. i < p
      BY <1>6, <1>11, <2>1
    <3> QED
      BY <1>1, <1>6, <1>7, <1>11, <2>1, <3>1
  <2>2. CASE ~ (j < p)
    <3>1. j + 1 \in I /\ sg2[j] = sg[j + 1]
      BY <1>6, <1>7, <2>2
    <3>2. CASE i < p
      <4>1. i \in I /\ sg2[i] = sg[i] /\ i < j + 1
        BY <1>6, <1>7, <1>11, <3>2
      <4> QED
        BY <1>1, <3>1, <4>1
    <3>3. CASE ~ (i < p)
      <4>1. i + 1 \in I /\ sg2[i] = sg[i + 1] /\ i + 1 < j + 1
        BY <1>6, <1>7, <1>11, <3>3
      <4> QED
        BY <1>1, <3>1, <4>1
    <3> QED
      BY <3>2, <3>3
  <2> QED
    BY <2>1, <2>2
<1>12. ASSUME NEW k \in UsedOf(mx, gl2) PROVE \E i \in J : sl2[i] = k
  <2>1. PICK i \in I : sl[i] = k
    BY <1>1
  <2>2. i # p
    BY <1>4, <2>1
  <2>3. CASE i < p
    BY <1>6, <1>7, <2>1, <2>3
  <2>4. CASE ~ (i < p)
    <3> DEFINE m == i - 1
    <3>1. m \in J /\ ~ (m < p) /\ m + 1 = i
      BY <1>6, <2>2, <2>4 DEF Index
    <3> HIDE DEF m
    <3>2. sl2[m] = sl[m + 1]
      BY <1>7, <3>1
    <3> QED
      BY <2>1, <3>1, <3>2
  <2> QED
    BY <2>3, <2>4
<1> QED
  BY <1>9, <1>10, <1>11, <1>12 DEF Indexed, sg2, sl2

(* The index rebuilt from the slots. *)
packing(mx, gl) == in_order(UsedOf(mx, gl))
(* The steps of ref_node_rebuild_sorted_global. *)
numbering(mx, gl, nn) == [i \in Index(nn) |-> gl[packing(mx, gl)[i + 1]]]
ordering(mx, gl, nn) == heap_glob(nn, numbering(mx, gl, nn))
rebuiltLocal(mx, gl, nn) ==
    [i \in Index(nn) |-> packing(mx, gl)[ordering(mx, gl, nn)[i] + 1]]
rebuiltGlobal(mx, gl, nn) ==
    [i \in Index(nn) |-> numbering(mx, gl, nn)[ordering(mx, gl, nn)[i]]]

(* ref_node_rebuild_sorted_global sorts what the slots hold into an exact  *)
(* index.                                                                  *)
LEMMA RebuildIndexed ==
    ASSUME NEW mx, NEW gl, NEW nn, Words(mx, gl), nn = Cardinality(UsedOf(mx, gl))
    PROVE  Indexed(mx, gl, nn, rebuiltGlobal(mx, gl, nn), rebuiltLocal(mx, gl, nn))
<1> DEFINE U == UsedOf(mx, gl)
           q == packing(mx, gl)
           num == numbering(mx, gl, nn)
           ord == ordering(mx, gl, nn)
           sg == rebuiltGlobal(mx, gl, nn)
           sl == rebuiltLocal(mx, gl, nn)
           I == Index(nn)
<1>1. mx \in Nat /\ gl \in [Slots(mx) -> Int]
  BY DEF Words
<1>2. IsFiniteSet(U) /\ nn \in Nat /\ U \in SUBSET Slots(mx)
  BY <1>1, UsedFinite
<1>3. U \in SUBSET Int
  BY <1>1, <1>2 DEF Slots
<1>4. /\ q \in [1..nn -> U]
      /\ \A i, j \in 1..nn : i < j => q[i] < q[j]
      /\ \A l \in U : \E i \in 1..nn : q[i] = l
  BY <1>2, <1>3, InOrder DEF packing
<1>5. /\ \A l \in U : l \in Slots(mx) /\ gl[l] \in Glob /\ gl[l] \in Int
      /\ \A l, k \in U : gl[l] = gl[k] => l = k
  BY <1>1 DEF Words, UsedOf
<1>6. \A i \in I : i + 1 \in 1..nn /\ i \in Int
  BY <1>2 DEF Index
<1>7. \A i \in I : num[i] = gl[q[i + 1]] /\ num[i] \in Int
  <2>1. \A i \in I : num[i] = gl[q[i + 1]] /\ q[i + 1] \in U
    BY <1>4, <1>6 DEF numbering
  <2> QED
    BY <1>5, <2>1
<1>8. num \in [I -> Int]
  <2>1. num = [i \in I |-> num[i]]
    BY DEF numbering
  <2> HIDE DEF num
  <2> QED
    BY <1>7, <2>1
<1>9. /\ Order(nn, ord)
      /\ \A a, b \in I : a < b => num[ord[a]] <= num[ord[b]]
  <2> HIDE DEF num
  <2>1. /\ Order(nn, heap_glob(nn, num))
        /\ \A a, b \in I : a < b => num[heap_glob(nn, num)[a]] <= num[heap_glob(nn, num)[b]]
    BY <1>2, <1>8, HeapSorts
  <2> QED
    BY <2>1 DEF ordering, num
<1>10. /\ \A i \in I : ord[i] \in I
       /\ \A a, b \in I : ord[a] = ord[b] => a = b
       /\ \A v \in I : \E k \in I : ord[k] = v
  BY <1>9 DEF Order
<1>11. \A i \in I : sg[i] = num[ord[i]] /\ sl[i] = q[ord[i] + 1]
  BY DEF rebuiltGlobal, rebuiltLocal
<1>12. sg = [i \in I |-> sg[i]] /\ sl = [i \in I |-> sl[i]]
  BY DEF rebuiltGlobal, rebuiltLocal
<1> HIDE DEF sg, sl, num, ord, q, U, I
<1>13. \A i \in I : sl[i] \in U /\ gl[sl[i]] = sg[i]
  <2> TAKE i \in I
  <2> DEFINE m == ord[i]
  <2>1. m \in I /\ sg[i] = num[m] /\ sl[i] = q[m + 1]
    BY <1>10, <1>11
  <2> HIDE DEF m
  <2>2. m + 1 \in 1..nn /\ num[m] = gl[q[m + 1]]
    BY <1>6, <1>7, <2>1
  <2>3. q[m + 1] \in U
    BY <1>4, <2>2
  <2> QED
    BY <2>1, <2>2, <2>3
<1>14. Typed(mx, nn, sg, sl)
  <2>1. \A i \in I : sg[i] \in Glob /\ sl[i] \in Slots(mx)
    BY <1>5, <1>13
  <2> QED
    BY <1>12, <2>1 DEF Typed, I
<1>15. ASSUME NEW i \in I, NEW j \in I, i < j PROVE sg[i] < sg[j]
  <2>1. sg[i] <= sg[j]
    BY <1>9, <1>11, <1>15
  <2>2. sg[i] \in Int /\ sg[j] \in Int
    BY <1>5, <1>13
  <2>3. CASE sg[i] = sg[j]
    <3>1. sl[i] = sl[j]
      BY <1>5, <1>13, <2>3
    <3> DEFINE a == ord[i] + 1
               b == ord[j] + 1
    <3>2. a \in 1..nn /\ b \in 1..nn /\ q[a] = q[b]
      BY <1>6, <1>10, <1>11, <3>1
    <3>3. q[a] \in Int
      BY <1>3, <1>4, <3>2
    <3> HIDE DEF a, b
    <3>4. ~ (a < b) /\ ~ (b < a)
      BY <1>4, <3>2, <3>3
    <3>5. a = b
      BY <1>2, <3>2, <3>4
    <3>6. ord[i] = ord[j]
      <4>1. ord[i] \in Int /\ ord[j] \in Int
        BY <1>6, <1>10
      <4> QED
        BY <3>5, <4>1 DEF a, b
    <3>7. i = j
      BY <1>10, <3>6
    <3> QED
      BY <1>6, <1>15, <3>7
  <2> QED
    BY <2>1, <2>2, <2>3
<1>16. ASSUME NEW l \in U PROVE \E i \in I : sl[i] = l
  <2>1. PICK m \in 1..nn : q[m] = l
    BY <1>4
  <2>2. m - 1 \in I /\ m - 1 + 1 = m
    BY <1>2 DEF Index, I
  <2>3. PICK k \in I : ord[k] = m - 1
    BY <1>10, <2>2
  <2> QED
    BY <1>11, <2>1, <2>2, <2>3
<1> QED
  BY <1>13, <1>14, <1>15, <1>16 DEF Indexed, U, I, sg, sl

(* The index after a pack. *)
translated(nn, sl, n2o) == [i \in Index(nn) |-> AntiFunction(n2o)[sl[i]]]

(* ref_node_pack translates the local half of the index and leaves its     *)
(* order, which is enough.                                                 *)
LEMMA PackIndexed ==
    ASSUME NEW mx, NEW gl, NEW nn, NEW pt, NEW sg, NEW sl,
           Indexed(mx, gl, nn, sg, sl), mx \in Nat,
           NEW n2o \in Bijection(Index(nn), UsedOf(mx, gl)), Packed(mx, gl, nn, pt, n2o),
           NEW gl2, gl2 = packedWords(mx, gl, nn, n2o)
    PROVE  Indexed(mx, gl2, nn, sg, translated(nn, sl, n2o))
<1> DEFINE sl2 == translated(nn, sl, n2o)
           I == Index(nn)
           a == AntiFunction(n2o)
<1>1. /\ sg \in [I -> Glob] /\ sl \in [I -> Slots(mx)]
      /\ \A i, j \in I : i < j => sg[i] < sg[j]
      /\ \A i \in I : sl[i] \in UsedOf(mx, gl) /\ gl[sl[i]] = sg[i]
      /\ \A k \in UsedOf(mx, gl) : \E i \in I : sl[i] = k
  BY DEF Indexed, Typed
<1>2. /\ UsedOf(mx, gl2) = I /\ \A l \in I : gl2[l] = gl[n2o[l]]
      /\ nn \in Nat /\ nn <= mx
  BY DEF Packed
<1>3. /\ n2o \in [I -> UsedOf(mx, gl)]
      /\ \A j, k \in I : n2o[j] = n2o[k] => j = k
      /\ \A k \in UsedOf(mx, gl) : \E i \in I : n2o[i] = k
  BY DEF Bijection, Injection, Surjection, IsInjective
<1>4. ASSUME NEW k \in UsedOf(mx, gl) PROVE a[k] \in I /\ n2o[a[k]] = k
  <2>1. DOMAIN n2o = I
    BY <1>3
  <2>2. k \in Range(n2o)
    BY <1>3, <2>1 DEF Range
  <2>3. a[k] = CHOOSE s \in I : k \in Range(n2o) => n2o[s] = k
    BY <2>1, <2>2 DEF AntiFunction, Inverse
  <2>4. \E s \in I : k \in Range(n2o) => n2o[s] = k
    BY <1>3
  <2> HIDE DEF a
  <2> QED
    BY <2>2, <2>3, <2>4
<1>5. \A i \in I : sl2[i] = a[sl[i]]
  BY DEF translated
<1>6. sl2 = [i \in I |-> sl2[i]]
  BY DEF translated
<1> HIDE DEF sl2, a
<1>7. \A i \in I : sl2[i] \in I /\ n2o[sl2[i]] = sl[i]
  BY <1>1, <1>4, <1>5
<1>8. \A i \in I : sl2[i] \in UsedOf(mx, gl2) /\ gl2[sl2[i]] = sg[i]
  BY <1>1, <1>2, <1>7
<1>9. Typed(mx, nn, sg, sl2)
  <2>1. \A i \in I : sl2[i] \in Slots(mx)
    BY <1>8 DEF UsedOf
  <2> QED
    BY <1>1, <1>6, <2>1 DEF Typed
<1>10. ASSUME NEW l \in UsedOf(mx, gl2) PROVE \E i \in I : sl2[i] = l
  <2>1. l \in I /\ n2o[l] \in UsedOf(mx, gl)
    BY <1>2, <1>3
  <2>2. PICK i \in I : sl[i] = n2o[l]
    BY <1>1, <2>1
  <2> QED
    BY <1>3, <1>7, <2>1, <2>2
<1> QED
  BY <1>1, <1>8, <1>9, <1>10 DEF Indexed, sl2

-----------------------------------------------------------------------------
(***************************************************************************)
(* ref_node_add_many.  The packed lists: the entries at these places.      *)
(***************************************************************************)
Picks(list, P, m, new) ==
    /\ m \in Nat /\ new \in [1..m -> Glob] /\ Len(new) = m
    /\ \A i \in 1..m : \E a \in P : new[i] = list[a]
    /\ \A a \in P : \E i \in 1..m : new[i] = list[a]
    /\ (\A a, b \in P : list[a] = list[b] => a = b) =>
          \A i, j \in 1..m : new[i] = new[j] => i = j

(* A subsequence lists exactly the chosen places, in order. *)
LEMMA Chosen ==
    ASSUME NEW k \in Nat, NEW list \in [1..k -> Glob], NEW P \in SUBSET (1..k)
    PROVE  Picks(list, P, Cardinality(P), chosen(list, P))
<1> DEFINE c == Cardinality(P)
           q == in_order(P)
           ch == chosen(list, P)
<1>1. IsFiniteSet(1..k)
  BY FS_Interval
<1>2. IsFiniteSet(P) /\ P \in SUBSET Int
  <2>1. IsFiniteSet(P)
    BY <1>1, FS_Subset
  <2>2. P \in SUBSET Int
    OBVIOUS
  <2> QED
    BY <2>1, <2>2
<1>3. /\ c \in Nat /\ q \in [1..c -> P]
      /\ \A i, j \in 1..c : i < j => q[i] < q[j]
      /\ \A l \in P : \E i \in 1..c : q[i] = l
  BY <1>2, InOrder
<1>4. ch = [i \in 1..c |-> list[q[i]]]
  BY DEF chosen
<1> HIDE DEF c, q, ch
<1>5. \A i \in 1..c : ch[i] = list[q[i]] /\ q[i] \in P
  BY <1>3, <1>4
<1>6. ch \in [1..c -> Glob]
  BY <1>3, <1>4
<1>7. Len(ch) = c
  BY <1>3, <1>6, LenProperties DEF Seq
<1>8. ASSUME \A a, b \in P : list[a] = list[b] => a = b, NEW i \in 1..c, NEW j \in 1..c,
             ch[i] = ch[j]
      PROVE  i = j
  <2>1. q[i] = q[j] /\ q[i] \in Int
    <3>1. list[q[i]] = list[q[j]] /\ q[i] \in P /\ q[j] \in P
      BY <1>5, <1>8
    <3>2. \A a \in P : a \in Int
      BY <1>2
    <3> QED
      BY <1>8, <3>1, <3>2
  <2>2. ~ (i < j) /\ ~ (j < i)
    BY <1>3, <2>1
  <2> QED
    BY <1>3, <2>2
<1>9. \A i \in 1..c : \E a \in P : ch[i] = list[a]
  BY <1>5
<1>10. \A a \in P : \E i \in 1..c : ch[i] = list[a]
  BY <1>3, <1>5
<1>11. (\A a, b \in P : list[a] = list[b] => a = b) =>
          \A i, j \in 1..c : ch[i] = ch[j] => i = j
  BY <1>8
<1>12. Picks(list, P, c, ch)
  BY <1>3, <1>6, <1>7, <1>9, <1>10, <1>11 DEF Picks
<1> QED
  BY <1>12 DEF c, ch

(* A list without its repeated entries. *)
Compressed(k, list, m, new) ==
    /\ new \in [1..m -> Glob] /\ Len(new) = m
    /\ \A i, j \in 1..m : new[i] = new[j] => i = j
    /\ \A i \in 1..m : \E a \in 1..k : new[i] = list[a]
    /\ \A a \in 1..k : \E i \in 1..m : new[i] = list[a]

(* Sorting and compressing a list of numbers leaves each number once. *)
LEMMA Distinct ==
    ASSUME NEW k \in Nat, NEW list \in [1..k -> Glob], Len(list) = k
    PROVE  \E m \in Nat : Compressed(k, list, m, distinct(list))
<1> DEFINE I == Index(k)
           raw == [i \in I |-> list[i + 1]]
           ord == heap_glob(k, raw)
           entry(i) == list[ord[i] + 1]
           dropped == {ord[i] + 1 : i \in {j \in 1..(k - 1) : entry(j) = entry(j - 1)}}
           P == (1..k) \ dropped
<1>1. \A i \in I : i + 1 \in 1..k /\ i \in Int /\ 0 <= i
  BY DEF Index
<1>2. \A a \in 1..k : a - 1 \in I /\ a - 1 + 1 = a
  BY DEF Index
<1>3. \A x \in Glob : x \in Int
  BY DEF Glob
<1>4. raw \in [I -> Int] /\ \A i \in I : raw[i] = list[i + 1]
  BY <1>1, <1>3
<1>5. Order(k, ord) /\ \A a, b \in I : a < b => raw[ord[a]] <= raw[ord[b]]
  <2> HIDE DEF raw
  <2> QED
    BY <1>4, HeapSorts
<1>6. /\ \A i \in I : ord[i] \in I
      /\ \A a, b \in I : ord[a] = ord[b] => a = b
      /\ \A v \in I : \E i \in I : ord[i] = v
  BY <1>5 DEF Order
<1> HIDE DEF ord, raw
<1>7. \A i \in I : entry(i) = raw[ord[i]] /\ entry(i) \in Glob /\ ord[i] + 1 \in 1..k
  BY <1>1, <1>4, <1>6
<1>8. \A a, b \in I : a < b => entry(a) <= entry(b)
  BY <1>5, <1>7
<1>9. distinct(list) = chosen(list, P)
  BY DEF distinct, ord, raw
<1>10. P \in SUBSET (1..k)
  OBVIOUS
<1>11. \A i \in 1..(k - 1) : i \in I /\ i - 1 \in I /\ i - 1 < i /\ i \in Int
  BY DEF Index
<1>12. \A i \in I : i # 0 => i \in 1..(k - 1)
  BY DEF Index
<1>13. \A a \in 1..k : \E i \in I : a = ord[i] + 1
  <2> TAKE a \in 1..k
  <2>1. PICK i \in I : ord[i] = a - 1
    BY <1>2, <1>6
  <2>2. a = ord[i] + 1
    BY <1>2, <2>1
  <2> QED
    BY <2>2
<1>14. ASSUME NEW i \in I, i = 0 \/ entry(i) # entry(i - 1) PROVE ord[i] + 1 \in P
  <2> SUFFICES ASSUME ord[i] + 1 \in dropped PROVE FALSE
    BY <1>7
  <2>1. PICK j \in 1..(k - 1) : entry(j) = entry(j - 1) /\ ord[i] + 1 = ord[j] + 1
    OBVIOUS
  <2>2. j \in I /\ j # 0
    BY <1>11
  <2>3. ord[i] \in Int /\ ord[j] \in Int
    BY <1>1, <1>6, <2>2
  <2>4. ord[i] = ord[j]
    BY <2>1, <2>3
  <2>5. i = j
    BY <1>6, <2>2, <2>4
  <2> QED
    BY <1>14, <2>1, <2>2, <2>5
<1>15. ASSUME NEW i \in I, NEW j \in I, i < j, entry(i) = entry(j), ord[j] + 1 \in P
       PROVE  FALSE
  <2>1. j # 0
    BY <1>1, <1>15
  <2>2. j \in 1..(k - 1) /\ j - 1 \in I
    BY <1>11, <1>12, <2>1
  <2>3. i = j - 1 \/ i < j - 1
    BY <1>1, <1>15
  <2>4. entry(i) <= entry(j - 1)
    <3>1. entry(i) \in Int
      BY <1>3, <1>7
    <3>2. CASE i = j - 1
      BY <3>1, <3>2
    <3>3. CASE i < j - 1
      BY <1>8, <2>2, <3>3
    <3> QED
      BY <2>3, <3>2, <3>3
  <2>5. entry(j - 1) <= entry(j)
    BY <1>8, <1>11, <2>2
  <2>6. entry(j - 1) \in Int /\ entry(j) \in Int /\ entry(i) \in Int
    BY <1>3, <1>7, <2>2
  <2>7. entry(j) = entry(j - 1)
    BY <1>15, <2>4, <2>5, <2>6
  <2>8. ord[j] + 1 \in dropped
    BY <2>2, <2>7
  <2> QED
    BY <1>15, <2>8
<1>16. \A a, b \in P : list[a] = list[b] => a = b
  <2> TAKE a, b \in P
  <2> HAVE list[a] = list[b]
  <2>1. PICK i \in I : a = ord[i] + 1
    BY <1>13
  <2>2. PICK j \in I : b = ord[j] + 1
    BY <1>13
  <2>3. entry(i) = entry(j) /\ ord[i] + 1 \in P /\ ord[j] + 1 \in P
    BY <2>1, <2>2
  <2> HIDE DEF entry, P
  <2>4. ~ (i < j) /\ ~ (j < i)
    BY <1>15, <2>3
  <2>5. i = j
    BY <1>1, <2>4
  <2> QED
    BY <2>1, <2>2, <2>5
<1>17. ASSUME NEW a \in 1..k PROVE \E b \in P : list[b] = list[a]
  <2>1. PICK i \in I : a = ord[i] + 1
    BY <1>13
  <2> DEFINE T == {j \in I : entry(j) = entry(i)}
  <2>2. T \in SUBSET Nat /\ T # {}
    BY <1>1
  <2>3. PICK m \in T : \A j \in T : m <= j
    BY <2>2, LeastNatural
  <2>4. m = 0 \/ entry(m) # entry(m - 1)
    <3> SUFFICES ASSUME m # 0, entry(m) = entry(m - 1) PROVE FALSE
      OBVIOUS
    <3>1. m \in I /\ m \in 1..(k - 1) /\ m - 1 \in I
      BY <1>11, <1>12
    <3>2. m - 1 \in T
      BY <3>1
    <3>3. m <= m - 1 /\ m \in Int
      BY <1>11, <2>3, <3>1, <3>2
    <3> QED
      BY <3>3
  <2>5. ord[m] + 1 \in P
    BY <1>14, <2>4
  <2> QED
    BY <2>1, <2>5
<1> DEFINE new == distinct(list)
           m == Cardinality(P)
<1>18. /\ m \in Nat /\ new \in [1..m -> Glob] /\ Len(new) = m
       /\ \A i \in 1..m : \E a \in P : new[i] = list[a]
       /\ \A a \in P : \E i \in 1..m : new[i] = list[a]
       /\ (\A a, b \in P : list[a] = list[b] => a = b) =>
             \A i, j \in 1..m : new[i] = new[j] => i = j
  <2>1. Picks(list, P, m, chosen(list, P))
    <3> HIDE DEF P
    <3> QED
      BY <1>10, Chosen
  <2> HIDE DEF P, m
  <2> QED
    BY <1>9, <2>1 DEF Picks
<1> HIDE DEF P, m, new
<1>19. ASSUME NEW a \in 1..k PROVE \E i \in 1..m : new[i] = list[a]
  <2>1. PICK b \in P : list[b] = list[a]
    BY <1>17
  <2>2. PICK i \in 1..m : new[i] = list[b]
    BY <1>18
  <2> QED
    BY <2>1, <2>2
<1>20. Compressed(k, list, m, new)
  BY <1>10, <1>16, <1>18, <1>19 DEF Compressed
<1> QED
  BY <1>18, <1>20 DEF new

(* A number that is not here and the record after ref_node_add_core. *)
LEMMA AddOne ==
    ASSUME NEW s, Storage(s), NEW g \in Glob, g \notin NumbersIn(s)
    PROVE  Storage(add_core(s, g)) /\ GrownTo(s, add_core(s, g), {g})
<1> DEFINE t == roomy(s)
           node == nodeOf(s)
           s1 == add_core(s, g)
           pt == [t.part EXCEPT ![node] = Me]
<1>1. node = next2index(t.blank)
  BY Roomy DEF nodeOf
<1> HIDE DEF t, node
<1>2. s1 = [max |-> t.max, global |-> [t.global EXCEPT ![node] = g],
            blank |-> t.global[node], n |-> t.n + 1, part |-> pt]
  BY <1>1, AddCoreForm DEF t
<1>3. [pt EXCEPT ![node] = Me] = pt
  OBVIOUS
<1> HIDE DEF pt, s1
<1>4. [s1 EXCEPT !.part[node] = Me] = s1
  BY <1>2, <1>3
<1>5. owned(s, g, Me) = s1
  BY <1>4 DEF owned, node, s1
<1>6. Added(s, g, Me, nodeOf(s), owned(s, g, Me))
  BY AddCore
<1> QED
  BY <1>5, <1>6 DEF Added, s1

(* Two additions one after the other. *)
LEMMA GrownTwice ==
    ASSUME NEW s0, NEW s1, NEW s2, NEW A, NEW g, Storage(s0), Storage(s1), Storage(s2),
           GrownTo(s0, s1, A), GrownTo(s1, s2, {g}), g \notin NumbersIn(s0)
    PROVE  GrownTo(s0, s2, A \cup {g})
<1> DEFINE U0 == UsedOf(s0.max, s0.global)
           U1 == UsedOf(s1.max, s1.global)
           U2 == UsedOf(s2.max, s2.global)
<1>1. /\ s0.max <= s1.max
      /\ \A l \in U0 : s1.global[l] = s0.global[l] /\ s1.part[l] = s0.part[l]
      /\ \A l \in U1 : l \in U0 \/ s1.global[l] \in A
      /\ \A h \in A : \E l \in U1 : s1.global[l] = h
      /\ A \cap NumbersIn(s0) = {}
  BY DEF GrownTo, Grown, NumbersIn
<1>2. /\ s1.max <= s2.max
      /\ \A l \in U1 : s2.global[l] = s1.global[l] /\ s2.part[l] = s1.part[l]
      /\ \A l \in U2 : l \in U1 \/ s2.global[l] = g
      /\ \E l \in U2 : s2.global[l] = g
  BY DEF GrownTo, Grown
<1>3. s0.max \in Nat /\ s1.max \in Nat /\ s2.max \in Nat
  BY DEF Storage, Holds, Words
<1>4. \A l \in U0 : l \in U1
  BY <1>1, <1>3 DEF UsedOf, Slots
<1>5. \A l \in U1 : l \in U2
  BY <1>2, <1>3 DEF UsedOf, Slots
<1>6. s0.max <= s2.max
  BY <1>1, <1>2, <1>3
<1> HIDE DEF U0, U1, U2
<1>7. \A l \in U0 : s2.global[l] = s0.global[l] /\ s2.part[l] = s0.part[l]
  BY <1>1, <1>2, <1>4
<1>8. \A l \in U2 : l \in U0 \/ s2.global[l] \in A \cup {g}
  BY <1>1, <1>2
<1>9. \A h \in A \cup {g} : \E l \in U2 : s2.global[l] = h
  BY <1>1, <1>2, <1>5
<1>10. (A \cup {g}) \cap NumbersIn(s0) = {}
  BY <1>1
<1> QED
  BY <1>6, <1>7, <1>8, <1>9, <1>10 DEF GrownTo, Grown, NumbersIn, U0, U2

(* The storage after all additions of a list of new numbers. *)
Upto(new, i) == {new[j] : j \in 1..i}

(* Adding several new numbers one after another: each finds its slot, and  *)
(* the storage after i of them has exactly those i more.                   *)
LEMMA AddAll ==
    ASSUME NEW s0, Storage(s0), NEW m \in Nat, NEW new \in [1..m -> Glob],
           \A i, j \in 1..m : new[i] = new[j] => i = j,
           \A i \in 1..m : new[i] \notin NumbersIn(s0),
           NEW f, f[0] = s0,
           \A i \in 1..m : new[i] \notin NumbersIn(f[i - 1]) =>
              f[i] = add_core(f[i - 1], new[i])
    PROVE  \A i \in 0..m : /\ Storage(f[i]) /\ GrownTo(s0, f[i], Upto(new, i))
                           /\ i # m => new[i + 1] \notin NumbersIn(f[i])
<1> DEFINE good(i) == Storage(f[i]) /\ GrownTo(s0, f[i], Upto(new, i))
           G == {i \in 0..m : good(i)}
<1>1. ASSUME NEW i \in 0..m, i # m, good(i) PROVE new[i + 1] \notin NumbersIn(f[i])
  <2> DEFINE s == f[i]
             k == i + 1
  <2>1. k \in 1..m /\ \A j \in 1..i : j \in 1..m /\ j # k
    BY <1>1
  <2>2. \A j \in 1..i : new[j] # new[k]
    BY <2>1
  <2> HIDE DEF s, k
  <2>3. /\ \A l \in UsedOf(s0.max, s0.global) : s.global[l] = s0.global[l]
        /\ \A l \in UsedOf(s.max, s.global) :
              l \in UsedOf(s0.max, s0.global) \/ s.global[l] \in Upto(new, i)
    BY <1>1 DEF s, GrownTo, Grown
  <2>4. new[k] \notin Upto(new, i)
    BY <2>2 DEF Upto
  <2>5. \A l \in UsedOf(s0.max, s0.global) : s0.global[l] # new[k]
    BY <2>1 DEF NumbersIn, NumbersOf
  <2>6. \A l \in UsedOf(s.max, s.global) : s.global[l] # new[k]
    BY <2>3, <2>4, <2>5
  <2> QED
    BY <2>6 DEF NumbersIn, NumbersOf, s, k
<1>2. 0 \in G
  <2>1. Upto(new, 0) = {}
    BY DEF Upto
  <2>2. s0.max \in Nat
    BY DEF Storage, Holds, Words
  <2>3. GrownTo(s0, s0, {})
    BY <2>2 DEF GrownTo, Grown
  <2> QED
    BY <2>1, <2>3
<1>3. ASSUME NEW i \in 0..m, i # m, i \in G PROVE i + 1 \in G
  <2> DEFINE k == i + 1
             s == f[i]
             s2 == f[k]
  <2>1. k \in 1..m /\ k \in 0..m /\ k - 1 = i
    BY <1>3
  <2>2. Storage(s) /\ GrownTo(s0, s, Upto(new, i)) /\ new[k] \notin NumbersIn(s)
    BY <1>1, <1>3
  <2>3. s2 = add_core(s, new[k])
    BY <2>1, <2>2
  <2>4. new[k] \in Glob /\ new[k] \notin NumbersIn(s0)
    BY <2>1
  <2> HIDE DEF k, s, s2
  <2>5. Storage(s2) /\ GrownTo(s, s2, {new[k]})
    BY <2>2, <2>3, <2>4, AddOne
  <2>6. GrownTo(s0, s2, Upto(new, i) \cup {new[k]})
    BY <2>2, <2>4, <2>5, GrownTwice
  <2>7. Upto(new, k) = Upto(new, i) \cup {new[k]}
    <3>1. 1..k = 1..i \cup {k}
      BY <2>1, <1>3 DEF k
    <3> QED
      BY <3>1 DEF Upto
  <2>8. good(k)
    BY <2>5, <2>6, <2>7 DEF s2
  <2> QED
    BY <2>1, <2>8 DEF k
<1>4. \A i \in 0..m : i \in G
  <2> HIDE DEF G
  <2> QED
    BY <1>2, <1>3, UptoInduction
<1> QED
  BY <1>1, <1>4

(* The recursion that adds them has a solution. *)
adds(s0, m, new, f) ==
    f = [i \in 0..m |-> IF i = 0 THEN s0 ELSE add_core(f[i - 1], new[i])]

(* The type of a storage record of any size. *)
Arrays == UNION {[Slots(k) -> Int] : k \in Nat}
Owners == UNION {[Slots(k) -> {Me, Other, EMPTY}] : k \in Nat}
Records == [max: Nat, global: Arrays, blank: Int, n: Nat, part: Owners]

(* A sound storage is a record of the type the recursion is over. *)
LEMMA StorageRecord ==
    ASSUME NEW s, Storage(s)
    PROVE  s \in Records
<1>1. PICK fl : Holds(s.max, s.global, s.blank, s.n, s.part, fl)
  BY DEF Storage
<1>2. /\ s.max \in Nat /\ s.global \in [Slots(s.max) -> Int]
      /\ s.part \in [Slots(s.max) -> {Me, Other, EMPTY}]
  BY <1>1 DEF Holds, Words
<1>3. s.blank \in Int
  BY <1>1, FreeSlots DEF Holds
<1>4. s.n \in Nat
  BY <1>1, <1>2, UsedFinite DEF Holds
<1>5. s.global \in Arrays /\ s.part \in Owners
  BY <1>2 DEF Arrays, Owners
<1>6. s = [max |-> s.max, global |-> s.global, blank |-> s.blank, n |-> s.n,
           part |-> s.part]
  BY DEF Storage
<1> QED
  BY <1>2, <1>3, <1>4, <1>5, <1>6 DEF Records

(* The recursion of ref_node_add_many exists. *)
LEMMA AddsExists ==
    ASSUME NEW s0, Storage(s0), NEW m \in Nat, NEW new \in [1..m -> Glob],
           \A i, j \in 1..m : new[i] = new[j] => i = j,
           \A i \in 1..m : new[i] \notin NumbersIn(s0)
    PROVE  \E f : adds(s0, m, new, f)
<1> DEFINE S == {s \in Records : Storage(s)}
           F == [i \in 1..m |-> [s \in S |-> IF new[i] \in NumbersIn(s) THEN s
                                             ELSE add_core(s, new[i])]]
<1>1. s0 \in S
  BY StorageRecord
<1>2. \A i \in 1..m : \A s \in S : new[i] \notin NumbersIn(s) => add_core(s, new[i]) \in S
  <2> TAKE i \in 1..m
  <2> TAKE s \in S
  <2> HAVE new[i] \notin NumbersIn(s)
  <2>1. Storage(add_core(s, new[i]))
    BY AddOne
  <2> QED
    BY <2>1, StorageRecord
<1>3. F \in [1..m -> [S -> S]]
  <2> HIDE DEF S
  <2> QED
    BY <1>2
<1>4. \A i \in 1..m : \A s \in S : new[i] \notin NumbersIn(s) =>
         F[i][s] = add_core(s, new[i])
  OBVIOUS
<1> HIDE DEF F, S
<1>5. PICK h \in [0..m -> S] : h[0] = s0 /\ \A i \in 1..m : h[i] = F[i][h[i - 1]]
  <2>1. PICK h : Counts(m, S, s0, F, h)
    BY <1>1, <1>3, CountingExists
  <2> QED
    BY <2>1 DEF Counts
<1>6. \A i \in 1..m : i - 1 \in 0..m /\ i \in 0..m /\ i - 1 # m /\ i - 1 + 1 = i
  OBVIOUS
<1>7. \A i \in 1..m : new[i] \notin NumbersIn(h[i - 1]) => h[i] = add_core(h[i - 1], new[i])
  BY <1>4, <1>5, <1>6
<1>8. \A i \in 0..m : i # m => new[i + 1] \notin NumbersIn(h[i])
  BY ZenonT(60), <1>5, <1>7, AddAll
<1>9. \A i \in 1..m : new[i] \notin NumbersIn(h[i - 1])
  <2> TAKE i \in 1..m
  <2>1. new[i - 1 + 1] \notin NumbersIn(h[i - 1])
    BY <1>6, <1>8
  <2> QED
    BY <1>6, <2>1
<1>10. \A i \in 0..m : h[i] = IF i = 0 THEN s0 ELSE add_core(h[i - 1], new[i])
  <2>1. \A i \in 0..m : i # 0 => i \in 1..m
    OBVIOUS
  <2> QED
    BY <1>5, <1>7, <1>9, <2>1
<1>11. h = [i \in 0..m |-> h[i]]
  BY <1>5
<1>12. adds(s0, m, new, h)
  BY <1>10, <1>11 DEF adds
<1> QED
  BY <1>12

(* What ref_node_add_many leaves in the slots before it rebuilds the       *)
(* index.                                                                  *)
LEMMA AddsAll ==
    ASSUME NEW s0, Storage(s0), NEW m \in Nat, NEW new \in [1..m -> Glob],
           \A i, j \in 1..m : new[i] = new[j] => i = j,
           \A i \in 1..m : new[i] \notin NumbersIn(s0)
    PROVE  LET s == (CHOOSE f : adds(s0, m, new, f))[m]
           IN  Storage(s) /\ GrownTo(s0, s, Upto(new, m))
<1> DEFINE f == CHOOSE h : adds(s0, m, new, h)
<1>1. adds(s0, m, new, f)
  BY AddsExists
<1> HIDE DEF f
<1>2. f[0] = s0 /\ m \in 0..m
  BY <1>1 DEF adds
<1>3. \A i \in 1..m : f[i] = add_core(f[i - 1], new[i])
  <2>1. \A i \in 1..m : i \in 0..m /\ i # 0
    OBVIOUS
  <2> QED
    BY <1>1, <2>1 DEF adds
<1>4. Storage(f[m]) /\ GrownTo(s0, f[m], Upto(new, m))
  BY <1>2, <1>3, AddAll
<1> QED
  BY <1>4 DEF f

-----------------------------------------------------------------------------
(***************************************************************************)
(* The inductive invariant.  Neither the free list nor the index survives  *)
(* a call on its own: the slot an addition takes is free because it is on  *)
(* the list, and a removal finds the entry to close because the index has  *)
(* it.  Words says that no two slots hold a number, which a search that    *)
(* misses a vertex would break.  In a removal loop the index is typed only.*)
(***************************************************************************)
Inv(mx, gl, bl, nn, pt, sg, sl, un, nw, sw) ==
    /\ \E fl : Holds(mx, gl, bl, nn, pt, fl)
    /\ Typed(mx, nn, sg, sl)
    /\ un \in Seq(Glob) /\ nw \in NOld..NGlob
    /\ sw \in 0..mx \cup {EMPTY}
    /\ sw = EMPTY => Indexed(mx, gl, nn, sg, sl)

(* The inductive invariant. *)
IndInv == Inv(max, global, blank, n, part, sorted_global, sorted_local, unused,
              new_n, sweep)

(* What a step may do to the vertices that are here. *)
Repacked(mx, gl, pt, nn, n2o, mx2, gl2, pt2) ==
    /\ mx2 = mx /\ n2o \in Bijection(Index(nn), UsedOf(mx, gl))
    /\ UsedOf(mx2, gl2) = Index(nn) /\ nn \in Nat
    /\ \A l \in Index(nn) : gl2[l] = gl[n2o[l]] /\ pt2[l] = pt[n2o[l]]

(* What a step may do to the vertices. *)
Effect(mx, gl, pt, nn, mx2, gl2, pt2) ==
    \/ \E new \in SUBSET Glob : Grown(mx, gl, pt, mx2, gl2, pt2, new)
    \/ \E l : Shrunk(mx, gl, pt, mx2, gl2, pt2, l)
    \/ \E n2o : Repacked(mx, gl, pt, nn, n2o, mx2, gl2, pt2)

Stepped == Effect(max, global, part, n, max', global', part')

(* Both after an operation that leaves the index whole. *)
Whole == /\ \E fl : Holds(max', global', blank', n', part', fl)
         /\ Indexed(max', global', n', sorted_global', sorted_local')
         /\ Stepped

(* The storage as a record. *)
LEMMA StorageFields ==
    /\ storage.max = max /\ storage.global = global /\ storage.blank = blank
    /\ storage.n = n /\ storage.part = part
    /\ storage = [max |-> storage.max, global |-> storage.global,
                  blank |-> storage.blank, n |-> storage.n, part |-> storage.part]
  BY DEF storage

(* The invariant, taken apart. *)
LEMMA InvFacts ==
    ASSUME IndInv
    PROVE  /\ Storage(storage) /\ Words(max, global) /\ n = Cardinality(UsedOf(max, global))
           /\ n \in Nat /\ max \in Nat \ {0} /\ Slot = Slots(max) /\ Used = UsedOf(max, global)
           /\ Typed(max, n, sorted_global, sorted_local)
           /\ sweep = EMPTY => Indexed(max, global, n, sorted_global, sorted_local)
           /\ unused \in Seq(Glob) /\ new_n \in NOld..NGlob /\ sweep \in 0..max \cup {EMPTY}
<1>1. PICK fl : Holds(max, global, blank, n, part, fl)
  BY DEF IndInv, Inv
<1>2. /\ Words(max, global) /\ n = Cardinality(UsedOf(max, global)) /\ max \in Nat \ {0}
  BY <1>1 DEF Holds, Words
<1>3. n \in Nat
  BY <1>2, UsedFinite
<1>4. Storage(storage)
  BY <1>1, StorageFields DEF Storage
<1>5. Slot = Slots(max) /\ Used = UsedOf(max, global)
  BY DEF Slot, Slots, Used, UsedOf, valid
<1> QED
  BY <1>2, <1>3, <1>4, <1>5 DEF IndInv, Inv

(* Nothing happens to the vertices. *)
LEMMA Same ==
    ASSUME IndInv, UNCHANGED slots
    PROVE  /\ \E fl : Holds(max', global', blank', n', part', fl)
           /\ Stepped
<1>1. max' = max /\ global' = global /\ blank' = blank /\ n' = n /\ part' = part
  BY DEF slots
<1>2. max \in Nat
  BY InvFacts
<1>3. Grown(max, global, part, max, global, part, {})
  BY <1>2 DEF Grown
<1> QED
  BY <1>1, <1>3 DEF IndInv, Inv, Stepped, Effect

(* ref_node_create chains all slots and has an empty index. *)
LEMMA InitInv == Init => IndInv
<1> SUFFICES ASSUME Init PROVE IndInv
  OBVIOUS
<1>1. /\ max = InitMax /\ global = [l \in 0..(InitMax - 1) |-> chain(l, InitMax)]
      /\ blank = index2next(0) /\ n = 0
      /\ sorted_global = <<>> /\ sorted_local = <<>>
      /\ part = [l \in 0..(InitMax - 1) |-> EMPTY]
      /\ unused = <<>> /\ new_n = NOld /\ sweep = EMPTY
  BY DEF Init
<1>2. InitMax \in Nat \ {0}
  BY SizeAssumption
<1>3. Slots(max) = 0..(InitMax - 1) /\ \A l \in Slots(max) : l \in Nat
  BY <1>1, <1>2 DEF Slots
<1>4. \A l \in Slots(max) : global[l] = chain(l, InitMax) /\ global[l] \in Int /\ global[l] < 0
  BY <1>1, <1>2, <1>3, ChainFree
<1>5. UsedOf(max, global) = {}
  <2>1. \A l \in Slots(max) : ~ (global[l] >= 0)
    BY <1>4
  <2> QED
    BY <2>1 DEF UsedOf
<1>6. Words(max, global)
  <2>1. global \in [Slots(max) -> Int]
    BY <1>1, <1>3, <1>4
  <2>2. \A l \in Slots(max) : ~ (global[l] >= 0)
    BY <1>4
  <2> QED
    BY <1>1, <1>2, <2>1, <2>2 DEF Words
<1>7. \E fl : FreeList(max, global, index2next(0), fl)
  <2>1. \A l \in 0..(InitMax - 1) : global[l] = chain(l, InitMax)
    BY <1>3, <1>4
  <2>2. 0 < InitMax /\ InitMax \in Nat /\ 0 \in Nat
    BY <1>2
  <2>3. \A l \in Slots(max) : global[l] < 0 => l \in 0..(InitMax - 1)
    BY <1>3
  <2> QED
    BY <1>1, <2>1, <2>2, <2>3, NewChain
<1>8. \E fl : Holds(max, global, blank, n, part, fl)
  <2>1. part \in [Slots(max) -> {Me, Other, EMPTY}]
    BY <1>1, <1>3
  <2>2. n = Cardinality(UsedOf(max, global))
    BY <1>1, <1>5, FS_EmptySet
  <2> QED
    BY <1>1, <1>6, <1>7, <2>1, <2>2 DEF Holds
<1>9. Index(n) = {}
  BY <1>1 DEF Index
<1>10. Typed(max, n, sorted_global, sorted_local)
  <2>1. \A T : <<>> \in [{} -> T]
    OBVIOUS
  <2> QED
    BY <1>1, <1>9, <2>1 DEF Typed
<1>11. Indexed(max, global, n, sorted_global, sorted_local)
  BY <1>5, <1>9, <1>10 DEF Indexed
<1>12. unused \in Seq(Glob) /\ new_n \in NOld..NGlob
  BY <1>1, BoundAssumption
<1> QED
  BY <1>1, <1>8, <1>10, <1>11, <1>12 DEF IndInv, Inv

(* ref_node_add *)
LEMMA AddStep ==
    ASSUME IndInv, sweep = EMPTY, NEW g \in Glob, NEW owner \in {Me, Other}, add(g, owner)
    PROVE  Whole
<1> DEFINE p0 == search_glob(n, sorted_global, g)
<1>1. /\ Storage(storage) /\ Words(max, global) /\ n \in Nat
      /\ Indexed(max, global, n, sorted_global, sorted_local)
  BY InvFacts
<1>2. \/ local(g) = EMPTY /\ g \notin NumbersOf(max, global)
      \/ local(g) # EMPTY /\ local(g) \in UsedOf(max, global) /\ global[local(g)] = g
  <2>1. local(g) = IF p0 = EMPTY THEN EMPTY ELSE sorted_local[p0]
    BY DEF local
  <2> QED
    BY <1>1, <2>1, SlotFound
<1>3. CASE local(g) # EMPTY
  <2>1. UNCHANGED slots /\ UNCHANGED index
    BY <1>3 DEF add
  <2>2. UNCHANGED <<sorted_global, sorted_local>>
    BY <2>1 DEF index
  <2>3. UNCHANGED <<max, global, n>>
    BY <2>1 DEF slots
  <2> QED
    BY <1>1, <2>1, <2>2, <2>3, Same DEF Whole
<1>4. CASE local(g) = EMPTY
  <2> DEFINE s2 == owned(storage, g, owner)
             node == nodeOf(storage)
             p == pointOf(n, sorted_global, g)
  <2>1. g \notin NumbersIn(storage)
    BY <1>2, <1>4, StorageFields DEF NumbersIn
  <2>2. Added(storage, g, owner, node, s2)
    BY <1>1, <2>1, AddCore
  <2>3. node = next2index(IF blank = EMPTY THEN index2next(max) ELSE blank)
    BY StorageFields DEF nodeOf
  <2>4. insert_point(g) = p
    BY DEF insert_point, pointOf
  <2>5. /\ store(s2)
        /\ sorted_global' = inserted(sorted_global, insert_point(g), g)
        /\ sorted_local' = inserted(sorted_local, insert_point(g), node)
    BY <1>4, <2>3 DEF add, owned
  <2> HIDE DEF s2, node, p
  <2>6. /\ sorted_global' = ins(n, sorted_global, p, g)
        /\ sorted_local' = ins(n, sorted_local, p, node)
    BY <2>4, <2>5 DEF inserted, ins
  <2>7. max' = s2.max /\ global' = s2.global /\ blank' = s2.blank /\ n' = s2.n /\ part' = s2.part
    BY <2>5 DEF store
  <2>8. /\ node \in Slots(max') /\ node \notin UsedOf(max, global)
        /\ UsedOf(max', global') = UsedOf(max, global) \cup {node}
        /\ global'[node] = g /\ n' = n + 1
        /\ Grown(max, global, part, max', global', part', {g})
    BY <2>2, <2>7, StorageFields DEF Added, GrownTo
  <2>9. \A l \in UsedOf(max, global) : global'[l] = global[l]
    BY <2>8 DEF Grown
  <2>10. \A i \in Index(n) : sorted_global[i] # g
    <3>1. \A i \in Index(n) : /\ sorted_local[i] \in UsedOf(max, global)
                              /\ global[sorted_local[i]] = sorted_global[i]
      BY <1>1 DEF Indexed
    <3> QED
      BY <1>2, <1>4, <3>1 DEF NumbersOf
  <2>11. Indexed(max', global', n + 1, ins(n, sorted_global, p, g), ins(n, sorted_local, p, node))
    BY <1>1, <2>8, <2>9, <2>10, InsertIndexed DEF p
  <2>12. \E fl : Holds(max', global', blank', n', part', fl)
    BY <2>2, <2>7 DEF Added, Storage
  <2>13. Stepped
    BY <2>8 DEF Stepped, Effect
  <2> QED
    BY <2>6, <2>8, <2>11, <2>12, <2>13 DEF Whole
<1> QED
  BY <1>3, <1>4

(* The numbers a rank receives are numbers. *)
LEMMA ReceivedNumbers == Received \in SUBSET Glob
  BY BoundAssumption DEF Received, Glob

(* The owners of the vertices ref_node_add_many has added. *)
manyOwners(s, added, owner) ==
    [l \in DOMAIN s.part |-> IF l \in added THEN owner ELSE s.part[l]]

(* ref_node_add_many *)
LEMMA ManyStep ==
    ASSUME IndInv, NEW k \in Nat, NEW list \in [1..k -> Received],
           NEW owner \in {Me, Other}, AddMany(list, owner)
    PROVE  Whole
<1> DEFINE absent == {i \in 1..Len(list) : local(list[i]) = EMPTY}
           few == chosen(list, absent)
           new == distinct(few)
           s == (CHOOSE f : adds(storage, Len(new), new, f))[Len(new)]
           added == {l \in 0..(s.max - 1) : s.global[l] >= 0 /\ ~ valid(l)}
           pt == manyOwners(s, added, owner)
<1>1. /\ sweep = EMPTY
      /\ store([s EXCEPT !.part = pt])
      /\ rebuild_sorted_global(s)
  BY DEF AddMany, adds, manyOwners
<1>2. /\ Storage(storage) /\ Words(max, global) /\ n \in Nat
      /\ Indexed(max, global, n, sorted_global, sorted_local)
      /\ max \in Nat /\ Slot = Slots(max)
  BY <1>1, InvFacts
<1>3. list \in [1..k -> Glob] /\ Len(list) = k
  <2>1. list \in [1..k -> Glob]
    BY ReceivedNumbers
  <2> QED
    BY <2>1, LenProperties DEF Seq
<1>4. \A i \in absent : list[i] \notin NumbersIn(storage)
  <2> TAKE i \in absent
  <2> DEFINE g == list[i]
             p0 == search_glob(n, sorted_global, g)
  <2>1. g \in Glob /\ local(g) = EMPTY
    BY <1>3
  <2>2. local(g) = IF p0 = EMPTY THEN EMPTY ELSE sorted_local[p0]
    BY DEF local
  <2> HIDE DEF g
  <2>3. g \notin NumbersOf(max, global)
    BY <1>2, <2>1, <2>2, SlotFound
  <2> QED
    BY <2>3, StorageFields DEF NumbersIn, g
<1>5. absent \in SUBSET (1..k)
  BY <1>3
<1> HIDE DEF absent
<1> DEFINE c == Cardinality(absent)
<1>6. Picks(list, absent, c, few)
  BY <1>3, <1>5, Chosen
<1> HIDE DEF few, c
<1>7. c \in Nat /\ few \in [1..c -> Glob] /\ Len(few) = c
      /\ \A i \in 1..c : few[i] \notin NumbersIn(storage)
  BY <1>4, <1>6 DEF Picks
<1>8. PICK m \in Nat : Compressed(c, few, m, new)
  BY <1>7, Distinct
<1> HIDE DEF new
<1>9. /\ new \in [1..m -> Glob] /\ Len(new) = m
      /\ \A i, j \in 1..m : new[i] = new[j] => i = j
      /\ \A i \in 1..m : new[i] \notin NumbersIn(storage)
  BY <1>7, <1>8 DEF Compressed
<1>10. Storage(s) /\ GrownTo(storage, s, Upto(new, m))
  BY <1>2, <1>9, AddsAll
<1> HIDE DEF s
<1>11. s = [max |-> s.max, global |-> s.global, blank |-> s.blank, n |-> s.n,
            part |-> s.part]
  BY <1>10 DEF Storage
<1>12. /\ max' = s.max /\ global' = s.global /\ blank' = s.blank /\ n' = s.n /\ part' = pt
  <2> HIDE DEF pt
  <2> QED
    BY <1>1, <1>11 DEF store
<1>13. PICK fl : Holds(s.max, s.global, s.blank, s.n, s.part, fl)
  BY <1>10 DEF Storage
<1>14. /\ s.part \in [Slots(s.max) -> {Me, Other, EMPTY}]
       /\ Words(s.max, s.global) /\ s.n = Cardinality(UsedOf(s.max, s.global))
  BY <1>13 DEF Holds
<1>15. /\ pt \in [Slots(s.max) -> {Me, Other, EMPTY}]
       /\ \A l \in Slots(s.max) : l \notin added => pt[l] = s.part[l]
  <2> HIDE DEF added
  <2> QED
    BY <1>14 DEF manyOwners
<1>16. \E fl2 : Holds(max', global', blank', n', part', fl2)
  BY <1>12, <1>13, <1>15 DEF Holds
<1>17. /\ max <= s.max
       /\ \A l \in UsedOf(max, global) : s.global[l] = global[l] /\ s.part[l] = part[l]
       /\ \A l \in UsedOf(s.max, s.global) : l \in UsedOf(max, global) \/ s.global[l] \in Upto(new, m)
       /\ \A g \in Upto(new, m) : \E l \in UsedOf(s.max, s.global) : s.global[l] = g
       /\ Upto(new, m) \cap NumbersOf(max, global) = {}
  BY <1>10, StorageFields DEF GrownTo, Grown
<1>18. \A l \in UsedOf(max, global) : l \in Slots(s.max) /\ l \notin added
  <2>1. \A l \in UsedOf(max, global) : valid(l)
    BY <1>2 DEF UsedOf, valid
  <2>2. \A l \in Slots(max) : l \in Slots(s.max)
    <3>1. s.max \in Nat
      BY <1>14 DEF Words
    <3> QED
      BY <1>2, <1>17, <3>1 DEF Slots
  <2> QED
    BY <2>1, <2>2 DEF UsedOf
<1>19. Grown(max, global, part, max', global', part', Upto(new, m))
  <2>1. \A l \in UsedOf(max, global) : pt[l] = part[l]
    BY <1>15, <1>17, <1>18
  <2> HIDE DEF pt
  <2> QED
    BY <1>12, <1>17, <2>1 DEF Grown
<1>20. Upto(new, m) \in SUBSET Glob
  BY <1>9 DEF Upto
<1>21. Stepped
  BY <1>19, <1>20 DEF Stepped, Effect
<1>22. /\ sorted_local' = rebuiltLocal(s.max, s.global, s.n)
       /\ sorted_global' = rebuiltGlobal(s.max, s.global, s.n)
  BY <1>1 DEF rebuild_sorted_global, rebuiltLocal, rebuiltGlobal, packing, numbering,
              ordering, UsedOf, Slots
<1>23. Indexed(max', global', n', sorted_global', sorted_local')
  BY <1>12, <1>14, <1>22, RebuildIndexed
<1> QED
  BY <1>16, <1>21, <1>23 DEF Whole

(* The end of every removal. *)
LEMMA ReleaseStep ==
    ASSUME IndInv, NEW l \in Slot, valid(l), release(l)
    PROVE  /\ \E fl : Holds(max', global', blank', n', part', fl)
           /\ Shrunk(max, global, part, max', global', part', l) /\ Stepped
           /\ n' = n - 1 /\ n \in Nat \ {0} /\ max' = max
           /\ l \in UsedOf(max, global) /\ global[l] \in Glob
<1>1. PICK fl : Holds(max, global, blank, n, part, fl)
  BY DEF IndInv, Inv
<1>2. l \in UsedOf(max, global) /\ global[l] \in Glob
  BY InvFacts DEF UsedOf, valid, Words
<1>3. Released(max, global, blank, n, part, l)
  BY <1>1, <1>2, ReleaseHolds
<1>4. /\ global' = put(global, l, blank) /\ blank' = index2next(l)
      /\ part' = put(part, l, EMPTY) /\ n' = n - 1 /\ max' = max
  BY DEF release, put
<1>5. /\ \E f : Holds(max', global', blank', n', part', f)
      /\ Shrunk(max, global, part, max', global', part', l) /\ n \in Nat \ {0}
  BY <1>3, <1>4 DEF Released
<1> QED
  BY <1>2, <1>4, <1>5 DEF Stepped, Effect

(* ref_node_remove and ref_node_remove_without_global: the slot is         *)
(* released and its entry leaves the index.                                *)
LEMMA UnindexStep ==
    ASSUME IndInv, sweep = EMPTY, NEW l \in Slot, valid(l), release(l), unindex(l)
    PROVE  Whole
<1> DEFINE p == search_glob(n, sorted_global, global[l])
<1>1. /\ \E fl : Holds(max', global', blank', n', part', fl)
      /\ Shrunk(max, global, part, max', global', part', l) /\ Stepped
      /\ n' = n - 1 /\ n \in Nat \ {0} /\ max' = max /\ l \in UsedOf(max, global)
  BY ReleaseStep
<1>2. Words(max, global) /\ Indexed(max, global, n, sorted_global, sorted_local)
  BY InvFacts
<1>3. /\ UsedOf(max, global') = UsedOf(max, global) \ {l}
      /\ \A j \in UsedOf(max, global') : global'[j] = global[j]
  BY <1>1 DEF Shrunk
<1>4. Indexed(max, global', n - 1, del(n, sorted_global, p), del(n, sorted_local, p))
  BY <1>1, <1>2, <1>3, DeleteIndexed
<1>5. sorted_global' = del(n, sorted_global, p) /\ sorted_local' = del(n, sorted_local, p)
  BY DEF unindex, deleted, del
<1> QED
  BY <1>1, <1>4, <1>5 DEF Whole

(* In a removal loop the index shrinks with the storage. *)
LEMMA InvalidateStep ==
    ASSUME IndInv, NEW l \in Slot, valid(l), release(l), invalidate
    PROVE  Typed(max', n', sorted_global', sorted_local')
<1>1. n' = n - 1 /\ n \in Nat \ {0} /\ max' = max
  BY ReleaseStep
<1>2. sorted_global \in [Index(n) -> Glob] /\ sorted_local \in [Index(n) -> Slots(max)]
  BY InvFacts DEF Typed
<1>3. /\ sorted_global' = [i \in 0..(n - 2) |-> sorted_global[i]]
      /\ sorted_local' = [i \in 0..(n - 2) |-> sorted_local[i]]
  BY DEF invalidate, clip
<1>4. Index(n - 1) = 0..(n - 2) /\ \A i \in 0..(n - 2) : i \in Index(n)
  BY <1>1 DEF Index
<1>5. sorted_global' \in [Index(n - 1) -> Glob] /\ sorted_local' \in [Index(n - 1) -> Slots(max)]
  BY <1>2, <1>3, <1>4
<1> QED
  BY <1>1, <1>5 DEF Typed

(* ref_node_pack *)
LEMMA PackStep ==
    ASSUME IndInv, NEW n2o \in Bijection(Index(n), Used), Pack(n2o)
    PROVE  Whole
<1>1. /\ Words(max, global) /\ Indexed(max, global, n, sorted_global, sorted_local)
      /\ Slot = Slots(max) /\ Used = UsedOf(max, global) /\ max \in Nat
  BY InvFacts DEF Pack
<1>2. PICK fl : Holds(max, global, blank, n, part, fl)
  BY DEF IndInv, Inv
<1>3. Packed(max, global, n, part, n2o)
  BY <1>1, <1>2, PackHolds
<1>4. /\ global' = packedWords(max, global, n, n2o) /\ blank' = packedBlank(max, n)
      /\ part' = packedOwners(max, part, n, n2o) /\ max' = max /\ n' = n
      /\ sorted_global' = sorted_global /\ sorted_local' = translated(n, sorted_local, n2o)
  BY <1>1 DEF Pack, packedWords, packedBlank, packedOwners, packed_part, translated
<1>5. Indexed(max, global', n, sorted_global, translated(n, sorted_local, n2o))
  BY <1>1, <1>3, <1>4, PackIndexed
<1>6. \E f : Holds(max', global', blank', n', part', f)
  BY <1>3, <1>4 DEF Packed
<1>7. Repacked(max, global, part, n, n2o, max', global', part')
  BY <1>1, <1>3, <1>4 DEF Packed, Repacked
<1>8. Stepped
  BY <1>7 DEF Stepped, Effect
<1> QED
  BY <1>4, <1>5, <1>6, <1>8 DEF Whole

(* A whole index and the rest of the members keep the invariant. *)
LEMMA WholeInv ==
    ASSUME Whole, unused' \in Seq(Glob), new_n' \in NOld..NGlob, sweep' = EMPTY
    PROVE  IndInv' /\ Stepped
<1>1. Inv(max', global', blank', n', part', sorted_global', sorted_local', unused',
          new_n', sweep')
  BY DEF Whole, Inv, Indexed
<1> QED
  BY <1>1 DEF Whole, IndInv

(* Every step keeps the invariant and moves no vertex that stays, but a pack. *)
LEMMA StepInv == IndInv /\ [Next]_vars => IndInv' /\ Stepped
<1> SUFFICES ASSUME IndInv, [Next]_vars PROVE IndInv' /\ Stepped
  OBVIOUS
<1>1. /\ unused \in Seq(Glob) /\ new_n \in NOld..NGlob /\ sweep \in 0..max \cup {EMPTY}
      /\ max \in Nat \ {0} /\ n \in Nat /\ Slot = Slots(max)
      /\ Typed(max, n, sorted_global, sorted_local)
      /\ Words(max, global) /\ n = Cardinality(UsedOf(max, global))
  BY InvFacts
<1>2. CASE NewNode
  <2>1. CASE unused # <<>>
    <3> DEFINE g == Seqs!Last(unused)
    <3>1. add(g, Me) /\ unused' = Seqs!Front(unused) /\ new_n' = new_n /\ sweep' = EMPTY
          /\ sweep = EMPTY
      BY <1>2, <2>1 DEF NewNode
    <3>2. Len(unused) \in Nat /\ Len(unused) # 0
      BY <1>1, <2>1
    <3>3. Len(unused) \in 1..Len(unused)
      BY <3>2
    <3>4. g \in Glob
      BY <1>1, <3>3, ElementOfSeq DEF Seqs!Last
    <3>5. unused' \in Seq(Glob)
      <4>1. unused' = SubSeq(unused, 1, Len(unused) - 1)
        BY <3>1 DEF Seqs!Front
      <4>2. \A i \in 1..(Len(unused) - 1) : unused[i] \in Glob
        BY <1>1, <3>2, ElementOfSeq
      <4> QED
        BY <1>1, <3>2, <4>1, <4>2, SubSeqProperties
    <3> HIDE DEF g
    <3>6. Whole
      BY <3>1, <3>4, AddStep
    <3> QED
      BY <1>1, <3>1, <3>5, <3>6, WholeInv
  <2>2. CASE unused = <<>>
    <3>1. /\ sweep = EMPTY /\ new_n < NGlob /\ add(new_n, Me) /\ new_n' = new_n + 1
          /\ unused' = unused /\ sweep' = EMPTY
      BY <1>2, <2>2 DEF NewNode
    <3>2. new_n \in Glob /\ new_n' \in NOld..NGlob
      BY <1>1, <3>1, BoundAssumption DEF Glob
    <3>3. Whole
      BY <3>1, <3>2, AddStep
    <3> QED
      BY <1>1, <3>1, <3>2, <3>3, WholeInv
  <2> QED
    BY <2>1, <2>2
<1>3. ASSUME NEW g \in Received, AddGhost(g) PROVE IndInv' /\ Stepped
  <2>1. /\ sweep = EMPTY /\ add(g, Other) /\ unused' = unused /\ new_n' = new_n /\ sweep' = EMPTY
    BY <1>3 DEF AddGhost
  <2>2. g \in Glob
    BY ReceivedNumbers
  <2>3. Whole
    BY <2>1, <2>2, AddStep
  <2> QED
    BY <1>1, <2>1, <2>3, WholeInv
<1>4. ASSUME NEW k \in 0..MaxMany, NEW list \in [1..k -> Received], NEW owner \in {Me, Other},
             AddMany(list, owner)
      PROVE  IndInv' /\ Stepped
  <2>1. unused' = unused /\ new_n' = new_n /\ sweep' = EMPTY
    BY <1>4 DEF AddMany
  <2>2. k \in Nat
    OBVIOUS
  <2>3. Whole
    BY <1>4, <2>2, ManyStep
  <2> QED
    BY <1>1, <2>1, <2>3, WholeInv
<1>5. ASSUME NEW l \in Slot, Remove(l) PROVE IndInv' /\ Stepped
  <2>1. /\ sweep = EMPTY /\ valid(l) /\ unindex(l) /\ push_unused(global[l]) /\ release(l)
        /\ new_n' = new_n /\ sweep' = EMPTY
    BY <1>5 DEF Remove
  <2>2. Whole
    BY <2>1, UnindexStep
  <2>3. unused' \in Seq(Glob)
    <3>1. global[l] \in Glob
      BY <2>1, ReleaseStep
    <3>2. unused' = Append(unused, global[l])
      BY <2>1 DEF push_unused
    <3> QED
      BY <1>1, <3>1, <3>2, AppendProperties
  <2> QED
    BY <1>1, <2>1, <2>2, <2>3, WholeInv
<1>6. ASSUME NEW l \in Slot, RemoveWithoutGlobal(l) PROVE IndInv' /\ Stepped
  <2>1. /\ sweep = EMPTY /\ valid(l) /\ unindex(l) /\ release(l)
        /\ unused' = unused /\ new_n' = new_n /\ sweep' = EMPTY
    BY <1>6 DEF RemoveWithoutGlobal
  <2>2. Whole
    BY <2>1, UnindexStep
  <2> QED
    BY <1>1, <2>1, <2>2, WholeInv
<1>7. ASSUME UNCHANGED slots, UNCHANGED index, UNCHANGED <<unused, new_n>>,
             sweep' \in 0..max, sweep' # EMPTY
      PROVE  IndInv' /\ Stepped
  <2>1. (\E fl : Holds(max', global', blank', n', part', fl)) /\ Stepped
    BY <1>7, Same
  <2>2. max' = max /\ n' = n /\ sorted_global' = sorted_global /\ sorted_local' = sorted_local
    BY <1>7 DEF slots, index
  <2>3. Inv(max', global', blank', n', part', sorted_global', sorted_local', unused',
            new_n', sweep')
    BY <1>1, <1>7, <2>1, <2>2 DEF Inv
  <2> QED
    BY <2>1, <2>3 DEF IndInv
<1>8. CASE SweepBegin
  <2>1. /\ UNCHANGED slots /\ UNCHANGED index /\ UNCHANGED <<unused, new_n>> /\ sweep' = 0
    BY <1>8 DEF SweepBegin
  <2>2. sweep' \in 0..max /\ sweep' # EMPTY
    BY <1>1, <2>1, EmptyLink
  <2> QED
    BY <1>7, <2>1, <2>2
<1>9. CASE SweepKeep
  <2>1. /\ UNCHANGED slots /\ UNCHANGED index /\ UNCHANGED <<unused, new_n>>
        /\ sweep' = sweep + 1 /\ sweep # EMPTY /\ sweep < max
    BY <1>9 DEF SweepKeep
  <2>2. sweep \in 0..max
    BY <1>1, <2>1
  <2>3. sweep' \in 0..max /\ sweep' # EMPTY
    BY <1>1, <2>1, <2>2, EmptyLink
  <2> QED
    BY <1>7, <2>1, <2>3
<1>10. ASSUME sweep # EMPTY, valid(sweep), release(sweep), invalidate, sweep' = sweep + 1,
              unused' \in Seq(Glob), new_n' = new_n
       PROVE  IndInv' /\ Stepped
  <2>0. sweep \in Slot
    BY <1>10 DEF valid
  <2>1. /\ \E fl : Holds(max', global', blank', n', part', fl)
        /\ Stepped /\ max' = max
    BY <1>10, <2>0, ReleaseStep
  <2>2. Typed(max', n', sorted_global', sorted_local')
    BY <1>10, <2>0, InvalidateStep
  <2>3. sweep' \in 0..max' /\ sweep' # EMPTY
    BY <1>1, <1>10, <2>0, <2>1, EmptyLink DEF Slots
  <2>4. Inv(max', global', blank', n', part', sorted_global', sorted_local', unused',
            new_n', sweep')
    BY <1>1, <1>10, <2>1, <2>2, <2>3 DEF Inv
  <2> QED
    BY <2>1, <2>4 DEF IndInv
<1>11. CASE SweepRemove
  <2>1. /\ sweep # EMPTY /\ valid(sweep) /\ push_unused(global[sweep]) /\ release(sweep)
        /\ invalidate /\ sweep' = sweep + 1 /\ new_n' = new_n
    BY <1>11 DEF SweepRemove
  <2>2. sweep \in Slot
    BY <2>1 DEF valid
  <2>3. unused' \in Seq(Glob)
    <3>1. global[sweep] \in Glob
      BY <2>1, <2>2, ReleaseStep
    <3>2. unused' = Append(unused, global[sweep])
      BY <2>1 DEF push_unused
    <3> QED
      BY <1>1, <3>1, <3>2, AppendProperties
  <2> QED
    BY <1>10, <2>1, <2>3
<1>12. CASE SweepRemoveWithoutGlobal
  <2>1. /\ sweep # EMPTY /\ valid(sweep) /\ release(sweep)
        /\ invalidate /\ sweep' = sweep + 1 /\ unused' = unused /\ new_n' = new_n
    BY <1>12 DEF SweepRemoveWithoutGlobal
  <2> QED
    BY <1>1, <1>10, <2>1
<1>13. CASE SweepEnd
  <2>1. /\ rebuild_sorted_global(storage) /\ sweep' = EMPTY
        /\ UNCHANGED slots /\ unused' = unused /\ new_n' = new_n
    BY <1>13 DEF SweepEnd
  <2>2. (\E fl : Holds(max', global', blank', n', part', fl)) /\ Stepped
    BY <2>1, Same
  <2>3. max' = max /\ global' = global /\ n' = n
    BY <2>1 DEF slots
  <2> DEFINE s == storage
  <2>4. s.max = max /\ s.global = global /\ s.n = n
    BY StorageFields
  <2>5. /\ sorted_local' = rebuiltLocal(s.max, s.global, s.n)
        /\ sorted_global' = rebuiltGlobal(s.max, s.global, s.n)
    BY <2>1 DEF rebuild_sorted_global, rebuiltLocal, rebuiltGlobal, packing, numbering,
                ordering, UsedOf, Slots
  <2> HIDE DEF s
  <2>6. Indexed(max', global', n', sorted_global', sorted_local')
    BY <1>1, <2>3, <2>4, <2>5, RebuildIndexed
  <2>7. Whole
    BY <2>2, <2>6 DEF Whole
  <2> QED
    BY <1>1, <2>1, <2>7, WholeInv
<1>14. ASSUME NEW n2o \in Bijection(Index(n), Used), Pack(n2o) PROVE IndInv' /\ Stepped
  <2>1. unused' = unused /\ new_n' = new_n /\ sweep' = EMPTY
    BY <1>14 DEF Pack
  <2>2. Whole
    BY <1>14, PackStep
  <2> QED
    BY <1>1, <2>1, <2>2, WholeInv
<1>15. CASE UNCHANGED vars
  <2>1. UNCHANGED slots /\ UNCHANGED <<max, global, blank, n, part, sorted_global,
                                       sorted_local, unused, new_n, sweep>>
    BY <1>15 DEF vars, slots
  <2>2. Stepped
    BY <2>1, Same
  <2> QED
    BY <2>1, <2>2 DEF IndInv
<1> QED
  BY <1>2, <1>3, <1>4, <1>5, <1>6, <1>8, <1>9, <1>11, <1>12, <1>13, <1>14, <1>15 DEF Next

(* The invariant holds in every behaviour. *)
LEMMA IndInvAlways == Spec => []IndInv
<1>1. IndInv /\ [Next]_vars => IndInv'
  BY StepInv
<1> QED
  BY <1>1, InitInv, PTL DEF Spec

-----------------------------------------------------------------------------
(* There are as many free slots as entries of the free list. *)
LEMMA FreeCount ==
    ASSUME NEW mx, NEW gl, NEW bl, NEW fl, Words(mx, gl), FreeList(mx, gl, bl, fl)
    PROVE  /\ Cardinality(Slots(mx) \ UsedOf(mx, gl)) = Len(fl)
           /\ Len(fl) \in Nat /\ Len(fl) <= mx
           /\ {fl[k] : k \in 1..Len(fl)} = Slots(mx) \ UsedOf(mx, gl)
<1> DEFINE c == Len(fl)
           F == Slots(mx) \ UsedOf(mx, gl)
<1>1. mx \in Nat /\ gl \in [Slots(mx) -> Int]
  BY DEF Words
<1>2. c \in Nat /\ \A k \in 1..c : fl[k] \in Slots(mx) /\ gl[fl[k]] < 0
  BY FreeSlots
<1>3. fl \in Seq(Slots(mx)) /\ \A j, k \in 1..c : fl[j] = fl[k] => j = k
  BY DEF FreeList
<1>4. \A l \in Slots(mx) : gl[l] < 0 => \E k \in 1..c : fl[k] = l
  BY DEF FreeList
<1>5. \A l \in Slots(mx) : gl[l] < 0 <=> l \in F
  BY <1>1 DEF UsedOf
<1>6. fl \in [1..c -> F]
  <2>1. \A k \in 1..c : fl[k] \in F
    BY <1>2, <1>5
  <2>2. DOMAIN fl = 1..c /\ fl = [k \in 1..c |-> fl[k]]
    BY <1>3, LenProperties
  <2> HIDE DEF F, c
  <2> QED
    BY <2>1, <2>2
<1>7. \A l \in F : \E k \in 1..c : fl[k] = l
  BY <1>4, <1>5
<1> HIDE DEF c
<1>8. fl \in Bijection(1..c, F)
  <2> HIDE DEF F
  <2> QED
    BY <1>3, <1>6, <1>7 DEF Bijection, Injection, Surjection, IsInjective
<1>9. IsFiniteSet(1..c) /\ Cardinality(1..c) = c
  BY <1>2, FS_Interval
<1>10. Cardinality(F) = c
  <2>1. ExistsBijection(1..c, F)
    BY <1>8 DEF ExistsBijection
  <2> HIDE DEF F
  <2> QED
    BY <1>9, <2>1, FS_Bijection
<1>11. c <= mx
  <2>1. IsFiniteSet(Slots(mx)) /\ Cardinality(Slots(mx)) = mx
    BY <1>1, FS_Interval DEF Slots
  <2>2. F \in SUBSET Slots(mx)
    OBVIOUS
  <2> HIDE DEF F
  <2> QED
    BY <1>10, <2>1, <2>2, FS_Subset
<1>12. {fl[k] : k \in 1..c} = F
  <2> HIDE DEF F
  <2> QED
    BY <1>6, <1>7
<1> QED
  BY <1>2, <1>10, <1>11, <1>12 DEF c

(* The walk along the list from bl on. *)
walks(mx, gl, bl, at) ==
    at = [k \in 0..mx |-> IF k = 0 THEN next2index(bl)
                          ELSE IF at[k - 1] \in Slots(mx) THEN next2index(gl[at[k - 1]])
                          ELSE at[k - 1]]

(* Following the free list from blank is a recursion that exists. *)
LEMMA WalkExists ==
    ASSUME NEW mx \in Nat, NEW gl \in [Slots(mx) -> Int], NEW bl \in Int
    PROVE  \E at : walks(mx, gl, bl, at)
<1> DEFINE F == [i \in 1..mx |-> [x \in Int |-> IF x \in Slots(mx) THEN next2index(gl[x])
                                                ELSE x]]
<1>1. \A x \in Int : next2index(x) \in Int
  BY DEF next2index
<1>2. F \in [1..mx -> [Int -> Int]]
  BY <1>1
<1>3. \A i \in 1..mx : \A x \in Int : F[i][x] = IF x \in Slots(mx) THEN next2index(gl[x]) ELSE x
  OBVIOUS
<1> HIDE DEF F
<1>4. PICK h : Counts(mx, Int, next2index(bl), F, h)
  BY <1>1, <1>2, CountingExists
<1>5. /\ h \in [0..mx -> Int] /\ h[0] = next2index(bl)
      /\ \A i \in 1..mx : h[i] = F[i][h[i - 1]]
  BY <1>4 DEF Counts
<1>6. \A i \in 0..mx : i # 0 => i \in 1..mx /\ i - 1 \in 0..mx
  OBVIOUS
<1>7. \A i \in 0..mx : i # 0 =>
         h[i] = IF h[i - 1] \in Slots(mx) THEN next2index(gl[h[i - 1]]) ELSE h[i - 1]
  <2> TAKE i \in 0..mx
  <2> HAVE i # 0
  <2> DEFINE x == h[i - 1]
  <2>1. i \in 1..mx /\ i - 1 \in 0..mx
    BY <1>6
  <2>2. x \in Int /\ h[i] = F[i][x]
    BY <1>5, <2>1
  <2> HIDE DEF x
  <2>3. F[i][x] = IF x \in Slots(mx) THEN next2index(gl[x]) ELSE x
    BY <1>3, <2>1, <2>2
  <2> QED
    BY <2>2, <2>3 DEF x
<1>8. h = [k \in 0..mx |-> h[k]]
  BY <1>5
<1>9. walks(mx, gl, bl, h)
  BY <1>5, <1>7, <1>8 DEF walks
<1> QED
  BY <1>9

(* It visits the free list in order and ends at EMPTY. *)
LEMMA WalkVisits ==
    ASSUME NEW mx, NEW gl, NEW bl, NEW fl, Words(mx, gl), FreeList(mx, gl, bl, fl),
           NEW at, walks(mx, gl, bl, at)
    PROVE  \A k \in 0..Len(fl) : at[k] = IF k = Len(fl) THEN EMPTY ELSE fl[k + 1]
<1> DEFINE c == Len(fl)
           G == {k \in 0..c : at[k] = IF k = c THEN EMPTY ELSE fl[k + 1]}
<1>1. mx \in Nat /\ c \in Nat /\ c <= mx
  BY FreeCount DEF Words
<1>2. \A k \in 1..c : fl[k] \in Slots(mx) /\ fl[k] \in Nat
  BY <1>1, FreeSlots DEF Slots
<1>3. bl = IF c = 0 THEN EMPTY ELSE index2next(fl[1])
  BY DEF FreeList
<1>4. \A k \in 1..c : gl[fl[k]] = IF k = c THEN EMPTY ELSE index2next(fl[k + 1])
  BY DEF FreeList
<1>5. at[0] = next2index(bl)
  BY <1>1 DEF walks
<1>6. \A k \in 1..mx : at[k] = IF at[k - 1] \in Slots(mx) THEN next2index(gl[at[k - 1]])
                               ELSE at[k - 1]
  <2>1. \A k \in 1..mx : k \in 0..mx /\ k # 0
    OBVIOUS
  <2> QED
    BY <2>1 DEF walks
<1> HIDE DEF c
<1>7. 0 \in G
  <2>1. CASE c = 0
    BY <1>3, <1>5, <2>1, EmptyLink
  <2>2. CASE c # 0
    <3>1. 1 \in 1..c /\ 0 \in 0..c
      BY <1>1, <2>2
    <3>2. at[0] = fl[1]
      BY <1>2, <1>3, <1>5, <2>2, <3>1, Links
    <3> QED
      BY <2>2, <3>1, <3>2
  <2> QED
    BY <2>1, <2>2
<1>8. ASSUME NEW k \in 0..c, k # c, k \in G PROVE k + 1 \in G
  <2> DEFINE m == k + 1
  <2>1. m \in 1..c /\ m \in 1..mx /\ m - 1 = k /\ m \in 0..c
    BY <1>1, <1>8
  <2>2. at[k] = fl[m]
    BY <1>8
  <2> HIDE DEF m
  <2>3. at[m] = next2index(gl[fl[m]])
    BY <1>2, <1>6, <2>1, <2>2
  <2>4. CASE m = c
    <3>1. at[m] = EMPTY
      BY <1>4, <2>1, <2>3, <2>4, EmptyLink
    <3> QED
      BY <2>1, <2>4, <3>1 DEF m
  <2>5. CASE m # c
    <3>1. m + 1 \in 1..c
      BY <1>1, <2>1, <2>5
    <3>2. at[m] = fl[m + 1]
      BY <1>2, <1>4, <2>1, <2>3, <2>5, <3>1, Links
    <3> QED
      BY <2>1, <2>5, <3>2 DEF m
  <2> QED
    BY <2>4, <2>5
<1>9. \A k \in 0..c : k \in G
  <2> HIDE DEF G
  <2> QED
    BY <1>1, <1>7, <1>8, UptoInduction
<1> QED
  BY <1>9 DEF c

(* The members have their types in every state of the invariant. *)
LEMMA InvType == IndInv => TypeOK
<1> SUFFICES ASSUME IndInv PROVE TypeOK
  OBVIOUS
<1>1. PICK fl : Holds(max, global, blank, n, part, fl)
  BY DEF IndInv, Inv
<1>2. blank \in Int
  BY <1>1, FreeSlots DEF Holds
<1>3. part \in [Slots(max) -> {Me, Other, EMPTY}]
  BY <1>1 DEF Holds
<1> QED
  BY <1>2, <1>3, InvFacts DEF TypeOK, Typed, Words

(* The invariant gives the free list: every slot that holds no number is   *)
(* reached once.                                                           *)
LEMMA InvFreeList == IndInv => FreeListExact
<1> SUFFICES ASSUME IndInv PROVE FreeListExact
  OBVIOUS
<1> DEFINE at == CHOOSE f :
                    f = [k \in 0..max |->
                           IF k = 0 THEN next2index(blank)
                           ELSE IF f[k - 1] \in Slot THEN next2index(global[f[k - 1]])
                           ELSE f[k - 1]]
           len == Cardinality(Slot \ Used)
<1>1. PICK fl : Holds(max, global, blank, n, part, fl)
  BY DEF IndInv, Inv
<1>2. Words(max, global) /\ FreeList(max, global, blank, fl)
  BY <1>1 DEF Holds
<1>3. walks(max, global, blank, at)
  <2>1. max \in Nat /\ global \in [Slots(max) -> Int] /\ blank \in Int
    BY <1>2, FreeSlots DEF Words
  <2>2. at = CHOOSE f : walks(max, global, blank, f)
    BY DEF walks, Slot, Slots
  <2> HIDE DEF at
  <2> QED
    BY <2>1, <2>2, WalkExists
<1> HIDE DEF at
<1>9. Slot = Slots(max) /\ Used = UsedOf(max, global)
  BY InvFacts
<1>4. /\ len = Len(fl) /\ Len(fl) \in Nat
      /\ {fl[k] : k \in 1..Len(fl)} = Slots(max) \ UsedOf(max, global)
  BY ZenonT(60), <1>2, <1>9, FreeCount
<1>5. \A k \in 0..Len(fl) : at[k] = IF k = Len(fl) THEN EMPTY ELSE fl[k + 1]
  BY <1>2, <1>3, WalkVisits
<1> HIDE DEF len
<1>6. at[len] = EMPTY
  BY <1>4, <1>5
<1>7. {at[k] : k \in 0..(len - 1)} = {fl[k] : k \in 1..len}
  <2>1. \A k \in 0..(len - 1) : k + 1 \in 1..len /\ at[k] = fl[k + 1]
    BY <1>4, <1>5
  <2>2. \A k \in 1..len : k - 1 \in 0..(len - 1) /\ at[k - 1] = fl[k]
    <3>1. \A k \in 1..len : k - 1 \in 0..(len - 1) /\ k - 1 \in 0..len /\ k - 1 # len /\ k - 1 + 1 = k
      BY <1>4
    <3> QED
      BY <1>4, <1>5, <3>1
  <2> QED
    BY <2>1, <2>2
<1>8. {at[k] : k \in 0..(len - 1)} = Slot \ Used
  BY <1>4, <1>7, <1>9
<1>10. TypeOK
  BY InvType
<1> QED
  BY <1>6, <1>8, <1>10 DEF FreeListExact, at, len

(* The invariant gives the index, outside a removal loop. *)
LEMMA InvIndex == IndInv => IndexExact
<1> SUFFICES ASSUME IndInv, sweep = EMPTY
             PROVE  /\ \A i \in 1..(n - 1) : sorted_global[i - 1] < sorted_global[i]
                    /\ {sorted_local[i] : i \in Index(n)} = Used
                    /\ \A i \in Index(n) : global[sorted_local[i]] = sorted_global[i]
  BY DEF IndexExact
<1>1. Indexed(max, global, n, sorted_global, sorted_local) /\ Used = UsedOf(max, global)
      /\ n \in Nat
  BY InvFacts
<1>2. \A i \in 1..(n - 1) : i \in Index(n) /\ i - 1 \in Index(n) /\ i - 1 < i
  BY <1>1 DEF Index
<1> QED
  BY <1>1, <1>2 DEF Indexed

(***************************************************************************)
(* The free list of a REF_NODE visits every free slot once, no used one,   *)
(* and ends, after any sequence of ref_node_add, _add_many, _remove and    *)
(* _pack calls and removal loops, for every first size and growth.         *)
(***************************************************************************)
THEOREM FreeListStaysExact == Spec => []FreeListExact
  BY IndInvAlways, InvFreeList, PTL

(***************************************************************************)
(* Outside a removal loop the index of a REF_NODE lists the numbers of all *)
(* used slots in strictly ascending order, each with its slot: what        *)
(* ref_node_local finds by bisection is the vertex and no other.           *)
(***************************************************************************)
THEOREM IndexStaysExact == Spec => []IndexExact
  BY IndInvAlways, InvIndex, PTL

(***************************************************************************)
(* A vertex that stays keeps its owner through growth, removal and pack.   *)
(***************************************************************************)
THEOREM OwnersFollow == Spec => OwnerFollows
<1>a. IndInv => Words(max, global) /\ Used = UsedOf(max, global)
  BY InvFacts
<1>b. IndInv' => (Words(max, global) /\ Used = UsedOf(max, global))'
  BY <1>a, PTL
<1>0. IndInv' => Words(max', global') /\ Used' = UsedOf(max', global')
  BY <1>b
<1>1. IndInv /\ IndInv' /\ Stepped =>
         \A l \in Used, k \in Used' : global[l] = global'[k] => part[l] = part'[k]
  <2> SUFFICES ASSUME IndInv, IndInv', Stepped, NEW l \in Used, NEW k \in Used',
                      global[l] = global'[k]
               PROVE  part[l] = part'[k]
    OBVIOUS
  <2>1. Words(max, global) /\ Used = UsedOf(max, global)
    BY InvFacts
  <2>2. Words(max', global') /\ Used' = UsedOf(max', global')
    BY <1>0
  <2>3. l \in UsedOf(max, global) /\ k \in UsedOf(max', global')
    BY <2>1, <2>2
  <2>4. /\ \A i, j \in UsedOf(max, global) : global[i] = global[j] => i = j
        /\ \A i, j \in UsedOf(max', global') : global'[i] = global'[j] => i = j
    BY <2>1, <2>2 DEF Words, UsedOf
  <2>5. CASE \E new \in SUBSET Glob : Grown(max, global, part, max', global', part', new)
    <3>1. PICK new \in SUBSET Glob : Grown(max, global, part, max', global', part', new)
      BY <2>5
    <3>2. k \in UsedOf(max, global)
      <4>1. global'[k] \notin new
        BY <2>3, <3>1 DEF Grown, NumbersOf
      <4> QED
        BY <2>3, <3>1, <4>1 DEF Grown
    <3>3. global'[k] = global[k] /\ part'[k] = part[k]
      BY <3>1, <3>2 DEF Grown
    <3> QED
      BY <2>3, <2>4, <3>2, <3>3
  <2>6. CASE \E m : Shrunk(max, global, part, max', global', part', m)
    <3>1. k \in UsedOf(max, global) /\ global'[k] = global[k] /\ part'[k] = part[k]
      BY <2>3, <2>6 DEF Shrunk
    <3> QED
      BY <2>3, <2>4, <3>1
  <2>7. CASE \E n2o : Repacked(max, global, part, n, n2o, max', global', part')
    <3>1. PICK n2o : Repacked(max, global, part, n, n2o, max', global', part')
      BY <2>7
    <3>2. /\ k \in Index(n) /\ global'[k] = global[n2o[k]] /\ part'[k] = part[n2o[k]]
          /\ n2o[k] \in UsedOf(max, global)
      BY <2>3, <3>1 DEF Repacked, Bijection, Injection
    <3> QED
      BY <2>3, <2>4, <3>2
  <2> QED
    BY <2>5, <2>6, <2>7 DEF Stepped, Effect
<1>2. IndInv /\ [Next]_vars => Stepped
  BY StepInv
<1>3. IndInv /\ IndInv' /\ [Next]_vars =>
        [\A l \in Used, k \in Used' : global[l] = global'[k] => part[l] = part'[k]]_vars
  BY <1>1, <1>2
<1> QED
  BY <1>3, IndInvAlways, PTL DEF Spec, OwnerFollows

-----------------------------------------------------------------------------
(***************************************************************************)
(* The table the storage implements: the slot that holds a number.         *)
(***************************************************************************)
tab(mx, gl) ==
    [g \in NumbersOf(mx, gl) |-> CHOOSE l \in UsedOf(mx, gl) : gl[l] = g]

(* The table from numbers to slots that the words define. *)
LEMMA TabFacts ==
    ASSUME NEW mx, NEW gl, Words(mx, gl), NEW T, T = tab(mx, gl)
    PROVE  /\ DOMAIN T = NumbersOf(mx, gl) /\ NumbersOf(mx, gl) \in SUBSET Glob
           /\ \A g \in NumbersOf(mx, gl) : T[g] \in UsedOf(mx, gl) /\ gl[T[g]] = g
           /\ \A l \in UsedOf(mx, gl) : gl[l] \in NumbersOf(mx, gl) /\ T[gl[l]] = l
           /\ \A l \in UsedOf(mx, gl) : l \in Nat
           /\ T = [g \in NumbersOf(mx, gl) |-> T[g]]
<1>1. DOMAIN T = NumbersOf(mx, gl) /\ T = [g \in NumbersOf(mx, gl) |-> T[g]]
  BY DEF tab
<1>2. NumbersOf(mx, gl) \in SUBSET Glob
  BY DEF NumbersOf, UsedOf, Words
<1>3. ASSUME NEW g \in NumbersOf(mx, gl) PROVE T[g] \in UsedOf(mx, gl) /\ gl[T[g]] = g
  <2>1. \E l \in UsedOf(mx, gl) : gl[l] = g
    BY DEF NumbersOf
  <2>2. T[g] = CHOOSE l \in UsedOf(mx, gl) : gl[l] = g
    BY DEF tab
  <2> QED
    BY <2>1, <2>2
<1>4. ASSUME NEW l \in UsedOf(mx, gl)
      PROVE  gl[l] \in NumbersOf(mx, gl) /\ T[gl[l]] = l /\ l \in Nat
  <2>1. gl[l] \in NumbersOf(mx, gl)
    BY DEF NumbersOf
  <2>2. T[gl[l]] \in UsedOf(mx, gl) /\ gl[T[gl[l]]] = gl[l]
    BY <1>3, <2>1
  <2>3. T[gl[l]] = l
    BY <2>2 DEF Words, UsedOf
  <2>4. l \in Nat
    BY DEF UsedOf, Slots, Words
  <2> QED
    BY <2>1, <2>3, <2>4
<1> QED
  BY <1>1, <1>2, <1>3, <1>4

(* It is the one of the refinement, also in a removal loop. *)
LEMMA TableIs == IndInv => table = tab(max, global)
<1> SUFFICES ASSUME IndInv PROVE table = tab(max, global)
  OBVIOUS
<1>1. Words(max, global) /\ Used = UsedOf(max, global) /\ n \in Nat
  BY InvFacts
<1>2. CASE sweep # EMPTY
  BY <1>1, <1>2 DEF table, tab, NumbersOf
<1>3. CASE sweep = EMPTY
  <2> DEFINE T == tab(max, global)
  <2>1. Indexed(max, global, n, sorted_global, sorted_local)
    BY <1>3, InvFacts
  <2>2. ASSUME NEW g \in Glob
        PROVE  \/ local(g) = EMPTY /\ g \notin NumbersOf(max, global)
               \/ local(g) # EMPTY /\ local(g) \in UsedOf(max, global) /\ global[local(g)] = g
    <3> DEFINE p0 == search_glob(n, sorted_global, g)
    <3>1. local(g) = IF p0 = EMPTY THEN EMPTY ELSE sorted_local[p0]
      BY DEF local
    <3> QED
      BY <1>1, <2>1, <3>1, SlotFound
  <2>3. /\ DOMAIN T = NumbersOf(max, global) /\ NumbersOf(max, global) \in SUBSET Glob
        /\ \A l \in UsedOf(max, global) : global[l] \in NumbersOf(max, global) /\ T[global[l]] = l
        /\ T = [g \in NumbersOf(max, global) |-> T[g]]
    BY <1>1, TabFacts
  <2> HIDE DEF T
  <2>4. {h \in Glob : local(h) # EMPTY} = NumbersOf(max, global)
    BY <2>2, <2>3
  <2>5. \A g \in NumbersOf(max, global) : local(g) = T[g]
    BY <2>2, <2>3
  <2>6. table = [g \in {h \in Glob : local(h) # EMPTY} |-> local(g)]
    BY <1>3 DEF table
  <2>7. [g \in NumbersOf(max, global) |-> local(g)] = [g \in NumbersOf(max, global) |-> T[g]]
    BY <2>5
  <2>8. table = T
    BY <2>3, <2>4, <2>6, <2>7
  <2> QED
    BY <2>8 DEF T
<1> QED
  BY <1>2, <1>3

(* Additions insert, or leave the table when they add nothing. *)
LEMMA TableGrows ==
    ASSUME NEW mx, NEW gl, NEW pt, NEW mx2, NEW gl2, NEW pt2, NEW new \in SUBSET Glob,
           Words(mx, gl), Words(mx2, gl2), Grown(mx, gl, pt, mx2, gl2, pt2, new),
           NEW T, T = tab(mx, gl), NEW T2, T2 = tab(mx2, gl2)
    PROVE  /\ new \cap DOMAIN T = {}
           /\ DOMAIN T2 = DOMAIN T \cup new
           /\ \A g \in DOMAIN T : T2[g] = T[g]
           /\ new = {} => T2 = T
<1>1. /\ DOMAIN T = NumbersOf(mx, gl)
      /\ \A g \in NumbersOf(mx, gl) : T[g] \in UsedOf(mx, gl) /\ gl[T[g]] = g
      /\ \A l \in UsedOf(mx, gl) : gl[l] \in NumbersOf(mx, gl) /\ T[gl[l]] = l
      /\ T = [g \in NumbersOf(mx, gl) |-> T[g]]
  BY TabFacts
<1>2. /\ DOMAIN T2 = NumbersOf(mx2, gl2)
      /\ \A g \in NumbersOf(mx2, gl2) : T2[g] \in UsedOf(mx2, gl2) /\ gl2[T2[g]] = g
      /\ \A l \in UsedOf(mx2, gl2) : gl2[l] \in NumbersOf(mx2, gl2) /\ T2[gl2[l]] = l
      /\ T2 = [g \in NumbersOf(mx2, gl2) |-> T2[g]]
  BY TabFacts
<1>3. /\ \A l \in UsedOf(mx, gl) : gl2[l] = gl[l]
      /\ \A l \in UsedOf(mx2, gl2) : l \in UsedOf(mx, gl) \/ gl2[l] \in new
      /\ \A g \in new : \E l \in UsedOf(mx2, gl2) : gl2[l] = g
      /\ new \cap NumbersOf(mx, gl) = {}
  BY DEF Grown
<1>4. \A l \in UsedOf(mx, gl) : l \in UsedOf(mx2, gl2)
  BY <1>3 DEF Grown, Words, UsedOf, Slots
<1>5. NumbersOf(mx2, gl2) = NumbersOf(mx, gl) \cup new
  <2>1. \A g \in NumbersOf(mx2, gl2) : g \in NumbersOf(mx, gl) \cup new
    BY <1>1, <1>2, <1>3
  <2>2. \A g \in NumbersOf(mx, gl) : g \in NumbersOf(mx2, gl2)
    BY <1>1, <1>2, <1>3, <1>4
  <2>3. \A g \in new : g \in NumbersOf(mx2, gl2)
    BY <1>2, <1>3
  <2> QED
    BY <2>1, <2>2, <2>3
<1>6. \A g \in NumbersOf(mx, gl) : T2[g] = T[g]
  BY <1>1, <1>2, <1>3, <1>4
<1>7. ASSUME new = {} PROVE T2 = T
  <2>1. NumbersOf(mx2, gl2) = NumbersOf(mx, gl)
    BY <1>5, <1>7
  <2> QED
    BY <1>1, <1>2, <1>6, <2>1
<1> QED
  BY <1>1, <1>2, <1>3, <1>5, <1>6, <1>7

(* A removal deletes. *)
LEMMA TableShrinks ==
    ASSUME NEW mx, NEW gl, NEW pt, NEW mx2, NEW gl2, NEW pt2, NEW l,
           Words(mx, gl), Words(mx2, gl2), Shrunk(mx, gl, pt, mx2, gl2, pt2, l),
           NEW T, T = tab(mx, gl), NEW T2, T2 = tab(mx2, gl2)
    PROVE  /\ gl[l] \in DOMAIN T /\ gl[l] \in Glob
           /\ T2 = [g \in DOMAIN T \ {gl[l]} |-> T[g]]
<1>1. /\ DOMAIN T = NumbersOf(mx, gl) /\ NumbersOf(mx, gl) \in SUBSET Glob
      /\ \A g \in NumbersOf(mx, gl) : T[g] \in UsedOf(mx, gl) /\ gl[T[g]] = g
      /\ \A k \in UsedOf(mx, gl) : gl[k] \in NumbersOf(mx, gl) /\ T[gl[k]] = k
  BY TabFacts
<1>2. /\ DOMAIN T2 = NumbersOf(mx2, gl2)
      /\ \A g \in NumbersOf(mx2, gl2) : T2[g] \in UsedOf(mx2, gl2) /\ gl2[T2[g]] = g
      /\ \A k \in UsedOf(mx2, gl2) : gl2[k] \in NumbersOf(mx2, gl2) /\ T2[gl2[k]] = k
      /\ T2 = [g \in NumbersOf(mx2, gl2) |-> T2[g]]
  BY TabFacts
<1>3. /\ l \in UsedOf(mx, gl) /\ UsedOf(mx2, gl2) = UsedOf(mx, gl) \ {l}
      /\ \A k \in UsedOf(mx2, gl2) : gl2[k] = gl[k]
  BY DEF Shrunk
<1> DEFINE D == NumbersOf(mx, gl) \ {gl[l]}
<1>4. NumbersOf(mx2, gl2) = D
  <2>1. \A g \in NumbersOf(mx2, gl2) : g \in D
    <3> TAKE g \in NumbersOf(mx2, gl2)
    <3> DEFINE k == T2[g]
    <3>1. k \in UsedOf(mx, gl) /\ k # l /\ gl[k] = g
      BY <1>2, <1>3
    <3> HIDE DEF k
    <3>2. gl[k] # gl[l]
      BY <1>1, <1>3, <3>1
    <3> QED
      BY <1>1, <3>1, <3>2
  <2>2. \A g \in D : g \in NumbersOf(mx2, gl2)
    <3> TAKE g \in D
    <3> DEFINE k == T[g]
    <3>1. k \in UsedOf(mx, gl) /\ gl[k] = g /\ k # l
      BY <1>1
    <3> HIDE DEF k
    <3> QED
      BY <1>2, <1>3, <3>1
  <2> QED
    BY <2>1, <2>2
<1>5. \A g \in D : T2[g] = T[g]
  BY <1>1, <1>2, <1>3, <1>4
<1>6. T2 = [g \in D |-> T[g]]
  BY <1>2, <1>4, <1>5
<1> QED
  BY <1>1, <1>3, <1>6

(* A pack deals out the slots from 0 on. *)
LEMMA TablePacks ==
    ASSUME NEW mx, NEW gl, NEW pt, NEW nn, NEW n2o, NEW mx2, NEW gl2, NEW pt2,
           Words(mx, gl), Words(mx2, gl2), Repacked(mx, gl, pt, nn, n2o, mx2, gl2, pt2),
           nn = Cardinality(UsedOf(mx, gl)),
           NEW T, T = tab(mx, gl), NEW T2, T2 = tab(mx2, gl2)
    PROVE  /\ DOMAIN T2 = DOMAIN T
           /\ {T2[g] : g \in DOMAIN T2} = 0..(Cardinality(DOMAIN T) - 1)
<1>1. /\ DOMAIN T = NumbersOf(mx, gl) /\ NumbersOf(mx, gl) \in SUBSET Glob
      /\ \A g \in NumbersOf(mx, gl) : T[g] \in UsedOf(mx, gl) /\ gl[T[g]] = g
      /\ \A k \in UsedOf(mx, gl) : gl[k] \in NumbersOf(mx, gl) /\ T[gl[k]] = k
      /\ T = [g \in NumbersOf(mx, gl) |-> T[g]]
  BY TabFacts
<1>2. /\ DOMAIN T2 = NumbersOf(mx2, gl2)
      /\ \A g \in NumbersOf(mx2, gl2) : T2[g] \in UsedOf(mx2, gl2) /\ gl2[T2[g]] = g
      /\ \A k \in UsedOf(mx2, gl2) : gl2[k] \in NumbersOf(mx2, gl2) /\ T2[gl2[k]] = k
  BY TabFacts
<1>3. /\ n2o \in Bijection(Index(nn), UsedOf(mx, gl)) /\ UsedOf(mx2, gl2) = Index(nn)
      /\ nn \in Nat /\ \A l \in Index(nn) : gl2[l] = gl[n2o[l]]
  BY DEF Repacked
<1>4. /\ \A l \in Index(nn) : n2o[l] \in UsedOf(mx, gl)
      /\ \A k \in UsedOf(mx, gl) : \E l \in Index(nn) : n2o[l] = k
  BY <1>3 DEF Bijection, Injection, Surjection
<1>5. NumbersOf(mx2, gl2) = NumbersOf(mx, gl)
  <2>1. \A g \in NumbersOf(mx2, gl2) : g \in NumbersOf(mx, gl)
    BY <1>1, <1>2, <1>3, <1>4
  <2>2. \A g \in NumbersOf(mx, gl) : g \in NumbersOf(mx2, gl2)
    BY <1>1, <1>2, <1>3, <1>4
  <2> QED
    BY <2>1, <2>2
<1>6. {T2[g] : g \in DOMAIN T2} = Index(nn)
  BY <1>2, <1>3
<1>7. Cardinality(DOMAIN T) = nn
  <2>1. T \in Bijection(NumbersOf(mx, gl), UsedOf(mx, gl))
    <3>1. T \in [NumbersOf(mx, gl) -> UsedOf(mx, gl)]
      BY <1>1
    <3>2. \A a, b \in NumbersOf(mx, gl) : T[a] = T[b] => a = b
      BY <1>1
    <3>3. \A k \in UsedOf(mx, gl) : \E g \in NumbersOf(mx, gl) : T[g] = k
      BY <1>1
    <3> QED
      BY <3>1, <3>2, <3>3 DEF Bijection, Injection, Surjection, IsInjective
  <2>2. IsFiniteSet(Glob)
    BY BoundAssumption, FS_Interval DEF Glob
  <2>3. IsFiniteSet(NumbersOf(mx, gl))
    BY <1>1, <2>2, FS_Subset
  <2>4. ExistsBijection(NumbersOf(mx, gl), UsedOf(mx, gl))
    BY <2>1 DEF ExistsBijection
  <2> QED
    BY <1>1, <2>3, <2>4, FS_Bijection
<1> QED
  BY <1>1, <1>2, <1>5, <1>6, <1>7 DEF Index

(* Two numbers are never in one slot. *)
LEMMA TableInjective ==
    ASSUME NEW mx, NEW gl, Words(mx, gl), NEW T, T = tab(mx, gl)
    PROVE  /\ \A a, b \in DOMAIN T : T[a] = T[b] => a = b
           /\ \A a \in DOMAIN T : T[a] \in Nat
<1>1. /\ DOMAIN T = NumbersOf(mx, gl)
      /\ \A g \in NumbersOf(mx, gl) : T[g] \in UsedOf(mx, gl) /\ gl[T[g]] = g
      /\ \A l \in UsedOf(mx, gl) : l \in Nat
  BY TabFacts
<1> QED
  BY <1>1

(***************************************************************************)
(* A REF_NODE is a table from global numbers to local indices: a vertex    *)
(* keeps its index for as long as it is here, no two share one, and only a *)
(* pack deals out new ones.  Growing the arrays, the free list, the sorted *)
(* index and the removal loops are not seen from outside.                  *)
(***************************************************************************)
THEOREM ImplementsTable == Spec => TableSpec
<1>1. Init => Table!Init
  <2> SUFFICES ASSUME Init PROVE table = <<>>
    BY DEF Table!Init
  <2>1. IndInv
    BY InitInv
  <2>2. table = tab(max, global)
    BY <2>1, TableIs
  <2>3. UsedOf(max, global) = {}
    <3>1. /\ UsedOf(max, global) \in SUBSET Slots(max) /\ IsFiniteSet(UsedOf(max, global))
          /\ n = Cardinality(UsedOf(max, global)) /\ n = 0
      BY <2>1, InvFacts, UsedFinite DEF Init
    <3> QED
      BY <3>1, FS_EmptySet
  <2>4. NumbersOf(max, global) = {}
    BY <2>3 DEF NumbersOf
  <2> QED
    BY <2>2, <2>4 DEF tab
<1>2. IndInv => table = tab(max, global) /\ Words(max, global)
  BY TableIs, InvFacts
<1>3. IndInv' => (table = tab(max, global) /\ Words(max, global))'
  BY <1>2, PTL
<1>4. IndInv /\ IndInv' /\ [Next]_vars => [Table!Next]_table
  <2> SUFFICES ASSUME IndInv, IndInv', [Next]_vars PROVE [Table!Next]_table
    OBVIOUS
  <2> DEFINE T == tab(max, global)
             T2 == tab(max', global')
  <2>1. table = T /\ Words(max, global) /\ n = Cardinality(UsedOf(max, global))
    BY <1>2, InvFacts
  <2>2. table' = T2 /\ Words(max', global')
    BY <1>3
  <2>3. Stepped
    BY StepInv
  <2>4. /\ \A a, b \in DOMAIN T2 : T2[a] = T2[b] => a = b
        /\ \A a \in DOMAIN T2 : T2[a] \in Nat
    BY <2>2, TableInjective
  <2>5. CASE \E new \in SUBSET Glob : Grown(max, global, part, max', global', part', new)
    <3>1. PICK new \in SUBSET Glob : Grown(max, global, part, max', global', part', new)
      BY <2>5
    <3>2. /\ new \cap DOMAIN T = {} /\ DOMAIN T2 = DOMAIN T \cup new
          /\ \A g \in DOMAIN T : T2[g] = T[g]
          /\ new = {} => T2 = T
      BY <2>1, <2>2, <3>1, TableGrows
    <3> HIDE DEF T, T2
    <3>3. CASE new = {}
      BY <2>1, <2>2, <3>2, <3>3
    <3>4. CASE new # {}
      <4>1. Table!Insert(new)
        BY <2>1, <2>2, <2>4, <3>2, <3>4 DEF Table!Insert, Table!Range, Table!IsInjective
      <4> QED
        BY <4>1 DEF Table!Next
    <3> QED
      BY <3>3, <3>4
  <2>6. CASE \E l : Shrunk(max, global, part, max', global', part', l)
    <3>1. PICK l : Shrunk(max, global, part, max', global', part', l)
      BY <2>6
    <3>2. /\ global[l] \in DOMAIN T /\ global[l] \in Glob
          /\ T2 = [g \in DOMAIN T \ {global[l]} |-> T[g]]
      BY <2>1, <2>2, <3>1, TableShrinks
    <3> HIDE DEF T, T2
    <3>3. Table!Delete(global[l])
      BY <2>1, <2>2, <3>2 DEF Table!Delete, Table!Restrict
    <3> QED
      BY <3>2, <3>3 DEF Table!Next
  <2>7. CASE \E n2o : Repacked(max, global, part, n, n2o, max', global', part')
    <3>1. PICK n2o : Repacked(max, global, part, n, n2o, max', global', part')
      BY <2>7
    <3>2. /\ DOMAIN T2 = DOMAIN T
          /\ {T2[g] : g \in DOMAIN T2} = 0..(Cardinality(DOMAIN T) - 1)
      BY <2>1, <2>2, <3>1, TablePacks
    <3> HIDE DEF T, T2
    <3>3. Table!Pack
      <4>1. Table!Cardinality(DOMAIN T) = Cardinality(DOMAIN T)
        BY DEF Table!Cardinality, Cardinality
      <4> QED
        BY <2>1, <2>2, <2>4, <3>2, <4>1 DEF Table!Pack, Table!Range, Table!IsInjective
    <3> QED
      BY <3>3 DEF Table!Next
  <2> QED
    BY <2>3, <2>5, <2>6, <2>7 DEF Stepped, Effect
<1> QED
  BY <1>1, <1>4, IndInvAlways, PTL DEF Spec, TableSpec, Table!Spec
=============================================================================
