-------------------------- MODULE RefSubdiv_proofs --------------------------
(***************************************************************************)
(* ref_subdiv_split for every mesh of tets, pyramids and prisms, every     *)
(* partition of it, every storage order and every request: what mark_relax *)
(* hands on, what is ready when the cells are split, what each rank holds  *)
(* afterwards, and that a mesh of tets is split.                           *)
(*                                                                         *)
(* A loop over a list is followed entry by entry.  The invariant relates   *)
(* the marks of each rank to the marks A all ranks had when the round      *)
(* began: mark_relax only adds to them and stays below every closed set,   *)
(* the unmark loops only take from them and never take the least, so each  *)
(* round that changes something leaves fewer marks to take.                *)
(***************************************************************************)
EXTENDS RefSubdiv, RefLemmas, FiniteSetTheorems

------------------------------------------------------------------------------
(* Loops over a list *)

(* h follows a loop over a list from the marks m *)
Follows(F, m, list, h) ==
  /\ h[0] = m
  /\ \A k \in 1 .. Len(list) : h[k] = F[list[k]][h[k - 1]]

(* The marks after each entry of the list. *)
LEMMA InTurnSteps ==
  ASSUME NEW S, NEW T, NEW F \in [T -> [S -> S]], NEW m \in S, NEW list \in Seq(T)
  PROVE  \E h \in [0 .. Len(list) -> S] :
            Follows(F, m, list, h) /\ InTurn(F, m, list) = h[Len(list)]
<1> DEFINE n == Len(list)
           G == [k \in 1 .. n |-> F[list[k]]]
<1>1. n \in Nat /\ \A k \in 1 .. n : list[k] \in T
  OBVIOUS
<1>2. G \in [1 .. n -> [S -> S]]
  BY <1>1
<1>3. PICK h : Counts(n, S, m, G, h)
  <2> HIDE DEF G, n
  <2> QED
    BY <1>1, <1>2, CountingExists
<1> DEFINE body(f) == [k \in 0 .. n |-> IF k = 0 THEN m ELSE F[list[k]][f[k - 1]]]
           after == CHOOSE f : f = body(f)
<1>4. h \in [0 .. n -> S] /\ h[0] = m /\ \A k \in 1 .. n : h[k] = F[list[k]][h[k - 1]]
  BY <1>3 DEF Counts
<1>5. h = body(h)
  <2>1. \A k \in 0 .. n : h[k] = IF k = 0 THEN m ELSE F[list[k]][h[k - 1]]
    BY <1>4
  <2> HIDE DEF n
  <2> QED
    BY <2>1, <1>4
<1>6. after = body(after)
  <2> HIDE DEF body
  <2> QED
    BY <1>5
<1>7. InTurn(F, m, list) = after[n]
  BY DEF InTurn
<1> HIDE DEF after
<1>8. \A k \in 0 .. n : after[k] = IF k = 0 THEN m ELSE F[list[k]][after[k - 1]]
  BY <1>6
<1>9. \A k \in 0 .. n : after[k] = h[k]
  <2> DEFINE Same == {i \in 0 .. n : after[i] = h[i]}
  <2>1. 0 \in Same
    BY <1>1, <1>4, <1>8
  <2>2. ASSUME NEW k \in 0 .. n, k # n, k \in Same PROVE k + 1 \in Same
    <3>1. k + 1 \in 0 .. n /\ k + 1 \in 1 .. n /\ k + 1 # 0 /\ (k + 1) - 1 = k
      BY <1>1, <2>2
    <3>2. after[k + 1] = F[list[k + 1]][after[k]]
      BY <1>8, <3>1
    <3>3. h[k + 1] = F[list[k + 1]][h[k]]
      BY <1>4, <3>1
    <3> QED
      BY <2>2, <3>1, <3>2, <3>3
  <2>3. \A k \in 0 .. n : k \in Same
    <3> HIDE DEF Same, n
    <3> QED
      BY <1>1, <2>1, <2>2, UptoInduction
  <2> QED
    BY <2>3
<1>10. after[n] = h[n]
  BY <1>1, <1>9
<1> QED
  BY <1>4, <1>7, <1>10 DEF Follows

(* A loop keeps what each of its entries keeps. *)
LEMMA InTurnKeeps ==
  ASSUME NEW S, NEW T, NEW F \in [T -> [S -> S]], NEW m, NEW list \in Seq(T),
         NEW Good \in SUBSET S, m \in Good,
         \A k \in 1 .. Len(list) : \A a \in Good : F[list[k]][a] \in Good
  PROVE  InTurn(F, m, list) \in Good
<1> DEFINE n == Len(list)
<1>1. n \in Nat
  OBVIOUS
<1>2. PICK h \in [0 .. n -> S] : Follows(F, m, list, h) /\ InTurn(F, m, list) = h[n]
  BY InTurnSteps
<1> DEFINE Fine == {k \in 0 .. n : h[k] \in Good}
<1>3. 0 \in Fine
  BY <1>1, <1>2 DEF Follows
<1>4. ASSUME NEW k \in 0 .. n, k # n, k \in Fine PROVE k + 1 \in Fine
  <2>1. k + 1 \in 0 .. n /\ k + 1 \in 1 .. n /\ (k + 1) - 1 = k
    BY <1>1, <1>4
  <2>2. h[k + 1] = F[list[k + 1]][h[k]]
    BY <1>2, <2>1 DEF Follows
  <2> QED
    BY <1>4, <2>1, <2>2
<1>5. \A k \in 0 .. n : k \in Fine
  <2> HIDE DEF Fine, n
  <2> QED
    BY <1>1, <1>3, <1>4, UptoInduction
<1> QED
  BY <1>1, <1>2, <1>5

(* A loop that only adds marks and ends where it began changed nothing on   *)
(* its way.                                                                 *)
LEMMA InTurnGrows ==
  ASSUME NEW S, NEW T, NEW F \in [T -> [S -> S]], NEW m \in S, NEW list \in Seq(T),
         \A k \in 1 .. Len(list) : \A a \in S : a \subseteq F[list[k]][a]
  PROVE  /\ m \subseteq InTurn(F, m, list)
         /\ InTurn(F, m, list) = m => \A k \in 1 .. Len(list) : F[list[k]][m] = m
<1> DEFINE n == Len(list)
<1>1. n \in Nat
  OBVIOUS
<1>2. PICK h \in [0 .. n -> S] : Follows(F, m, list, h) /\ InTurn(F, m, list) = h[n]
  BY InTurnSteps
<1>3. \A k \in 0 .. n : k # n => h[k] \subseteq h[k + 1] /\ h[k + 1] = F[list[k + 1]][h[k]]
  <2> SUFFICES ASSUME NEW k \in 0 .. n, k # n
               PROVE  h[k] \subseteq h[k + 1] /\ h[k + 1] = F[list[k + 1]][h[k]]
    OBVIOUS
  <2>1. k + 1 \in 0 .. n /\ k + 1 \in 1 .. n /\ (k + 1) - 1 = k
    BY <1>1
  <2>2. h[k + 1] = F[list[k + 1]][h[k]] /\ h[k] \in S
    BY <1>2, <2>1 DEF Follows
  <2> QED
    BY <2>1, <2>2
<1>4. \A k \in 0 .. n : m \subseteq h[k]
  <2> DEFINE Above == {k \in 0 .. n : m \subseteq h[k]}
  <2>1. 0 \in Above
    BY <1>1, <1>2 DEF Follows
  <2>2. \A k \in 0 .. n : k # n /\ k \in Above => k + 1 \in Above
    BY <1>1, <1>3
  <2>3. \A k \in 0 .. n : k \in Above
    <3> HIDE DEF Above, n
    <3> QED
      BY <1>1, <2>1, <2>2, UptoInduction
  <2> QED
    BY <2>3
<1>5. ASSUME h[n] = m PROVE \A k \in 1 .. n : F[list[k]][m] = m
  <2> DEFINE Same == {k \in 0 .. n : h[n - k] = m}
  <2>1. 0 \in Same
    BY <1>1, <1>5
  <2>2. ASSUME NEW k \in 0 .. n, k # n, k \in Same PROVE k + 1 \in Same
    <3> DEFINE j == n - (k + 1)
    <3>1. j \in 0 .. n /\ j # n /\ j + 1 = n - k /\ k + 1 \in 0 .. n
      BY <1>1, <2>2
    <3> HIDE DEF j
    <3>2. h[j] \subseteq h[j + 1] /\ m \subseteq h[j] /\ h[j + 1] = m
      BY <1>3, <1>4, <2>2, <3>1
    <3> QED
      BY <3>1, <3>2 DEF j
  <2>3. \A k \in 0 .. n : k \in Same
    <3> HIDE DEF Same, n
    <3> QED
      BY <1>1, <2>1, <2>2, UptoInduction
  <2>4. \A k \in 0 .. n : h[k] = m
    <3> TAKE k \in 0 .. n
    <3>1. n - k \in 0 .. n /\ n - (n - k) = k
      BY <1>1
    <3> QED
      BY <2>3, <3>1
  <2> TAKE k \in 1 .. n
  <2>5. k - 1 \in 0 .. n /\ k \in 0 .. n /\ k - 1 # n /\ (k - 1) + 1 = k
    BY <1>1
  <2>6. h[k - 1] = m /\ h[k] = m
    BY <2>4, <2>5
  <2>7. h[k] = F[list[k]][h[k - 1]]
    BY <1>2 DEF Follows
  <2> QED
    BY <2>6, <2>7
<1> QED
  BY <1>1, <1>2, <1>4, <1>5

(* Every entry of the list leaves some of the marks. *)
Shrinks(F, S, list) ==
  \A k \in 1 .. Len(list) : \A a \in S : F[list[k]][a] \subseteq a

(* No entry of the list changes the marks m. *)
Idle(F, m, list) == \A k \in 1 .. Len(list) : F[list[k]][m] = m

(* If every entry leaves some of the marks so does the loop, and if it ends *)
(* where it began no entry changed any.                                     *)
LEMMA InTurnShrinks ==
  ASSUME NEW S, NEW T, NEW F \in [T -> [S -> S]], NEW m \in S, NEW list \in Seq(T),
         Shrinks(F, S, list)
  PROVE  /\ InTurn(F, m, list) \subseteq m
         /\ InTurn(F, m, list) = m => Idle(F, m, list)
<1> DEFINE n == Len(list)
<1>1. n \in Nat
  OBVIOUS
<1>2. PICK h \in [0 .. n -> S] : Follows(F, m, list, h) /\ InTurn(F, m, list) = h[n]
  BY InTurnSteps
<1>3. \A k \in 0 .. n : k # n => h[k + 1] \subseteq h[k] /\ h[k + 1] = F[list[k + 1]][h[k]]
  <2> SUFFICES ASSUME NEW k \in 0 .. n, k # n
               PROVE  h[k + 1] \subseteq h[k] /\ h[k + 1] = F[list[k + 1]][h[k]]
    OBVIOUS
  <2>1. k + 1 \in 0 .. n /\ k + 1 \in 1 .. n /\ (k + 1) - 1 = k
    BY <1>1
  <2>2. h[k + 1] = F[list[k + 1]][h[k]] /\ h[k] \in S
    BY <1>2, <2>1 DEF Follows
  <2> QED
    BY <2>1, <2>2 DEF Shrinks
<1>4. \A k \in 0 .. n : h[k] \subseteq m
  <2> DEFINE Under == {k \in 0 .. n : h[k] \subseteq m}
  <2>1. 0 \in Under
    BY <1>1, <1>2 DEF Follows
  <2>2. \A k \in 0 .. n : k # n /\ k \in Under => k + 1 \in Under
    BY <1>1, <1>3
  <2>3. \A k \in 0 .. n : k \in Under
    <3> HIDE DEF Under, n
    <3> QED
      BY <1>1, <2>1, <2>2, UptoInduction
  <2> QED
    BY <2>3
<1>5. ASSUME h[n] = m PROVE \A k \in 1 .. n : F[list[k]][m] = m
  <2> DEFINE Same == {k \in 0 .. n : h[n - k] = m}
  <2>1. 0 \in Same
    BY <1>1, <1>5
  <2>2. ASSUME NEW k \in 0 .. n, k # n, k \in Same PROVE k + 1 \in Same
    <3> DEFINE j == n - (k + 1)
    <3>1. j \in 0 .. n /\ j # n /\ j + 1 = n - k /\ k + 1 \in 0 .. n
      BY <1>1, <2>2
    <3> HIDE DEF j
    <3>2. h[j + 1] \subseteq h[j] /\ h[j] \subseteq m /\ h[j + 1] = m
      BY <1>3, <1>4, <2>2, <3>1
    <3> QED
      BY <3>1, <3>2 DEF j
  <2>3. \A k \in 0 .. n : k \in Same
    <3> HIDE DEF Same, n
    <3> QED
      BY <1>1, <2>1, <2>2, UptoInduction
  <2>4. \A k \in 0 .. n : h[k] = m
    <3> TAKE k \in 0 .. n
    <3>1. n - k \in 0 .. n /\ n - (n - k) = k
      BY <1>1
    <3> QED
      BY <2>3, <3>1
  <2> TAKE k \in 1 .. n
  <2>5. k - 1 \in 0 .. n /\ k \in 0 .. n /\ k - 1 # n /\ (k - 1) + 1 = k
    BY <1>1
  <2>6. h[k - 1] = m /\ h[k] = m
    BY <2>4, <2>5
  <2>7. h[k] = F[list[k]][h[k - 1]]
    BY <1>2 DEF Follows
  <2> QED
    BY <2>6, <2>7
<1> QED
  BY <1>1, <1>2, <1>4, <1>5 DEF Idle

------------------------------------------------------------------------------
(* The cells and edges of the mesh *)

(* The tables of ref_cell.c for the cells of a volume mesh. *)
LEMMA Shapes ==
  /\ NodePer("tet") = 4 /\ NodePer("pyr") = 5 /\ NodePer("pri") = 6
  /\ E2N("tet") = << <<0,1>>, <<0,2>>, <<0,3>>, <<1,2>>, <<1,3>>, <<2,3>> >>
  /\ E2N("pyr") = << <<0,1>>, <<0,2>>, <<0,3>>, <<1,2>>, <<1,4>>,
                     <<2,3>>, <<2,4>>, <<3,4>> >>
  /\ E2N("pri") = << <<0,1>>, <<0,2>>, <<0,3>>, <<1,2>>, <<1,4>>,
                     <<2,5>>, <<3,4>>, <<3,5>>, <<4,5>> >>
<1>1. NodePer("tet") = 4 /\ NodePer("pyr") = 5 /\ NodePer("pri") = 6
  BY Zenon DEF NodePer
<1>2. E2N("tet") = << <<0,1>>, <<0,2>>, <<0,3>>, <<1,2>>, <<1,3>>, <<2,3>> >>
  BY Zenon DEF E2N
<1>3. E2N("pyr") = << <<0,1>>, <<0,2>>, <<0,3>>, <<1,2>>, <<1,4>>,
                      <<2,3>>, <<2,4>>, <<3,4>> >>
  BY Zenon DEF E2N
<1>4. E2N("pri") = << <<0,1>>, <<0,2>>, <<0,3>>, <<1,2>>, <<1,4>>,
                      <<2,5>>, <<3,4>>, <<3,5>>, <<4,5>> >>
  BY Zenon DEF E2N
<1> QED
  BY <1>1, <1>2, <1>3, <1>4

(* The kinds of cell of the mesh. *)
Kinds == {"tet", "pyr", "pri"}

(* Every edge joins two nodes of its cell. *)
LEMMA EdgeEnds ==
  /\ EdgeNumbers("tet") = 0 .. 5 /\ EdgeNumbers("pyr") = 0 .. 7 /\ EdgeNumbers("pri") = 0 .. 8
  /\ \A kind \in Kinds : \A i \in {0, 1} : \A k \in EdgeNumbers(kind) :
        EdgeNode(kind, i, k) \in 0 .. NodePer(kind) - 1
<1>1. /\ Len(E2N("tet")) = 6 /\ \A k \in 1 .. 6 : \A i \in {1, 2} : E2N("tet")[k][i] \in 0 .. 3
  BY Shapes
<1>2. /\ Len(E2N("pyr")) = 8 /\ \A k \in 1 .. 8 : \A i \in {1, 2} : E2N("pyr")[k][i] \in 0 .. 4
  BY Shapes
<1>3. /\ Len(E2N("pri")) = 9 /\ \A k \in 1 .. 9 : \A i \in {1, 2} : E2N("pri")[k][i] \in 0 .. 5
  BY Shapes
<1>4. EdgeNumbers("tet") = 0 .. 5 /\ EdgeNumbers("pyr") = 0 .. 7 /\ EdgeNumbers("pri") = 0 .. 8
  <2>1. EdgeNumbers("tet") = 0 .. 6 - 1
    BY <1>1 DEF EdgeNumbers
  <2>2. EdgeNumbers("pyr") = 0 .. 8 - 1
    BY <1>2 DEF EdgeNumbers
  <2>3. EdgeNumbers("pri") = 0 .. 9 - 1
    BY <1>3 DEF EdgeNumbers
  <2> QED
    BY <2>1, <2>2, <2>3
<1>5. \A i \in {0, 1} : \A k \in EdgeNumbers("tet") :
         EdgeNode("tet", i, k) \in 0 .. NodePer("tet") - 1
  BY <1>1, <1>4, Shapes DEF EdgeNode
<1>6. \A i \in {0, 1} : \A k \in EdgeNumbers("pyr") :
         EdgeNode("pyr", i, k) \in 0 .. NodePer("pyr") - 1
  BY <1>2, <1>4, Shapes DEF EdgeNode
<1>7. \A i \in {0, 1} : \A k \in EdgeNumbers("pri") :
         EdgeNode("pri", i, k) \in 0 .. NodePer("pri") - 1
  BY <1>3, <1>4, Shapes DEF EdgeNode
<1> QED
  BY <1>4, <1>5, <1>6, <1>7 DEF Kinds

(* An edge is a pair of nodes of its cell. *)
LEMMA EdgeOfCell ==
  ASSUME NEW c \in Mesh, NEW e \in CellEdges(c)
  PROVE  /\ e \in Edges
         /\ \E a, b \in NodesOf(c) : e = {a, b}
         /\ e \subseteq NodesOf(c) /\ e # {}
<1>1. PICK k \in EdgeNumbers(c.kind) : e = c2e(c, k)
  BY DEF CellEdges, EdgesOf
<1>2. c.kind \in Kinds /\ DOMAIN c.nodes = 0 .. NodePer(c.kind) - 1
  BY MeshAssumption DEF Kinds
<1>3. \A i \in {0, 1} : EdgeNode(c.kind, i, k) \in DOMAIN c.nodes
  BY <1>2, EdgeEnds
<1>4. \A i \in {0, 1} : c.nodes[EdgeNode(c.kind, i, k)] \in NodesOf(c)
  BY <1>3 DEF NodesOf
<1> QED
  BY <1>1, <1>4 DEF c2e, Edges

(* The nodes of a cell have a rank and a number. *)
LEMMA NodeOfCell ==
  ASSUME NEW c \in Mesh
  PROVE  /\ NodesOf(c) \subseteq Nat
         /\ \A n \in NodesOf(c) : Part[n] \in Rank
         /\ c.nodes[0] \in NodesOf(c)
<1>1. /\ DOMAIN c.nodes = 0 .. NodePer(c.kind) - 1 /\ c.kind \in Kinds
      /\ \A i \in DOMAIN c.nodes : c.nodes[i] \in DOMAIN Part \cap Nat
  BY MeshAssumption DEF Kinds
<1>2. 0 \in DOMAIN c.nodes
  BY <1>1, Shapes DEF Kinds
<1>3. \A n \in DOMAIN Part : Part[n] \in Rank
  BY MeshAssumption
<1> QED
  BY <1>1, <1>2, <1>3 DEF NodesOf

(* The lower and the upper end of an edge. *)
LEMMA EndsOf ==
  ASSUME NEW a \in Nat, NEW b \in Nat, a <= b
  PROVE  Low({a, b}) = a /\ High({a, b}) = b
<1>1. Low({a, b}) = a
  BY DEF Low
<1>2. High({a, b}) = b
  BY DEF High
<1> QED
  BY <1>1, <1>2

(* An edge as its lower and its upper end. *)
LEMMA EdgeIsPair ==
  ASSUME NEW e \in Edges
  PROVE  /\ Low(e) \in Nat /\ High(e) \in Nat /\ Low(e) <= High(e)
         /\ e = {Low(e), High(e)}
<1>1. PICK c \in Mesh : e \in CellEdges(c)
  BY DEF Edges
<1>2. PICK a, b \in NodesOf(c) : e = {a, b}
  BY <1>1, EdgeOfCell
<1>3. a \in Nat /\ b \in Nat
  BY NodeOfCell
<1>4. CASE a <= b
  BY <1>2, <1>3, <1>4, EndsOf
<1>5. CASE ~ (a <= b)
  <2>1. b <= a /\ e = {b, a}
    BY <1>2, <1>3, <1>5
  <2> QED
    BY <1>3, <2>1, EndsOf
<1> QED
  BY <1>4, <1>5

(* The rank that owns an edge holds it, and every rank holds edges of the   *)
(* mesh only.                                                               *)
LEMMA OwnerHolds ==
  ASSUME NEW e \in Edges
  PROVE  ref_edge_part(e) \in Rank /\ e \in HeldEdges[ref_edge_part(e)]
<1>1. PICK c \in Mesh : e \in CellEdges(c)
  BY DEF Edges
<1>2. Low(e) \in NodesOf(c)
  BY <1>1, EdgeOfCell, EdgeIsPair
<1>3. ref_edge_part(e) \in Rank /\ c \in Held(ref_edge_part(e))
  BY <1>2, NodeOfCell DEF ref_edge_part, Held
<1> QED
  BY <1>1, <1>3 DEF HeldEdges, ref_edge_create

(* A rank holds edges of the mesh, and all the edges of its cells. *)
LEMMA HeldIsPart ==
  ASSUME NEW r \in Rank
  PROVE  /\ HeldEdges[r] \subseteq Edges
         /\ \A c \in Held(r) : c \in Mesh /\ CellEdges(c) \subseteq HeldEdges[r]
  BY DEF HeldEdges, ref_edge_create, Edges, Held

(* Some rank holds any cell. *)
LEMMA CellIsHeld ==
  ASSUME NEW c \in Mesh
  PROVE  \E r \in Rank : c \in Held(r)
  BY NodeOfCell DEF Held

(* A list is a list of its entries. *)
LEMMA ListOfEntries ==
  ASSUME NEW X, NEW list \in Seq(X)
  PROVE  list \in Seq(ToSet(list)) /\ \A k \in 1 .. Len(list) : list[k] \in ToSet(list)
<1>1. \A k \in 1 .. Len(list) : list[k] \in ToSet(list)
  BY DEF ToSet
<1> QED
  BY <1>1

(* Sets of one, two and three. *)
LEMMA SmallSets ==
  /\ \A x, y : IsFiniteSet({x, y}) /\ Cardinality({x, y}) <= 2
               /\ (x # y => Cardinality({x, y}) = 2)
  /\ \A x, y, z : IsFiniteSet({x, y, z}) /\ Cardinality({x, y, z}) <= 3
                  /\ (x # y /\ x # z /\ y # z => Cardinality({x, y, z}) = 3)
<1>1. ASSUME NEW x, NEW y
      PROVE  /\ IsFiniteSet({x, y}) /\ Cardinality({x, y}) <= 2
             /\ (x # y => Cardinality({x, y}) = 2) /\ Cardinality({x, y}) \in Nat
  <2>1. IsFiniteSet({x}) /\ Cardinality({x}) = 1 /\ {x} \cup {y} = {x, y}
    BY FS_Singleton
  <2>2. /\ IsFiniteSet({x} \cup {y})
        /\ Cardinality({x} \cup {y}) = IF y \in {x} THEN Cardinality({x}) ELSE Cardinality({x}) + 1
    BY <2>1, FS_AddElement
  <2> QED
    BY <2>1, <2>2
<1>2. ASSUME NEW x, NEW y, NEW z
      PROVE  /\ IsFiniteSet({x, y, z}) /\ Cardinality({x, y, z}) <= 3
             /\ (x # y /\ x # z /\ y # z => Cardinality({x, y, z}) = 3)
  <2> DEFINE A == {x, y}
             B == {x, y, z}
  <2>1. A \cup {z} = B
    OBVIOUS
  <2>2. /\ IsFiniteSet(A) /\ Cardinality(A) <= 2 /\ Cardinality(A) \in Nat
        /\ (x # y => Cardinality(A) = 2)
    BY <1>1
  <2>3. x # z /\ y # z => z \notin A
    OBVIOUS
  <2> HIDE DEF A, B
  <2>4. IsFiniteSet(B) /\ Cardinality(B) = IF z \in A THEN Cardinality(A) ELSE Cardinality(A) + 1
    BY <2>1, <2>2, FS_AddElement
  <2>5. /\ IsFiniteSet(B) /\ Cardinality(B) <= 3
        /\ (x # y /\ x # z /\ y # z => Cardinality(B) = 3)
    BY <2>2, <2>3, <2>4
  <2> QED
    BY <2>5 DEF B
<1> QED
  BY <1>1, <1>2

(* A set of two elements. *)
LEMMA PairSet ==
  ASSUME NEW A, IsFiniteSet(A)
  PROVE  Cardinality(A) = 2 <=> \E x, y \in A : x # y /\ A = {x, y}
<1>1. ASSUME NEW x \in A, NEW y \in A, x # y, A = {x, y} PROVE Cardinality(A) = 2
  BY <1>1, SmallSets
<1>2. ASSUME Cardinality(A) = 2 PROVE \E x, y \in A : x # y /\ A = {x, y}
  <2>1. PICK x \in A : TRUE
    BY <1>2, FS_EmptySet
  <2>2. IsFiniteSet(A \ {x}) /\ Cardinality(A \ {x}) = 1
    BY <1>2, FS_RemoveElement
  <2>3. PICK y : A \ {x} = {y}
    BY <2>2, FS_Singleton
  <2> QED
    BY <2>3
<1> QED
  BY <1>1, <1>2

(* All but one of some edges are marked: a rule that wants so many is       *)
(* monotone.                                                                *)
LEMMA AllButOne ==
  ASSUME NEW E, IsFiniteSet(E), NEW k \in Nat, Cardinality(E) <= k + 1,
         NEW a, NEW b, a \subseteq b, Cardinality(E \cap a) = k,
         Cardinality(E \cap b) = k => E \subseteq b
  PROVE  E \subseteq b
<1>1. /\ IsFiniteSet(E \cap b) /\ E \cap b \in SUBSET E /\ E \cap a \in SUBSET (E \cap b)
  BY FS_Intersection
<1>2. Cardinality(E \cap a) <= Cardinality(E \cap b)
  BY <1>1, FS_Subset
<1>3. /\ Cardinality(E \cap b) <= Cardinality(E)
      /\ (Cardinality(E) = Cardinality(E \cap b) => E = E \cap b)
  BY <1>1, FS_Subset
<1>4. Cardinality(E \cap b) \in Nat /\ Cardinality(E) \in Nat
  BY <1>1, FS_CardinalityType
<1>5. Cardinality(E \cap b) = k \/ Cardinality(E \cap b) = Cardinality(E)
  BY <1>2, <1>3, <1>4
<1> QED
  BY <1>3, <1>5

------------------------------------------------------------------------------
(* A tet has six different edges. *)
LEMMA TetEdges ==
  ASSUME NEW t \in Mesh, t.kind = "tet"
  PROVE  /\ CellEdges(t) = {c2e(t, 0), c2e(t, 1), c2e(t, 2), c2e(t, 3), c2e(t, 4), c2e(t, 5)}
         /\ \A j, k \in 0 .. 5 : c2e(t, j) = c2e(t, k) => j = k
         /\ IsFiniteSet(CellEdges(t))
<1>1. EdgeNumbers(t.kind) = 0 .. 5
  BY EdgeEnds
<1>2. CellEdges(t) = {c2e(t, 0), c2e(t, 1), c2e(t, 2), c2e(t, 3), c2e(t, 4), c2e(t, 5)}
  BY <1>1 DEF CellEdges, EdgesOf
<1> DEFINE n == t.nodes
<1>3. /\ c2e(t, 0) = {n[0], n[1]} /\ c2e(t, 1) = {n[0], n[2]} /\ c2e(t, 2) = {n[0], n[3]}
      /\ c2e(t, 3) = {n[1], n[2]} /\ c2e(t, 4) = {n[1], n[3]} /\ c2e(t, 5) = {n[2], n[3]}
  BY Shapes DEF c2e, EdgeNode
<1>4. DOMAIN n = 0 .. 3 /\ \A a, b \in DOMAIN n : n[a] = n[b] => a = b
  BY MeshAssumption, Shapes DEF IsInjective
<1>5. /\ n[0] # n[1] /\ n[0] # n[2] /\ n[0] # n[3] /\ n[1] # n[2] /\ n[1] # n[3] /\ n[2] # n[3]
  BY <1>4
<1>6. \A j, k \in 0 .. 5 : c2e(t, j) = c2e(t, k) => j = k
  <2> HIDE DEF n
  <2> DEFINE x == n[0]
             y == n[1]
             z == n[2]
             w == n[3]
  <2>1. /\ x # y /\ x # z /\ x # w /\ y # z /\ y # w /\ z # w
    BY <1>5
  <2>2. /\ c2e(t, 0) = {x, y} /\ c2e(t, 1) = {x, z} /\ c2e(t, 2) = {x, w}
        /\ c2e(t, 3) = {y, z} /\ c2e(t, 4) = {y, w} /\ c2e(t, 5) = {z, w}
    BY <1>3
  <2> HIDE DEF x, y, z, w
  <2>3. \A k \in 0 .. 5 : k = 0 \/ k = 1 \/ k = 2 \/ k = 3 \/ k = 4 \/ k = 5
    OBVIOUS
  <2> QED
    BY <2>1, <2>2, <2>3
<1>7. IsFiniteSet(CellEdges(t))
  <2> DEFINE A == {c2e(t, 0), c2e(t, 1), c2e(t, 2)}
             B == {c2e(t, 3), c2e(t, 4), c2e(t, 5)}
  <2>1. CellEdges(t) = A \cup B
    BY <1>2
  <2>2. IsFiniteSet(A) /\ IsFiniteSet(B)
    BY SmallSets
  <2> HIDE DEF A, B
  <2> QED
    BY <2>1, <2>2, FS_Union
<1> QED
  BY <1>2, <1>6, <1>7

(* Two of three are true. *)
TwoOf(p, q, r) == (p /\ q /\ ~r) \/ (p /\ ~q /\ r) \/ (~p /\ q /\ r)

(* Two of three edges are marked. *)
LEMMA TwoOfThree ==
  ASSUME NEW x, NEW y, NEW z, x # y, x # z, y # z, NEW m
  PROVE  Cardinality({x, y, z} \cap m) = 2 <=> TwoOf(x \in m, y \in m, z \in m)
<1> DEFINE A == {x, y, z} \cap m
<1>1. IsFiniteSet(A)
  <2> DEFINE B == {x, y, z}
  <2>1. IsFiniteSet(B)
    BY SmallSets
  <2> HIDE DEF B
  <2>2. IsFiniteSet(B \cap m)
    BY <2>1, FS_Intersection
  <2> QED
    BY <2>2 DEF B
<1>2. Cardinality(A) = 2 <=> \E u, v \in A : u # v /\ A = {u, v}
  <2> HIDE DEF A
  <2> QED
    BY <1>1, PairSet
<1>3. ASSUME NEW u \in A, NEW v \in A, u # v, A = {u, v}
      PROVE  TwoOf(x \in m, y \in m, z \in m)
  BY <1>3 DEF TwoOf
<1>4. ASSUME TwoOf(x \in m, y \in m, z \in m) PROVE \E u, v \in A : u # v /\ A = {u, v}
  <2>1. CASE x \in m /\ y \in m /\ z \notin m
    <3>1. A = {x, y}
      BY <2>1
    <3> QED
      BY <3>1
  <2>2. CASE x \in m /\ z \in m /\ y \notin m
    <3>1. A = {x, z}
      BY <2>2
    <3> QED
      BY <3>1
  <2>3. CASE y \in m /\ z \in m /\ x \notin m
    <3>1. A = {y, z}
      BY <2>3
    <3> QED
      BY <3>1
  <2> QED
    BY <1>4, <2>1, <2>2, <2>3 DEF TwoOf
<1> HIDE DEF A
<1>5. Cardinality(A) = 2 <=> TwoOf(x \in m, y \in m, z \in m)
  BY <1>2, <1>3, <1>4
<1> QED
  BY <1>5 DEF A

(* A pair of edges of the tet are its only marks. *)
OnlyMarks(t, m, i, j) ==
  \A k \in 0 .. 5 : c2e(t, k) \in m <=> k = i \/ k = j

(* Two of the six edges of a tet are marked. *)
LEMMA TwoOfSix ==
  ASSUME NEW t \in Mesh, t.kind = "tet", NEW m
  PROVE  Cardinality(CellEdges(t) \cap m) = 2 <=>
            \E i, j \in 0 .. 5 : i # j /\ OnlyMarks(t, m, i, j)
<1> DEFINE A == CellEdges(t) \cap m
<1>1. IsFiniteSet(A)
  BY TetEdges, FS_Intersection
<1>2. Cardinality(A) = 2 <=> \E u, v \in A : u # v /\ A = {u, v}
  <2> HIDE DEF A
  <2> QED
    BY <1>1, PairSet
<1>3. \A e : e \in A <=> e \in m /\ \E k \in 0 .. 5 : e = c2e(t, k)
  <2>1. CellEdges(t) = {c2e(t, k) : k \in 0 .. 5}
    BY EdgeEnds DEF CellEdges, EdgesOf
  <2> QED
    BY <2>1
<1>4. \A j, k \in 0 .. 5 : c2e(t, j) = c2e(t, k) => j = k
  BY TetEdges
<1> HIDE DEF A
<1>5. ASSUME NEW u \in A, NEW v \in A, u # v, A = {u, v}
      PROVE  \E i, j \in 0 .. 5 : i # j /\ OnlyMarks(t, m, i, j)
  <2>1. PICK i \in 0 .. 5 : u = c2e(t, i)
    BY <1>3
  <2>2. PICK j \in 0 .. 5 : v = c2e(t, j)
    BY <1>3
  <2>3. i # j
    BY <1>5, <2>1, <2>2
  <2>4. OnlyMarks(t, m, i, j)
    BY <1>3, <1>4, <1>5, <2>1, <2>2 DEF OnlyMarks
  <2> QED
    BY <2>3, <2>4
<1>6. ASSUME NEW i \in 0 .. 5, NEW j \in 0 .. 5, i # j, OnlyMarks(t, m, i, j)
      PROVE  \E u, v \in A : u # v /\ A = {u, v}
  <2>1. c2e(t, i) \in A /\ c2e(t, j) \in A /\ c2e(t, i) # c2e(t, j)
    BY <1>3, <1>4, <1>6 DEF OnlyMarks
  <2>2. A = {c2e(t, i), c2e(t, j)}
    BY <1>3, <1>6, <2>1 DEF OnlyMarks
  <2> QED
    BY <2>1, <2>2
<1>7. Cardinality(A) = 2 <=> \E i, j \in 0 .. 5 : i # j /\ OnlyMarks(t, m, i, j)
  BY <1>2, <1>5, <1>6
<1> QED
  BY <1>7 DEF A

(* No face of the tet has two marks. *)
FacesClean(t, m) ==
  /\ ~ TwoOf(c2e(t, 3) \in m, c2e(t, 4) \in m, c2e(t, 5) \in m)
  /\ ~ TwoOf(c2e(t, 1) \in m, c2e(t, 2) \in m, c2e(t, 5) \in m)
  /\ ~ TwoOf(c2e(t, 0) \in m, c2e(t, 2) \in m, c2e(t, 4) \in m)
  /\ ~ TwoOf(c2e(t, 0) \in m, c2e(t, 1) \in m, c2e(t, 3) \in m)

(* Clean faces and no pair: a pattern of the templates.  Clean faces and a  *)
(* pair: two opposite edges.                                                *)
LEMMA CleanPatterns ==
  ASSUME NEW t \in Mesh, t.kind = "tet", NEW m, FacesClean(t, m)
  PROVE  \/ ref_subdiv_map(t, m) \in TetMaps
         \/ OnlyMarks(t, m, 0, 5) \/ OnlyMarks(t, m, 1, 4) \/ OnlyMarks(t, m, 2, 3)
<1> DEFINE map == ref_subdiv_map(t, m)
<1>1. \A k \in 0 .. 5 : k = 0 \/ k = 1 \/ k = 2 \/ k = 3 \/ k = 4 \/ k = 5
  OBVIOUS
<1>2. map \subseteq 0 .. 5 /\ \A k \in 0 .. 5 : k \in map <=> c2e(t, k) \in m
  BY EdgeEnds DEF ref_subdiv_map
<1>3. /\ ~ TwoOf(3 \in map, 4 \in map, 5 \in map) /\ ~ TwoOf(1 \in map, 2 \in map, 5 \in map)
      /\ ~ TwoOf(0 \in map, 2 \in map, 4 \in map) /\ ~ TwoOf(0 \in map, 1 \in map, 3 \in map)
  BY <1>2 DEF FacesClean, TwoOf
<1> HIDE DEF map
<1>4. \/ 0 \in map /\ 1 \in map /\ 2 \in map /\ 3 \in map /\ 4 \in map /\ 5 \in map
      \/ \E k \in 0 .. 5 : \A i \in 0 .. 5 : i \in map <=> i = k
      \/ \A i \in 0 .. 5 : i \notin map
      \/ \A i \in 0 .. 5 : i \in map <=> i \in {0, 1, 3}
      \/ \A i \in 0 .. 5 : i \in map <=> i \in {3, 4, 5}
      \/ \A i \in 0 .. 5 : i \in map <=> i \in {1, 2, 5}
      \/ \A i \in 0 .. 5 : i \in map <=> i \in {0, 2, 4}
      \/ \A i \in 0 .. 5 : i \in map <=> i \in {0, 5}
      \/ \A i \in 0 .. 5 : i \in map <=> i \in {1, 4}
      \/ \A i \in 0 .. 5 : i \in map <=> i \in {2, 3}
  BY <1>1, <1>3 DEF TwoOf
<1>5. ASSUME 0 \in map, 1 \in map, 2 \in map, 3 \in map, 4 \in map, 5 \in map PROVE map = 0 .. 5
  BY <1>1, <1>2, <1>5
<1>6. ASSUME NEW k \in 0 .. 5, \A i \in 0 .. 5 : i \in map <=> i = k PROVE map = {k}
  BY <1>2, <1>6
<1>7. ASSUME \A i \in 0 .. 5 : i \notin map PROVE map = {}
  BY <1>2, <1>7
<1>8. ASSUME NEW S \in SUBSET (0 .. 5), \A i \in 0 .. 5 : i \in map <=> i \in S PROVE map = S
  BY <1>2, <1>8
<1>9. {0, 1, 3} \in SUBSET (0 .. 5) /\ {3, 4, 5} \in SUBSET (0 .. 5)
      /\ {1, 2, 5} \in SUBSET (0 .. 5) /\ {0, 2, 4} \in SUBSET (0 .. 5)
  OBVIOUS
<1>10. /\ (\A i \in 0 .. 5 : i \in map <=> i \in {0, 5}) => OnlyMarks(t, m, 0, 5)
       /\ (\A i \in 0 .. 5 : i \in map <=> i \in {1, 4}) => OnlyMarks(t, m, 1, 4)
       /\ (\A i \in 0 .. 5 : i \in map <=> i \in {2, 3}) => OnlyMarks(t, m, 2, 3)
  BY <1>2 DEF OnlyMarks
<1>11. \/ map = 0 .. 5
       \/ \E k \in 0 .. 5 : map = {k}
       \/ map = {} \/ map = {0, 1, 3} \/ map = {3, 4, 5} \/ map = {1, 2, 5} \/ map = {0, 2, 4}
       \/ OnlyMarks(t, m, 0, 5) \/ OnlyMarks(t, m, 1, 4) \/ OnlyMarks(t, m, 2, 3)
  BY <1>4, <1>5, <1>6, <1>7, <1>8, <1>9, <1>10, Zenon
<1> QED
  BY <1>11 DEF TetMaps, TetFaceMaps, map

(* The rules of each kind. *)
LEMMA RulesAre ==
  /\ Rules("tet") = << <<2, {3,4,5}>>, <<2, {1,2,5}>>, <<2, {0,2,4}>>,
                        <<2, {0,1,3}>>, <<2, 0 .. 5>> >>
  /\ Rules("pyr") = << <<1, {0,7}>>, <<1, {2,4}>> >>
  /\ Rules("pri") = << <<1, {0,6}>>, <<1, {3,8}>>, <<1, {1,7}>>, <<2, {0,1,3}>>, <<2, {6,7,8}>> >>
<1>1. Rules("tet") = << <<2, {3,4,5}>>, <<2, {1,2,5}>>, <<2, {0,2,4}>>,
                        <<2, {0,1,3}>>, <<2, 0 .. 5>> >>
  BY Zenon DEF Rules
<1>2. Rules("pyr") = << <<1, {0,7}>>, <<1, {2,4}>> >>
  BY Zenon DEF Rules
<1>3. Rules("pri") = << <<1, {0,6}>>, <<1, {3,8}>>, <<1, {1,7}>>, <<2, {0,1,3}>>, <<2, {6,7,8}>> >>
  BY Zenon DEF Rules
<1> QED
  BY <1>1, <1>2, <1>3

(* Short lists. *)
LEMMA ShortLists ==
  ASSUME NEW S, NEW a \in S, NEW b \in S, NEW c \in S, NEW d \in S, NEW e \in S
  PROVE  <<a, b>> \in Seq(S) /\ <<a, b, c, d, e>> \in Seq(S)
  OBVIOUS

(* A rule wants all but one of the edges it names. *)
WantsAllButOne(rule) ==
  \/ rule[1] = 1 /\ \E i, j : rule[2] = {i, j}
  \/ rule[1] = 2 /\ \E i, j, k : rule[2] = {i, j, k}

(* All rules do, but the last of a tet. *)
LEMMA RuleForms ==
  ASSUME NEW kind \in Kinds
  PROVE  /\ Rules(kind) \in Seq(Nat \X SUBSET EdgeNumbers(kind))
         /\ \A k \in 1 .. Len(Rules(kind)) :
               (kind = "tet" /\ k = 5) \/ WantsAllButOne(Rules(kind)[k])
<1>1. CASE kind = "tet"
  <2>1. {3,4,5} \in SUBSET (0 .. 5) /\ {1,2,5} \in SUBSET (0 .. 5) /\ {0,2,4} \in SUBSET (0 .. 5)
        /\ {0,1,3} \in SUBSET (0 .. 5)
    OBVIOUS
  <2>2. Rules("tet") \in Seq(Nat \X SUBSET (0 .. 5))
    <3> DEFINE S == Nat \X SUBSET (0 .. 5)
               a == <<2, {3,4,5}>>
               b == <<2, {1,2,5}>>
               c == <<2, {0,2,4}>>
               d == <<2, {0,1,3}>>
               e == <<2, 0 .. 5>>
    <3>1. a \in S /\ b \in S /\ c \in S /\ d \in S /\ e \in S
      BY <2>1
    <3>2. Rules("tet") = <<a, b, c, d, e>>
      BY RulesAre
    <3> HIDE DEF S, a, b, c, d, e
    <3>3. Rules("tet") \in Seq(S)
      BY <3>1, <3>2, ShortLists
    <3> QED
      BY <3>3 DEF S
  <2>3. \A k \in 1 .. 5 : k = 5 \/ WantsAllButOne(Rules("tet")[k])
    <3>1. /\ Rules("tet")[1] = <<2, {3,4,5}>> /\ Rules("tet")[2] = <<2, {1,2,5}>>
          /\ Rules("tet")[3] = <<2, {0,2,4}>> /\ Rules("tet")[4] = <<2, {0,1,3}>>
      BY RulesAre
    <3>2. /\ WantsAllButOne(<<2, {3,4,5}>>) /\ WantsAllButOne(<<2, {1,2,5}>>)
          /\ WantsAllButOne(<<2, {0,2,4}>>) /\ WantsAllButOne(<<2, {0,1,3}>>)
      BY DEF WantsAllButOne
    <3>3. \A k \in 1 .. 5 : k = 1 \/ k = 2 \/ k = 3 \/ k = 4 \/ k = 5
      OBVIOUS
    <3> QED
      BY <3>1, <3>2, <3>3
  <2>4. Len(Rules("tet")) = 5
    BY RulesAre
  <2> QED
    BY <1>1, <2>2, <2>3, <2>4, EdgeEnds
<1>2. CASE kind = "pyr"
  <2>1. {0,7} \in SUBSET (0 .. 7) /\ {2,4} \in SUBSET (0 .. 7)
    OBVIOUS
  <2>2. Rules("pyr") \in Seq(Nat \X SUBSET (0 .. 7))
    <3> DEFINE S == Nat \X SUBSET (0 .. 7)
               a == <<1, {0,7}>>
               b == <<1, {2,4}>>
    <3>1. a \in S /\ b \in S
      BY <2>1
    <3>2. Rules("pyr") = <<a, b>>
      BY RulesAre
    <3> HIDE DEF S, a, b
    <3>3. Rules("pyr") \in Seq(S)
      BY <3>1, <3>2, ShortLists
    <3> QED
      BY <3>3 DEF S
  <2>3. \A k \in 1 .. 2 : WantsAllButOne(Rules("pyr")[k])
    <3>1. Rules("pyr")[1] = <<1, {0,7}>> /\ Rules("pyr")[2] = <<1, {2,4}>>
      BY RulesAre
    <3>2. WantsAllButOne(<<1, {0,7}>>) /\ WantsAllButOne(<<1, {2,4}>>)
      BY DEF WantsAllButOne
    <3>3. \A k \in 1 .. 2 : k = 1 \/ k = 2
      OBVIOUS
    <3> QED
      BY <3>1, <3>2, <3>3
  <2>4. Len(Rules("pyr")) = 2
    BY RulesAre
  <2> QED
    BY <1>2, <2>2, <2>3, <2>4, EdgeEnds
<1>3. CASE kind = "pri"
  <2>1. {0,6} \in SUBSET (0 .. 8) /\ {3,8} \in SUBSET (0 .. 8) /\ {1,7} \in SUBSET (0 .. 8)
        /\ {0,1,3} \in SUBSET (0 .. 8) /\ {6,7,8} \in SUBSET (0 .. 8)
    OBVIOUS
  <2>2. Rules("pri") \in Seq(Nat \X SUBSET (0 .. 8))
    <3> DEFINE S == Nat \X SUBSET (0 .. 8)
               a == <<1, {0,6}>>
               b == <<1, {3,8}>>
               c == <<1, {1,7}>>
               d == <<2, {0,1,3}>>
               e == <<2, {6,7,8}>>
    <3>1. a \in S /\ b \in S /\ c \in S /\ d \in S /\ e \in S
      BY <2>1
    <3>2. Rules("pri") = <<a, b, c, d, e>>
      BY RulesAre
    <3> HIDE DEF S, a, b, c, d, e
    <3>3. Rules("pri") \in Seq(S)
      BY <3>1, <3>2, ShortLists
    <3> QED
      BY <3>3 DEF S
  <2>3. \A k \in 1 .. 5 : WantsAllButOne(Rules("pri")[k])
    <3>1. /\ Rules("pri")[1] = <<1, {0,6}>> /\ Rules("pri")[2] = <<1, {3,8}>>
          /\ Rules("pri")[3] = <<1, {1,7}>> /\ Rules("pri")[4] = <<2, {0,1,3}>>
          /\ Rules("pri")[5] = <<2, {6,7,8}>>
      BY RulesAre
    <3>2. /\ WantsAllButOne(<<1, {0,6}>>) /\ WantsAllButOne(<<1, {3,8}>>)
          /\ WantsAllButOne(<<1, {1,7}>>) /\ WantsAllButOne(<<2, {0,1,3}>>)
          /\ WantsAllButOne(<<2, {6,7,8}>>)
      BY DEF WantsAllButOne
    <3>3. \A k \in 1 .. 5 : k = 1 \/ k = 2 \/ k = 3 \/ k = 4 \/ k = 5
      OBVIOUS
    <3> QED
      BY <3>1, <3>2, <3>3
  <2>4. Len(Rules("pri")) = 5
    BY RulesAre
  <2> QED
    BY <1>3, <2>2, <2>3, <2>4, EdgeEnds
<1> QED
  BY <1>1, <1>2, <1>3 DEF Kinds

(* A rule keeps the marks below any closed set. *)
LEMMA PromotedBelow ==
  ASSUME NEW c \in Mesh, NEW rule \in ToSet(Rules(c.kind)), WantsAllButOne(rule),
         NEW m, NEW s, m \subseteq s, Closed(s)
  PROVE  Promoted(m, c, rule) \subseteq s
<1> DEFINE E == EdgesOf(c, rule[2])
<1> SUFFICES ASSUME Cardinality(E \cap m) = rule[1] PROVE E \subseteq s
  BY DEF Promoted
<1>1. IsFiniteSet(E) /\ Cardinality(E) <= rule[1] + 1 /\ rule[1] \in Nat
  <2>1. ASSUME NEW i, NEW j, rule[2] = {i, j} PROVE IsFiniteSet(E) /\ Cardinality(E) <= 2
    <3>1. E = {c2e(c, i), c2e(c, j)}
      BY <2>1 DEF EdgesOf
    <3> QED
      BY <3>1, SmallSets
  <2>2. ASSUME NEW i, NEW j, NEW k, rule[2] = {i, j, k} PROVE IsFiniteSet(E) /\ Cardinality(E) <= 3
    <3> DEFINE x == c2e(c, i)
               y == c2e(c, j)
               z == c2e(c, k)
    <3>1. E = {x, y, z}
      BY <2>2 DEF EdgesOf
    <3> HIDE DEF E, x, y, z
    <3> QED
      BY <3>1, SmallSets
  <2> HIDE DEF E
  <2>3. CASE rule[1] = 1 /\ \E i, j : rule[2] = {i, j}
    BY <2>1, <2>3
  <2>4. CASE rule[1] = 2 /\ \E i, j, k : rule[2] = {i, j, k}
    <3>1. IsFiniteSet(E) /\ Cardinality(E) <= 3
      BY <2>2, <2>4
    <3> QED
      BY <2>4, <3>1
  <2> QED
    BY <2>3, <2>4 DEF WantsAllButOne
<1>2. Cardinality(E \cap s) = rule[1] => E \subseteq s
  BY DEF Closed
<1> HIDE DEF E
<1> QED
  BY <1>1, <1>2, AllButOne

(* A rule adds edges of the cell. *)
LEMMA PromotedGrows ==
  ASSUME NEW c \in Mesh, NEW rule \in ToSet(Rules(c.kind)), NEW m
  PROVE  m \subseteq Promoted(m, c, rule) /\ Promoted(m, c, rule) \subseteq m \cup CellEdges(c)
<1>1. c.kind \in Kinds
  BY MeshAssumption DEF Kinds
<1>2. PICK k \in 1 .. Len(Rules(c.kind)) : rule = Rules(c.kind)[k]
  BY <1>1, RuleForms DEF ToSet
<1>3. rule \in Nat \X SUBSET EdgeNumbers(c.kind)
  <2> DEFINE S == Nat \X SUBSET EdgeNumbers(c.kind)
             R == Rules(c.kind)
  <2>1. R \in Seq(S) /\ k \in 1 .. Len(R) /\ rule = R[k]
    BY <1>1, <1>2, RuleForms
  <2> HIDE DEF S, R
  <2>2. rule \in S
    BY <2>1
  <2> QED
    BY <2>2 DEF S
<1>4. rule[2] \subseteq EdgeNumbers(c.kind)
  BY <1>3
<1>5. EdgesOf(c, rule[2]) \subseteq CellEdges(c)
  BY <1>4 DEF EdgesOf, CellEdges
<1> QED
  BY <1>5 DEF Promoted

(* The rules of a cell as functions of the marks. *)
promotion(c) ==
  [rule \in ToSet(Rules(c.kind)) |-> [acc \in SUBSET Edges |-> Promoted(acc, c, rule)]]

(* Each rule makes marks of marks. *)
LEMMA PromotionType ==
  ASSUME NEW c \in Mesh
  PROVE  /\ promotion(c) \in [ToSet(Rules(c.kind)) -> [SUBSET Edges -> SUBSET Edges]]
         /\ Rules(c.kind) \in Seq(ToSet(Rules(c.kind)))
         /\ \A k \in 1 .. Len(Rules(c.kind)) :
              /\ Rules(c.kind)[k] \in ToSet(Rules(c.kind))
              /\ \A a \in SUBSET Edges :
                    promotion(c)[Rules(c.kind)[k]][a] = Promoted(a, c, Rules(c.kind)[k])
<1>1. c.kind \in Kinds
  BY MeshAssumption DEF Kinds
<1>2. CellEdges(c) \subseteq Edges
  BY DEF Edges
<1>3. \A rule \in ToSet(Rules(c.kind)) : \A a \in SUBSET Edges : Promoted(a, c, rule) \in SUBSET Edges
  BY <1>2, PromotedGrows
<1>4. promotion(c) \in [ToSet(Rules(c.kind)) -> [SUBSET Edges -> SUBSET Edges]]
  BY <1>3 DEF promotion
<1>5. /\ Rules(c.kind) \in Seq(ToSet(Rules(c.kind)))
      /\ \A k \in 1 .. Len(Rules(c.kind)) : Rules(c.kind)[k] \in ToSet(Rules(c.kind))
  BY <1>1, RuleForms, ListOfEntries
<1> QED
  BY <1>4, <1>5 DEF promotion

(* A cell adds edges of its own, and changes nothing only if none of its    *)
(* rules does.                                                              *)
LEMMA PromoteCellGrows ==
  ASSUME NEW c \in Mesh, NEW m \in SUBSET Edges
  PROVE  /\ PromoteCell(m, c) \in SUBSET Edges
         /\ m \subseteq PromoteCell(m, c) /\ PromoteCell(m, c) \subseteq m \cup CellEdges(c)
         /\ PromoteCell(m, c) = m =>
              \A rule \in ToSet(Rules(c.kind)) : Promoted(m, c, rule) = m
<1> DEFINE S == SUBSET Edges
           F == promotion(c)
           list == Rules(c.kind)
           T == ToSet(list)
<1>1. F \in [T -> [S -> S]] /\ list \in Seq(T) /\ m \in S
  BY PromotionType
<1>2. /\ \A k \in 1 .. Len(list) : list[k] \in T
      /\ \A k \in 1 .. Len(list) : \A a \in S : F[list[k]][a] = Promoted(a, c, list[k])
  BY PromotionType
<1>3. PromoteCell(m, c) = InTurn(F, m, list)
  BY DEF PromoteCell, promotion
<1>4. \A k \in 1 .. Len(list) : \A a \in S : a \subseteq F[list[k]][a]
  <2> SUFFICES ASSUME NEW k \in 1 .. Len(list), NEW a \in S PROVE a \subseteq F[list[k]][a]
    OBVIOUS
  <2>1. F[list[k]][a] = Promoted(a, c, list[k]) /\ list[k] \in T
    BY <1>2
  <2> QED
    BY <2>1, PromotedGrows
<1>5. \A rule \in T : \E k \in 1 .. Len(list) : rule = list[k]
  BY <1>1 DEF ToSet
<1> DEFINE Good == {a \in S : a \subseteq m \cup CellEdges(c)}
<1>6. \A k \in 1 .. Len(list) : \A a \in Good : F[list[k]][a] \in Good
  <2> SUFFICES ASSUME NEW k \in 1 .. Len(list), NEW a \in Good PROVE F[list[k]][a] \in Good
    OBVIOUS
  <2>1. F[list[k]][a] = Promoted(a, c, list[k]) /\ list[k] \in T
    BY <1>2
  <2>2. F[list[k]][a] \in S
    BY <1>1, <2>1
  <2> QED
    BY <2>1, <2>2, PromotedGrows
<1>7. m \in Good /\ Good \in SUBSET S
  OBVIOUS
<1> HIDE DEF S, F, list, T, Good
<1>8. /\ m \subseteq InTurn(F, m, list)
      /\ InTurn(F, m, list) = m => \A k \in 1 .. Len(list) : F[list[k]][m] = m
  BY <1>1, <1>4, InTurnGrows
<1>9. InTurn(F, m, list) \in Good
  BY <1>1, <1>6, <1>7, InTurnKeeps
<1>10. InTurn(F, m, list) = m => \A rule \in T : Promoted(m, c, rule) = m
  BY <1>1, <1>2, <1>5, <1>8
<1> QED
  BY <1>3, <1>8, <1>9, <1>10 DEF Good, S, T, list

(* A pair that no face completes is opposite; a closed set above it has all *)
(* edges of the tet.                                                        *)
LEMMA PairClosesTet ==
  ASSUME NEW t \in Mesh, t.kind = "tet", NEW m, NEW s, m \subseteq s,
         FacesClean(t, m), Cardinality(CellEdges(t) \cap m) = 2,
         FacesClean(t, s), Cardinality(CellEdges(t) \cap s) # 2
  PROVE  CellEdges(t) \subseteq s
<1>1. PICK i, j \in 0 .. 5 : i # j /\ OnlyMarks(t, m, i, j)
  BY TwoOfSix
<1>2. \A k \in 0 .. 5 : k = 0 \/ k = 1 \/ k = 2 \/ k = 3 \/ k = 4 \/ k = 5
  OBVIOUS
<1>3. OnlyMarks(t, m, 0, 5) \/ OnlyMarks(t, m, 1, 4) \/ OnlyMarks(t, m, 2, 3)
  <2>1. ref_subdiv_map(t, m) = {i, j}
    BY <1>1, EdgeEnds DEF ref_subdiv_map, OnlyMarks
  <2>2. {i, j} \notin TetMaps
    <3>1. {i, j} # {} /\ {i, j} # 0 .. 5 /\ \A e \in 0 .. 5 : {i, j} # {e}
      BY <1>1
    <3>2. {i, j} \notin TetFaceMaps
      BY <1>1 DEF TetFaceMaps
    <3> QED
      BY <3>1, <3>2 DEF TetMaps
  <2> QED
    BY <2>1, <2>2, CleanPatterns
<1>4. ~ \E a, b \in 0 .. 5 : a # b /\ OnlyMarks(t, s, a, b)
  BY TwoOfSix
<1>5. ~ OnlyMarks(t, s, 0, 5) /\ ~ OnlyMarks(t, s, 1, 4) /\ ~ OnlyMarks(t, s, 2, 3)
  BY <1>4
<1>6. \/ c2e(t, 0) \in s /\ c2e(t, 5) \in s
      \/ c2e(t, 1) \in s /\ c2e(t, 4) \in s
      \/ c2e(t, 2) \in s /\ c2e(t, 3) \in s
  BY <1>3 DEF OnlyMarks
<1>7. /\ c2e(t, 0) \in s /\ c2e(t, 1) \in s /\ c2e(t, 2) \in s
      /\ c2e(t, 3) \in s /\ c2e(t, 4) \in s /\ c2e(t, 5) \in s
  BY <1>2, <1>5, <1>6 DEF OnlyMarks, FacesClean, TwoOf
<1> QED
  BY <1>7, TetEdges

(* F is the set of i, j and k, three edge numbers of a tet. *)
IsTriple(F, i, j, k) ==
  /\ i \in 0 .. 5 /\ j \in 0 .. 5 /\ k \in 0 .. 5 /\ i # j /\ i # k /\ j # k
  /\ \A x : x \in F <=> x = i \/ x = j \/ x = k

(* The faces of the rules and of the unmarking. *)
LEMMA FaceTriples ==
  /\ IsTriple({3,4,5}, 3, 4, 5) /\ IsTriple({1,2,5}, 1, 2, 5)
  /\ IsTriple({0,2,4}, 0, 2, 4) /\ IsTriple({0,1,3}, 0, 1, 3)
  /\ IsTriple({0,4,2}, 0, 2, 4)
  BY DEF IsTriple

(* A rule on a face of a tet that changes nothing found no two marks. *)
LEMMA FaceRule ==
  ASSUME NEW t \in Mesh, t.kind = "tet", NEW m, NEW F, NEW i, NEW j, NEW k, IsTriple(F, i, j, k)
  PROVE  /\ Promoted(m, t, <<2, F>>) = m
               => ~ TwoOf(c2e(t, i) \in m, c2e(t, j) \in m, c2e(t, k) \in m)
         /\ \/ Promoted(m, t, <<2, F>>) = m
            \/ /\ c2e(t, i) \in Promoted(m, t, <<2, F>>)
               /\ c2e(t, j) \in Promoted(m, t, <<2, F>>)
               /\ c2e(t, k) \in Promoted(m, t, <<2, F>>)
         /\ (Cardinality(EdgesOf(t, F) \cap m) = 2 => EdgesOf(t, F) \subseteq m)
               => ~ TwoOf(c2e(t, i) \in m, c2e(t, j) \in m, c2e(t, k) \in m)
<1> DEFINE E == EdgesOf(t, F)
<1>1. E = {c2e(t, i), c2e(t, j), c2e(t, k)}
  BY DEF EdgesOf, IsTriple
<1>2. Cardinality(E \cap m) = 2 <=> TwoOf(c2e(t, i) \in m, c2e(t, j) \in m, c2e(t, k) \in m)
  <2>1. c2e(t, i) # c2e(t, j) /\ c2e(t, i) # c2e(t, k) /\ c2e(t, j) # c2e(t, k)
    BY TetEdges DEF IsTriple
  <2> QED
    BY <1>1, <2>1, TwoOfThree
<1>3. Promoted(m, t, <<2, F>>) = IF Cardinality(E \cap m) = 2 THEN m \cup E ELSE m
  BY DEF Promoted
<1> HIDE DEF E
<1>4. E \subseteq m => ~ TwoOf(c2e(t, i) \in m, c2e(t, j) \in m, c2e(t, k) \in m)
  BY <1>1 DEF TwoOf
<1>5. m \cup E = m => E \subseteq m
  OBVIOUS
<1> QED
  BY <1>1, <1>2, <1>3, <1>4, <1>5 DEF E

(* What a closed set leaves of a tet. *)
LEMMA ClosedTet ==
  ASSUME NEW t \in Mesh, t.kind = "tet", NEW s, Closed(s)
  PROVE  FacesClean(t, s) /\ Cardinality(CellEdges(t) \cap s) # 2
<1>1. \A k \in 1 .. 5 : Rules("tet")[k] \in ToSet(Rules("tet"))
  <2>1. Rules("tet") \in Seq(Nat \X SUBSET EdgeNumbers("tet")) /\ Len(Rules("tet")) = 5
    BY RuleForms, RulesAre DEF Kinds
  <2> QED
    BY <2>1, ListOfEntries
<1>2. /\ <<2, {3,4,5}>> \in ToSet(Rules("tet")) /\ <<2, {1,2,5}>> \in ToSet(Rules("tet"))
      /\ <<2, {0,2,4}>> \in ToSet(Rules("tet")) /\ <<2, {0,1,3}>> \in ToSet(Rules("tet"))
      /\ <<2, 0 .. 5>> \in ToSet(Rules("tet"))
  <2>1. /\ Rules("tet")[1] = <<2, {3,4,5}>> /\ Rules("tet")[2] = <<2, {1,2,5}>>
        /\ Rules("tet")[3] = <<2, {0,2,4}>> /\ Rules("tet")[4] = <<2, {0,1,3}>>
        /\ Rules("tet")[5] = <<2, 0 .. 5>>
    BY RulesAre
  <2>2. 1 \in 1 .. 5 /\ 2 \in 1 .. 5 /\ 3 \in 1 .. 5 /\ 4 \in 1 .. 5 /\ 5 \in 1 .. 5
    OBVIOUS
  <2> QED
    BY <1>1, <2>1, <2>2
<1>3. ASSUME NEW n, NEW F, <<n, F>> \in ToSet(Rules("tet"))
      PROVE  Cardinality(EdgesOf(t, F) \cap s) = n => EdgesOf(t, F) \subseteq s
  BY <1>3 DEF Closed
<1>4. FacesClean(t, s)
  <2>1. ~ TwoOf(c2e(t, 3) \in s, c2e(t, 4) \in s, c2e(t, 5) \in s)
    <3>1. Cardinality(EdgesOf(t, {3,4,5}) \cap s) = 2 => EdgesOf(t, {3,4,5}) \subseteq s
      BY <1>2, <1>3
    <3> QED
      BY <3>1, FaceRule, FaceTriples
  <2>2. ~ TwoOf(c2e(t, 1) \in s, c2e(t, 2) \in s, c2e(t, 5) \in s)
    <3>1. Cardinality(EdgesOf(t, {1,2,5}) \cap s) = 2 => EdgesOf(t, {1,2,5}) \subseteq s
      BY <1>2, <1>3
    <3> QED
      BY <3>1, FaceRule, FaceTriples
  <2>3. ~ TwoOf(c2e(t, 0) \in s, c2e(t, 2) \in s, c2e(t, 4) \in s)
    <3>1. Cardinality(EdgesOf(t, {0,2,4}) \cap s) = 2 => EdgesOf(t, {0,2,4}) \subseteq s
      BY <1>2, <1>3
    <3> QED
      BY <3>1, FaceRule, FaceTriples
  <2>4. ~ TwoOf(c2e(t, 0) \in s, c2e(t, 1) \in s, c2e(t, 3) \in s)
    <3>1. Cardinality(EdgesOf(t, {0,1,3}) \cap s) = 2 => EdgesOf(t, {0,1,3}) \subseteq s
      BY <1>2, <1>3
    <3> QED
      BY <3>1, FaceRule, FaceTriples
  <2> QED
    BY <2>1, <2>2, <2>3, <2>4 DEF FacesClean
<1>5. Cardinality(CellEdges(t) \cap s) # 2
  <2>1. EdgesOf(t, 0 .. 5) = CellEdges(t)
    BY EdgeEnds DEF CellEdges
  <2>2. Cardinality(CellEdges(t) \cap s) = 2 => CellEdges(t) \subseteq s
    BY <1>2, <1>3, <2>1
  <2>3. CellEdges(t) \subseteq s => ~ \E i, j \in 0 .. 5 : i # j /\ OnlyMarks(t, s, i, j)
    <3> SUFFICES ASSUME CellEdges(t) \subseteq s, NEW i \in 0 .. 5, NEW j \in 0 .. 5,
                        OnlyMarks(t, s, i, j)
                 PROVE  FALSE
      OBVIOUS
    <3>1. \A k \in 0 .. 5 : c2e(t, k) \in s
      BY EdgeEnds DEF CellEdges, EdgesOf
    <3>2. \A k \in 0 .. 5 : k = i \/ k = j
      BY <3>1 DEF OnlyMarks
    <3>3. 0 \in 0 .. 5 /\ 1 \in 0 .. 5 /\ 2 \in 0 .. 5
      OBVIOUS
    <3> QED
      BY <3>2, <3>3
  <2> QED
    BY <2>2, <2>3, TwoOfSix
<1> QED
  BY <1>4, <1>5

(* A cell keeps the marks below any closed set: the last rule of a tet sees *)
(* two marks only if no face had two, so they are opposite.                 *)
LEMMA PromoteTetBelow ==
  ASSUME NEW c \in Mesh, c.kind = "tet", NEW m \in SUBSET Edges, NEW s, m \subseteq s, Closed(s)
  PROVE  PromoteCell(m, c) \subseteq s
<1> DEFINE S == SUBSET Edges
           F == promotion(c)
           list == Rules(c.kind)
           T == ToSet(list)
<1>1. F \in [T -> [S -> S]] /\ list \in Seq(T) /\ m \in S
  BY PromotionType
<1>2. \A k \in 1 .. Len(list) : \A a \in S : F[list[k]][a] = Promoted(a, c, list[k])
  BY PromotionType
<1>3. PromoteCell(m, c) = InTurn(F, m, list)
  BY DEF PromoteCell, promotion
<1>4. Len(list) = 5
  BY RulesAre
<1>5. PICK h \in [0 .. Len(list) -> S] : Follows(F, m, list, h) /\ InTurn(F, m, list) = h[Len(list)]
  <2> HIDE DEF S, F, list, T
  <2> QED
    BY <1>1, InTurnSteps
<1>6. /\ list[1] = <<2, {3,4,5}>> /\ list[2] = <<2, {1,2,5}>> /\ list[3] = <<2, {0,2,4}>>
      /\ list[4] = <<2, {0,1,3}>> /\ list[5] = <<2, 0 .. 5>>
  BY RulesAre
<1>7. /\ h[0] = m /\ h[1] = Promoted(h[0], c, list[1]) /\ h[2] = Promoted(h[1], c, list[2])
      /\ h[3] = Promoted(h[2], c, list[3]) /\ h[4] = Promoted(h[3], c, list[4])
      /\ h[5] = Promoted(h[4], c, list[5]) /\ PromoteCell(m, c) = h[5]
  <2> HIDE DEF F, list, S
  <2>1. /\ h[0] \in S /\ h[1] \in S /\ h[2] \in S /\ h[3] \in S /\ h[4] \in S
    BY <1>4, <1>5
  <2>2. /\ h[0] = m /\ h[1] = F[list[1]][h[0]] /\ h[2] = F[list[2]][h[1]]
        /\ h[3] = F[list[3]][h[2]] /\ h[4] = F[list[4]][h[3]] /\ h[5] = F[list[5]][h[4]]
    <3>1. h[0] = m /\ \A k \in 1 .. 5 : h[k] = F[list[k]][h[k - 1]]
      BY <1>4, <1>5 DEF Follows
    <3> QED
      BY <3>1
  <2>3. \A k \in 1 .. 5 : \A a \in S : F[list[k]][a] = Promoted(a, c, list[k])
    BY <1>2, <1>4
  <2>4. /\ F[list[1]][h[0]] = Promoted(h[0], c, list[1]) /\ F[list[2]][h[1]] = Promoted(h[1], c, list[2])
        /\ F[list[3]][h[2]] = Promoted(h[2], c, list[3]) /\ F[list[4]][h[3]] = Promoted(h[3], c, list[4])
        /\ F[list[5]][h[4]] = Promoted(h[4], c, list[5])
    BY <2>1, <2>3
  <2>5. PromoteCell(m, c) = h[5]
    BY <1>3, <1>4, <1>5
  <2> QED
    BY <2>2, <2>4, <2>5
<1>8. \A k \in 1 .. 5 : list[k] \in T
  BY <1>4, PromotionType
<1>9. /\ WantsAllButOne(list[1]) /\ WantsAllButOne(list[2]) /\ WantsAllButOne(list[3])
      /\ WantsAllButOne(list[4])
  <2>1. \A k \in 1 .. 5 : k = 5 \/ WantsAllButOne(list[k])
    BY <1>4, RuleForms DEF Kinds
  <2> QED
    BY <2>1
<1>10. /\ h[0] \subseteq s /\ h[1] \subseteq s /\ h[2] \subseteq s /\ h[3] \subseteq s
       /\ h[4] \subseteq s
  <2> HIDE DEF list
  <2>0. list[1] \in T /\ list[2] \in T /\ list[3] \in T /\ list[4] \in T
    BY <1>8
  <2>1. h[0] \subseteq s
    BY <1>7
  <2>2. h[1] \subseteq s
    BY <1>7, <1>9, <2>0, <2>1, PromotedBelow DEF list
  <2>3. h[2] \subseteq s
    BY <1>7, <1>9, <2>0, <2>2, PromotedBelow DEF list
  <2>4. h[3] \subseteq s
    BY <1>7, <1>9, <2>0, <2>3, PromotedBelow DEF list
  <2>5. h[4] \subseteq s
    BY <1>7, <1>9, <2>0, <2>4, PromotedBelow DEF list
  <2> QED
    BY <2>1, <2>2, <2>3, <2>4, <2>5
<1>11. /\ h[0] \subseteq h[1] /\ h[1] \subseteq h[2] /\ h[2] \subseteq h[3] /\ h[3] \subseteq h[4]
  <2>0. list[1] \in T /\ list[2] \in T /\ list[3] \in T /\ list[4] \in T
    BY <1>8
  <2> QED
    BY <1>7, <2>0, PromotedGrows
<1> HIDE DEF list, F, T, S
<1> SUFFICES ASSUME Cardinality(CellEdges(c) \cap h[4]) = 2 PROVE CellEdges(c) \subseteq s
  <2>1. EdgesOf(c, 0 .. 5) = CellEdges(c)
    BY EdgeEnds DEF CellEdges
  <2>2. h[5] = IF Cardinality(CellEdges(c) \cap h[4]) = 2 THEN h[4] \cup CellEdges(c) ELSE h[4]
    <3>1. list[5][1] = 2 /\ list[5][2] = 0 .. 5 /\ h[5] = Promoted(h[4], c, list[5])
      BY <1>6, <1>7
    <3> QED
      BY <2>1, <3>1 DEF Promoted
  <2> QED
    BY <1>7, <1>10, <2>2
<1>12. PICK i, j \in 0 .. 5 : i # j /\ OnlyMarks(c, h[4], i, j)
  BY TwoOfSix
<1>13. ASSUME NEW x, NEW y, NEW z, NEW F1, IsTriple(F1, x, y, z)
       PROVE  ~ (c2e(c, x) \in h[4] /\ c2e(c, y) \in h[4] /\ c2e(c, z) \in h[4])
  BY <1>12, <1>13 DEF OnlyMarks, IsTriple
<1>14. ASSUME NEW x, NEW y, NEW z, NEW F1, IsTriple(F1, x, y, z), NEW b,
              Promoted(b, c, <<2, F1>>) \subseteq h[4]
       PROVE  Promoted(b, c, <<2, F1>>) = b
  BY <1>13, <1>14, FaceRule
<1>15. h[4] = h[3]
  <2> DEFINE F1 == {0,1,3}
  <2>1. IsTriple(F1, 0, 1, 3)
    BY FaceTriples
  <2>2. h[4] = Promoted(h[3], c, <<2, F1>>)
    BY <1>6, <1>7
  <2>3. Promoted(h[3], c, <<2, F1>>) \subseteq h[4]
    BY <2>2
  <2> HIDE DEF F1
  <2>4. Promoted(h[3], c, <<2, F1>>) = h[3]
    BY <1>14, <2>1, <2>3
  <2> QED
    BY <2>2, <2>4
<1>16. h[3] = h[2]
  <2> DEFINE F1 == {0,2,4}
  <2>1. IsTriple(F1, 0, 2, 4)
    BY FaceTriples
  <2>2. h[3] = Promoted(h[2], c, <<2, F1>>)
    BY <1>6, <1>7
  <2>3. Promoted(h[2], c, <<2, F1>>) \subseteq h[4]
    BY <1>15, <2>2
  <2> HIDE DEF F1
  <2>4. Promoted(h[2], c, <<2, F1>>) = h[2]
    BY <1>14, <2>1, <2>3
  <2> QED
    BY <2>2, <2>4
<1>17. h[2] = h[1]
  <2> DEFINE F1 == {1,2,5}
  <2>1. IsTriple(F1, 1, 2, 5)
    BY FaceTriples
  <2>2. h[2] = Promoted(h[1], c, <<2, F1>>)
    BY <1>6, <1>7
  <2>3. Promoted(h[1], c, <<2, F1>>) \subseteq h[4]
    BY <1>15, <1>16, <2>2
  <2> HIDE DEF F1
  <2>4. Promoted(h[1], c, <<2, F1>>) = h[1]
    BY <1>14, <2>1, <2>3
  <2> QED
    BY <2>2, <2>4
<1>18. h[1] = h[0]
  <2> DEFINE F1 == {3,4,5}
  <2>1. IsTriple(F1, 3, 4, 5)
    BY FaceTriples
  <2>2. h[1] = Promoted(h[0], c, <<2, F1>>)
    BY <1>6, <1>7
  <2>3. Promoted(h[0], c, <<2, F1>>) \subseteq h[4]
    BY <1>15, <1>16, <1>17, <2>2
  <2> HIDE DEF F1
  <2>4. Promoted(h[0], c, <<2, F1>>) = h[0]
    BY <1>14, <2>1, <2>3
  <2> QED
    BY <2>2, <2>4
<1> DEFINE a == h[4]
<1>19. /\ Promoted(a, c, <<2, {3,4,5}>>) = a /\ Promoted(a, c, <<2, {1,2,5}>>) = a
       /\ Promoted(a, c, <<2, {0,2,4}>>) = a /\ Promoted(a, c, <<2, {0,1,3}>>) = a
  BY <1>6, <1>7, <1>15, <1>16, <1>17, <1>18
<1> HIDE DEF a
<1>20. FacesClean(c, a)
  <2>1. ASSUME NEW x, NEW y, NEW z, NEW F1, IsTriple(F1, x, y, z), Promoted(a, c, <<2, F1>>) = a
        PROVE  ~ TwoOf(c2e(c, x) \in a, c2e(c, y) \in a, c2e(c, z) \in a)
    BY <2>1, FaceRule
  <2>2. ~ TwoOf(c2e(c, 3) \in a, c2e(c, 4) \in a, c2e(c, 5) \in a)
    BY <1>19, <2>1, FaceTriples
  <2>3. ~ TwoOf(c2e(c, 1) \in a, c2e(c, 2) \in a, c2e(c, 5) \in a)
    BY <1>19, <2>1, FaceTriples
  <2>4. ~ TwoOf(c2e(c, 0) \in a, c2e(c, 2) \in a, c2e(c, 4) \in a)
    BY <1>19, <2>1, FaceTriples
  <2>5. ~ TwoOf(c2e(c, 0) \in a, c2e(c, 1) \in a, c2e(c, 3) \in a)
    BY <1>19, <2>1, FaceTriples
  <2> QED
    BY <2>2, <2>3, <2>4, <2>5 DEF FacesClean
<1>21. a \subseteq s /\ Cardinality(CellEdges(c) \cap a) = 2
  BY <1>10 DEF a
<1> QED
  BY <1>20, <1>21, ClosedTet, PairClosesTet

(* A cell of any kind marks only what every closed set above its marks has. *)
LEMMA PromoteCellBelow ==
  ASSUME NEW c \in Mesh, NEW m \in SUBSET Edges, NEW s, m \subseteq s, Closed(s)
  PROVE  PromoteCell(m, c) \subseteq s
<1>1. CASE c.kind = "tet"
  BY <1>1, PromoteTetBelow
<1>2. CASE c.kind # "tet"
  <2> DEFINE S == SUBSET Edges
             F == promotion(c)
             list == Rules(c.kind)
             T == ToSet(list)
             Good == {a \in S : a \subseteq s}
  <2>1. F \in [T -> [S -> S]] /\ list \in Seq(T) /\ m \in S
    BY PromotionType
  <2>2. PromoteCell(m, c) = InTurn(F, m, list)
    BY DEF PromoteCell, promotion
  <2>3. m \in Good /\ Good \in SUBSET S
    OBVIOUS
  <2>4. ASSUME NEW k \in 1 .. Len(list), NEW a \in Good PROVE F[list[k]][a] \in Good
    <3>1. list[k] \in T /\ F[list[k]][a] = Promoted(a, c, list[k])
      BY PromotionType
    <3>2. F[list[k]][a] \in S
      BY <2>1, <3>1
    <3>3. WantsAllButOne(list[k])
      BY <1>2, MeshAssumption, RuleForms DEF Kinds
    <3>4. Promoted(a, c, list[k]) \subseteq s
      BY <3>1, <3>3, PromotedBelow
    <3> QED
      BY <3>1, <3>2, <3>4
  <2> HIDE DEF S, F, list, T, Good
  <2>5. InTurn(F, m, list) \in Good
    BY <2>1, <2>3, <2>4, InTurnKeeps
  <2> QED
    BY <2>2, <2>5 DEF Good
<1> QED
  BY <1>1, <1>2

(* A rank sweeps over the cells it holds. *)
Ordered(r) == input.order[r] \in Seq(Mesh) /\ ToSet(input.order[r]) = Held(r)

(* A sweep that promotes: it adds held edges only, stays below any closed   *)
(* set, and changes nothing only if no cell of the rank does.               *)
LEMMA PromoteSweepGrows ==
  ASSUME NEW r \in Rank, Ordered(r), NEW m \in SUBSET HeldEdges[r]
  PROVE  /\ PromoteSweep(r, m) \in SUBSET HeldEdges[r]
         /\ m \subseteq PromoteSweep(r, m)
         /\ PromoteSweep(r, m) = m => \A c \in Held(r) : PromoteCell(m, c) = m
         /\ \A s : Closed(s) /\ m \subseteq s => PromoteSweep(r, m) \subseteq s
<1> DEFINE S == SUBSET Edges
           F == [c \in Mesh |-> [acc \in SUBSET Edges |-> PromoteCell(acc, c)]]
           list == input.order[r]
           Good == {a \in S : /\ a \subseteq HeldEdges[r]
                              /\ \A s : Closed(s) /\ m \subseteq s => a \subseteq s}
<1>1. F \in [Mesh -> [S -> S]]
  BY PromoteCellGrows
<1>2. list \in Seq(Mesh) /\ m \in S
  BY HeldIsPart DEF Ordered
<1>3. PromoteSweep(r, m) = InTurn(F, m, list)
  BY DEF PromoteSweep
<1>4. \A k \in 1 .. Len(list) : list[k] \in Held(r) /\ list[k] \in Mesh
  <2>1. \A k \in 1 .. Len(list) : list[k] \in ToSet(list)
    BY <1>2, ListOfEntries
  <2> QED
    BY <1>2, <2>1 DEF Ordered
<1>5. \A c \in Held(r) : \E k \in 1 .. Len(list) : c = list[k]
  BY <1>2 DEF Ordered, ToSet
<1>6. \A k \in 1 .. Len(list) : \A a \in S : F[list[k]][a] = PromoteCell(a, list[k])
  BY <1>4
<1>7. ASSUME NEW k \in 1 .. Len(list), NEW a \in S PROVE a \subseteq F[list[k]][a]
  BY <1>4, <1>6, PromoteCellGrows
<1>8. ASSUME NEW k \in 1 .. Len(list), NEW a \in Good PROVE F[list[k]][a] \in Good
  <2> DEFINE b == PromoteCell(a, list[k])
  <2>1. F[list[k]][a] = b /\ b \in S /\ b \subseteq a \cup CellEdges(list[k])
    BY <1>4, <1>6, PromoteCellGrows
  <2>2. CellEdges(list[k]) \subseteq HeldEdges[r]
    BY <1>4, HeldIsPart
  <2>3. \A s : Closed(s) /\ a \subseteq s => b \subseteq s
    BY <1>4, PromoteCellBelow
  <2> HIDE DEF b
  <2> QED
    BY <2>1, <2>2, <2>3
<1>9. m \in Good /\ Good \in SUBSET S
  BY <1>2
<1> HIDE DEF S, F, list, Good
<1>10. /\ m \subseteq InTurn(F, m, list)
       /\ InTurn(F, m, list) = m => \A k \in 1 .. Len(list) : F[list[k]][m] = m
  BY <1>1, <1>2, <1>7, InTurnGrows
<1>11. InTurn(F, m, list) \in Good
  BY <1>1, <1>2, <1>8, <1>9, InTurnKeeps
<1>12. InTurn(F, m, list) = m => \A c \in Held(r) : PromoteCell(m, c) = m
  BY <1>2, <1>5, <1>6, <1>10
<1> QED
  BY <1>3, <1>10, <1>11, <1>12 DEF Good

(* Marks that no cell extends are closed. *)
LEMMA UnextendedIsClosed ==
  ASSUME NEW m \in SUBSET Edges, \A c \in Mesh : PromoteCell(m, c) = m
  PROVE  Closed(m)
<1> SUFFICES ASSUME NEW c \in Mesh, NEW rule \in ToSet(Rules(c.kind)),
                    Cardinality(EdgesOf(c, rule[2]) \cap m) = rule[1]
             PROVE  EdgesOf(c, rule[2]) \subseteq m
  BY DEF Closed
<1>1. Promoted(m, c, rule) = m
  BY PromoteCellGrows
<1> QED
  BY <1>1 DEF Promoted

(* A cell sees only the marks on its own edges. *)
LEMMA PromotionIsLocal ==
  ASSUME NEW c \in Mesh, NEW H \in SUBSET Edges, CellEdges(c) \subseteq H,
         NEW m \in SUBSET Edges, PromoteCell(m \cap H, c) = m \cap H
  PROVE  \A rule \in ToSet(Rules(c.kind)) :
            Cardinality(EdgesOf(c, rule[2]) \cap m) = rule[1] => EdgesOf(c, rule[2]) \subseteq m
<1> SUFFICES ASSUME NEW rule \in ToSet(Rules(c.kind)),
                    Cardinality(EdgesOf(c, rule[2]) \cap m) = rule[1]
             PROVE  EdgesOf(c, rule[2]) \subseteq m
  OBVIOUS
<1>1. Promoted(m \cap H, c, rule) = m \cap H
  BY PromoteCellGrows
<1>2. EdgesOf(c, rule[2]) \subseteq CellEdges(c)
  <2>1. c.kind \in Kinds
    BY MeshAssumption DEF Kinds
  <2>2. PICK k \in 1 .. Len(Rules(c.kind)) : rule = Rules(c.kind)[k]
    BY <2>1, RuleForms DEF ToSet
  <2> DEFINE S == Nat \X SUBSET EdgeNumbers(c.kind)
             R == Rules(c.kind)
  <2>3. R \in Seq(S) /\ k \in 1 .. Len(R) /\ rule = R[k]
    BY <2>1, <2>2, RuleForms
  <2> HIDE DEF S, R
  <2>4. rule \in S
    BY <2>3
  <2>5. rule[2] \subseteq EdgeNumbers(c.kind)
    BY <2>4 DEF S
  <2> QED
    BY <2>5 DEF EdgesOf, CellEdges
<1>3. EdgesOf(c, rule[2]) \cap (m \cap H) = EdgesOf(c, rule[2]) \cap m
  BY <1>2
<1> DEFINE E == EdgesOf(c, rule[2])
           a == m \cap H
<1>4. Promoted(a, c, rule) = IF Cardinality(E \cap a) = rule[1] THEN a \cup E ELSE a
  BY DEF Promoted
<1>5. E \cap a = E \cap m /\ Promoted(a, c, rule) = a /\ Cardinality(E \cap m) = rule[1] /\ a \subseteq m
  BY <1>1, <1>3
<1> HIDE DEF E, a
<1>6. a \cup E = a
  BY <1>4, <1>5
<1> QED
  BY <1>5, <1>6 DEF E

(* e comes before all other marks. *)
Least(e, m) == e \in m /\ \A x \in m : x = e \/ Before(e, x)

(* b is left of the marks a: the least mark stays. *)
Unmarking(a, b) == b \subseteq a /\ \A x : Least(x, a) => x \in b

(* Of two marks one is taken away, and never the least mark. *)
LEMMA UnmarkOne ==
  ASSUME NEW m \in SUBSET Edges, NEW e \in m, NEW f \in m, e # f
  PROVE  /\ Unmarking(m, UnmarkOneOfTwo(m, e, f))
         /\ UnmarkOneOfTwo(m, e, f) # m
<1> DEFINE g == IF Before(e, f) THEN f ELSE e
<1>1. UnmarkOneOfTwo(m, e, f) = m \ {g} /\ g \in m
  BY DEF UnmarkOneOfTwo
<1>2. ASSUME Least(g, m) PROVE FALSE
  <2>1. /\ Low(e) \in Nat /\ High(e) \in Nat /\ Low(f) \in Nat /\ High(f) \in Nat
    BY EdgeIsPair
  <2>2. CASE Before(e, f)
    <3>1. Before(f, e)
      BY <1>2, <2>2 DEF Least
    <3> QED
      BY <2>1, <2>2, <3>1 DEF Before
  <2>3. CASE ~ Before(e, f)
    BY <1>2, <2>3 DEF Least
  <2> QED
    BY <2>2, <2>3
<1> HIDE DEF g
<1>3. \A x : Least(x, m) => x \in m /\ x # g
  BY <1>2 DEF Least
<1> QED
  BY <1>1, <1>3 DEF Unmarking

(* A face with two marks loses one. *)
LEMMA FaceUnmarks ==
  ASSUME NEW t \in Mesh, t.kind = "tet", NEW m \in SUBSET Edges,
         NEW F, NEW i, NEW j, NEW k, IsTriple(F, i, j, k)
  PROVE  /\ Unmarking(m, ref_subdiv_unmark_tet_face(m, t, F))
         /\ ref_subdiv_unmark_tet_face(m, t, F) = m
               => ~ TwoOf(c2e(t, i) \in m, c2e(t, j) \in m, c2e(t, k) \in m)
<1> DEFINE two == EdgesOf(t, F) \cap m
           e == CHOOSE x \in two : TRUE
           f == CHOOSE x \in two : x # e
<1>1. Cardinality(two) = 2 <=> TwoOf(c2e(t, i) \in m, c2e(t, j) \in m, c2e(t, k) \in m)
  <2>1. EdgesOf(t, F) = {c2e(t, i), c2e(t, j), c2e(t, k)}
    BY DEF EdgesOf, IsTriple
  <2>2. c2e(t, i) # c2e(t, j) /\ c2e(t, i) # c2e(t, k) /\ c2e(t, j) # c2e(t, k)
    BY TetEdges DEF IsTriple
  <2> QED
    BY <2>1, <2>2, TwoOfThree
<1>2. ref_subdiv_unmark_tet_face(m, t, F)
        = IF Cardinality(two) # 2 THEN m ELSE UnmarkOneOfTwo(m, e, f)
  BY DEF ref_subdiv_unmark_tet_face
<1>3. Unmarking(m, m)
  BY DEF Unmarking, Least
<1>4. ASSUME Cardinality(two) = 2 PROVE e \in m /\ f \in m /\ e # f
  <2>1. IsFiniteSet(two)
    <3>1. EdgesOf(t, F) \subseteq CellEdges(t)
      BY EdgeEnds DEF EdgesOf, CellEdges, IsTriple
    <3>2. IsFiniteSet(CellEdges(t))
      BY TetEdges
    <3> QED
      BY <3>1, <3>2, FS_Subset, FS_Intersection
  <2>2. two \subseteq m
    OBVIOUS
  <2> HIDE DEF two
  <2>3. \E x, y \in two : x # y
    BY <1>4, <2>1, PairSet
  <2>4. e \in two
    BY <2>3
  <2> HIDE DEF e
  <2>5. f \in two /\ f # e
    BY <2>3
  <2> QED
    BY <2>2, <2>4, <2>5
<1> HIDE DEF two, e, f
<1> QED
  BY <1>1, <1>2, <1>3, <1>4, UnmarkOne

(* A pair of opposite edges with marks loses one. *)
LEMMA OppositeUnmarks ==
  ASSUME NEW t \in Mesh, t.kind = "tet", NEW m \in SUBSET Edges,
         NEW i \in 0 .. 5, NEW j \in 0 .. 5, i # j, NEW pair, pair[1] = i, pair[2] = j
  PROVE  /\ Unmarking(m, ref_subdiv_unmark_tet_opp_edge(m, t, pair))
         /\ ref_subdiv_unmark_tet_opp_edge(m, t, pair) = m
               => ~ (c2e(t, i) \in m /\ c2e(t, j) \in m)
<1> DEFINE e == c2e(t, i)
           f == c2e(t, j)
<1>1. EdgesOf(t, {pair[1], pair[2]}) = {e, f}
  BY DEF EdgesOf
<1>2. e # f
  BY TetEdges
<1>3. Unmarking(m, m)
  BY DEF Unmarking, Least
<1>4. ref_subdiv_unmark_tet_opp_edge(m, t, pair)
        = IF EdgesOf(t, {pair[1], pair[2]}) \subseteq m THEN UnmarkOneOfTwo(m, e, f) ELSE m
  BY DEF ref_subdiv_unmark_tet_opp_edge
<1>5. ref_subdiv_unmark_tet_opp_edge(m, t, pair)
        = IF e \in m /\ f \in m THEN UnmarkOneOfTwo(m, e, f) ELSE m
  BY <1>1, <1>4
<1> HIDE DEF e, f
<1>6. CASE e \in m /\ f \in m
  BY <1>2, <1>5, <1>6, UnmarkOne DEF e, f
<1>7. CASE ~ (e \in m /\ f \in m)
  BY <1>3, <1>5, <1>7 DEF e, f
<1> QED
  BY <1>6, <1>7

(* Every entry of the list takes marks away. *)
Unmarks(F, S, list) ==
  \A k \in 1 .. Len(list) : \A a \in S : Unmarking(a, F[list[k]][a])

(* And so does the loop; if it changes nothing, no entry does. *)
LEMMA InTurnUnmarks ==
  ASSUME NEW S, NEW T, NEW F \in [T -> [S -> S]], NEW m \in S, NEW list \in Seq(T),
         Unmarks(F, S, list)
  PROVE  /\ InTurn(F, m, list) \in S
         /\ Unmarking(m, InTurn(F, m, list))
         /\ InTurn(F, m, list) = m => Idle(F, m, list)
<1> DEFINE u == InTurn(F, m, list)
<1>1. Shrinks(F, S, list)
  BY DEF Unmarks, Unmarking, Shrinks
<1>2. F \in [T -> [S -> S]] /\ m \in S
  OBVIOUS
<1>3. ASSUME NEW x, Least(x, m) PROVE x \in u
  <2> DEFINE Good == {a \in S : Least(x, a)}
  <2>1. ASSUME NEW k \in 1 .. Len(list), NEW a \in Good PROVE F[list[k]][a] \in Good
    <3> DEFINE b == F[list[k]][a]
    <3>1. b \in S
      OBVIOUS
    <3>2. Unmarking(a, b)
      BY DEF Unmarks
    <3> HIDE DEF b
    <3>3. b \subseteq a /\ x \in b /\ Least(x, a)
      BY <3>2 DEF Unmarking
    <3>4. Least(x, b)
      BY <3>3 DEF Least
    <3> QED
      BY <3>1, <3>4 DEF b
  <2>2. m \in Good /\ Good \in SUBSET S
    BY <1>3
  <2> HIDE DEF Good
  <2>3. u \in Good
    BY <1>2, <2>1, <2>2, InTurnKeeps
  <2> QED
    BY <2>3 DEF Good, Least
<1>4. u \subseteq m /\ (u = m => Idle(F, m, list))
  BY <1>1, <1>2, InTurnShrinks
<1>5. u \in S
  <2> DEFINE Good == S
  <2>1. ASSUME NEW k \in 1 .. Len(list), NEW a \in Good PROVE F[list[k]][a] \in Good
    OBVIOUS
  <2>2. m \in Good /\ Good \in SUBSET S
    OBVIOUS
  <2> HIDE DEF Good
  <2>3. u \in Good
    BY <1>2, <2>1, <2>2, InTurnKeeps
  <2> QED
    BY <2>3 DEF Good
<1> QED
  BY <1>3, <1>4, <1>5 DEF Unmarking

(* The lists of faces and of opposite edges of a tet. *)
LEMMA TetLists ==
  /\ TetFaces \in Seq(ToSet(TetFaces)) /\ Len(TetFaces) = 4
  /\ TetOpposites \in Seq(ToSet(TetOpposites)) /\ Len(TetOpposites) = 3
  /\ \A k \in 1 .. 4 : TetFaces[k] \in ToSet(TetFaces)
  /\ \A k \in 1 .. 3 : TetOpposites[k] \in ToSet(TetOpposites)
  /\ IsTriple(TetFaces[1], 3, 4, 5) /\ IsTriple(TetFaces[2], 1, 2, 5)
  /\ IsTriple(TetFaces[3], 0, 2, 4) /\ IsTriple(TetFaces[4], 0, 1, 3)
  /\ TetOpposites[1] = <<0, 5>> /\ TetOpposites[2] = <<1, 4>> /\ TetOpposites[3] = <<2, 3>>
<1>1. TetFaces \in Seq({TetFaces[1], TetFaces[2], TetFaces[3], TetFaces[4]}) /\ Len(TetFaces) = 4
  <2> DEFINE a == {3,4,5}
             b == {1,2,5}
             c == {0,4,2}
             d == {0,1,3}
  <2>1. TetFaces = <<a, b, c, d>>
    BY DEF TetFaces
  <2> HIDE DEF a, b, c, d
  <2> QED
    BY <2>1
<1>2. TetOpposites \in Seq({TetOpposites[1], TetOpposites[2], TetOpposites[3]}) /\ Len(TetOpposites) = 3
  <2> DEFINE a == <<0,5>>
             b == <<1,4>>
             c == <<2,3>>
  <2>1. TetOpposites = <<a, b, c>>
    BY DEF TetOpposites
  <2> HIDE DEF a, b, c
  <2> QED
    BY <2>1
<1>3. /\ TetFaces \in Seq(ToSet(TetFaces)) /\ TetOpposites \in Seq(ToSet(TetOpposites))
      /\ \A k \in 1 .. 4 : TetFaces[k] \in ToSet(TetFaces)
      /\ \A k \in 1 .. 3 : TetOpposites[k] \in ToSet(TetOpposites)
  BY <1>1, <1>2, ListOfEntries
<1>4. /\ TetFaces[1] = {3,4,5} /\ TetFaces[2] = {1,2,5} /\ TetFaces[3] = {0,4,2}
      /\ TetFaces[4] = {0,1,3}
  BY DEF TetFaces
<1>5. /\ TetOpposites[1] = <<0, 5>> /\ TetOpposites[2] = <<1, 4>> /\ TetOpposites[3] = <<2, 3>>
  BY DEF TetOpposites
<1> QED
  BY <1>1, <1>2, <1>3, <1>4, <1>5, FaceTriples

(* The faces of a tet, one after the other. *)
LEMMA FacesUnmark ==
  ASSUME NEW t \in Mesh, t.kind = "tet", NEW m \in SUBSET Edges
  PROVE  /\ UnmarkFaces(m, t) \in SUBSET Edges
         /\ Unmarking(m, UnmarkFaces(m, t))
         /\ UnmarkFaces(m, t) = m => FacesClean(t, m)
<1> DEFINE S == SUBSET Edges
           T == ToSet(TetFaces)
           F == [face \in T |-> [acc \in S |-> ref_subdiv_unmark_tet_face(acc, t, face)]]
<1>1. \A k \in 1 .. 4 : \A a \in S : F[TetFaces[k]][a] = ref_subdiv_unmark_tet_face(a, t, TetFaces[k])
  BY TetLists
<1>2. \A k \in 1 .. 4 : k = 1 \/ k = 2 \/ k = 3 \/ k = 4
  OBVIOUS
<1>3. \A k \in 1 .. 4 : \E x, y, z : IsTriple(TetFaces[k], x, y, z)
  BY <1>2, TetLists
<1>4. \A k \in 1 .. 4 : \A a \in S : Unmarking(a, ref_subdiv_unmark_tet_face(a, t, TetFaces[k]))
  BY <1>3, FaceUnmarks
<1>5. \A face \in T : \E k \in 1 .. 4 : face = TetFaces[k]
  BY TetLists DEF ToSet
<1>6. F \in [T -> [S -> S]]
  <2>1. \A face \in T : \A a \in S : ref_subdiv_unmark_tet_face(a, t, face) \in S
    BY <1>4, <1>5 DEF Unmarking
  <2> QED
    BY <2>1
<1>7. UnmarkFaces(m, t) = InTurn(F, m, TetFaces)
  BY DEF UnmarkFaces
<1>8. Unmarks(F, S, TetFaces)
  BY <1>1, <1>4, TetLists DEF Unmarks
<1>9. TetFaces \in Seq(T) /\ m \in S
  BY TetLists
<1> HIDE DEF F, T, S
<1>10. /\ InTurn(F, m, TetFaces) \in S
       /\ Unmarking(m, InTurn(F, m, TetFaces))
       /\ InTurn(F, m, TetFaces) = m => Idle(F, m, TetFaces)
  BY <1>6, <1>8, <1>9, InTurnUnmarks
<1>11. ASSUME UnmarkFaces(m, t) = m PROVE FacesClean(t, m)
  <2>1. \A k \in 1 .. 4 : F[TetFaces[k]][m] = m
    BY <1>7, <1>10, <1>11, TetLists DEF Idle
  <2>2. \A k \in 1 .. 4 : ref_subdiv_unmark_tet_face(m, t, TetFaces[k]) = m
    BY <1>1, <1>9, <2>1
  <2>3. /\ ref_subdiv_unmark_tet_face(m, t, TetFaces[1]) = m
        /\ ref_subdiv_unmark_tet_face(m, t, TetFaces[2]) = m
        /\ ref_subdiv_unmark_tet_face(m, t, TetFaces[3]) = m
        /\ ref_subdiv_unmark_tet_face(m, t, TetFaces[4]) = m
    BY <2>2
  <2>4. ~ TwoOf(c2e(t, 3) \in m, c2e(t, 4) \in m, c2e(t, 5) \in m)
    BY <2>3, TetLists, FaceUnmarks
  <2>5. ~ TwoOf(c2e(t, 1) \in m, c2e(t, 2) \in m, c2e(t, 5) \in m)
    BY <2>3, TetLists, FaceUnmarks
  <2>6. ~ TwoOf(c2e(t, 0) \in m, c2e(t, 2) \in m, c2e(t, 4) \in m)
    BY <2>3, TetLists, FaceUnmarks
  <2>7. ~ TwoOf(c2e(t, 0) \in m, c2e(t, 1) \in m, c2e(t, 3) \in m)
    BY <2>3, TetLists, FaceUnmarks
  <2> QED
    BY <2>4, <2>5, <2>6, <2>7 DEF FacesClean
<1> QED
  BY <1>7, <1>10, <1>11 DEF S

(* The pairs of opposite edges, one after the other. *)
LEMMA OppositesUnmark ==
  ASSUME NEW t \in Mesh, t.kind = "tet", NEW m \in SUBSET Edges
  PROVE  /\ UnmarkOpposites(m, t) \in SUBSET Edges
         /\ Unmarking(m, UnmarkOpposites(m, t))
         /\ UnmarkOpposites(m, t) = m =>
              ~ (OnlyMarks(t, m, 0, 5) \/ OnlyMarks(t, m, 1, 4) \/ OnlyMarks(t, m, 2, 3))
<1> DEFINE S == SUBSET Edges
           T == ToSet(TetOpposites)
           F == [pair \in T |-> [acc \in S |-> ref_subdiv_unmark_tet_opp_edge(acc, t, pair)]]
           L == TetOpposites
<1>1. \A k \in 1 .. 3 : \A a \in S : F[L[k]][a] = ref_subdiv_unmark_tet_opp_edge(a, t, L[k])
  BY TetLists
<1>2. \A k \in 1 .. 3 : k = 1 \/ k = 2 \/ k = 3
  OBVIOUS
<1>3. \A k \in 1 .. 3 : L[k][1] \in 0 .. 5 /\ L[k][2] \in 0 .. 5 /\ L[k][1] # L[k][2]
  <2>1. /\ L[1][1] = 0 /\ L[1][2] = 5 /\ L[2][1] = 1 /\ L[2][2] = 4 /\ L[3][1] = 2 /\ L[3][2] = 3
    BY TetLists
  <2> HIDE DEF L
  <2> QED
    BY <1>2, <2>1
<1>4. \A k \in 1 .. 3 : \A a \in S :
        /\ Unmarking(a, ref_subdiv_unmark_tet_opp_edge(a, t, L[k]))
        /\ ref_subdiv_unmark_tet_opp_edge(a, t, L[k]) = a
              => ~ (c2e(t, L[k][1]) \in a /\ c2e(t, L[k][2]) \in a)
  BY <1>3, OppositeUnmarks
<1>5. \A pair \in T : \E k \in 1 .. 3 : pair = L[k]
  BY TetLists DEF ToSet
<1>6. F \in [T -> [S -> S]]
  <2>1. \A pair \in T : \A a \in S : ref_subdiv_unmark_tet_opp_edge(a, t, pair) \in S
    <3> SUFFICES ASSUME NEW pair \in T, NEW a \in S
                 PROVE  ref_subdiv_unmark_tet_opp_edge(a, t, pair) \in S
      OBVIOUS
    <3>1. PICK k \in 1 .. 3 : pair = L[k]
      BY <1>5
    <3> QED
      BY <1>4, <3>1 DEF Unmarking
  <2> QED
    BY <2>1
<1>7. UnmarkOpposites(m, t) = InTurn(F, m, L)
  BY DEF UnmarkOpposites
<1>8. Unmarks(F, S, L)
  BY <1>1, <1>4, TetLists DEF Unmarks
<1>9. L \in Seq(T) /\ m \in S /\ Len(L) = 3
  BY TetLists
<1>10. /\ L[1] = <<0, 5>> /\ L[2] = <<1, 4>> /\ L[3] = <<2, 3>>
  BY TetLists
<1> HIDE DEF F, T, S, L
<1>11. /\ InTurn(F, m, L) \in S
       /\ Unmarking(m, InTurn(F, m, L))
       /\ InTurn(F, m, L) = m => Idle(F, m, L)
  BY <1>6, <1>8, <1>9, InTurnUnmarks
<1>12. ASSUME UnmarkOpposites(m, t) = m
       PROVE  ~ (OnlyMarks(t, m, 0, 5) \/ OnlyMarks(t, m, 1, 4) \/ OnlyMarks(t, m, 2, 3))
  <2>1. \A k \in 1 .. 3 : F[L[k]][m] = m
    BY <1>7, <1>9, <1>11, <1>12 DEF Idle
  <2>2. \A k \in 1 .. 3 : ~ (c2e(t, L[k][1]) \in m /\ c2e(t, L[k][2]) \in m)
    BY <1>1, <1>4, <1>9, <2>1
  <2>3. /\ ~ (c2e(t, 0) \in m /\ c2e(t, 5) \in m)
        /\ ~ (c2e(t, 1) \in m /\ c2e(t, 4) \in m)
        /\ ~ (c2e(t, 2) \in m /\ c2e(t, 3) \in m)
    <3>1. 1 \in 1 .. 3 /\ 2 \in 1 .. 3 /\ 3 \in 1 .. 3
      OBVIOUS
    <3>2. /\ L[1][1] = 0 /\ L[1][2] = 5 /\ L[2][1] = 1 /\ L[2][2] = 4 /\ L[3][1] = 2 /\ L[3][2] = 3
      BY <1>10
    <3> QED
      BY <2>2, <3>1, <3>2
  <2> QED
    BY <2>3 DEF OnlyMarks
<1> QED
  BY <1>7, <1>11, <1>12 DEF S

(* A cell whose unmarking changes nothing has a pattern of the templates if *)
(* it is a tet.                                                             *)
LEMMA CellUnmarks ==
  ASSUME NEW c \in Mesh, NEW m \in SUBSET Edges
  PROVE  /\ UnmarkCell(m, c) \in SUBSET Edges
         /\ Unmarking(m, UnmarkCell(m, c))
         /\ UnmarkCell(m, c) = m /\ c.kind = "tet" => ref_subdiv_map(c, m) \in TetMaps
<1>1. CASE c.kind # "tet"
  <2>1. UnmarkCell(m, c) = m
    BY <1>1 DEF UnmarkCell
  <2> QED
    BY <1>1, <2>1 DEF Unmarking, Least
<1>2. CASE c.kind = "tet"
  <2> DEFINE f == UnmarkFaces(m, c)
             g == UnmarkOpposites(f, c)
             u == UnmarkCell(m, c)
  <2>1. u = IF Cardinality(CellEdges(c) \cap f) = 2 THEN g ELSE f
    BY <1>2 DEF UnmarkCell, ref_subdiv_unmark_tet
  <2>2. f \in SUBSET Edges /\ Unmarking(m, f) /\ (f = m => FacesClean(c, m))
    BY <1>2, FacesUnmark
  <2>3. /\ g \in SUBSET Edges /\ Unmarking(f, g)
        /\ g = f => ~ (OnlyMarks(c, f, 0, 5) \/ OnlyMarks(c, f, 1, 4) \/ OnlyMarks(c, f, 2, 3))
    <3> HIDE DEF f
    <3> QED
      BY <1>2, <2>2, OppositesUnmark
  <2> HIDE DEF f, g, u
  <2>4. g \subseteq f /\ f \subseteq m
    BY <2>2, <2>3 DEF Unmarking
  <2>5. Unmarking(m, g)
    <3> SUFFICES ASSUME NEW x, Least(x, m) PROVE x \in g
      BY <2>4 DEF Unmarking
    <3>1. x \in f
      BY <2>2 DEF Unmarking
    <3>2. Least(x, f)
      BY <2>4, <3>1 DEF Least
    <3> QED
      BY <2>3, <3>2 DEF Unmarking
  <2>6. ASSUME u = m PROVE ref_subdiv_map(c, m) \in TetMaps
    <3>1. f = m
      BY <2>1, <2>4, <2>6
    <3>2. FacesClean(c, m)
      BY <2>2, <3>1
    <3>3. CASE Cardinality(CellEdges(c) \cap f) = 2
      <4>1. g = f
        BY <2>1, <2>6, <3>1, <3>3
      <4> QED
        BY <1>2, <2>3, <3>1, <3>2, <4>1, CleanPatterns
    <3>4. CASE Cardinality(CellEdges(c) \cap f) # 2
      <4>1. ~ \E i, j \in 0 .. 5 : i # j /\ OnlyMarks(c, m, i, j)
        BY <1>2, <3>1, <3>4, TwoOfSix
      <4>2. ~ OnlyMarks(c, m, 0, 5) /\ ~ OnlyMarks(c, m, 1, 4) /\ ~ OnlyMarks(c, m, 2, 3)
        BY <4>1
      <4> QED
        BY <1>2, <3>2, <4>2, CleanPatterns
    <3> QED
      BY <3>3, <3>4
  <2>7. u \in SUBSET Edges /\ Unmarking(m, u)
    BY <2>1, <2>2, <2>3, <2>5
  <2> QED
    BY <2>6, <2>7 DEF u
<1> QED
  BY <1>1, <1>2

(* A sweep that unmarks. *)
LEMMA UnmarkSweepShrinks ==
  ASSUME NEW r \in Rank, Ordered(r), NEW m \in SUBSET HeldEdges[r]
  PROVE  /\ Unmarking(m, UnmarkSweep(r, m))
         /\ UnmarkSweep(r, m) = m =>
              \A c \in Held(r) : c.kind = "tet" => ref_subdiv_map(c, m) \in TetMaps
<1> DEFINE S == SUBSET Edges
           F == [c \in Mesh |-> [acc \in SUBSET Edges |-> UnmarkCell(acc, c)]]
           list == input.order[r]
<1>1. F \in [Mesh -> [S -> S]]
  BY CellUnmarks
<1>2. list \in Seq(Mesh) /\ m \in S
  BY HeldIsPart DEF Ordered
<1>3. UnmarkSweep(r, m) = InTurn(F, m, list)
  BY DEF UnmarkSweep
<1>4. \A k \in 1 .. Len(list) : list[k] \in Mesh
  BY <1>2
<1>5. \A c \in Held(r) : \E k \in 1 .. Len(list) : c = list[k]
  BY <1>2 DEF Ordered, ToSet
<1>6. \A k \in 1 .. Len(list) : \A a \in S : F[list[k]][a] = UnmarkCell(a, list[k])
  BY <1>4
<1>7. Unmarks(F, S, list)
  BY <1>4, <1>6, CellUnmarks DEF Unmarks
<1> HIDE DEF S, F, list
<1>8. /\ Unmarking(m, InTurn(F, m, list))
      /\ InTurn(F, m, list) = m => Idle(F, m, list)
  BY <1>1, <1>2, <1>7, InTurnUnmarks
<1>9. ASSUME InTurn(F, m, list) = m, NEW c \in Held(r), c.kind = "tet"
      PROVE  ref_subdiv_map(c, m) \in TetMaps
  <2>1. PICK k \in 1 .. Len(list) : c = list[k]
    BY <1>5
  <2>2. UnmarkCell(m, c) = m
    BY <1>2, <1>6, <1>8, <1>9, <2>1 DEF Idle
  <2>3. c \in Mesh /\ m \in SUBSET Edges
    BY <1>2, <1>4, <2>1 DEF S
  <2> QED
    BY <1>9, <2>2, <2>3, CellUnmarks
<1> QED
  BY <1>3, <1>8, <1>9

(* A sweep that looks for tets with a negative volume. *)
LEMMA UnmarkNegSweepShrinks ==
  ASSUME NEW r \in Rank, Ordered(r), NEW m \in SUBSET HeldEdges[r]
  PROVE  /\ UnmarkNegSweep(r, m) \subseteq m
         /\ input.inverted = {} => UnmarkNegSweep(r, m) = m
<1> DEFINE S == SUBSET Edges
           F == [c \in Mesh |-> [acc \in SUBSET Edges |-> UnmarkNegTet(acc, c)]]
           list == input.order[r]
<1>1. \A c \in Mesh : \A a \in S : UnmarkNegTet(a, c) \subseteq a
  BY DEF UnmarkNegTet
<1>2. F \in [Mesh -> [S -> S]]
  BY <1>1
<1>3. list \in Seq(Mesh) /\ m \in S
  BY HeldIsPart DEF Ordered
<1>4. UnmarkNegSweep(r, m) = InTurn(F, m, list)
  BY DEF UnmarkNegSweep
<1>5. \A k \in 1 .. Len(list) : list[k] \in Mesh
  BY <1>3
<1>6. \A k \in 1 .. Len(list) : \A a \in S : F[list[k]][a] = UnmarkNegTet(a, list[k])
  BY <1>5
<1>7. Shrinks(F, S, list)
  BY <1>1, <1>5, <1>6 DEF Shrinks
<1>8. ASSUME input.inverted = {} PROVE InTurn(F, m, list) = m
  <2> DEFINE Good == {m}
  <2>1. \A k \in 1 .. Len(list) : \A a \in Good : F[list[k]][a] \in Good
    <3> SUFFICES ASSUME NEW k \in 1 .. Len(list) PROVE F[list[k]][m] = m
      OBVIOUS
    <3>1. UnmarkNegTet(m, list[k]) = m
      BY <1>8 DEF UnmarkNegTet
    <3> QED
      BY <1>3, <1>6, <3>1
  <2>2. m \in Good /\ Good \in SUBSET S
    BY <1>3
  <2> HIDE DEF S, F, list, Good
  <2>3. InTurn(F, m, list) \in Good
    BY <1>2, <1>3, <2>1, <2>2, InTurnKeeps
  <2> QED
    BY <2>3 DEF Good
<1> HIDE DEF S, F, list
<1>9. InTurn(F, m, list) \subseteq m
  BY <1>2, <1>3, <1>7, InTurnShrinks
<1> QED
  BY <1>4, <1>8, <1>9

------------------------------------------------------------------------------
(* The inductive invariant *)

(* All ranks have the marks A, as far as they hold the edges. *)
Shared(m, A) == \A r \in Rank : m[r] = A \cap HeldEdges[r]

(* The marks mark_relax starts from. *)
Target == IF input.allow_geometry THEN Requested ELSE Requested \ input.support

(* A is the least closed set above them. *)
Below(A) == \A m \in SUBSET Edges : Target \subseteq m /\ Closed(m) => A \subseteq m
LeastClosed(A) == Target \subseteq A /\ Closed(A) /\ Below(A)

(* Every tet has a pattern of the templates. *)
TetsReady(A) == \A c \in Mesh : c.kind = "tet" => ref_subdiv_map(c, A) \in TetMaps

(* Nothing but the request and its order decides which marks are left. *)
Undisturbed == ~ input.new_mark_allowed /\ input.inverted = {} /\ input.support = {}

(* Then only requested edges are marked, and the least one still is. *)
LeastKept(A) ==
  Undisturbed => A \subseteq Requested /\ \A e : Least(e, Requested) => e \in A

(* A sweep that started from the marks A. *)
Sweeping(A) ==
  \A r \in Rank : /\ mark[r] \subseteq A \cap HeldEdges[r]
                  /\ r \in again <=> mark[r] # A \cap HeldEdges[r]

(* Every held mark has its node. *)
Backed(A) == \A r \in Rank : A \cap HeldEdges[r] \subseteq node[r]

(* The sweeps still possible. *)
Counted(n, A) == n + Cardinality(A) <= Cardinality(Edges)

(* The phases of ref_subdiv_split. *)
Phases == {"start", "geom", "relax", "geom_again", "possible", "new_node", "unmark",
           "neg", "possible_again", "new_node_again", "split", "done", "failed"}

(* Types, and what a rank may mark. *)
TypeInv ==
  /\ \A r \in Rank : Ordered(r) /\ input.asked[r] \subseteq HeldEdges[r]
  /\ mark \in [Rank -> SUBSET Edges] /\ \A r \in Rank : mark[r] \subseteq HeldEdges[r]
  /\ DOMAIN cells = Rank
  /\ phase \in Phases
  /\ again \subseteq swept /\ swept \subseteq Rank
  /\ nsweeps \in Nat /\ rounds \in Nat

(* Before the first unmarking. *)
EarlyInv ==
  /\ phase \in {"start", "geom", "relax", "geom_again", "possible", "new_node"} =>
       nsweeps = 0 /\ rounds = 0 /\ \A r \in Rank : node[r] = {}
  /\ phase \in {"start", "geom", "geom_again", "possible", "new_node",
                "possible_again", "new_node_again"} =>
       swept = {} /\ again = {}
  /\ phase \in {"geom", "geom_again"} => ~ input.allow_geometry
  /\ phase \in {"possible", "new_node", "neg"} => input.allow_geometry
  /\ phase = "start" => mark = input.asked
  /\ phase = "geom" => Shared(mark, Requested)
  /\ phase \in {"relax", "possible"} => input.new_mark_allowed

(* In mark_relax: the round began with the marks A on all ranks, and no     *)
(* rank is past a closed set above the target.                              *)
RelaxInv ==
  phase = "relax" => \E A \in SUBSET Edges :
    /\ Target \subseteq A
    /\ \A r \in Rank : /\ A \cap HeldEdges[r] \subseteq mark[r]
                       /\ Below(mark[r])
                       /\ r \notin again => mark[r] = A \cap HeldEdges[r]
    /\ \A r \in swept \ again : \A c \in Held(r) : PromoteCell(mark[r], c) = mark[r]

(* After it, or when it is passed over. *)
RelaxedInv ==
  /\ phase \in {"geom_again", "possible", "new_node"} /\ input.new_mark_allowed =>
       \E A \in SUBSET Edges : LeastClosed(A) /\ Shared(mark, A)
  /\ phase = "geom_again" /\ ~ input.new_mark_allowed => Shared(mark, Target)
  /\ phase = "new_node" /\ ~ input.new_mark_allowed => mark = input.asked

(* In unmark_relax: the round began with the marks A on all ranks. *)
UnmarkInv ==
  phase = "unmark" => \E A \in SUBSET Edges :
    /\ Sweeping(A) /\ LeastKept(A)
    /\ Counted(nsweeps, A) /\ Counted(rounds, A)
    /\ input.allow_geometry => Backed(A)
    /\ \A r \in Rank : Unmarking(A \cap HeldEdges[r], mark[r])
    /\ \A r \in swept \ again : \A c \in Held(r) :
         c.kind = "tet" => ref_subdiv_map(c, mark[r]) \in TetMaps

(* In unmark_neg_tet_relax: every tet had a pattern when the round began. *)
NegInv ==
  phase = "neg" => \E A \in SUBSET Edges :
    /\ Sweeping(A) /\ LeastKept(A)
    /\ nsweeps = 0 /\ Counted(rounds, A)
    /\ Backed(A) /\ TetsReady(A)
    /\ input.inverted = {} => again = {}

(* After the last unmarking. *)
SplitInv ==
  /\ phase \in {"possible_again", "new_node_again", "split", "done"} =>
       \E A \in SUBSET Edges : Shared(mark, A) /\ LeastKept(A) /\ TetsReady(A)
  /\ phase \in {"split", "done"} =>
       /\ \A r \in Rank : node[r] = mark[r]
       /\ \A r \in swept : Splittable(r) /\ cells[r] = LeftOver(r)
  /\ phase = "done" => swept = Rank

(* Nothing fails in a mesh of tets with fewer edges than the limit. *)
AllTets == \A c \in Mesh : c.kind = "tet"
SafeInv == AllTets /\ Cardinality(Edges) + 1 < SweepLimit => phase # "failed"

(* The inductive invariant. *)
IInv == /\ TypeInv /\ EarlyInv /\ RelaxInv /\ RelaxedInv /\ UnmarkInv /\ NegInv
        /\ SplitInv /\ SafeInv

------------------------------------------------------------------------------
(* The exchanges *)

(* The owners' marks, as the exchanges spread them. *)
OwnersMarks(m) == {e \in Edges : e \in m[ref_edge_part(e)]}

(* The marks no holder has taken away. *)
CommonMarks(m) == {e \in Edges : \A s \in Rank : e \in HeldEdges[s] => e \in m[s]}

(* ref_edge_ghost_int spreads the owners' marks. *)
LEMMA GhostShares ==
  ASSUME NEW m
  PROVE  /\ ref_edge_ghost_int(m) \in [Rank -> SUBSET Edges]
         /\ Shared(ref_edge_ghost_int(m), OwnersMarks(m))
         /\ OwnersMarks(m) \in SUBSET Edges
<1>1. \A r \in Rank : HeldEdges[r] \subseteq Edges
  BY HeldIsPart
<1>2. ref_edge_ghost_int(m) \in [Rank -> SUBSET Edges]
  BY <1>1 DEF ref_edge_ghost_int
<1>3. ASSUME NEW r \in Rank
      PROVE  ref_edge_ghost_int(m)[r] = OwnersMarks(m) \cap HeldEdges[r]
  BY <1>1 DEF ref_edge_ghost_int, OwnersMarks
<1> QED
  BY <1>2, <1>3 DEF Shared, OwnersMarks

(* ref_edge_ghost_min_int spreads the common marks. *)
LEMMA MinShares ==
  ASSUME NEW m
  PROVE  /\ ref_edge_ghost_min_int(m) \in [Rank -> SUBSET Edges]
         /\ Shared(ref_edge_ghost_min_int(m), CommonMarks(m))
         /\ CommonMarks(m) \in SUBSET Edges
<1>1. \A r \in Rank : HeldEdges[r] \subseteq Edges
  BY HeldIsPart
<1>2. ref_edge_ghost_min_int(m) \in [Rank -> SUBSET Edges]
  BY <1>1 DEF ref_edge_ghost_min_int
<1>3. ASSUME NEW r \in Rank
      PROVE  ref_edge_ghost_min_int(m)[r] = CommonMarks(m) \cap HeldEdges[r]
  BY <1>1 DEF ref_edge_ghost_min_int, CommonMarks
<1> QED
  BY <1>2, <1>3 DEF Shared, CommonMarks

(* Shared marks stay as they are in both exchanges. *)
LEMMA SharedStays ==
  ASSUME NEW m, NEW A \in SUBSET Edges, Shared(m, A)
  PROVE  OwnersMarks(m) = A /\ CommonMarks(m) = A
<1>1. \A e \in Edges : ref_edge_part(e) \in Rank /\ e \in HeldEdges[ref_edge_part(e)]
  BY OwnerHolds
<1>2. OwnersMarks(m) = A
  BY <1>1 DEF OwnersMarks, Shared
<1>3. CommonMarks(m) = A
  BY <1>1 DEF CommonMarks, Shared
<1> QED
  BY <1>2, <1>3

(* The ranks agree on shared marks. *)
LEMMA SharedAgreed ==
  ASSUME NEW A \in SUBSET Edges, Shared(mark, A)
  PROVE  Agreed = A
<1>1. \A e \in Edges : ref_edge_part(e) \in Rank /\ e \in HeldEdges[ref_edge_part(e)]
  BY OwnerHolds
<1>2. \A r \in Rank : mark[r] = A \cap HeldEdges[r]
  BY DEF Shared
<1>3. A \subseteq Agreed
  BY <1>1, <1>2 DEF Agreed
<1>4. Agreed \subseteq A
  BY <1>2 DEF Agreed
<1> QED
  BY <1>3, <1>4

(* A rank sees all marks of the cells it holds. *)
LEMMA MapIsLocal ==
  ASSUME NEW r \in Rank, NEW c \in Held(r), NEW A
  PROVE  ref_subdiv_map(c, A \cap HeldEdges[r]) = ref_subdiv_map(c, A)
<1>1. \A k \in EdgeNumbers(c.kind) : c2e(c, k) \in HeldEdges[r]
  BY HeldIsPart DEF CellEdges, EdgesOf
<1> QED
  BY <1>1 DEF ref_subdiv_map

(* A mesh has finitely many edges. *)
LEMMA FiniteEdges ==
  IsFiniteSet(Edges) /\ Cardinality(Edges) \in Nat
<1>1. ASSUME NEW c \in Mesh PROVE IsFiniteSet(CellEdges(c))
  <2>1. c.kind \in Kinds
    BY MeshAssumption DEF Kinds
  <2>2. IsFiniteSet(0 .. 5) /\ IsFiniteSet(0 .. 7) /\ IsFiniteSet(0 .. 8)
    <3>1. 0 \in Int /\ 5 \in Int /\ 7 \in Int /\ 8 \in Int
      OBVIOUS
    <3>2. \A a, b \in Int : IsFiniteSet(a .. b)
      BY FS_Interval
    <3> QED
      BY <3>1, <3>2
  <2>3. IsFiniteSet(EdgeNumbers(c.kind))
    BY <2>1, <2>2, EdgeEnds DEF Kinds
  <2> DEFINE E == EdgeNumbers(c.kind)
             f == [k \in E |-> c2e(c, k)]
  <2>4. CellEdges(c) = {f[k] : k \in E}
    BY DEF CellEdges, EdgesOf
  <2>5. f \in Surjection(E, CellEdges(c))
    BY <2>4 DEF Surjection
  <2> HIDE DEF E, f
  <2> QED
    BY <2>3, <2>5, FS_Surjection DEF E
<1> DEFINE S == {CellEdges(c) : c \in Mesh}
           g == [c \in Mesh |-> CellEdges(c)]
<1>2. IsFiniteSet(S)
  <2>1. g \in Surjection(Mesh, S)
    BY DEF Surjection
  <2> HIDE DEF g, S
  <2> QED
    BY <2>1, MeshAssumption, FS_Surjection
<1>3. \A T \in S : IsFiniteSet(T)
  BY <1>1
<1>4. Edges = UNION S
  BY DEF Edges
<1> HIDE DEF S
<1>5. IsFiniteSet(Edges)
  BY <1>2, <1>3, <1>4, FS_UNION
<1> QED
  BY <1>5, FS_CardinalityType

(* The number of marks goes down. *)
LEMMA FewerMarks ==
  ASSUME NEW A \in SUBSET Edges, NEW B \in SUBSET A
  PROVE  /\ Cardinality(A) \in Nat /\ Cardinality(B) \in Nat /\ Cardinality(Edges) \in Nat
         /\ Cardinality(A) <= Cardinality(Edges)
         /\ Cardinality(B) <= Cardinality(A)
         /\ B # A => Cardinality(B) + 1 <= Cardinality(A)
<1>1. IsFiniteSet(A) /\ IsFiniteSet(B) /\ Cardinality(A) <= Cardinality(Edges)
  BY FiniteEdges, FS_Subset
<1>2. Cardinality(B) <= Cardinality(A) /\ (Cardinality(A) = Cardinality(B) => A = B)
  BY <1>1, FS_Subset
<1>3. Cardinality(A) \in Nat /\ Cardinality(B) \in Nat /\ Cardinality(Edges) \in Nat
  BY <1>1, FiniteEdges, FS_CardinalityType
<1> QED
  BY <1>1, <1>2, <1>3

(* A request has a least edge. *)
LEMMA LeastExists ==
  ASSUME NEW m \in SUBSET Edges, m # {}
  PROVE  \E e : Least(e, m)
<1> DEFINE L == {Low(e) : e \in m}
<1>1. L \in SUBSET Nat /\ L # {}
  BY EdgeIsPair
<1>2. PICK l \in L : \A k \in L : l <= k
  <2> HIDE DEF L
  <2> QED
    BY <1>1, LeastNatural
<1> DEFINE H == {High(e) : e \in {x \in m : Low(x) = l}}
<1>3. H \in SUBSET Nat /\ H # {}
  BY EdgeIsPair
<1>4. PICK h \in H : \A k \in H : h <= k
  <2> HIDE DEF H
  <2> QED
    BY <1>3, LeastNatural
<1>5. PICK e \in m : Low(e) = l /\ High(e) = h
  OBVIOUS
<1>6. ASSUME NEW x \in m PROVE x = e \/ Before(e, x)
  <2>1. /\ Low(x) \in Nat /\ High(x) \in Nat /\ Low(e) \in Nat /\ High(e) \in Nat
        /\ x = {Low(x), High(x)} /\ e = {Low(e), High(e)}
    BY EdgeIsPair
  <2>2. Low(e) <= Low(x)
    BY <1>2, <1>5
  <2>3. Low(x) = Low(e) => High(e) <= High(x)
    BY <1>4, <1>5
  <2>4. Low(x) = Low(e) /\ High(x) = High(e) => x = e
    BY <2>1
  <2> QED
    BY <2>1, <2>2, <2>3, <2>4 DEF Before
<1> QED
  BY <1>5, <1>6 DEF Least

(* The template of each pattern of a tet. *)
LEMMA TetTemplates ==
  ASSUME NEW n
  PROVE  /\ SplitTet(n, {}) = {Cell("tet", d) : d \in {n}}
         /\ \A e \in 0 .. 5 : SplitTet(n, {e}) = {Cell("tet", d) : d \in HalveTet(n, e)}
         /\ \A map \in TetFaceMaps :
               SplitTet(n, map) = {Cell("tet", d) : d \in QuarterTet(OrientTet(n, map))}
         /\ SplitTet(n, 0 .. 5) = {Cell("tet", d) : d \in EighthTet(n)}
<1>1. Cardinality({}) # 1
  BY FS_EmptySet
<1>2. ASSUME NEW map \in TetFaceMaps
      PROVE  Cardinality(map) # 1 /\ map # {} /\ map # 0 .. 5
  <2>1. ASSUME NEW x, NEW y, NEW z, IsTriple(map, x, y, z) PROVE Cardinality(map) # 1
    <3>1. map = {x, y, z} /\ x # y /\ x # z /\ y # z
      BY <2>1 DEF IsTriple
    <3>2. Cardinality({x, y, z}) = 3
      BY <3>1, SmallSets
    <3> QED
      BY <3>1, <3>2
  <2>2. map = {0,1,3} \/ map = {3,4,5} \/ map = {1,2,5} \/ map = {0,2,4}
    BY DEF TetFaceMaps
  <2>3. Cardinality(map) # 1
    <3>1. \/ IsTriple(map, 0, 1, 3) \/ IsTriple(map, 3, 4, 5)
          \/ IsTriple(map, 1, 2, 5) \/ IsTriple(map, 0, 2, 4)
      BY <2>2, FaceTriples
    <3> QED
      BY <2>1, <3>1
  <2>4. map # {}
    BY <2>2
  <2>5. map # 0 .. 5
    <3>1. 0 \in 0 .. 5 /\ 1 \in 0 .. 5 /\ 2 \in 0 .. 5 /\ 3 \in 0 .. 5
      OBVIOUS
    <3> QED
      BY <2>2, <3>1
  <2> QED
    BY <2>3, <2>4, <2>5
<1>3. ASSUME NEW e \in 0 .. 5
      PROVE  /\ Cardinality({e}) = 1 /\ {e} # {} /\ {e} # 0 .. 5 /\ {e} \notin TetFaceMaps
             /\ (CHOOSE x \in {e} : TRUE) = e
  <2>1. Cardinality({e}) = 1
    BY FS_Singleton
  <2>2. {e} \notin TetFaceMaps
    BY <1>2, <2>1
  <2>3. {e} # 0 .. 5
    <3>1. 0 \in 0 .. 5 /\ 1 \in 0 .. 5
      OBVIOUS
    <3> QED
      BY <3>1
  <2> QED
    BY <2>1, <2>2, <2>3
<1>4. Cardinality(0 .. 5) # 1 /\ 0 .. 5 # {} /\ 0 .. 5 \notin TetFaceMaps
  <2>1. Cardinality(0 .. 5) = 6
    <3>1. \A a, b \in Int : Cardinality(a .. b) = IF a > b THEN 0 ELSE b - a + 1
      BY FS_Interval
    <3>2. 0 \in Int /\ 5 \in Int
      OBVIOUS
    <3>3. Cardinality(0 .. 5) = IF 0 > 5 THEN 0 ELSE 5 - 0 + 1
      BY <3>1, <3>2, Zenon
    <3> QED
      BY <3>3
  <2> QED
    BY <1>2, <2>1
<1> DEFINE body(map) ==
      CASE map = {}            -> {n}
        [] Cardinality(map) = 1 -> HalveTet(n, CHOOSE e \in map : TRUE)
        [] map \in TetFaceMaps -> QuarterTet(OrientTet(n, map))
        [] map = 0 .. 5        -> EighthTet(n)
<1>5. \A map : SplitTet(n, map) = {Cell("tet", d) : d \in body(map)}
  BY Zenon DEF SplitTet
<1>6. body({}) = {n}
  <2>1. {} \notin TetFaceMaps /\ {} # 0 .. 5
    BY <1>2, <1>4
  <2> QED
    BY <1>1, <2>1, Zenon
<1>7. \A e \in 0 .. 5 : body({e}) = HalveTet(n, e)
  <2> SUFFICES ASSUME NEW e \in 0 .. 5 PROVE body({e}) = HalveTet(n, e)
    OBVIOUS
  <2> DEFINE map == {e}
  <2>1. /\ Cardinality(map) = 1 /\ map # {} /\ map # 0 .. 5 /\ map \notin TetFaceMaps
        /\ (CHOOSE x \in map : TRUE) = e
    BY <1>3
  <2> HIDE DEF map
  <2>2. body(map) = HalveTet(n, CHOOSE x \in map : TRUE)
    BY <2>1, Zenon
  <2>3. body(map) = HalveTet(n, e)
    BY <2>1, <2>2
  <2> QED
    BY <2>3 DEF map
<1>8. \A map \in TetFaceMaps : body(map) = QuarterTet(OrientTet(n, map))
  <2> SUFFICES ASSUME NEW map \in TetFaceMaps PROVE body(map) = QuarterTet(OrientTet(n, map))
    OBVIOUS
  <2>1. Cardinality(map) # 1 /\ map # {} /\ map # 0 .. 5
    BY <1>2
  <2> QED
    BY <2>1, Zenon
<1>9. body(0 .. 5) = EighthTet(n)
  BY <1>4, Zenon
<1> HIDE DEF body
<1> QED
  BY <1>5, <1>6, <1>7, <1>8, <1>9

(* How a tet is turned. *)
LEMMA TurnedTet ==
  ASSUME NEW V, NEW n \in [0 .. 3 -> V], NEW map \in TetFaceMaps
  PROVE  /\ OrientTet(n, map) \in [0 .. 3 -> V]
         /\ \/ /\ map = {0,1,3} /\ OrientTet(n, map) = n
            \/ /\ map = {3,4,5}
               /\ OrientTet(n, map)[0] = n[3] /\ OrientTet(n, map)[1] = n[2]
               /\ OrientTet(n, map)[2] = n[1] /\ OrientTet(n, map)[3] = n[0]
            \/ /\ map = {1,2,5}
               /\ OrientTet(n, map)[0] = n[2] /\ OrientTet(n, map)[1] = n[3]
               /\ OrientTet(n, map)[2] = n[0] /\ OrientTet(n, map)[3] = n[1]
            \/ /\ map = {0,2,4}
               /\ OrientTet(n, map)[0] = n[1] /\ OrientTet(n, map)[1] = n[0]
               /\ OrientTet(n, map)[2] = n[3] /\ OrientTet(n, map)[3] = n[2]
<1>1. map = {0,1,3} \/ map = {3,4,5} \/ map = {1,2,5} \/ map = {0,2,4}
  BY DEF TetFaceMaps
<1>2. {0,1,3} # {3,4,5} /\ {0,1,3} # {1,2,5} /\ {0,1,3} # {0,2,4}
      /\ {3,4,5} # {1,2,5} /\ {3,4,5} # {0,2,4} /\ {1,2,5} # {0,2,4}
  <2>1. /\ 0 \notin {3,4,5} /\ 0 \notin {1,2,5} /\ 1 \notin {0,2,4} /\ 3 \notin {1,2,5}
        /\ 3 \notin {0,2,4} /\ 1 \in {1,2,5}
    OBVIOUS
  <2> QED
    BY <2>1
<1>3. CASE map = {0,1,3}
  <2>1. OrientTet(n, map) = n
    BY <1>2, <1>3, Zenon DEF OrientTet
  <2> QED
    BY <1>3, <2>1
<1>4. CASE map = {3,4,5}
  <2> DEFINE o == Swap(Swap(n, 0, 3), 1, 2)
  <2>1. OrientTet(n, map) = o
    BY <1>2, <1>4, Zenon DEF OrientTet
  <2>2. o \in [0 .. 3 -> V] /\ o[0] = n[3] /\ o[1] = n[2] /\ o[2] = n[1] /\ o[3] = n[0]
    BY DEF Swap
  <2> HIDE DEF o
  <2> QED
    BY <1>4, <2>1, <2>2
<1>5. CASE map = {1,2,5}
  <2> DEFINE o == Swap(Swap(n, 1, 3), 0, 2)
  <2>1. OrientTet(n, map) = o
    BY <1>2, <1>5, Zenon DEF OrientTet
  <2>2. o \in [0 .. 3 -> V] /\ o[0] = n[2] /\ o[1] = n[3] /\ o[2] = n[0] /\ o[3] = n[1]
    BY DEF Swap
  <2> HIDE DEF o
  <2> QED
    BY <1>5, <2>1, <2>2
<1>6. CASE map = {0,2,4}
  <2> DEFINE o == Swap(Swap(n, 2, 3), 0, 1)
  <2>1. OrientTet(n, map) = o
    BY <1>2, <1>6, Zenon DEF OrientTet
  <2>2. o \in [0 .. 3 -> V] /\ o[0] = n[1] /\ o[1] = n[0] /\ o[2] = n[3] /\ o[3] = n[2]
    BY DEF Swap
  <2> HIDE DEF o
  <2> QED
    BY <1>6, <2>1, <2>2
<1> QED
  BY <1>1, <1>3, <1>4, <1>5, <1>6

(* A set of vertices with the vertex between any two of them. *)
Joins(V) == \A a, b \in V : a \cup b \in V

(* v is a node of one of the cells; of one of the lists of nodes. *)
Uses(cs, v) == \E child \in cs : \E i \in DOMAIN child.nodes : child.nodes[i] = v
Lists(D, v) == \E d \in D : \E i \in 0 .. 3 : d[i] = v

(* The vertex on an edge of a tet. *)
MidVertex(n, k) == Between(n, EdgeNode("tet", 0, k), EdgeNode("tet", 1, k))

(* The six of them, by the corners they are between. *)
LEMMA MidVertices ==
  ASSUME NEW n
  PROVE  /\ MidVertex(n, 0) = n[0] \cup n[1] /\ MidVertex(n, 1) = n[0] \cup n[2]
         /\ MidVertex(n, 2) = n[0] \cup n[3] /\ MidVertex(n, 3) = n[1] \cup n[2]
         /\ MidVertex(n, 4) = n[1] \cup n[3] /\ MidVertex(n, 5) = n[2] \cup n[3]
<1>1. /\ EdgeNode("tet", 0, 0) = 0 /\ EdgeNode("tet", 1, 0) = 1
      /\ EdgeNode("tet", 0, 1) = 0 /\ EdgeNode("tet", 1, 1) = 2
      /\ EdgeNode("tet", 0, 2) = 0 /\ EdgeNode("tet", 1, 2) = 3
      /\ EdgeNode("tet", 0, 3) = 1 /\ EdgeNode("tet", 1, 3) = 2
      /\ EdgeNode("tet", 0, 4) = 1 /\ EdgeNode("tet", 1, 4) = 3
      /\ EdgeNode("tet", 0, 5) = 2 /\ EdgeNode("tet", 1, 5) = 3
  BY Shapes DEF EdgeNode
<1> QED
  BY <1>1 DEF MidVertex, Between

(* The cells made of lists of nodes. *)
LEMMA CellsOfLists ==
  ASSUME NEW V, NEW D \in SUBSET [0 .. 3 -> V]
  PROVE  /\ \A child \in {Cell("tet", d) : d \in D} :
              \A i \in DOMAIN child.nodes : child.nodes[i] \in V
         /\ \A v : Lists(D, v) => Uses({Cell("tet", d) : d \in D}, v)
<1>1. \A d : Cell("tet", d).nodes = d
  BY DEF Cell
<1>2. ASSUME NEW child \in {Cell("tet", d) : d \in D}, NEW i \in DOMAIN child.nodes
      PROVE  child.nodes[i] \in V
  <2>1. PICK d \in D : child = Cell("tet", d)
    OBVIOUS
  <2>2. child.nodes = d /\ d \in [0 .. 3 -> V]
    BY <1>1, <2>1
  <2> QED
    BY <2>2
<1>3. ASSUME NEW v, Lists(D, v) PROVE Uses({Cell("tet", d) : d \in D}, v)
  <2>1. PICK d \in D : \E i \in 0 .. 3 : d[i] = v
    BY <1>3 DEF Lists
  <2>2. PICK i \in 0 .. 3 : d[i] = v
    BY <2>1
  <2>3. d \in [0 .. 3 -> V]
    OBVIOUS
  <2> DEFINE child == Cell("tet", d)
  <2>4. child \in {Cell("tet", x) : x \in D} /\ child.nodes = d
    BY <1>1
  <2>5. i \in DOMAIN child.nodes /\ child.nodes[i] = v
    BY <2>2, <2>3, <2>4
  <2> HIDE DEF child
  <2> QED
    BY <2>4, <2>5 DEF Uses
<1> QED
  BY <1>2, <1>3

(* One marked edge. *)
LEMMA Halves ==
  ASSUME NEW V, Joins(V), NEW n \in [0 .. 3 -> V], NEW e \in 0 .. 5
  PROVE  /\ HalveTet(n, e) \in SUBSET [0 .. 3 -> V]
         /\ \A i \in 0 .. 3 : Lists(HalveTet(n, e), n[i])
         /\ Lists(HalveTet(n, e), MidVertex(n, e))
<1> DEFINE a == EdgeNode("tet", 0, e)
           b == EdgeNode("tet", 1, e)
           mid == MidVertex(n, e)
           x == [n EXCEPT ![a] = mid]
           y == [n EXCEPT ![b] = mid]
<1>1. HalveTet(n, e) = {x, y}
  BY DEF HalveTet, MidVertex
<1>2. a \in 0 .. 3 /\ b \in 0 .. 3 /\ a # b
  <2>1. /\ EdgeNode("tet", 0, 0) = 0 /\ EdgeNode("tet", 1, 0) = 1
        /\ EdgeNode("tet", 0, 1) = 0 /\ EdgeNode("tet", 1, 1) = 2
        /\ EdgeNode("tet", 0, 2) = 0 /\ EdgeNode("tet", 1, 2) = 3
        /\ EdgeNode("tet", 0, 3) = 1 /\ EdgeNode("tet", 1, 3) = 2
        /\ EdgeNode("tet", 0, 4) = 1 /\ EdgeNode("tet", 1, 4) = 3
        /\ EdgeNode("tet", 0, 5) = 2 /\ EdgeNode("tet", 1, 5) = 3
    BY Shapes DEF EdgeNode
  <2>2. e = 0 \/ e = 1 \/ e = 2 \/ e = 3 \/ e = 4 \/ e = 5
    OBVIOUS
  <2> QED
    BY <2>1, <2>2
<1>3. mid \in V
  BY <1>2 DEF MidVertex, Between, Joins
<1> HIDE DEF a, b, mid
<1>4. x \in [0 .. 3 -> V] /\ y \in [0 .. 3 -> V]
  BY <1>2, <1>3
<1>5. /\ x[a] = mid /\ \A i \in 0 .. 3 : i # a => x[i] = n[i]
      /\ \A i \in 0 .. 3 : i # b => y[i] = n[i]
  BY <1>2
<1> HIDE DEF x, y
<1>6. \A i \in 0 .. 3 : x[i] = n[i] \/ y[i] = n[i]
  BY <1>2, <1>5
<1> QED
  BY <1>1, <1>2, <1>4, <1>5, <1>6 DEF Lists, mid

(* A face with three marks. *)
LEMMA Quarters ==
  ASSUME NEW V, Joins(V), NEW n \in [0 .. 3 -> V]
  PROVE  /\ QuarterTet(n) \in SUBSET [0 .. 3 -> V]
         /\ \A i \in 0 .. 3 : Lists(QuarterTet(n), n[i])
         /\ Lists(QuarterTet(n), n[0] \cup n[1]) /\ Lists(QuarterTet(n), n[0] \cup n[2])
         /\ Lists(QuarterTet(n), n[1] \cup n[2])
<1> DEFINE p == n[0] \cup n[1]
           q == n[0] \cup n[2]
           s == n[1] \cup n[2]
           w == [n EXCEPT ![1] = p, ![2] = q]
           x == [n EXCEPT ![0] = p, ![2] = s]
           y == [n EXCEPT ![0] = q, ![1] = s]
           z == [n EXCEPT ![0] = p, ![1] = s, ![2] = q]
<1>1. QuarterTet(n) = {w, x, y, z}
  <2>1. n[1] \cup n[0] = p /\ n[2] \cup n[0] = q /\ n[2] \cup n[1] = s
    OBVIOUS
  <2> QED
    BY <2>1 DEF QuarterTet, Between
<1>2. p \in V /\ q \in V /\ s \in V
  BY DEF Joins
<1> HIDE DEF p, q, s
<1>3. /\ w \in [0 .. 3 -> V] /\ x \in [0 .. 3 -> V] /\ y \in [0 .. 3 -> V] /\ z \in [0 .. 3 -> V]
  BY <1>2
<1>4. /\ w[0] = n[0] /\ w[1] = p /\ w[2] = q /\ w[3] = n[3]
      /\ x[1] = n[1] /\ x[2] = s /\ y[2] = n[2]
  OBVIOUS
<1> HIDE DEF w, x, y, z
<1>5. \A i \in 0 .. 3 : i = 0 \/ i = 1 \/ i = 2 \/ i = 3
  OBVIOUS
<1>6. \A i \in 0 .. 3 : w[i] = n[i] \/ x[i] = n[i] \/ y[i] = n[i]
  BY <1>4, <1>5
<1>7. 1 \in 0 .. 3 /\ 2 \in 0 .. 3
  OBVIOUS
<1>8. \A i \in 0 .. 3 : Lists(QuarterTet(n), n[i])
  BY <1>1, <1>6 DEF Lists
<1>9. Lists(QuarterTet(n), p) /\ Lists(QuarterTet(n), q) /\ Lists(QuarterTet(n), s)
  BY <1>1, <1>4, <1>7 DEF Lists
<1> QED
  BY <1>1, <1>3, <1>8, <1>9 DEF p, q, s

(* The nodes of a tet listed. *)
LEMMA Listed4 ==
  ASSUME NEW V, NEW a \in V, NEW b \in V, NEW c \in V, NEW d \in V
  PROVE  /\ Tet4(a, b, c, d) \in [0 .. 3 -> V]
         /\ Tet4(a, b, c, d)[0] = a /\ Tet4(a, b, c, d)[1] = b
         /\ Tet4(a, b, c, d)[2] = c /\ Tet4(a, b, c, d)[3] = d
  BY DEF Tet4, Listed

(* All edges marked. *)
LEMMA Eighths ==
  ASSUME NEW V, Joins(V), NEW n \in [0 .. 3 -> V]
  PROVE  /\ EighthTet(n) \in SUBSET [0 .. 3 -> V]
         /\ \A i \in 0 .. 3 : Lists(EighthTet(n), n[i])
         /\ \A k \in 0 .. 5 : Lists(EighthTet(n), MidVertex(n, k))
<1> DEFINE e0 == Between(n, 0, 1)
           e1 == Between(n, 0, 2)
           e2 == Between(n, 0, 3)
           e3 == Between(n, 1, 2)
           e4 == Between(n, 1, 3)
           e5 == Between(n, 2, 3)
           a == Tet4(e0, e2, e1, n[0])
           b == Tet4(e0, e3, e4, n[1])
           c == Tet4(e1, e5, e3, n[2])
           d == Tet4(e2, e4, e5, n[3])
           f == Tet4(e0, e5, e1, e2)
           g == Tet4(e0, e5, e2, e4)
           h == Tet4(e0, e5, e4, e3)
           k == Tet4(e0, e5, e3, e1)
<1>1. EighthTet(n) = {a, b, c, d, f, g, h, k}
  BY DEF EighthTet
<1>2. e0 \in V /\ e1 \in V /\ e2 \in V /\ e3 \in V /\ e4 \in V /\ e5 \in V
  BY DEF Between, Joins
<1>3. n[0] \in V /\ n[1] \in V /\ n[2] \in V /\ n[3] \in V
  OBVIOUS
<1>4. /\ MidVertex(n, 0) = e0 /\ MidVertex(n, 1) = e1 /\ MidVertex(n, 2) = e2
      /\ MidVertex(n, 3) = e3 /\ MidVertex(n, 4) = e4 /\ MidVertex(n, 5) = e5
  BY MidVertices DEF Between
<1> HIDE DEF e0, e1, e2, e3, e4, e5
<1>5. a \in [0 .. 3 -> V] /\ a[0] = e0 /\ a[1] = e2 /\ a[2] = e1 /\ a[3] = n[0]
  BY <1>2, <1>3, Listed4
<1>6. b \in [0 .. 3 -> V] /\ b[1] = e3 /\ b[2] = e4 /\ b[3] = n[1]
  BY <1>2, <1>3, Listed4
<1>7. c \in [0 .. 3 -> V] /\ c[1] = e5 /\ c[3] = n[2]
  BY <1>2, <1>3, Listed4
<1>8. d \in [0 .. 3 -> V] /\ d[3] = n[3]
  BY <1>2, <1>3, Listed4
<1>9. f \in [0 .. 3 -> V] /\ g \in [0 .. 3 -> V] /\ h \in [0 .. 3 -> V] /\ k \in [0 .. 3 -> V]
  BY <1>2, Listed4
<1> HIDE DEF a, b, c, d, f, g, h, k
<1>10. 0 \in 0 .. 3 /\ 1 \in 0 .. 3 /\ 2 \in 0 .. 3 /\ 3 \in 0 .. 3
  OBVIOUS
<1>11. /\ Lists(EighthTet(n), n[0]) /\ Lists(EighthTet(n), n[1])
       /\ Lists(EighthTet(n), n[2]) /\ Lists(EighthTet(n), n[3])
  BY <1>1, <1>5, <1>6, <1>7, <1>8, <1>10 DEF Lists
<1>12. /\ Lists(EighthTet(n), e0) /\ Lists(EighthTet(n), e1) /\ Lists(EighthTet(n), e2)
       /\ Lists(EighthTet(n), e3) /\ Lists(EighthTet(n), e4) /\ Lists(EighthTet(n), e5)
  BY <1>1, <1>5, <1>6, <1>7, <1>10 DEF Lists
<1>13. \A i \in 0 .. 3 : i = 0 \/ i = 1 \/ i = 2 \/ i = 3
  OBVIOUS
<1>14. \A i \in 0 .. 5 : i = 0 \/ i = 1 \/ i = 2 \/ i = 3 \/ i = 4 \/ i = 5
  OBVIOUS
<1>15. EighthTet(n) \in SUBSET [0 .. 3 -> V]
  BY <1>1, <1>5, <1>6, <1>7, <1>8, <1>9
<1>16. \A i \in 0 .. 3 : Lists(EighthTet(n), n[i])
  BY <1>11, <1>13
<1>17. \A i \in 0 .. 5 : Lists(EighthTet(n), MidVertex(n, i))
  BY <1>4, <1>12, <1>14
<1> QED
  BY <1>15, <1>16, <1>17

(* The children of a tet use vertices between its corners only, and every   *)
(* corner and every node on a marked edge.                                  *)
LEMMA TetChildren ==
  ASSUME NEW V, Joins(V), NEW n \in [0 .. 3 -> V], NEW map \in TetMaps
  PROVE  /\ \A child \in SplitTet(n, map) :
              \A i \in DOMAIN child.nodes : child.nodes[i] \in V
         /\ \A i \in 0 .. 3 : Uses(SplitTet(n, map), n[i])
         /\ \A k \in map : Uses(SplitTet(n, map), MidVertex(n, k))
<1>1. ASSUME NEW D \in SUBSET [0 .. 3 -> V], SplitTet(n, map) = {Cell("tet", d) : d \in D},
             \A i \in 0 .. 3 : Lists(D, n[i]), \A k \in map : Lists(D, MidVertex(n, k))
      PROVE  /\ \A child \in SplitTet(n, map) :
                  \A i \in DOMAIN child.nodes : child.nodes[i] \in V
             /\ \A i \in 0 .. 3 : Uses(SplitTet(n, map), n[i])
             /\ \A k \in map : Uses(SplitTet(n, map), MidVertex(n, k))
  <2> DEFINE C == {Cell("tet", d) : d \in D}
  <2>1. /\ \A child \in C : \A i \in DOMAIN child.nodes : child.nodes[i] \in V
        /\ \A v : Lists(D, v) => Uses(C, v)
    BY CellsOfLists
  <2>2. SplitTet(n, map) = C
    BY <1>1
  <2> HIDE DEF C
  <2> QED
    BY <1>1, <2>1, <2>2
<1>2. CASE map = {}
  <2> DEFINE D == {n}
  <2>1. D \in SUBSET [0 .. 3 -> V] /\ \A i \in 0 .. 3 : Lists(D, n[i])
    BY DEF Lists
  <2>2. SplitTet(n, map) = {Cell("tet", d) : d \in D} /\ \A k \in map : Lists(D, MidVertex(n, k))
    BY <1>2, TetTemplates
  <2> HIDE DEF D
  <2> QED
    BY <1>1, <2>1, <2>2
<1>3. ASSUME NEW e \in 0 .. 5, map = {e}
      PROVE  /\ \A child \in SplitTet(n, map) :
                  \A i \in DOMAIN child.nodes : child.nodes[i] \in V
             /\ \A i \in 0 .. 3 : Uses(SplitTet(n, map), n[i])
             /\ \A k \in map : Uses(SplitTet(n, map), MidVertex(n, k))
  <2> DEFINE D == HalveTet(n, e)
  <2>1. /\ D \in SUBSET [0 .. 3 -> V] /\ \A i \in 0 .. 3 : Lists(D, n[i])
        /\ \A k \in map : Lists(D, MidVertex(n, k))
    BY <1>3, Halves
  <2>2. SplitTet(n, map) = {Cell("tet", d) : d \in D}
    BY <1>3, TetTemplates
  <2> HIDE DEF D
  <2> QED
    BY <1>1, <2>1, <2>2
<1>4. CASE map \in TetFaceMaps
  <2> DEFINE o == OrientTet(n, map)
             D == QuarterTet(o)
  <2>1. o \in [0 .. 3 -> V]
    BY <1>4, TurnedTet
  <2>2. SplitTet(n, map) = {Cell("tet", d) : d \in D}
    BY <1>4, TetTemplates
  <2>3. \/ map = {0,1,3} /\ o[0] = n[0] /\ o[1] = n[1] /\ o[2] = n[2] /\ o[3] = n[3]
        \/ map = {3,4,5} /\ o[0] = n[3] /\ o[1] = n[2] /\ o[2] = n[1] /\ o[3] = n[0]
        \/ map = {1,2,5} /\ o[0] = n[2] /\ o[1] = n[3] /\ o[2] = n[0] /\ o[3] = n[1]
        \/ map = {0,2,4} /\ o[0] = n[1] /\ o[1] = n[0] /\ o[2] = n[3] /\ o[3] = n[2]
    BY <1>4, TurnedTet
  <2> HIDE DEF o
  <2>4. /\ D \in SUBSET [0 .. 3 -> V] /\ \A i \in 0 .. 3 : Lists(D, o[i])
        /\ Lists(D, o[0] \cup o[1]) /\ Lists(D, o[0] \cup o[2]) /\ Lists(D, o[1] \cup o[2])
    BY <2>1, Quarters
  <2> HIDE DEF D
  <2>5. Lists(D, o[0]) /\ Lists(D, o[1]) /\ Lists(D, o[2]) /\ Lists(D, o[3])
    BY <2>4
  <2>6. Lists(D, n[0]) /\ Lists(D, n[1]) /\ Lists(D, n[2]) /\ Lists(D, n[3])
    BY <2>3, <2>5
  <2>7. \A i \in 0 .. 3 : Lists(D, n[i])
    <3>1. \A i \in 0 .. 3 : i = 0 \/ i = 1 \/ i = 2 \/ i = 3
      OBVIOUS
    <3> QED
      BY <2>6, <3>1
  <2>8. \A k \in map : Lists(D, MidVertex(n, k))
    <3>1. \A x, y : x \cup y = y \cup x
      OBVIOUS
    <3>2. CASE map = {0,1,3} /\ o[0] = n[0] /\ o[1] = n[1] /\ o[2] = n[2] /\ o[3] = n[3]
      <4>1. Lists(D, MidVertex(n, 0)) /\ Lists(D, MidVertex(n, 1)) /\ Lists(D, MidVertex(n, 3))
        BY <2>4, <3>1, <3>2, MidVertices
      <4> QED
        BY <3>2, <4>1
    <3>3. CASE map = {3,4,5} /\ o[0] = n[3] /\ o[1] = n[2] /\ o[2] = n[1] /\ o[3] = n[0]
      <4>1. Lists(D, MidVertex(n, 3)) /\ Lists(D, MidVertex(n, 4)) /\ Lists(D, MidVertex(n, 5))
        BY <2>4, <3>1, <3>3, MidVertices
      <4> QED
        BY <3>3, <4>1
    <3>4. CASE map = {1,2,5} /\ o[0] = n[2] /\ o[1] = n[3] /\ o[2] = n[0] /\ o[3] = n[1]
      <4>1. Lists(D, MidVertex(n, 1)) /\ Lists(D, MidVertex(n, 2)) /\ Lists(D, MidVertex(n, 5))
        BY <2>4, <3>1, <3>4, MidVertices
      <4> QED
        BY <3>4, <4>1
    <3>5. CASE map = {0,2,4} /\ o[0] = n[1] /\ o[1] = n[0] /\ o[2] = n[3] /\ o[3] = n[2]
      <4>1. Lists(D, MidVertex(n, 0)) /\ Lists(D, MidVertex(n, 2)) /\ Lists(D, MidVertex(n, 4))
        BY <2>4, <3>1, <3>5, MidVertices
      <4> QED
        BY <3>5, <4>1
    <3> QED
      BY <2>3, <3>2, <3>3, <3>4, <3>5
  <2> QED
    BY <1>1, <2>2, <2>4, <2>7, <2>8
<1>5. CASE map = 0 .. 5
  <2> DEFINE D == EighthTet(n)
  <2>1. /\ D \in SUBSET [0 .. 3 -> V] /\ \A i \in 0 .. 3 : Lists(D, n[i])
        /\ \A k \in map : Lists(D, MidVertex(n, k))
    BY <1>5, Eighths
  <2>2. SplitTet(n, map) = {Cell("tet", d) : d \in D}
    BY <1>5, TetTemplates
  <2> HIDE DEF D
  <2> QED
    BY <1>1, <2>1, <2>2
<1>6. map = {} \/ (\E e \in 0 .. 5 : map = {e}) \/ map \in TetFaceMaps \/ map = 0 .. 5
  BY DEF TetMaps
<1> QED
  BY <1>2, <1>3, <1>4, <1>5, <1>6

(* A list of vertices with some of them replaced. *)
LEMMA Replaced ==
  ASSUME NEW V, NEW D, NEW n \in [D -> V],
         NEW i \in D, NEW j \in D, NEW k \in D, NEW l \in D,
         NEW a \in V, NEW b \in V, NEW c \in V, NEW d \in V
  PROVE  /\ [n EXCEPT ![i] = a, ![j] = b] \in [D -> V]
         /\ [n EXCEPT ![i] = a, ![j] = b, ![k] = c] \in [D -> V]
         /\ [n EXCEPT ![i] = a, ![j] = b, ![k] = c, ![l] = d] \in [D -> V]
  OBVIOUS

(* The children of a prism use vertices between its corners only. *)
LEMMA PriChildren ==
  ASSUME NEW V, Joins(V), NEW n \in [0 .. 5 -> V], NEW map \in PriMaps
  PROVE  \A child \in SplitPri(n, map) :
            \A i \in DOMAIN child.nodes : child.nodes[i] \in V
<1> DEFINE m(i, j) == Between(n, i, j)
           W == [0 .. 5 -> V]
           b1 == {[n EXCEPT ![0] = m(0,3), ![1] = m(1,4), ![2] = m(2,5)],
                  [n EXCEPT ![3] = m(0,3), ![4] = m(1,4), ![5] = m(2,5)]}
           b2 == {[n EXCEPT ![0] = m(0,1), ![3] = m(3,4)],
                  [n EXCEPT ![1] = m(0,1), ![4] = m(3,4)]}
           b3 == {[n EXCEPT ![0] = m(0,2), ![3] = m(3,5)],
                  [n EXCEPT ![2] = m(0,2), ![5] = m(3,5)]}
           b4 == {[n EXCEPT ![1] = m(1,2), ![4] = m(4,5)],
                  [n EXCEPT ![2] = m(1,2), ![5] = m(4,5)]}
           b5 == {[n EXCEPT ![1] = m(0,1), ![2] = m(0,2), ![4] = m(3,4), ![5] = m(3,5)],
                  [n EXCEPT ![0] = m(1,0), ![2] = m(1,2), ![3] = m(4,3), ![5] = m(4,5)],
                  [n EXCEPT ![1] = m(2,1), ![0] = m(2,0), ![4] = m(5,4), ![3] = m(5,3)],
                  Listed(<<m(0,1), m(1,2), m(2,0), m(3,4), m(4,5), m(5,3)>>)}
           body == CASE map = {} -> {n} [] map = {2,4,5} -> b1 [] map = {0,6} -> b2
                     [] map = {1,7} -> b3 [] map = {3,8} -> b4 [] map = {0,1,3,6,7,8} -> b5
<1>1. SplitPri(n, map) = {Cell("pri", d) : d \in body}
  BY Zenon DEF SplitPri
<1>2. \/ map = {} \/ map = {2,4,5} \/ map = {0,6} \/ map = {1,7} \/ map = {3,8}
      \/ map = {0,1,3,6,7,8}
  BY DEF PriMaps
<1>3. \A i, j \in 0 .. 5 : m(i, j) \in V
  BY DEF Between, Joins
<1>4. 0 \in 0 .. 5 /\ 1 \in 0 .. 5 /\ 2 \in 0 .. 5 /\ 3 \in 0 .. 5 /\ 4 \in 0 .. 5 /\ 5 \in 0 .. 5
  OBVIOUS
<1>5. b1 \subseteq W /\ b2 \subseteq W /\ b3 \subseteq W /\ b4 \subseteq W
  <2>1. /\ m(0,3) \in V /\ m(1,4) \in V /\ m(2,5) \in V /\ m(0,1) \in V /\ m(3,4) \in V
        /\ m(0,2) \in V /\ m(3,5) \in V /\ m(1,2) \in V /\ m(4,5) \in V
    BY <1>3, <1>4
  <2> HIDE DEF m
  <2> QED
    BY <2>1
<1>6. b5 \subseteq W
  <2>1. Listed(<<m(0,1), m(1,2), m(2,0), m(3,4), m(4,5), m(5,3)>>) \in W
    <3>1. /\ m(0,1) \in V /\ m(1,2) \in V /\ m(2,0) \in V /\ m(3,4) \in V /\ m(4,5) \in V
          /\ m(5,3) \in V
      BY <1>3, <1>4
    <3> HIDE DEF m
    <3> QED
      BY <3>1 DEF Listed
  <2>2. /\ [n EXCEPT ![1] = m(0,1), ![2] = m(0,2), ![4] = m(3,4), ![5] = m(3,5)] \in W
        /\ [n EXCEPT ![0] = m(1,0), ![2] = m(1,2), ![3] = m(4,3), ![5] = m(4,5)] \in W
        /\ [n EXCEPT ![1] = m(2,1), ![0] = m(2,0), ![4] = m(5,4), ![3] = m(5,3)] \in W
    BY <1>3, <1>4, Replaced
  <2> QED
    BY <2>1, <2>2
<1>7. {n} \subseteq W
  OBVIOUS
<1> HIDE DEF b1, b2, b3, b4, b5
<1>8. body = {n} \/ body = b1 \/ body = b2 \/ body = b3 \/ body = b4 \/ body = b5
  <2>1. CASE map = {}
    <3>1. map # {2,4,5} /\ map # {0,6} /\ map # {1,7} /\ map # {3,8} /\ map # {0,1,3,6,7,8}
      BY <2>1
    <3>2. body = {n}
      BY <2>1, <3>1, Zenon
    <3> QED
      BY <3>2
  <2>2. CASE map = {2,4,5}
    <3>1. map # {} /\ map # {0,6} /\ map # {1,7} /\ map # {3,8} /\ map # {0,1,3,6,7,8}
      BY <2>2
    <3>2. body = b1
      BY <2>2, <3>1, Zenon
    <3> QED
      BY <3>2
  <2>3. CASE map = {0,6}
    <3>1. map # {} /\ map # {2,4,5} /\ map # {1,7} /\ map # {3,8} /\ map # {0,1,3,6,7,8}
      BY <2>3
    <3>2. body = b2
      BY <2>3, <3>1, Zenon
    <3> QED
      BY <3>2
  <2>4. CASE map = {1,7}
    <3>1. map # {} /\ map # {2,4,5} /\ map # {0,6} /\ map # {3,8} /\ map # {0,1,3,6,7,8}
      BY <2>4
    <3>2. body = b3
      BY <2>4, <3>1, Zenon
    <3> QED
      BY <3>2
  <2>5. CASE map = {3,8}
    <3>1. map # {} /\ map # {2,4,5} /\ map # {0,6} /\ map # {1,7} /\ map # {0,1,3,6,7,8}
      BY <2>5
    <3>2. body = b4
      BY <2>5, <3>1, Zenon
    <3> QED
      BY <3>2
  <2>6. CASE map = {0,1,3,6,7,8}
    <3>1. map # {} /\ map # {2,4,5} /\ map # {0,6} /\ map # {1,7} /\ map # {3,8}
      BY <2>6
    <3>2. body = b5
      BY <2>6, <3>1, Zenon
    <3> QED
      BY <3>2
  <2> HIDE DEF body
  <2> QED
    BY <1>2, <2>1, <2>2, <2>3, <2>4, <2>5, <2>6
<1> HIDE DEF body
<1>9. body \subseteq W
  BY <1>5, <1>6, <1>7, <1>8
<1> SUFFICES ASSUME NEW child \in SplitPri(n, map), NEW i \in DOMAIN child.nodes
             PROVE  child.nodes[i] \in V
  OBVIOUS
<1>10. PICK d \in body : child = Cell("pri", d)
  BY <1>1
<1>11. child.nodes = d /\ d \in [0 .. 5 -> V]
  BY <1>9, <1>10 DEF Cell
<1> QED
  BY <1>11

(* The nodes of a child are among V. *)
Made(V, child) == \A i \in DOMAIN child.nodes : child.nodes[i] \in V

(* Cells listed node by node. *)
LEMMA MadeOfListed ==
  ASSUME NEW V, NEW kind
  PROVE  /\ \A a, b, c, d \in V : Made(V, Cell(kind, Listed(<<a, b, c, d>>)))
         /\ \A a, b, c, d, e \in V : Made(V, Cell(kind, Listed(<<a, b, c, d, e>>)))
         /\ \A a, b, c, d, e, f \in V : Made(V, Cell(kind, Listed(<<a, b, c, d, e, f>>)))
<1>1. \A s : Cell(kind, s).nodes = s
  BY DEF Cell
<1>2. ASSUME NEW s, DOMAIN Listed(s) = 0 .. Len(s) - 1,
             \A i \in 0 .. Len(s) - 1 : Listed(s)[i] \in V
      PROVE  Made(V, Cell(kind, Listed(s)))
  BY <1>1, <1>2 DEF Made
<1>3. ASSUME NEW a \in V, NEW b \in V, NEW c \in V, NEW d \in V
      PROVE  Made(V, Cell(kind, Listed(<<a, b, c, d>>)))
  <2> DEFINE s == <<a, b, c, d>>
  <2>1. DOMAIN Listed(s) = 0 .. Len(s) - 1 /\ \A i \in 0 .. Len(s) - 1 : Listed(s)[i] \in V
    BY DEF Listed
  <2> HIDE DEF s
  <2>2. Made(V, Cell(kind, Listed(s)))
    BY <1>2, <2>1
  <2> QED
    BY <2>2 DEF s
<1>4. ASSUME NEW a \in V, NEW b \in V, NEW c \in V, NEW d \in V, NEW e \in V
      PROVE  Made(V, Cell(kind, Listed(<<a, b, c, d, e>>)))
  <2> DEFINE s == <<a, b, c, d, e>>
  <2>1. DOMAIN Listed(s) = 0 .. Len(s) - 1 /\ \A i \in 0 .. Len(s) - 1 : Listed(s)[i] \in V
    BY DEF Listed
  <2> HIDE DEF s
  <2>2. Made(V, Cell(kind, Listed(s)))
    BY <1>2, <2>1
  <2> QED
    BY <2>2 DEF s
<1>5. ASSUME NEW a \in V, NEW b \in V, NEW c \in V, NEW d \in V, NEW e \in V, NEW f \in V
      PROVE  Made(V, Cell(kind, Listed(<<a, b, c, d, e, f>>)))
  <2> DEFINE s == <<a, b, c, d, e, f>>
  <2>1. DOMAIN Listed(s) = 0 .. Len(s) - 1 /\ \A i \in 0 .. Len(s) - 1 : Listed(s)[i] \in V
    BY DEF Listed
  <2> HIDE DEF s
  <2>2. Made(V, Cell(kind, Listed(s)))
    BY <1>2, <2>1
  <2> QED
    BY <2>2 DEF s
<1> QED
  BY <1>3, <1>4, <1>5

(* A turned pyramid. *)
LEMMA TurnedPyr ==
  ASSUME NEW V, NEW n \in [0 .. 4 -> V], NEW map
  PROVE  OrientPyr(n, map) \in [0 .. 4 -> V]
<1>1. CASE map = {0,5,6,7}
  <2>1. map # {2,3,4,6}
    BY <1>1
  <2>2. OrientPyr(n, map) = [i \in 0 .. 4 |-> n[4 - i]]
    BY <1>1, <2>1, Zenon DEF OrientPyr
  <2>3. \A i \in 0 .. 4 : 4 - i \in 0 .. 4
    OBVIOUS
  <2> QED
    BY <2>2, <2>3
<1>2. CASE map = {2,3,4,6}
  <2>1. map # {0,5,6,7}
    BY <1>2
  <2>2. OrientPyr(n, map) = Listed(<<n[1], n[4], n[2], n[0], n[3]>>)
    BY <1>2, <2>1, Zenon DEF OrientPyr
  <2>3. n[0] \in V /\ n[1] \in V /\ n[2] \in V /\ n[3] \in V /\ n[4] \in V
    OBVIOUS
  <2> DEFINE a == n[0]
             b == n[1]
             c == n[2]
             d == n[3]
             e == n[4]
  <2>4. a \in V /\ b \in V /\ c \in V /\ d \in V /\ e \in V
    BY <2>3
  <2> HIDE DEF a, b, c, d, e
  <2>5. Listed(<<b, e, c, a, d>>) \in [0 .. 4 -> V]
    BY <2>4 DEF Listed
  <2> QED
    BY <2>2, <2>5 DEF a, b, c, d, e
<1>3. CASE map # {0,5,6,7} /\ map # {2,3,4,6}
  <2>1. OrientPyr(n, map) = n
    BY <1>3, Zenon DEF OrientPyr
  <2> QED
    BY <2>1
<1> QED
  BY <1>1, <1>2, <1>3

(* The children of a pyramid use vertices between its corners only. *)
LEMMA PyrChildren ==
  ASSUME NEW V, Joins(V), NEW parent \in [0 .. 4 -> V], NEW map \in PyrMaps
  PROVE  \A child \in SplitPyr(parent, map) : Made(V, child)
<1> DEFINE n == OrientPyr(parent, map)
           m(i, j) == Between(n, i, j)
           Pyr(a, b, c, d, e) == Cell("pyr", Listed(<<a, b, c, d, e>>))
           Pri(a, b, c, d, e, f) == Cell("pri", Listed(<<a, b, c, d, e, f>>))
           Tet(a, b, c, d) == Cell("tet", Tet4(a, b, c, d))
           b0 == {Cell("pyr", n)}
           b1 == {Pyr(m(0,1), n[1], n[2], m(3,4), n[4]),
                  Pyr(n[0], m(0,1), n[2], n[3], m(3,4))}
           b2 == {Pyr(m(0,3), m(1,4), n[2], n[3], n[4]),
                  Pyr(n[0], n[1], n[2], m(0,3), m(1,4))}
           b3 == {Pyr(n[0], m(1,2), n[2], n[3], m(4,2)),
                  Pri(n[0], n[1], m(1,2), n[3], n[4], m(4,2))}
           b4 == {Pyr(m(0,2), n[1], n[2], m(3,2), n[4]),
                  Pri(n[0], n[1], m(0,2), n[3], n[4], m(3,2))}
           b5 == {Pyr(m(0,2), m(1,2), n[2], m(3,2), m(4,2)),
                  Pri(m(0,1), m(1,2), m(2,0), m(3,4), m(4,2), m(2,3)),
                  Pri(n[0], m(0,1), m(0,2), n[3], m(3,4), m(3,2)),
                  Pri(m(0,1), n[1], m(1,2), m(3,4), n[4], m(4,2))}
           b6 == {Pyr(n[0], n[1], m(4,2), n[3], n[4]),
                  Tet(n[0], n[1], n[2], m(4,2)),
                  Tet(n[0], n[2], n[3], m(4,2))}
           b7 == {Pyr(m(0,1), n[1], m(1,2), m(3,4), n[4]),
                  Pyr(n[0], m(0,1), m(0,2), n[3], m(3,4)),
                  Tet(n[4], m(3,4), n[2], m(1,2)),
                  Tet(m(3,4), n[3], n[2], m(0,2)),
                  Tet(m(0,2), m(1,2), n[2], m(3,4)),
                  Tet(m(0,2), m(0,1), m(1,2), m(3,4))}
           body == CASE map = {} -> b0
                     [] map = {0,7} -> b1
                     [] map = {2,4} -> b2
                     [] map = {3,6} -> b3
                     [] map = {1,5} -> b4
                     [] map = {0,1,3,5,6,7} -> b5
                     [] map = {6} -> b6
                     [] map \in {{0,1,3,7}, {0,5,6,7}, {2,3,4,6}} -> b7
<1>1. SplitPyr(parent, map) = body
  BY Zenon DEF SplitPyr
<1>2. \/ map = {}
      \/ map = {0,7}
      \/ map = {2,4}
      \/ map = {3,6}
      \/ map = {1,5}
      \/ map = {0,1,3,5,6,7}
      \/ map = {6}
      \/ map \in {{0,1,3,7}, {0,5,6,7}, {2,3,4,6}}
  BY DEF PyrMaps
<1>3. n \in [0 .. 4 -> V]
  BY TurnedPyr
<1> HIDE DEF n
<1>4. /\ n[0] \in V /\ n[1] \in V /\ n[2] \in V /\ n[3] \in V /\ n[4] \in V
      /\ \A i, j \in 0 .. 4 : m(i, j) \in V
  BY <1>3 DEF Between, Joins
<1>5. /\ m(0,1) \in V /\ m(0,2) \in V /\ m(0,3) \in V /\ m(1,2) \in V /\ m(1,4) \in V
      /\ m(2,0) \in V /\ m(2,3) \in V /\ m(3,2) \in V /\ m(3,4) \in V /\ m(4,2) \in V
  <2>1. 0 \in 0 .. 4 /\ 1 \in 0 .. 4 /\ 2 \in 0 .. 4 /\ 3 \in 0 .. 4 /\ 4 \in 0 .. 4
    OBVIOUS
  <2> HIDE DEF m
  <2> QED
    BY <1>4, <2>1
<1>6. /\ \A a, b, c, d, e \in V : Made(V, Pyr(a, b, c, d, e))
      /\ \A a, b, c, d, e, f \in V : Made(V, Pri(a, b, c, d, e, f))
      /\ \A a, b, c, d \in V : Made(V, Tet(a, b, c, d))
  BY MadeOfListed DEF Tet4
<1>7. \A child \in b0 : Made(V, child)
  BY <1>3 DEF Made, Cell
<1> HIDE DEF m, Pyr, Pri, Tet
<1>8. \A child \in b1 : Made(V, child)
  <2>1. /\ Made(V, Pyr(m(0,1), n[1], n[2], m(3,4), n[4]))
        /\ Made(V, Pyr(n[0], m(0,1), n[2], n[3], m(3,4)))
    BY <1>4, <1>5, <1>6
  <2> QED
    BY <2>1
<1>9. \A child \in b2 : Made(V, child)
  <2>1. /\ Made(V, Pyr(m(0,3), m(1,4), n[2], n[3], n[4]))
        /\ Made(V, Pyr(n[0], n[1], n[2], m(0,3), m(1,4)))
    BY <1>4, <1>5, <1>6
  <2> QED
    BY <2>1
<1>10. \A child \in b3 : Made(V, child)
  <2>1. /\ Made(V, Pyr(n[0], m(1,2), n[2], n[3], m(4,2)))
        /\ Made(V, Pri(n[0], n[1], m(1,2), n[3], n[4], m(4,2)))
    BY <1>4, <1>5, <1>6
  <2> QED
    BY <2>1
<1>11. \A child \in b4 : Made(V, child)
  <2>1. /\ Made(V, Pyr(m(0,2), n[1], n[2], m(3,2), n[4]))
        /\ Made(V, Pri(n[0], n[1], m(0,2), n[3], n[4], m(3,2)))
    BY <1>4, <1>5, <1>6
  <2> QED
    BY <2>1
<1>12. \A child \in b5 : Made(V, child)
  <2>1. /\ Made(V, Pyr(m(0,2), m(1,2), n[2], m(3,2), m(4,2)))
        /\ Made(V, Pri(m(0,1), m(1,2), m(2,0), m(3,4), m(4,2), m(2,3)))
        /\ Made(V, Pri(n[0], m(0,1), m(0,2), n[3], m(3,4), m(3,2)))
        /\ Made(V, Pri(m(0,1), n[1], m(1,2), m(3,4), n[4], m(4,2)))
    BY <1>4, <1>5, <1>6
  <2> QED
    BY <2>1
<1>13. \A child \in b6 : Made(V, child)
  <2>1. /\ Made(V, Pyr(n[0], n[1], m(4,2), n[3], n[4]))
        /\ Made(V, Tet(n[0], n[1], n[2], m(4,2)))
        /\ Made(V, Tet(n[0], n[2], n[3], m(4,2)))
    BY <1>4, <1>5, <1>6
  <2> QED
    BY <2>1
<1>14. \A child \in b7 : Made(V, child)
  <2>1. /\ Made(V, Pyr(m(0,1), n[1], m(1,2), m(3,4), n[4]))
        /\ Made(V, Pyr(n[0], m(0,1), m(0,2), n[3], m(3,4)))
        /\ Made(V, Tet(n[4], m(3,4), n[2], m(1,2)))
        /\ Made(V, Tet(m(3,4), n[3], n[2], m(0,2)))
        /\ Made(V, Tet(m(0,2), m(1,2), n[2], m(3,4)))
        /\ Made(V, Tet(m(0,2), m(0,1), m(1,2), m(3,4)))
    BY <1>4, <1>5, <1>6
  <2> QED
    BY <2>1
<1> HIDE DEF b0, b1, b2, b3, b4, b5, b6, b7
<1>15. body = b0 \/ body = b1 \/ body = b2 \/ body = b3 \/ body = b4 \/ body = b5 \/ body = b6 \/ body = b7
  <2>1. CASE map = {}
    <3>1. map # {0,7} /\ map # {2,4} /\ map # {3,6} /\ map # {1,5} /\ map # {0,1,3,5,6,7} /\ map # {6}
          /\ ~ (map \in {{0,1,3,7}, {0,5,6,7}, {2,3,4,6}})
      BY <2>1
    <3>2. body = b0
      BY <2>1, <3>1, Zenon
    <3> QED
      BY <3>2
  <2>2. CASE map = {0,7}
    <3>1. map # {} /\ map # {2,4} /\ map # {3,6} /\ map # {1,5} /\ map # {0,1,3,5,6,7} /\ map # {6}
          /\ ~ (map \in {{0,1,3,7}, {0,5,6,7}, {2,3,4,6}})
      BY <2>2
    <3>2. body = b1
      BY <2>2, <3>1, Zenon
    <3> QED
      BY <3>2
  <2>3. CASE map = {2,4}
    <3>1. map # {} /\ map # {0,7} /\ map # {3,6} /\ map # {1,5} /\ map # {0,1,3,5,6,7} /\ map # {6}
          /\ ~ (map \in {{0,1,3,7}, {0,5,6,7}, {2,3,4,6}})
      BY <2>3
    <3>2. body = b2
      BY <2>3, <3>1, Zenon
    <3> QED
      BY <3>2
  <2>4. CASE map = {3,6}
    <3>1. map # {} /\ map # {0,7} /\ map # {2,4} /\ map # {1,5} /\ map # {0,1,3,5,6,7} /\ map # {6}
          /\ ~ (map \in {{0,1,3,7}, {0,5,6,7}, {2,3,4,6}})
      BY <2>4
    <3>2. body = b3
      BY <2>4, <3>1, Zenon
    <3> QED
      BY <3>2
  <2>5. CASE map = {1,5}
    <3>1. map # {} /\ map # {0,7} /\ map # {2,4} /\ map # {3,6} /\ map # {0,1,3,5,6,7} /\ map # {6}
          /\ ~ (map \in {{0,1,3,7}, {0,5,6,7}, {2,3,4,6}})
      BY <2>5
    <3>2. body = b4
      BY <2>5, <3>1, Zenon
    <3> QED
      BY <3>2
  <2>6. CASE map = {0,1,3,5,6,7}
    <3>1. map # {} /\ map # {0,7} /\ map # {2,4} /\ map # {3,6} /\ map # {1,5} /\ map # {6}
          /\ ~ (map \in {{0,1,3,7}, {0,5,6,7}, {2,3,4,6}})
      BY <2>6
    <3>2. body = b5
      BY <2>6, <3>1, Zenon
    <3> QED
      BY <3>2
  <2>7. CASE map = {6}
    <3>1. map # {} /\ map # {0,7} /\ map # {2,4} /\ map # {3,6} /\ map # {1,5} /\ map # {0,1,3,5,6,7}
          /\ ~ (map \in {{0,1,3,7}, {0,5,6,7}, {2,3,4,6}})
      BY <2>7
    <3>2. body = b6
      BY <2>7, <3>1, Zenon
    <3> QED
      BY <3>2
  <2>8. CASE map \in {{0,1,3,7}, {0,5,6,7}, {2,3,4,6}}
    <3>1. map # {} /\ map # {0,7} /\ map # {2,4} /\ map # {3,6} /\ map # {1,5} /\ map # {0,1,3,5,6,7} /\ map # {6}
      BY <2>8
    <3>2. body = b7
      BY <2>8, <3>1, Zenon
    <3> QED
      BY <3>2
  <2> HIDE DEF body
  <2> QED
    BY <1>2, <2>1, <2>2, <2>3, <2>4, <2>5, <2>6, <2>7, <2>8
<1> HIDE DEF body
<1> QED
  BY <1>1, <1>7, <1>8, <1>9, <1>10, <1>11, <1>12, <1>13, <1>14, <1>15

(* The vertices between nodes of a cell. *)
Vertices(c) == (SUBSET NodesOf(c)) \ {{}}

(* Whoever owns one of them owns a node of the cell. *)
LEMMA VertexOfCell ==
  ASSUME NEW c \in Mesh, NEW v \in Vertices(c)
  PROVE  Low(v) \in NodesOf(c)
<1>1. v \in SUBSET Nat /\ v # {} /\ v \subseteq NodesOf(c)
  BY NodeOfCell DEF Vertices
<1>2. \E n \in v : \A m \in v : n <= m
  BY <1>1, LeastNatural
<1>3. Low(v) \in v
  BY <1>2 DEF Low
<1> QED
  BY <1>1, <1>3

(* The parent as a list of vertices. *)
LEMMA ParentVertices ==
  ASSUME NEW c \in Mesh
  PROVE  /\ Parent(c).nodes \in [0 .. NodePer(c.kind) - 1 -> Vertices(c)]
         /\ \A i \in DOMAIN c.nodes : Parent(c).nodes[i] = {c.nodes[i]}
         /\ DOMAIN c.nodes = 0 .. NodePer(c.kind) - 1
         /\ Joins(Vertices(c))
<1>1. DOMAIN c.nodes = 0 .. NodePer(c.kind) - 1
  BY MeshAssumption
<1>2. Parent(c).nodes = [i \in DOMAIN c.nodes |-> {c.nodes[i]}]
  BY DEF Parent, Cell
<1>3. \A i \in DOMAIN c.nodes : {c.nodes[i]} \in Vertices(c)
  BY DEF Vertices, NodesOf
<1>4. Joins(Vertices(c))
  BY DEF Joins, Vertices
<1> QED
  BY <1>1, <1>2, <1>3, <1>4

(* The templates of each kind. *)
LEMMA ChildrenByKind ==
  ASSUME NEW c, NEW m
  PROVE  /\ c.kind = "tet" => /\ ChildrenOf(c, m) = SplitTet(Parent(c).nodes, ref_subdiv_map(c, m))
                              /\ Maps(c.kind) = TetMaps
         /\ c.kind = "pri" => /\ ChildrenOf(c, m) = SplitPri(Parent(c).nodes, ref_subdiv_map(c, m))
                              /\ Maps(c.kind) = PriMaps
         /\ c.kind = "pyr" => /\ ChildrenOf(c, m) = SplitPyr(Parent(c).nodes, ref_subdiv_map(c, m))
                              /\ Maps(c.kind) = PyrMaps
<1>0. "tet" # "pri" /\ "tet" # "pyr" /\ "pri" # "pyr"
  OBVIOUS
<1>1. ASSUME c.kind = "tet" PROVE c.kind # "pri" /\ c.kind # "pyr"
  BY <1>1
<1>2. ASSUME c.kind = "pri" PROVE c.kind # "tet" /\ c.kind # "pyr"
  BY <1>2
<1>3. ASSUME c.kind = "pyr" PROVE c.kind # "tet" /\ c.kind # "pri"
  BY <1>3
<1>4. ASSUME c.kind = "tet"
      PROVE  /\ ChildrenOf(c, m) = SplitTet(Parent(c).nodes, ref_subdiv_map(c, m))
             /\ Maps(c.kind) = TetMaps
  BY <1>1, <1>4, Zenon DEF ChildrenOf, Maps
<1>5. ASSUME c.kind = "pri"
      PROVE  /\ ChildrenOf(c, m) = SplitPri(Parent(c).nodes, ref_subdiv_map(c, m))
             /\ Maps(c.kind) = PriMaps
  BY <1>2, <1>5, Zenon DEF ChildrenOf, Maps
<1>6. ASSUME c.kind = "pyr"
      PROVE  /\ ChildrenOf(c, m) = SplitPyr(Parent(c).nodes, ref_subdiv_map(c, m))
             /\ Maps(c.kind) = PyrMaps
  BY <1>3, <1>6, Zenon DEF ChildrenOf, Maps
<1> QED
  BY <1>4, <1>5, <1>6

(* The children of a cell. *)
LEMMA ChildVertices ==
  ASSUME NEW c \in Mesh, NEW m, ref_subdiv_map(c, m) \in Maps(c.kind)
  PROVE  \A child \in ChildrenOf(c, m) : Made(Vertices(c), child)
<1> DEFINE V == Vertices(c)
           n == Parent(c).nodes
           map == ref_subdiv_map(c, m)
<1>1. Joins(V) /\ n \in [0 .. NodePer(c.kind) - 1 -> V]
  BY ParentVertices
<1> HIDE DEF V, n
<1>2. c.kind \in Kinds
  BY MeshAssumption DEF Kinds
<1>3. CASE c.kind = "tet"
  <2>1. n \in [0 .. 3 -> V] /\ map \in TetMaps /\ ChildrenOf(c, m) = SplitTet(n, map)
    <3>1. 0 .. NodePer(c.kind) - 1 = 0 .. 3
      BY <1>3, Shapes
    <3> QED
      BY <1>1, <1>3, <3>1, ChildrenByKind DEF n
  <2> HIDE DEF map
  <2>2. \A child \in SplitTet(n, map) : Made(V, child)
    BY <1>1, <2>1, TetChildren DEF Made
  <2> QED
    BY <2>1, <2>2 DEF V
<1>4. CASE c.kind = "pri"
  <2>1. n \in [0 .. 5 -> V] /\ map \in PriMaps /\ ChildrenOf(c, m) = SplitPri(n, map)
    <3>1. 0 .. NodePer(c.kind) - 1 = 0 .. 5
      BY <1>4, Shapes
    <3> QED
      BY <1>1, <1>4, <3>1, ChildrenByKind DEF n
  <2> HIDE DEF map
  <2>2. \A child \in SplitPri(n, map) : Made(V, child)
    BY <1>1, <2>1, PriChildren DEF Made
  <2> QED
    BY <2>1, <2>2 DEF V
<1>5. CASE c.kind = "pyr"
  <2>1. n \in [0 .. 4 -> V] /\ map \in PyrMaps /\ ChildrenOf(c, m) = SplitPyr(n, map)
    <3>1. 0 .. NodePer(c.kind) - 1 = 0 .. 4
      BY <1>5, Shapes
    <3> QED
      BY <1>1, <1>5, <3>1, ChildrenByKind DEF n
  <2> HIDE DEF map
  <2>2. \A child \in SplitPyr(n, map) : Made(V, child)
    BY <1>1, <2>1, PyrChildren
  <2> QED
    BY <2>1, <2>2 DEF V
<1> QED
  BY <1>2, <1>3, <1>4, <1>5 DEF Kinds

(* A cell without marks stays. *)
LEMMA UnsplitCell ==
  ASSUME NEW c \in Mesh, NEW m, ref_subdiv_map(c, m) = {}
  PROVE  ChildrenOf(c, m) = {Parent(c)}
<1> DEFINE n == Parent(c).nodes
<1>1. Parent(c) = Cell(c.kind, n)
  BY DEF Parent, Cell
<1>2. c.kind \in Kinds
  BY MeshAssumption DEF Kinds
<1>3. /\ {} # {2,4,5} /\ {} # {0,6} /\ {} # {1,7} /\ {} # {3,8} /\ {} # {0,1,3,6,7,8}
      /\ {} # {0,7} /\ {} # {2,4} /\ {} # {3,6} /\ {} # {1,5} /\ {} # {0,1,3,5,6,7}
      /\ {} # {6} /\ {} \notin {{0,1,3,7}, {0,5,6,7}, {2,3,4,6}}
      /\ {} # {0,5,6,7} /\ {} # {2,3,4,6}
  OBVIOUS
<1> HIDE DEF n
<1>4. CASE c.kind = "tet"
  <2>1. ChildrenOf(c, m) = SplitTet(n, {})
    BY <1>4, ChildrenByKind DEF n
  <2>2. SplitTet(n, {}) = {Cell("tet", d) : d \in {n}}
    BY TetTemplates
  <2> QED
    BY <1>1, <1>4, <2>1, <2>2
<1>5. CASE c.kind = "pri"
  <2>1. ChildrenOf(c, m) = SplitPri(n, {})
    BY <1>5, ChildrenByKind DEF n
  <2>2. SplitPri(n, {}) = {Cell("pri", d) : d \in {n}}
    BY <1>3, Zenon DEF SplitPri
  <2> QED
    BY <1>1, <1>5, <2>1, <2>2
<1>6. CASE c.kind = "pyr"
  <2>1. ChildrenOf(c, m) = SplitPyr(n, {})
    BY <1>6, ChildrenByKind DEF n
  <2>2. SplitPyr(n, {}) = {Cell("pyr", OrientPyr(n, {}))}
    BY <1>3, Zenon DEF SplitPyr
  <2>3. OrientPyr(n, {}) = n
    BY <1>3, Zenon DEF OrientPyr
  <2> QED
    BY <1>1, <1>6, <2>1, <2>2, <2>3
<1> QED
  BY <1>2, <1>4, <1>5, <1>6 DEF Kinds

(* The children of a tet leave none of its nodes and no node on one of its  *)
(* marked edges unused.                                                     *)
LEMMA TetUsesAll ==
  ASSUME NEW c \in Mesh, c.kind = "tet", NEW m, ref_subdiv_map(c, m) \in TetMaps
  PROVE  /\ \A x \in NodesOf(c) : Uses(ChildrenOf(c, m), {x})
         /\ \A e \in CellEdges(c) \cap m : Uses(ChildrenOf(c, m), e)
<1> DEFINE V == Vertices(c)
           n == Parent(c).nodes
           map == ref_subdiv_map(c, m)
<1>1. Joins(V) /\ n \in [0 .. 3 -> V]
  <2>1. 0 .. NodePer(c.kind) - 1 = 0 .. 3
    BY Shapes
  <2> QED
    BY <2>1, ParentVertices
<1>2. ChildrenOf(c, m) = SplitTet(n, map)
  BY ChildrenByKind
<1>3. DOMAIN c.nodes = 0 .. 3 /\ \A i \in 0 .. 3 : n[i] = {c.nodes[i]}
  BY ParentVertices, Shapes
<1>4. \A e \in CellEdges(c) \cap m : \E k \in map : k \in 0 .. 5 /\ e = c2e(c, k)
  BY EdgeEnds DEF CellEdges, EdgesOf, ref_subdiv_map
<1>5. \A k \in 0 .. 5 : c2e(c, k) = MidVertex(n, k)
  <2> SUFFICES ASSUME NEW k \in 0 .. 5 PROVE c2e(c, k) = MidVertex(n, k)
    OBVIOUS
  <2> DEFINE a == EdgeNode("tet", 0, k)
             b == EdgeNode("tet", 1, k)
  <2>1. a \in 0 .. 3 /\ b \in 0 .. 3
    BY EdgeEnds, Shapes DEF Kinds
  <2>2. c2e(c, k) = {c.nodes[a], c.nodes[b]} /\ MidVertex(n, k) = n[a] \cup n[b]
    BY DEF c2e, MidVertex, Between
  <2> HIDE DEF a, b, n
  <2> QED
    BY <1>3, <2>1, <2>2
<1> HIDE DEF V, n, map
<1>6. /\ \A i \in 0 .. 3 : Uses(SplitTet(n, map), n[i])
      /\ \A k \in map : Uses(SplitTet(n, map), MidVertex(n, k))
  BY <1>1, TetChildren DEF map
<1>7. \A x \in NodesOf(c) : \E i \in 0 .. 3 : x = c.nodes[i]
  BY <1>3 DEF NodesOf
<1> QED
  BY <1>2, <1>3, <1>4, <1>5, <1>6, <1>7

(* A rank makes the children all others make. *)
LEMMA ChildrenLocal ==
  ASSUME NEW r \in Rank, NEW c \in Held(r), NEW A
  PROVE  ChildrenOf(c, A \cap HeldEdges[r]) = ChildrenOf(c, A)
<1>1. ref_subdiv_map(c, A \cap HeldEdges[r]) = ref_subdiv_map(c, A)
  BY MapIsLocal
<1>2. c.kind \in Kinds
  BY MeshAssumption DEF Kinds, Held
<1> QED
  BY <1>1, <1>2, ChildrenByKind DEF Kinds

(* A vertex of a rank that a child uses stays with the rank. *)
LEMMA LeftOverUses ==
  ASSUME NEW r \in Rank, NEW c \in Held(r), NEW v, Uses(ChildrenOf(c, mark[r]), v),
         VertexPart(v) = r
  PROVE  \E child \in LeftOver(r) : \E i \in DOMAIN child.nodes : child.nodes[i] = v
<1>1. PICK child \in ChildrenOf(c, mark[r]) : \E i \in DOMAIN child.nodes : child.nodes[i] = v
  BY DEF Uses
<1>2. ref_subdiv_add_local_cell(r, child)
  BY <1>1 DEF ref_subdiv_add_local_cell
<1>3. child \in LeftOver(r)
  BY <1>2 DEF LeftOver
<1> QED
  BY <1>1, <1>3

(* In a mesh of tets with patterns of the templates a rank can be split. *)
LEMMA TetsSplit ==
  ASSUME AllTets, NEW r \in Rank, NEW A \in SUBSET Edges, mark[r] = A \cap HeldEdges[r],
         node[r] = mark[r], TetsReady(A)
  PROVE  Splittable(r) /\ ~ NodeUnused(r)
<1>1. ASSUME NEW c \in Held(r)
      PROVE  c \in Mesh /\ c.kind = "tet" /\ ref_subdiv_map(c, mark[r]) \in TetMaps
  <2>1. c \in Mesh
    BY DEF Held
  <2> QED
    BY <2>1, MapIsLocal DEF AllTets, TetsReady
<1>2. Splittable(r)
  BY <1>1, ChildrenByKind DEF Splittable
<1> SUFFICES ASSUME NEW v \in {{n} : n \in UNION {NodesOf(c) : c \in Held(r)}} \cup node[r],
                    VertexPart(v) = r
             PROVE  \E child \in LeftOver(r) : \E i \in DOMAIN child.nodes : child.nodes[i] = v
  BY <1>2 DEF NodeUnused
<1>3. \E c \in Held(r) : Uses(ChildrenOf(c, mark[r]), v)
  <2>1. CASE v \in {{n} : n \in UNION {NodesOf(c) : c \in Held(r)}}
    <3>1. PICK c \in Held(r) : \E n \in NodesOf(c) : v = {n}
      BY <2>1
    <3>2. PICK n \in NodesOf(c) : v = {n}
      BY <3>1
    <3>3. Uses(ChildrenOf(c, mark[r]), {n})
      BY <1>1, TetUsesAll
    <3> QED
      BY <3>2, <3>3
  <2>2. CASE v \in node[r]
    <3>1. v \in mark[r] /\ v \in HeldEdges[r]
      BY <2>2
    <3>2. PICK c \in Held(r) : v \in CellEdges(c)
      BY <3>1 DEF HeldEdges, ref_edge_create
    <3>3. v \in CellEdges(c) \cap mark[r]
      BY <3>1, <3>2
    <3> QED
      BY <1>1, <3>3, TetUsesAll
  <2> QED
    BY <2>1, <2>2
<1> QED
  BY <1>3, LeftOverUses

(* What each rank keeps is its share of the split mesh. *)
LEMMA LeftOverIsShare ==
  ASSUME NEW A \in SUBSET Edges, Shared(mark, A), \A s \in Rank : Splittable(s), NEW r \in Rank
  PROVE  LeftOver(r) = {child \in UNION {ChildrenOf(c, A) : c \in Mesh} :
                          \E i \in DOMAIN child.nodes : VertexPart(child.nodes[i]) = r}
<1> DEFINE Share == {child \in UNION {ChildrenOf(c, A) : c \in Mesh} :
                       \E i \in DOMAIN child.nodes : VertexPart(child.nodes[i]) = r}
<1>1. \A s \in Rank : mark[s] = A \cap HeldEdges[s]
  BY DEF Shared
<1>2. ASSUME NEW c \in Held(r)
      PROVE  c \in Mesh /\ ChildrenOf(c, mark[r]) = ChildrenOf(c, A)
  BY <1>1, ChildrenLocal DEF Held
<1>3. ASSUME NEW c \in Mesh PROVE ref_subdiv_map(c, A) \in Maps(c.kind)
  <2>1. PICK s \in Rank : c \in Held(s)
    BY CellIsHeld
  <2>2. ref_subdiv_map(c, mark[s]) \in Maps(c.kind)
    BY <2>1 DEF Splittable
  <2> QED
    BY <1>1, <2>1, <2>2, MapIsLocal
<1>4. ASSUME NEW c \in Held(r), NEW child \in ChildrenOf(c, mark[r]),
             ref_subdiv_map(c, mark[r]) = {}
      PROVE  ref_subdiv_add_local_cell(r, child)
  <2>1. child = Parent(c)
    BY <1>2, <1>4, UnsplitCell
  <2>2. PICK n \in NodesOf(c) : Part[n] = r
    BY DEF Held
  <2>3. PICK i \in DOMAIN c.nodes : n = c.nodes[i]
    BY DEF NodesOf
  <2>4. n \in Nat
    BY <1>2, NodeOfCell
  <2>5. Low({n}) = n
    BY <2>4 DEF Low
  <2>6. i \in DOMAIN child.nodes /\ child.nodes[i] = {n}
    BY <1>2, <2>1, <2>3, ParentVertices
  <2> QED
    BY <2>2, <2>5, <2>6 DEF ref_subdiv_add_local_cell, VertexPart
<1>5. LeftOver(r) \subseteq Share
  <2> SUFFICES ASSUME NEW child \in LeftOver(r) PROVE child \in Share
    OBVIOUS
  <2>1. PICK c \in Held(r) :
          /\ child \in ChildrenOf(c, mark[r])
          /\ ref_subdiv_map(c, mark[r]) = {} \/ ref_subdiv_add_local_cell(r, child)
    BY DEF LeftOver
  <2>2. ref_subdiv_add_local_cell(r, child)
    BY <1>4, <2>1
  <2> QED
    BY <1>2, <2>1, <2>2 DEF ref_subdiv_add_local_cell
<1>6. Share \subseteq LeftOver(r)
  <2> SUFFICES ASSUME NEW child \in Share PROVE child \in LeftOver(r)
    OBVIOUS
  <2>1. PICK c \in Mesh : child \in ChildrenOf(c, A)
    OBVIOUS
  <2>2. PICK i \in DOMAIN child.nodes : VertexPart(child.nodes[i]) = r
    OBVIOUS
  <2>3. child.nodes[i] \in Vertices(c)
    BY <1>3, <2>1, ChildVertices DEF Made
  <2>4. Low(child.nodes[i]) \in NodesOf(c)
    BY <2>3, VertexOfCell
  <2>5. c \in Held(r)
    BY <2>2, <2>4 DEF Held, VertexPart
  <2>6. ref_subdiv_add_local_cell(r, child) /\ child \in ChildrenOf(c, mark[r])
    BY <1>2, <2>1, <2>2, <2>5 DEF ref_subdiv_add_local_cell
  <2> QED
    BY <2>5, <2>6 DEF LeftOver
<1> QED
  BY <1>5, <1>6

------------------------------------------------------------------------------
(* The steps *)

(* What depends on the input only. *)
LEMMA SameInput ==
  ASSUME input' = input
  PROVE  /\ Target' = Target /\ Requested' = Requested
         /\ Undisturbed' <=> Undisturbed
         /\ \A r \in Rank : Ordered(r)' <=> Ordered(r)
         /\ \A A : Below(A)' <=> Below(A)
         /\ \A A : LeastClosed(A)' <=> LeastClosed(A)
         /\ \A A : LeastKept(A)' <=> LeastKept(A)
<1>1. Requested' = Requested
  BY DEF Requested
<1>2. Target' = Target
  BY <1>1 DEF Target
<1>3. Undisturbed' <=> Undisturbed
  BY DEF Undisturbed
<1>4. \A r \in Rank : Ordered(r)' <=> Ordered(r)
  BY DEF Ordered
<1>5. \A A : Below(A)' <=> Below(A)
  BY <1>2 DEF Below
<1>6. \A A : LeastClosed(A)' <=> LeastClosed(A)
  BY <1>2, <1>5 DEF LeastClosed
<1>7. \A A : LeastKept(A)' <=> LeastKept(A)
  BY <1>1, <1>3 DEF LeastKept
<1> QED
  BY <1>1, <1>2, <1>3, <1>4, <1>5, <1>6, <1>7

(* What a sweep leaves alone. *)
LEMMA SweepFrame ==
  ASSUME IInv, NEW r \in Rank, NEW new \in SUBSET HeldEdges[r], Sweep(r, new),
         phase \in {"relax", "unmark", "neg"}
  PROVE  /\ TypeInv' /\ EarlyInv' /\ RelaxedInv' /\ SplitInv' /\ SafeInv'
         /\ input' = input /\ phase' = phase /\ node' = node
         /\ nsweeps' = nsweeps /\ rounds' = rounds
         /\ r \notin swept /\ r \notin again /\ swept' = swept \cup {r}
         /\ mark'[r] = new /\ \A s \in Rank : s # r => mark'[s] = mark[s]
         /\ again' = IF new # mark[r] THEN again \cup {r} ELSE again
<1>1. /\ input' = input /\ phase' = phase /\ node' = node /\ cells' = cells
      /\ nsweeps' = nsweeps /\ rounds' = rounds
      /\ r \notin swept /\ swept' = swept \cup {r}
      /\ mark' = [mark EXCEPT ![r] = new]
      /\ again' = IF new # mark[r] THEN again \cup {r} ELSE again
  BY DEF Sweep
<1>2. TypeInv /\ EarlyInv
  BY DEF IInv
<1>3. r \notin again /\ mark'[r] = new /\ \A s \in Rank : s # r => mark'[s] = mark[s]
  BY <1>1, <1>2 DEF TypeInv
<1>4. TypeInv'
  <2>1. \A s \in Rank : Ordered(s)' /\ input'.asked[s] \subseteq HeldEdges[s]
    BY <1>1, <1>2, SameInput DEF TypeInv
  <2>2. new \in SUBSET Edges
    BY HeldIsPart
  <2>3. mark' \in [Rank -> SUBSET Edges]
    BY <1>1, <1>2, <2>2 DEF TypeInv
  <2>4. \A s \in Rank : mark'[s] \subseteq HeldEdges[s]
    BY <1>2, <1>3 DEF TypeInv
  <2>5. again' \subseteq swept' /\ swept' \subseteq Rank
    BY <1>1, <1>2 DEF TypeInv
  <2> QED
    BY <1>1, <1>2, <2>1, <2>3, <2>4, <2>5 DEF TypeInv
<1>5. EarlyInv'
  BY <1>1, <1>2 DEF EarlyInv
<1>6. RelaxedInv' /\ SplitInv' /\ SafeInv'
  BY <1>1 DEF RelaxedInv, SplitInv, SafeInv
<1> QED
  BY <1>1, <1>3, <1>4, <1>5, <1>6

(* A sweep of mark_relax. *)
LEMMA RelaxSweepStep ==
  ASSUME IInv, NEW r \in Rank, MarkRelaxSweep(r)
  PROVE  IInv'
<1> DEFINE new == PromoteSweep(r, mark[r])
<1>1. TypeInv /\ RelaxInv /\ phase = "relax" /\ Sweep(r, new)
  BY DEF IInv, MarkRelaxSweep
<1>2. Ordered(r) /\ mark[r] \in SUBSET HeldEdges[r]
  BY <1>1 DEF TypeInv
<1>3. /\ new \in SUBSET HeldEdges[r] /\ mark[r] \subseteq new
      /\ new = mark[r] => \A c \in Held(r) : PromoteCell(mark[r], c) = mark[r]
      /\ \A s : Closed(s) /\ mark[r] \subseteq s => new \subseteq s
  BY <1>2, PromoteSweepGrows
<1> HIDE DEF new
<1>4. /\ TypeInv' /\ EarlyInv' /\ RelaxedInv' /\ SplitInv' /\ SafeInv'
      /\ input' = input /\ phase' = phase
      /\ r \notin swept /\ r \notin again /\ swept' = swept \cup {r}
      /\ mark'[r] = new /\ \A s \in Rank : s # r => mark'[s] = mark[s]
      /\ again' = IF new # mark[r] THEN again \cup {r} ELSE again
  BY <1>1, <1>3, SweepFrame
<1>5. PICK A \in SUBSET Edges :
        /\ Target \subseteq A
        /\ \A s \in Rank : /\ A \cap HeldEdges[s] \subseteq mark[s]
                           /\ Below(mark[s])
                           /\ s \notin again => mark[s] = A \cap HeldEdges[s]
        /\ \A s \in swept \ again : \A c \in Held(s) : PromoteCell(mark[s], c) = mark[s]
  BY <1>1 DEF RelaxInv
<1>6. Target' = Target /\ \A B : Below(B)' <=> Below(B)
  BY <1>4, SameInput
<1>7. Below(new)
  <2>1. Below(mark[r])
    BY <1>5
  <2> QED
    BY <1>3, <2>1 DEF Below
<1>8. \A s \in Rank : /\ A \cap HeldEdges[s] \subseteq mark'[s]
                      /\ Below(mark'[s])
                      /\ s \notin again' => mark'[s] = A \cap HeldEdges[s]
  BY <1>3, <1>4, <1>5, <1>7
<1>9. \A s \in swept' \ again' : \A c \in Held(s) : PromoteCell(mark'[s], c) = mark'[s]
  <2> SUFFICES ASSUME NEW s \in swept' \ again'
               PROVE  \A c \in Held(s) : PromoteCell(mark'[s], c) = mark'[s]
    OBVIOUS
  <2>1. CASE s = r
    BY <1>3, <1>4, <2>1
  <2>2. CASE s # r
    <3>1. s \in swept \ again /\ s \in Rank
      BY <1>1, <1>4, <2>2 DEF TypeInv
    <3> QED
      BY <1>4, <1>5, <2>2, <3>1
  <2> QED
    BY <2>1, <2>2
<1>10. RelaxInv'
  <2>1. \A s \in Rank : /\ A \cap HeldEdges[s] \subseteq mark'[s]
                        /\ Below(mark[s])'
                        /\ s \notin again' => mark'[s] = A \cap HeldEdges[s]
    <3>1. \A s \in Rank : Below(mark[s])'
      BY <1>6, <1>8 DEF Below
    <3> QED
      BY <1>8, <3>1
  <2> QED
    BY <1>5, <1>6, <1>9, <2>1 DEF RelaxInv
<1>11. UnmarkInv' /\ NegInv'
  BY <1>1, <1>4 DEF UnmarkInv, NegInv
<1> QED
  BY <1>4, <1>10, <1>11 DEF IInv

(* A sweep of unmark_relax. *)
LEMMA UnmarkSweepStep ==
  ASSUME IInv, NEW r \in Rank, UnmarkRelaxSweep(r)
  PROVE  IInv'
<1> DEFINE new == UnmarkSweep(r, mark[r])
<1>1. TypeInv /\ UnmarkInv /\ phase = "unmark" /\ Sweep(r, new)
  BY DEF IInv, UnmarkRelaxSweep
<1>2. Ordered(r) /\ mark[r] \in SUBSET HeldEdges[r]
  BY <1>1 DEF TypeInv
<1>3. /\ Unmarking(mark[r], new)
      /\ new = mark[r] =>
           \A c \in Held(r) : c.kind = "tet" => ref_subdiv_map(c, mark[r]) \in TetMaps
  BY <1>2, UnmarkSweepShrinks
<1> HIDE DEF new
<1>4. new \subseteq mark[r] /\ new \in SUBSET HeldEdges[r]
  BY <1>2, <1>3 DEF Unmarking
<1>5. /\ TypeInv' /\ EarlyInv' /\ RelaxedInv' /\ SplitInv' /\ SafeInv'
      /\ input' = input /\ phase' = phase /\ node' = node
      /\ nsweeps' = nsweeps /\ rounds' = rounds
      /\ r \notin swept /\ r \notin again /\ swept' = swept \cup {r}
      /\ mark'[r] = new /\ \A s \in Rank : s # r => mark'[s] = mark[s]
      /\ again' = IF new # mark[r] THEN again \cup {r} ELSE again
  BY <1>1, <1>4, SweepFrame
<1>6. PICK A \in SUBSET Edges :
        /\ Sweeping(A) /\ LeastKept(A)
        /\ Counted(nsweeps, A) /\ Counted(rounds, A)
        /\ input.allow_geometry => Backed(A)
        /\ \A s \in Rank : Unmarking(A \cap HeldEdges[s], mark[s])
        /\ \A s \in swept \ again : \A c \in Held(s) :
             c.kind = "tet" => ref_subdiv_map(c, mark[s]) \in TetMaps
  BY <1>1 DEF UnmarkInv
<1>7. mark[r] = A \cap HeldEdges[r]
  BY <1>5, <1>6 DEF Sweeping
<1>8. Sweeping(A)'
  <2> SUFFICES ASSUME NEW s \in Rank
               PROVE  /\ mark'[s] \subseteq A \cap HeldEdges[s]
                      /\ s \in again' <=> mark'[s] # A \cap HeldEdges[s]
    BY DEF Sweeping
  <2>1. CASE s = r
    BY <1>4, <1>5, <1>7, <2>1
  <2>2. CASE s # r
    BY <1>5, <1>6, <2>2 DEF Sweeping
  <2> QED
    BY <2>1, <2>2
<1>9. LeastKept(A)'
  BY <1>5, <1>6, SameInput
<1>10. \A s \in Rank : Unmarking(A \cap HeldEdges[s], mark'[s])
  BY <1>3, <1>5, <1>6, <1>7
<1>11. ASSUME NEW s \in swept' \ again', NEW c \in Held(s), c.kind = "tet"
       PROVE  ref_subdiv_map(c, mark'[s]) \in TetMaps
  <2>1. CASE s = r
    BY <1>3, <1>5, <1>11, <2>1
  <2>2. CASE s # r
    <3>1. s \in swept \ again /\ s \in Rank
      BY <1>1, <1>5, <2>2 DEF TypeInv
    <3> QED
      BY <1>5, <1>6, <1>11, <2>2, <3>1
  <2> QED
    BY <2>1, <2>2
<1>12. input'.allow_geometry => Backed(A)'
  BY <1>5, <1>6 DEF Backed
<1>13. UnmarkInv'
  <2>1. \A s \in Rank : Unmarking(A \cap HeldEdges[s], mark[s])'
    BY <1>10 DEF Unmarking, Least
  <2>2. Counted(nsweeps, A)' /\ Counted(rounds, A)'
    BY <1>5, <1>6 DEF Counted
  <2> QED
    BY <1>8, <1>9, <1>11, <1>12, <2>1, <2>2 DEF UnmarkInv
<1>14. RelaxInv' /\ NegInv'
  BY <1>1, <1>5 DEF RelaxInv, NegInv
<1> QED
  BY <1>5, <1>13, <1>14 DEF IInv

(* A sweep of unmark_neg_tet_geom_support. *)
LEMMA NegSweepStep ==
  ASSUME IInv, NEW r \in Rank, UnmarkNegSweepOf(r)
  PROVE  IInv'
<1> DEFINE new == UnmarkNegSweep(r, mark[r])
<1>1. TypeInv /\ NegInv /\ phase = "neg" /\ Sweep(r, new)
  BY DEF IInv, UnmarkNegSweepOf
<1>2. Ordered(r) /\ mark[r] \in SUBSET HeldEdges[r]
  BY <1>1 DEF TypeInv
<1>3. new \subseteq mark[r] /\ (input.inverted = {} => new = mark[r])
  BY <1>2, UnmarkNegSweepShrinks
<1> HIDE DEF new
<1>4. new \in SUBSET HeldEdges[r]
  BY <1>2, <1>3
<1>5. /\ TypeInv' /\ EarlyInv' /\ RelaxedInv' /\ SplitInv' /\ SafeInv'
      /\ input' = input /\ phase' = phase /\ node' = node
      /\ nsweeps' = nsweeps /\ rounds' = rounds
      /\ r \notin swept /\ r \notin again /\ swept' = swept \cup {r}
      /\ mark'[r] = new /\ \A s \in Rank : s # r => mark'[s] = mark[s]
      /\ again' = IF new # mark[r] THEN again \cup {r} ELSE again
  BY <1>1, <1>4, SweepFrame
<1>6. PICK A \in SUBSET Edges :
        /\ Sweeping(A) /\ LeastKept(A)
        /\ nsweeps = 0 /\ Counted(rounds, A)
        /\ Backed(A) /\ TetsReady(A)
        /\ input.inverted = {} => again = {}
  BY <1>1 DEF NegInv
<1>7. mark[r] = A \cap HeldEdges[r]
  BY <1>5, <1>6 DEF Sweeping
<1>8. Sweeping(A)'
  <2> SUFFICES ASSUME NEW s \in Rank
               PROVE  /\ mark'[s] \subseteq A \cap HeldEdges[s]
                      /\ s \in again' <=> mark'[s] # A \cap HeldEdges[s]
    BY DEF Sweeping
  <2>1. CASE s = r
    BY <1>3, <1>5, <1>7, <2>1
  <2>2. CASE s # r
    BY <1>5, <1>6, <2>2 DEF Sweeping
  <2> QED
    BY <2>1, <2>2
<1>9. LeastKept(A)'
  BY <1>5, <1>6, SameInput
<1>10. NegInv'
  <2>1. Counted(rounds, A)' /\ Backed(A)' /\ nsweeps' = 0
    BY <1>5, <1>6 DEF Counted, Backed
  <2>2. input'.inverted = {} => again' = {}
    BY <1>3, <1>5, <1>6
  <2> QED
    BY <1>6, <1>8, <1>9, <2>1, <2>2 DEF NegInv
<1>11. RelaxInv' /\ UnmarkInv'
  BY <1>1, <1>5 DEF RelaxInv, UnmarkInv
<1> QED
  BY <1>5, <1>10, <1>11 DEF IInv

(* What an exchange that takes the least value leaves of a sweep. *)
LEMMA CommonIsLess ==
  ASSUME TypeInv, NEW A \in SUBSET Edges, Sweeping(A)
  PROVE  /\ CommonMarks(mark) \in SUBSET A
         /\ again = {} => Shared(mark, A) /\ CommonMarks(mark) = A
         /\ again # {} => CommonMarks(mark) # A
<1>1. \A e \in Edges : ref_edge_part(e) \in Rank /\ e \in HeldEdges[ref_edge_part(e)]
  BY OwnerHolds
<1>2. CommonMarks(mark) \in SUBSET A
  BY <1>1 DEF CommonMarks, Sweeping
<1>3. ASSUME again = {} PROVE Shared(mark, A) /\ CommonMarks(mark) = A
  <2>1. Shared(mark, A)
    BY <1>3 DEF Shared, Sweeping
  <2> QED
    BY <2>1, SharedStays
<1>4. ASSUME again # {} PROVE CommonMarks(mark) # A
  <2>1. PICK r \in again : TRUE
    BY <1>4
  <2>2. r \in Rank
    BY <2>1 DEF TypeInv
  <2>3. mark[r] \subseteq A \cap HeldEdges[r] /\ mark[r] # A \cap HeldEdges[r]
    BY <2>1, <2>2 DEF Sweeping
  <2>4. PICK e \in A \cap HeldEdges[r] : e \notin mark[r]
    BY <2>3
  <2> QED
    BY <2>2, <2>4 DEF CommonMarks
<1> QED
  BY <1>2, <1>3, <1>4

(* The least requested edge is among them. *)
LEMMA LeastStays ==
  ASSUME NEW A \in SUBSET Edges, LeastKept(A),
         \A r \in Rank : Unmarking(A \cap HeldEdges[r], mark[r]),
         CommonMarks(mark) \in SUBSET A
  PROVE  LeastKept(CommonMarks(mark))
<1> SUFFICES ASSUME Undisturbed
             PROVE  /\ CommonMarks(mark) \subseteq Requested
                    /\ \A e : Least(e, Requested) => e \in CommonMarks(mark)
  BY DEF LeastKept
<1>1. A \subseteq Requested /\ \A e : Least(e, Requested) => e \in A
  BY DEF LeastKept
<1>2. ASSUME NEW e, Least(e, Requested), NEW r \in Rank, e \in HeldEdges[r] PROVE e \in mark[r]
  <2>1. Least(e, A \cap HeldEdges[r])
    BY <1>1, <1>2 DEF Least
  <2> QED
    BY <2>1 DEF Unmarking
<1> QED
  BY <1>1, <1>2 DEF CommonMarks

(* The exchange that ends a sweep of unmark_relax. *)
LEMMA UnmarkExchangeStep ==
  ASSUME IInv, UnmarkRelaxExchange
  PROVE  IInv'
<1>1. TypeInv /\ UnmarkInv /\ SafeInv /\ phase = "unmark" /\ swept = Rank
  BY DEF IInv, UnmarkRelaxExchange
<1>2. /\ mark' = ref_edge_ghost_min_int(mark) /\ input' = input /\ node' = node /\ cells' = cells
      /\ rounds' = rounds /\ nsweeps' = IF again = {} THEN 0 ELSE nsweeps + 1
  BY DEF UnmarkRelaxExchange
<1>3. \/ nsweeps + 1 = SweepLimit /\ phase' = "failed" /\ swept' = swept /\ again' = again
      \/ /\ swept' = {} /\ again' = {}
         /\ \/ again # {} /\ phase' = "unmark"
            \/ again = {} /\ input.allow_geometry /\ phase' = "neg"
            \/ again = {} /\ ~ input.allow_geometry /\ phase' = "possible_again"
  BY <1>1 DEF UnmarkRelaxExchange, CloseSweep
<1>4. PICK A \in SUBSET Edges :
        /\ Sweeping(A) /\ LeastKept(A)
        /\ Counted(nsweeps, A) /\ Counted(rounds, A)
        /\ input.allow_geometry => Backed(A)
        /\ \A r \in Rank : Unmarking(A \cap HeldEdges[r], mark[r])
        /\ \A r \in swept \ again : \A c \in Held(r) :
             c.kind = "tet" => ref_subdiv_map(c, mark[r]) \in TetMaps
  BY <1>1 DEF UnmarkInv
<1>a. PICK B \in SUBSET Edges :
        /\ B = CommonMarks(mark) /\ Shared(ref_edge_ghost_min_int(mark), B)
        /\ ref_edge_ghost_min_int(mark) \in [Rank -> SUBSET Edges]
  BY MinShares
<1>5. /\ B \in SUBSET A /\ B \in SUBSET Edges
      /\ again = {} => Shared(mark, A) /\ B = A
      /\ again # {} => B # A
  BY <1>1, <1>4, <1>a, CommonIsLess
<1>6. mark' \in [Rank -> SUBSET Edges] /\ Shared(mark', B)
  BY <1>2, <1>a
<1>7. LeastKept(B)
  BY <1>4, <1>5, <1>a, LeastStays
<1>8. /\ Cardinality(A) \in Nat /\ Cardinality(B) \in Nat /\ Cardinality(Edges) \in Nat
      /\ Cardinality(A) <= Cardinality(Edges)
      /\ Cardinality(B) <= Cardinality(A)
      /\ B # A => Cardinality(B) + 1 <= Cardinality(A)
  BY <1>5, FewerMarks
<1>9. \A r \in Rank : mark'[r] = B \cap HeldEdges[r]
  BY <1>6 DEF Shared
<1>10. TypeInv'
  <2>1. \A r \in Rank : Ordered(r)' /\ input'.asked[r] \subseteq HeldEdges[r]
    BY <1>1, <1>2, SameInput DEF TypeInv
  <2>2. \A r \in Rank : mark'[r] \subseteq HeldEdges[r]
    BY <1>9
  <2>3. phase' \in Phases /\ again' \subseteq swept' /\ swept' \subseteq Rank
    BY <1>1, <1>3 DEF TypeInv, Phases
  <2>4. nsweeps' \in Nat /\ rounds' \in Nat
    BY <1>1, <1>2 DEF TypeInv
  <2> QED
    BY <1>1, <1>2, <1>6, <2>1, <2>2, <2>3, <2>4 DEF TypeInv
<1>11. EarlyInv'
  BY <1>2, <1>3 DEF EarlyInv
<1>12. RelaxInv' /\ RelaxedInv'
  BY <1>3 DEF RelaxInv, RelaxedInv
<1>13. LeastKept(B)'
  BY <1>2, <1>7, SameInput
<1>14. ASSUME again' = {} PROVE Sweeping(B)'
  BY <1>9, <1>14 DEF Sweeping
<1>15. UnmarkInv'
  <2> SUFFICES ASSUME phase' = "unmark" PROVE UnmarkInv'
    BY DEF UnmarkInv
  <2>1. swept' = {} /\ again' = {} /\ again # {} /\ nsweeps' = nsweeps + 1
    BY <1>2, <1>3
  <2>2. Counted(nsweeps, B)' /\ Counted(rounds, B)'
    BY <1>1, <1>2, <1>4, <1>5, <1>8, <2>1 DEF Counted, TypeInv
  <2>3. input'.allow_geometry => Backed(B)'
    BY <1>2, <1>4, <1>5 DEF Backed
  <2>4. \A r \in Rank : Unmarking(B \cap HeldEdges[r], mark[r])'
    BY <1>9 DEF Unmarking, Least
  <2> QED
    BY <1>5, <1>13, <1>14, <2>1, <2>2, <2>3, <2>4 DEF UnmarkInv
<1>16. ASSUME again = {} PROVE TetsReady(A) /\ B = A
  <2>1. ASSUME NEW c \in Mesh, c.kind = "tet" PROVE ref_subdiv_map(c, A) \in TetMaps
    <3>1. PICK r \in Rank : c \in Held(r)
      BY CellIsHeld
    <3>2. r \in swept \ again
      BY <1>1, <1>16
    <3>3. ref_subdiv_map(c, mark[r]) \in TetMaps
      BY <1>4, <2>1, <3>1, <3>2
    <3>4. mark[r] = A \cap HeldEdges[r]
      BY <1>5, <1>16 DEF Shared
    <3> QED
      BY <3>1, <3>3, <3>4, MapIsLocal
  <2> QED
    BY <1>5, <1>16, <2>1 DEF TetsReady
<1>17. NegInv'
  <2> SUFFICES ASSUME phase' = "neg" PROVE NegInv'
    BY DEF NegInv
  <2>1. swept' = {} /\ again' = {} /\ again = {} /\ input.allow_geometry /\ nsweeps' = 0
    BY <1>2, <1>3
  <2>2. Counted(rounds, B)' /\ Backed(B)' /\ TetsReady(B)
    BY <1>2, <1>4, <1>16, <2>1 DEF Counted, Backed
  <2> QED
    BY <1>5, <1>13, <1>14, <2>1, <2>2 DEF NegInv
<1>18. SplitInv'
  <2>1. ASSUME phase' = "possible_again"
        PROVE  Shared(mark', B) /\ LeastKept(B)' /\ TetsReady(B)
    BY <1>3, <1>6, <1>13, <1>16, <2>1
  <2>2. ASSUME phase' = "possible_again"
        PROVE  \E X \in SUBSET Edges : Shared(mark, X)' /\ LeastKept(X)' /\ TetsReady(X)
    BY <1>5, <2>1, <2>2 DEF Shared
  <2>3. phase' \notin {"new_node_again", "split", "done"}
    BY <1>3
  <2> QED
    BY <2>2, <2>3 DEF SplitInv
<1>19. SafeInv'
  <2>1. phase' = "failed" => ~ (Cardinality(Edges) + 1 < SweepLimit)
    BY <1>1, <1>3, <1>4, <1>8, SweepLimitAssumption DEF Counted, TypeInv
  <2> QED
    BY <2>1 DEF SafeInv
<1> QED
  BY <1>10, <1>11, <1>12, <1>15, <1>17, <1>18, <1>19 DEF IInv

(* The exchange that ends a round of unmark_neg_tet_relax. *)
LEMMA NegExchangeStep ==
  ASSUME IInv, UnmarkNegExchange
  PROVE  IInv'
<1>1. TypeInv /\ NegInv /\ EarlyInv /\ SafeInv /\ phase = "neg" /\ swept = Rank
  BY DEF IInv, UnmarkNegExchange
<1>2. /\ mark' = ref_edge_ghost_int(ref_edge_ghost_min_int(mark))
      /\ input' = input /\ node' = node /\ cells' = cells
      /\ rounds' = rounds + 1 /\ nsweeps' = nsweeps /\ swept' = {} /\ again' = {}
  BY DEF UnmarkNegExchange
<1>3. \/ rounds + 1 = SweepLimit /\ phase' = "failed"
      \/ again # {} /\ phase' = "unmark"
      \/ again = {} /\ phase' = "possible_again"
  BY DEF UnmarkNegExchange
<1>4. PICK A \in SUBSET Edges :
        /\ Sweeping(A) /\ LeastKept(A)
        /\ nsweeps = 0 /\ Counted(rounds, A)
        /\ Backed(A) /\ TetsReady(A)
        /\ input.inverted = {} => again = {}
  BY <1>1 DEF NegInv
<1>a. PICK m : m = ref_edge_ghost_min_int(mark)
  OBVIOUS
<1>b. PICK B \in SUBSET Edges : B = CommonMarks(mark) /\ Shared(m, B)
  BY <1>a, MinShares
<1>5. /\ B \in SUBSET A /\ B \in SUBSET Edges
      /\ again = {} => Shared(mark, A) /\ B = A
      /\ again # {} => B # A
  BY <1>1, <1>4, <1>b, CommonIsLess
<1>6. mark' \in [Rank -> SUBSET Edges] /\ Shared(mark', B)
  <2>1. OwnersMarks(m) = B
    BY <1>b, SharedStays
  <2>2. mark' = ref_edge_ghost_int(m)
    BY <1>2, <1>a
  <2> QED
    BY <2>1, <2>2, GhostShares
<1>7. /\ Cardinality(A) \in Nat /\ Cardinality(B) \in Nat /\ Cardinality(Edges) \in Nat
      /\ Cardinality(A) <= Cardinality(Edges)
      /\ Cardinality(B) <= Cardinality(A)
      /\ B # A => Cardinality(B) + 1 <= Cardinality(A)
  BY <1>5, FewerMarks
<1>8. \A r \in Rank : mark'[r] = B \cap HeldEdges[r]
  BY <1>6 DEF Shared
<1>9. TypeInv'
  <2>1. \A r \in Rank : Ordered(r)' /\ input'.asked[r] \subseteq HeldEdges[r]
    BY <1>1, <1>2, SameInput DEF TypeInv
  <2>2. \A r \in Rank : mark'[r] \subseteq HeldEdges[r]
    BY <1>8
  <2>3. phase' \in Phases /\ again' \subseteq swept' /\ swept' \subseteq Rank
    BY <1>2, <1>3 DEF Phases
  <2>4. nsweeps' \in Nat /\ rounds' \in Nat
    BY <1>1, <1>2 DEF TypeInv
  <2> QED
    BY <1>1, <1>2, <1>6, <2>1, <2>2, <2>3, <2>4 DEF TypeInv
<1>10. EarlyInv'
  BY <1>2, <1>3 DEF EarlyInv
<1>11. RelaxInv' /\ RelaxedInv' /\ NegInv'
  BY <1>3 DEF RelaxInv, RelaxedInv, NegInv
<1>12. LeastKept(B)'
  <2>1. LeastKept(B)
    <3>1. CASE again = {}
      BY <1>4, <1>5, <3>1
    <3>2. CASE again # {}
      BY <1>4, <3>2 DEF LeastKept, Undisturbed
    <3> QED
      BY <3>1, <3>2
  <2> QED
    BY <1>2, <2>1, SameInput
<1>13. Sweeping(B)'
  BY <1>2, <1>8 DEF Sweeping
<1>14. UnmarkInv'
  <2> SUFFICES ASSUME phase' = "unmark" PROVE UnmarkInv'
    BY DEF UnmarkInv
  <2>1. again # {}
    BY <1>3
  <2>2. Counted(nsweeps, B)' /\ Counted(rounds, B)'
    BY <1>1, <1>2, <1>4, <1>5, <1>7, <2>1 DEF Counted, TypeInv
  <2>3. Backed(B)'
    BY <1>2, <1>4, <1>5 DEF Backed
  <2>4. \A r \in Rank : Unmarking(B \cap HeldEdges[r], mark[r])'
    BY <1>8 DEF Unmarking, Least
  <2> QED
    BY <1>2, <1>5, <1>12, <1>13, <2>2, <2>3, <2>4 DEF UnmarkInv
<1>15. SplitInv'
  <2>1. ASSUME phase' = "possible_again"
        PROVE  \E X \in SUBSET Edges : Shared(mark, X)' /\ LeastKept(X)' /\ TetsReady(X)
    <3>1. B = A
      BY <1>3, <1>5, <2>1
    <3> QED
      BY <1>4, <1>5, <1>8, <1>12, <3>1 DEF Shared
  <2>2. phase' \notin {"new_node_again", "split", "done"}
    BY <1>3
  <2> QED
    BY <2>1, <2>2 DEF SplitInv
<1>16. SafeInv'
  <2>1. phase' = "failed" => ~ (Cardinality(Edges) + 1 < SweepLimit)
    BY <1>1, <1>3, <1>4, <1>7, SweepLimitAssumption DEF Counted, TypeInv
  <2> QED
    BY <2>1 DEF SafeInv
<1> QED
  BY <1>9, <1>10, <1>11, <1>14, <1>15, <1>16 DEF IInv

(* mark_relax starts from shared marks below every closed set above the    *)
(* target.                                                                 *)
LEMMA RelaxStarts ==
  ASSUME NEW B \in SUBSET Edges, Shared(mark', B), Target' \subseteq B, Below(B)',
         swept' = {}, again' = {}
  PROVE  RelaxInv'
<1>1. \A r \in Rank : mark'[r] = B \cap HeldEdges[r]
  BY DEF Shared
<1>2. \A r \in Rank : Below(mark[r])'
  BY <1>1 DEF Below
<1> QED
  BY <1>1, <1>2 DEF RelaxInv

(* unmark_relax starts from shared marks and with its counters at zero. *)
LEMMA UnmarkStarts ==
  ASSUME NEW B \in SUBSET Edges, Shared(mark', B), LeastKept(B)',
         input'.allow_geometry => Backed(B)',
         nsweeps' = 0, rounds' = 0, swept' = {}, again' = {}
  PROVE  UnmarkInv'
<1>1. \A r \in Rank : mark'[r] = B \cap HeldEdges[r]
  BY DEF Shared
<1>2. Sweeping(B)'
  BY <1>1 DEF Sweeping
<1>3. Counted(nsweeps, B)' /\ Counted(rounds, B)'
  <2>1. B \in SUBSET B
    OBVIOUS
  <2>2. /\ Cardinality(B) \in Nat /\ Cardinality(Edges) \in Nat
        /\ Cardinality(B) <= Cardinality(Edges)
    BY <2>1, FewerMarks
  <2> QED
    BY <2>2 DEF Counted
<1>4. \A r \in Rank : Unmarking(B \cap HeldEdges[r], mark[r])'
  BY <1>1 DEF Unmarking, Least
<1> QED
  BY <1>2, <1>3, <1>4 DEF UnmarkInv

(* What a step that exchanges the marks leaves of the types. *)
LEMMA TypesStay ==
  ASSUME TypeInv, input' = input, cells' = cells, NEW B \in SUBSET Edges, Shared(mark', B),
         mark' \in [Rank -> SUBSET Edges], phase' \in Phases,
         again' = {}, swept' = {}, nsweeps' = nsweeps, rounds' = rounds
  PROVE  TypeInv'
<1>1. \A r \in Rank : Ordered(r)' /\ input'.asked[r] \subseteq HeldEdges[r]
  BY SameInput DEF TypeInv
<1>2. \A r \in Rank : mark'[r] \subseteq HeldEdges[r]
  BY DEF Shared
<1> QED
  BY <1>1, <1>2 DEF TypeInv

(* The owners' requests, spread. *)
LEMMA OwnersRequest ==
  OwnersMarks(input.asked) = Requested /\ Requested \in SUBSET Edges
  BY DEF OwnersMarks, Requested

(* The invariant holds initially. *)
LEMMA InitInv ==
  ASSUME Init
  PROVE  IInv
<1>1. /\ mark = input.asked /\ phase = "start" /\ swept = {} /\ again = {}
      /\ nsweeps = 0 /\ rounds = 0 /\ node = [r \in Rank |-> {}]
      /\ DOMAIN cells = Rank
  BY DEF Init
<1>2. /\ input.order \in [Rank -> Orders] /\ input.asked \in [Rank -> Asked]
      /\ \A r \in Rank : /\ input.asked[r] \subseteq HeldEdges[r]
                         /\ ToSet(input.order[r]) = Held(r)
  BY DEF Init
<1>3. \A r \in Rank : Ordered(r)
  BY <1>2, MeshAssumption DEF Ordered
<1>4. mark \in [Rank -> SUBSET Edges]
  BY <1>1, <1>2, HeldIsPart
<1>5. TypeInv
  BY <1>1, <1>2, <1>3, <1>4 DEF TypeInv, Phases
<1>6. EarlyInv
  BY <1>1 DEF EarlyInv
<1>7. RelaxInv /\ RelaxedInv /\ UnmarkInv /\ NegInv /\ SplitInv /\ SafeInv
  BY <1>1 DEF RelaxInv, RelaxedInv, UnmarkInv, NegInv, SplitInv, SafeInv
<1> QED
  BY <1>5, <1>6, <1>7 DEF IInv

(* The start: the first exchange, unless no loop is to run before the nodes *)
(* are made.                                                                *)
LEMMA BeginStep ==
  ASSUME IInv, Begin
  PROVE  IInv'
<1>1. TypeInv /\ EarlyInv /\ phase = "start"
  BY DEF IInv, Begin
<1>2. /\ input' = input /\ node' = node /\ cells' = cells /\ swept' = {} /\ again' = {}
      /\ nsweeps' = 0 /\ rounds' = 0 /\ nsweeps' = nsweeps /\ rounds' = rounds
      /\ mark = input.asked /\ \A r \in Rank : node'[r] = {}
  BY <1>1 DEF Begin, EarlyInv
<1>3. \/ ~ input.allow_geometry /\ phase' = "geom" /\ mark' = ref_edge_ghost_int(mark)
      \/ /\ input.allow_geometry /\ input.new_mark_allowed /\ phase' = "relax"
         /\ mark' = ref_edge_ghost_int(mark)
      \/ /\ input.allow_geometry /\ ~ input.new_mark_allowed /\ phase' = "new_node"
         /\ mark' = mark
  BY DEF Begin, AfterStart
<1>4. PICK B \in SUBSET Edges : B = Requested
  BY OwnersRequest
<1>5. /\ ref_edge_ghost_int(mark) \in [Rank -> SUBSET Edges]
      /\ Shared(ref_edge_ghost_int(mark), B)
  BY <1>2, <1>4, OwnersRequest, GhostShares
<1>6. Requested' = B /\ (input.allow_geometry => Target' = B)
  BY <1>2, <1>4, SameInput DEF Target
<1>7. TypeInv'
  <2>1. phase' \in Phases
    BY <1>3 DEF Phases
  <2>2. CASE mark' = ref_edge_ghost_int(mark)
    BY <1>1, <1>2, <1>5, <2>1, <2>2, TypesStay
  <2>3. CASE mark' = mark
    <3>1. \A r \in Rank : Ordered(r)' /\ input'.asked[r] \subseteq HeldEdges[r]
      BY <1>1, <1>2, SameInput DEF TypeInv
    <3> QED
      BY <1>1, <1>2, <2>1, <2>3, <3>1 DEF TypeInv
  <2> QED
    BY <1>3, <2>2, <2>3
<1>8. EarlyInv'
  <2>1. phase' = "geom" => Shared(mark, Requested)'
    BY <1>3, <1>5, <1>6 DEF Shared
  <2> QED
    BY <1>2, <1>3, <2>1 DEF EarlyInv
<1>9. RelaxInv'
  <2> SUFFICES ASSUME phase' = "relax" PROVE RelaxInv'
    BY DEF RelaxInv
  <2>1. Shared(mark', B) /\ Target' = B
    BY <1>3, <1>5, <1>6
  <2>2. Below(B)'
    BY <2>1 DEF Below
  <2> QED
    BY <1>2, <2>1, <2>2, RelaxStarts
<1>10. RelaxedInv'
  BY <1>2, <1>3 DEF RelaxedInv
<1>11. UnmarkInv' /\ NegInv' /\ SplitInv' /\ SafeInv'
  BY <1>3 DEF UnmarkInv, NegInv, SplitInv, SafeInv
<1> QED
  BY <1>7, <1>8, <1>9, <1>10, <1>11 DEF IInv

(* The exchange that ends a sweep of mark_relax. *)
LEMMA RelaxExchangeStep ==
  ASSUME IInv, MarkRelaxExchange
  PROVE  IInv'
<1>1. TypeInv /\ EarlyInv /\ RelaxInv /\ phase = "relax" /\ swept = Rank
  BY DEF IInv, MarkRelaxExchange
<1>2. /\ input' = input /\ node' = node /\ cells' = cells /\ swept' = {} /\ again' = {}
      /\ nsweeps' = 0 /\ rounds' = 0 /\ nsweeps' = nsweeps /\ rounds' = rounds
      /\ mark' = ref_edge_ghost_int(mark) /\ input.new_mark_allowed
      /\ \A r \in Rank : node'[r] = {}
  BY <1>1 DEF MarkRelaxExchange, CloseSweep, EarlyInv
<1>3. \/ again # {} /\ phase' = "relax"
      \/ again = {} /\ input.allow_geometry /\ phase' = "possible"
      \/ again = {} /\ ~ input.allow_geometry /\ phase' = "geom_again"
  BY <1>1 DEF MarkRelaxExchange, CloseSweep
<1>4. PICK A \in SUBSET Edges :
        /\ Target \subseteq A
        /\ \A s \in Rank : /\ A \cap HeldEdges[s] \subseteq mark[s]
                           /\ Below(mark[s])
                           /\ s \notin again => mark[s] = A \cap HeldEdges[s]
        /\ \A s \in swept \ again : \A c \in Held(s) : PromoteCell(mark[s], c) = mark[s]
  BY <1>1 DEF RelaxInv
<1>5. PICK B \in SUBSET Edges : B = OwnersMarks(mark)
  BY GhostShares
<1>6. mark' \in [Rank -> SUBSET Edges] /\ Shared(mark', B)
  BY <1>2, <1>5, GhostShares
<1>7. \A e \in Edges : ref_edge_part(e) \in Rank /\ e \in HeldEdges[ref_edge_part(e)]
  BY OwnerHolds
<1>8. Target \subseteq B
  BY <1>4, <1>5, <1>7 DEF OwnersMarks
<1>9. Below(B)
  <2> SUFFICES ASSUME NEW m \in SUBSET Edges, Target \subseteq m, Closed(m)
               PROVE  B \subseteq m
    BY DEF Below
  <2>1. \A s \in Rank : mark[s] \subseteq m
    BY <1>4 DEF Below
  <2> QED
    BY <1>5, <1>7, <2>1 DEF OwnersMarks
<1>10. Target' = Target /\ (Below(B)' <=> Below(B)) /\ (LeastClosed(B)' <=> LeastClosed(B))
  BY <1>2, SameInput
<1>11. ASSUME again = {} PROVE Closed(B)
  <2>1. Shared(mark, A)
    BY <1>4, <1>11 DEF Shared
  <2>2. B = A
    BY <1>5, <2>1, SharedStays
  <2>3. ASSUME NEW c \in Mesh
        PROVE  \A rule \in ToSet(Rules(c.kind)) :
                  Cardinality(EdgesOf(c, rule[2]) \cap A) = rule[1]
                    => EdgesOf(c, rule[2]) \subseteq A
    <3>1. PICK r \in Rank : c \in Held(r)
      BY CellIsHeld
    <3>2. PromoteCell(mark[r], c) = mark[r] /\ mark[r] = A \cap HeldEdges[r]
      BY <1>1, <1>4, <1>11, <3>1
    <3>3. HeldEdges[r] \in SUBSET Edges /\ CellEdges(c) \subseteq HeldEdges[r]
      BY <3>1, HeldIsPart
    <3>4. PromoteCell(A \cap HeldEdges[r], c) = A \cap HeldEdges[r]
      BY <3>2
    <3> QED
      BY <3>3, <3>4, PromotionIsLocal
  <2> QED
    BY <2>2, <2>3 DEF Closed
<1>12. TypeInv'
  <2>1. phase' \in Phases
    BY <1>3 DEF Phases
  <2> QED
    BY <1>1, <1>2, <1>6, <2>1, TypesStay
<1>13. EarlyInv'
  BY <1>2, <1>3 DEF EarlyInv
<1>14. RelaxInv'
  BY <1>2, <1>6, <1>8, <1>9, <1>10, RelaxStarts
<1>15. RelaxedInv'
  <2>1. ASSUME phase' \in {"geom_again", "possible"}
        PROVE  \E X \in SUBSET Edges : LeastClosed(X)' /\ Shared(mark, X)'
    <3>1. LeastClosed(B)'
      BY <1>3, <1>8, <1>9, <1>10, <1>11, <2>1 DEF LeastClosed
    <3>2. Shared(mark, B)'
      BY <1>6 DEF Shared
    <3> QED
      BY <3>1, <3>2
  <2> QED
    BY <1>2, <1>3, <2>1 DEF RelaxedInv
<1>16. UnmarkInv' /\ NegInv' /\ SplitInv' /\ SafeInv'
  BY <1>3 DEF UnmarkInv, NegInv, SplitInv, SafeInv
<1> QED
  BY <1>12, <1>13, <1>14, <1>15, <1>16 DEF IInv

(* unmark_geom_support. *)
LEMMA GeomSupportStep ==
  ASSUME IInv, UnmarkGeomSupport
  PROVE  IInv'
<1>1. TypeInv /\ EarlyInv /\ RelaxedInv /\ phase \in {"geom", "geom_again"}
  BY DEF IInv, UnmarkGeomSupport
<1>2. /\ input' = input /\ node' = node /\ cells' = cells /\ swept' = {} /\ again' = {}
      /\ nsweeps' = 0 /\ rounds' = 0 /\ nsweeps' = nsweeps /\ rounds' = rounds
      /\ ~ input.allow_geometry /\ \A r \in Rank : node'[r] = {}
  BY <1>1 DEF UnmarkGeomSupport, EarlyInv
<1>3. \/ phase = "geom" /\ input.new_mark_allowed /\ phase' = "relax"
      \/ phase = "geom" /\ ~ input.new_mark_allowed /\ phase' = "geom_again"
      \/ phase = "geom_again" /\ phase' = "unmark"
  BY <1>1 DEF UnmarkGeomSupport
<1>4. PICK A \in SUBSET Edges : A = OwnersMarks(mark)
  BY GhostShares
<1>5. PICK m : m = [r \in Rank |-> ref_edge_ghost_int(mark)[r] \ input.support]
  OBVIOUS
<1>6. PICK B \in SUBSET Edges : B = A \ input.support
  OBVIOUS
<1>7. Shared(m, B)
  <2>1. Shared(ref_edge_ghost_int(mark), A)
    BY <1>4, GhostShares
  <2> QED
    BY <1>5, <1>6, <2>1 DEF Shared
<1>8. mark' \in [Rank -> SUBSET Edges] /\ Shared(mark', B)
  <2>1. mark' = ref_edge_ghost_int(m)
    BY <1>5 DEF UnmarkGeomSupport
  <2>2. OwnersMarks(m) = B
    BY <1>7, SharedStays
  <2> QED
    BY <2>1, <2>2, GhostShares
<1>9. Target' = Target /\ Requested \in SUBSET Edges
      /\ (Below(B)' <=> Below(B)) /\ (LeastKept(B)' <=> LeastKept(B))
  BY <1>2, SameInput, OwnersRequest
<1>10. ASSUME phase = "geom" PROVE B = Target
  <2>1. Shared(mark, Requested)
    BY <1>1, <1>10 DEF EarlyInv
  <2>2. A = Requested
    BY <1>4, <1>9, <2>1, SharedStays
  <2> QED
    BY <1>2, <1>6, <2>2 DEF Target
<1>11. TypeInv'
  <2>1. phase' \in Phases
    BY <1>3 DEF Phases
  <2> QED
    BY <1>1, <1>2, <1>8, <2>1, TypesStay
<1>12. EarlyInv'
  BY <1>2, <1>3 DEF EarlyInv
<1>13. RelaxInv'
  <2> SUFFICES ASSUME phase' = "relax" PROVE RelaxInv'
    BY DEF RelaxInv
  <2>1. Target' = B
    BY <1>3, <1>9, <1>10
  <2>2. Below(B)'
    BY <2>1 DEF Below
  <2> QED
    BY <1>2, <1>8, <2>1, <2>2, RelaxStarts
<1>14. RelaxedInv'
  <2>1. phase' = "geom_again" => Shared(mark, Target)'
    BY <1>3, <1>8, <1>9, <1>10 DEF Shared
  <2> QED
    BY <1>2, <1>3, <2>1 DEF RelaxedInv
<1>15. UnmarkInv'
  <2> SUFFICES ASSUME phase' = "unmark" PROVE UnmarkInv'
    BY DEF UnmarkInv
  <2>1. LeastKept(B)
    <3> SUFFICES ASSUME Undisturbed
                 PROVE  B \subseteq Requested /\ \A e : Least(e, Requested) => e \in B
      BY DEF LeastKept
    <3>1. ~ input.new_mark_allowed /\ input.support = {} /\ phase = "geom_again"
      BY <1>3 DEF Undisturbed
    <3>2. Target = Requested
      BY <3>1 DEF Target
    <3>3. Shared(mark, Requested)
      BY <1>1, <3>1, <3>2 DEF RelaxedInv
    <3>4. B = Requested
      BY <1>4, <1>6, <1>9, <3>1, <3>3, SharedStays
    <3> QED
      BY <3>4 DEF Least
  <2>2. LeastKept(B)' /\ ~ input'.allow_geometry
    BY <1>2, <1>9, <2>1
  <2> QED
    BY <1>2, <1>8, <2>2, UnmarkStarts
<1>16. NegInv' /\ SplitInv' /\ SafeInv'
  BY <1>3 DEF NegInv, SplitInv, SafeInv
<1> QED
  BY <1>11, <1>12, <1>13, <1>14, <1>15, <1>16 DEF IInv

(* new_node, before and after the unmarking. *)
LEMMA NewNodeStep ==
  ASSUME IInv, NewNode
  PROVE  IInv'
<1>1. /\ TypeInv /\ EarlyInv /\ RelaxedInv /\ SplitInv
      /\ phase \in {"new_node", "new_node_again"}
  BY DEF IInv, NewNode
<1>2. /\ input' = input /\ cells' = cells /\ swept' = {} /\ again' = {}
      /\ nsweeps' = nsweeps /\ rounds' = rounds
      /\ \A r \in Rank : node'[r] = (node[r] \cap mark[r]) \cup
                                    {e \in HeldEdges[r] : e \in mark[ref_edge_part(e)]}
  BY <1>1 DEF NewNode, EarlyInv
<1>3. \/ /\ phase = "new_node" /\ phase' = "unmark" /\ mark' = ref_edge_ghost_int(mark)
      \/ /\ phase = "new_node_again" /\ phase' = "split" /\ mark' = mark
  BY <1>1 DEF NewNode
<1>4. ASSUME phase' = "unmark" PROVE TypeInv' /\ UnmarkInv'
  <2>1. phase = "new_node" /\ mark' = ref_edge_ghost_int(mark)
    BY <1>3, <1>4
  <2>2. /\ input.allow_geometry /\ nsweeps = 0 /\ rounds = 0
        /\ \A r \in Rank : node[r] = {}
    BY <1>1, <2>1 DEF EarlyInv
  <2>3. PICK B \in SUBSET Edges : B = OwnersMarks(mark)
    BY GhostShares
  <2>4. mark' \in [Rank -> SUBSET Edges] /\ Shared(mark', B)
    BY <2>1, <2>3, GhostShares
  <2>5. \A r \in Rank : node'[r] = B \cap HeldEdges[r]
    <3>1. \A r \in Rank : HeldEdges[r] \subseteq Edges
      BY HeldIsPart
    <3> QED
      BY <1>2, <2>2, <2>3, <3>1 DEF OwnersMarks
  <2>6. LeastKept(B)'
    <3>1. LeastKept(B)
      <4> SUFFICES ASSUME Undisturbed
                   PROVE  B \subseteq Requested /\ \A e : Least(e, Requested) => e \in B
        BY DEF LeastKept
      <4>1. mark = input.asked
        BY <1>1, <2>1 DEF RelaxedInv, Undisturbed
      <4>2. B = Requested
        BY <2>3, <4>1, OwnersRequest
      <4> QED
        BY <4>2 DEF Least
    <3> QED
      BY <1>2, <3>1, SameInput
  <2>7. Backed(B)'
    BY <2>5 DEF Backed
  <2>8. UnmarkInv'
    BY <1>2, <2>2, <2>4, <2>6, <2>7, UnmarkStarts
  <2>9. phase' \in Phases
    BY <1>4 DEF Phases
  <2> QED
    BY <1>1, <1>2, <2>4, <2>8, <2>9, TypesStay
<1>5. ASSUME phase' = "split" PROVE TypeInv' /\ SplitInv'
  <2>1. phase = "new_node_again" /\ mark' = mark
    BY <1>3, <1>5
  <2>2. PICK A \in SUBSET Edges : Shared(mark, A) /\ LeastKept(A) /\ TetsReady(A)
    BY <1>1, <2>1 DEF SplitInv
  <2>3. OwnersMarks(mark) = A /\ \A r \in Rank : mark[r] = A \cap HeldEdges[r]
    BY <2>2, SharedStays DEF Shared
  <2>4. \A r \in Rank : node'[r] = mark'[r]
    <3>1. \A r \in Rank : HeldEdges[r] \subseteq Edges
      BY HeldIsPart
    <3> QED
      BY <1>2, <2>1, <2>3, <3>1 DEF OwnersMarks
  <2>5. Shared(mark', A) /\ Shared(mark, A)' /\ LeastKept(A)'
    BY <1>2, <2>1, <2>2, SameInput DEF Shared
  <2>6. SplitInv'
    BY <1>2, <1>5, <2>2, <2>4, <2>5 DEF SplitInv
  <2>7. phase' \in Phases /\ mark' \in [Rank -> SUBSET Edges]
    BY <1>1, <1>5, <2>1 DEF Phases, TypeInv
  <2> QED
    BY <1>1, <1>2, <2>5, <2>6, <2>7, TypesStay
<1>6. /\ phase' = "unmark" => SplitInv'
      /\ phase' = "split" => UnmarkInv'
      /\ EarlyInv' /\ RelaxInv' /\ RelaxedInv' /\ NegInv' /\ SafeInv'
  BY <1>2, <1>3 DEF SplitInv, UnmarkInv, EarlyInv, RelaxInv, RelaxedInv, NegInv, SafeInv
<1> QED
  BY <1>3, <1>4, <1>5, <1>6 DEF IInv

(* The test for impossible marks changes nothing, and passes over tets. *)
LEMMA TestStep ==
  ASSUME IInv, TestImpossibleMarks
  PROVE  IInv'
<1>1. /\ TypeInv /\ EarlyInv /\ RelaxedInv /\ SplitInv /\ SafeInv
      /\ phase \in {"possible", "possible_again"}
  BY DEF IInv, TestImpossibleMarks
<1>2. /\ input' = input /\ mark' = mark /\ node' = node /\ cells' = cells
      /\ swept' = swept /\ again' = again /\ nsweeps' = nsweeps /\ rounds' = rounds
  BY DEF TestImpossibleMarks
<1>3. \/ (\E r \in Rank : ~ Possible(r)) /\ phase' = "failed"
      \/ phase = "possible" /\ phase' = "new_node"
      \/ phase = "possible_again" /\ phase' = "new_node_again"
  BY <1>1 DEF TestImpossibleMarks
<1>4. /\ \A r \in Rank : Ordered(r)' <=> Ordered(r)
      /\ \A A : LeastClosed(A)' <=> LeastClosed(A)
      /\ \A A : LeastKept(A)' <=> LeastKept(A)
  BY <1>2, SameInput
<1>5. TypeInv'
  BY <1>1, <1>2, <1>3, <1>4 DEF TypeInv, Phases
<1>6. EarlyInv'
  BY <1>1, <1>2, <1>3 DEF EarlyInv
<1>7. RelaxedInv'
  <2>1. phase' = "new_node" => input'.new_mark_allowed
    BY <1>1, <1>2, <1>3 DEF EarlyInv
  <2> QED
    BY <1>1, <1>2, <1>3, <1>4, <2>1 DEF RelaxedInv, Shared
<1>8. RelaxInv' /\ UnmarkInv' /\ NegInv'
  BY <1>3 DEF RelaxInv, UnmarkInv, NegInv
<1>9. SplitInv'
  BY <1>1, <1>2, <1>3, <1>4 DEF SplitInv, Shared
<1>10. SafeInv'
  <2>1. AllTets => \A r \in Rank : Possible(r)
    BY DEF AllTets, Possible, Held
  <2> QED
    BY <1>3, <2>1 DEF SafeInv
<1> QED
  BY <1>5, <1>6, <1>7, <1>8, <1>9, <1>10 DEF IInv

(* A rank splits its cells. *)
LEMMA SplitCellsStep ==
  ASSUME IInv, NEW r \in Rank, SplitCells(r)
  PROVE  IInv'
<1>1. TypeInv /\ SplitInv /\ SafeInv /\ phase = "split" /\ r \notin swept
  BY DEF IInv, SplitCells
<1>2. /\ input' = input /\ mark' = mark /\ node' = node /\ again' = again
      /\ nsweeps' = nsweeps /\ rounds' = rounds /\ swept' = swept \cup {r}
  BY DEF SplitCells
<1>3. \/ /\ Splittable(r) /\ cells' = [cells EXCEPT ![r] = LeftOver(r)]
         /\ phase' = IF swept \cup {r} = Rank THEN "done" ELSE phase
      \/ ~ (Splittable(r) /\ ~ NodeUnused(r)) /\ cells' = cells /\ phase' = "failed"
  BY DEF SplitCells
<1>4. PICK A \in SUBSET Edges : Shared(mark, A) /\ LeastKept(A) /\ TetsReady(A)
  BY <1>1 DEF SplitInv
<1>5. \A s \in Rank : node[s] = mark[s]
  BY <1>1 DEF SplitInv
<1>6. phase' \in {"split", "done", "failed"} /\ (phase' = "done" => swept' = Rank)
  BY <1>1, <1>2, <1>3
<1>7. TypeInv'
  <2>1. \A s \in Rank : Ordered(s)' /\ input'.asked[s] \subseteq HeldEdges[s]
    BY <1>1, <1>2, SameInput DEF TypeInv
  <2>2. DOMAIN cells' = Rank
    BY <1>1, <1>3 DEF TypeInv
  <2> QED
    BY <1>1, <1>2, <1>6, <2>1, <2>2 DEF TypeInv, Phases
<1>8. EarlyInv' /\ RelaxInv' /\ RelaxedInv' /\ UnmarkInv' /\ NegInv'
  BY <1>6 DEF EarlyInv, RelaxInv, RelaxedInv, UnmarkInv, NegInv
<1>9. SplitInv'
  <2>1. Shared(mark, A)' /\ LeastKept(A)'
    BY <1>2, <1>4, SameInput DEF Shared
  <2>2. \A s \in Rank : (Splittable(s)' <=> Splittable(s)) /\ LeftOver(s)' = LeftOver(s)
    BY <1>2 DEF Splittable, LeftOver
  <2>3. ASSUME phase' # "failed", NEW s \in swept'
        PROVE  Splittable(s)' /\ cells'[s] = LeftOver(s)'
    <3>1. Splittable(r) /\ cells' = [cells EXCEPT ![r] = LeftOver(r)] /\ s \in Rank
      BY <1>1, <1>2, <1>3, <2>3 DEF TypeInv
    <3>2. CASE s = r
      BY <1>1, <2>2, <3>1, <3>2 DEF TypeInv
    <3>3. CASE s # r
      <4>1. s \in swept /\ Splittable(s) /\ cells[s] = LeftOver(s)
        BY <1>1, <1>2, <2>3, <3>3 DEF SplitInv
      <4> QED
        BY <1>1, <2>2, <3>1, <3>3, <4>1 DEF TypeInv
    <3> QED
      BY <3>2, <3>3
  <2> QED
    BY <1>2, <1>4, <1>5, <1>6, <2>1, <2>3 DEF SplitInv
<1>10. SafeInv'
  <2> SUFFICES ASSUME AllTets PROVE phase' # "failed"
    BY DEF SafeInv
  <2>1. mark[r] = A \cap HeldEdges[r] /\ node[r] = mark[r]
    BY <1>4, <1>5 DEF Shared
  <2> QED
    BY <1>1, <1>3, <1>4, <2>1, TetsSplit
<1> QED
  BY <1>7, <1>8, <1>9, <1>10 DEF IInv

(* A step that changes nothing. *)
LEMMA StutterStep ==
  ASSUME IInv, UNCHANGED vars
  PROVE  IInv'
<1>1. /\ input' = input /\ mark' = mark /\ node' = node /\ cells' = cells
      /\ phase' = phase /\ swept' = swept /\ again' = again
      /\ nsweeps' = nsweeps /\ rounds' = rounds
  BY DEF vars
<1>2. /\ TypeInv /\ EarlyInv /\ RelaxInv /\ RelaxedInv /\ UnmarkInv /\ NegInv
      /\ SplitInv /\ SafeInv
  BY DEF IInv
<1>3. /\ Target' = Target /\ Requested' = Requested
      /\ \A r \in Rank : Ordered(r)' <=> Ordered(r)
      /\ \A A : Below(A)' <=> Below(A)
      /\ \A A : LeastClosed(A)' <=> LeastClosed(A)
      /\ \A A : LeastKept(A)' <=> LeastKept(A)
  BY <1>1, SameInput
<1>4. TypeInv' /\ SafeInv'
  BY <1>1, <1>2, <1>3 DEF TypeInv, SafeInv
<1>5. EarlyInv'
  BY <1>1, <1>2, <1>3 DEF EarlyInv, Shared
<1>6. RelaxInv'
  BY <1>1, <1>2, <1>3 DEF RelaxInv, Below
<1>7. RelaxedInv'
  BY <1>1, <1>2, <1>3 DEF RelaxedInv, Shared
<1>8. UnmarkInv' /\ NegInv'
  BY <1>1, <1>2, <1>3 DEF UnmarkInv, NegInv, Sweeping, Counted, Backed
<1>9. SplitInv'
  BY <1>1, <1>2, <1>3 DEF SplitInv, Shared, Splittable, LeftOver
<1> QED
  BY <1>4, <1>5, <1>6, <1>7, <1>8, <1>9 DEF IInv

------------------------------------------------------------------------------
(* The theorems *)

(***************************************************************************)
(* Every step of ref_subdiv_split keeps the invariant.                     *)
(***************************************************************************)
THEOREM SubdivInductive == Spec => []IInv
<1>1. Init => IInv
  BY InitInv
<1>2. IInv /\ [Next]_vars => IInv'
  <2> SUFFICES ASSUME IInv, [Next]_vars PROVE IInv'
    OBVIOUS
  <2>1. CASE Begin
    BY <2>1, BeginStep
  <2>2. CASE MarkRelaxExchange
    BY <2>2, RelaxExchangeStep
  <2>3. CASE UnmarkGeomSupport
    BY <2>3, GeomSupportStep
  <2>4. CASE NewNode
    BY <2>4, NewNodeStep
  <2>5. CASE UnmarkRelaxExchange
    BY <2>5, UnmarkExchangeStep
  <2>6. CASE UnmarkNegExchange
    BY <2>6, NegExchangeStep
  <2>7. ASSUME NEW r \in Rank, MarkRelaxSweep(r) PROVE IInv'
    BY <2>7, RelaxSweepStep
  <2>8. ASSUME NEW r \in Rank, UnmarkRelaxSweep(r) PROVE IInv'
    BY <2>8, UnmarkSweepStep
  <2>9. ASSUME NEW r \in Rank, UnmarkNegSweepOf(r) PROVE IInv'
    BY <2>9, NegSweepStep
  <2>10. ASSUME NEW r \in Rank, SplitCells(r) PROVE IInv'
    BY <2>10, SplitCellsStep
  <2>11. CASE UNCHANGED vars
    BY <2>11, StutterStep
  <2>12. CASE TestImpossibleMarks
    BY <2>12, TestStep
  <2> QED
    BY <2>1, <2>2, <2>3, <2>4, <2>5, <2>6, <2>7, <2>8, <2>9, <2>10, <2>11, <2>12
    DEF Next
<1> QED
  BY <1>1, <1>2, PTL DEF Spec

(***************************************************************************)
(* ref_subdiv_mark_relax hands on the least closed set of marks above the  *)
(* owners' requests, the same on every rank, for any mesh, partition,      *)
(* storage order and interleaving of the sweeps.                           *)
(***************************************************************************)
THEOREM RelaxIsLeastClosure == Spec => []RelaxLeastClosure
<1>1. IInv => RelaxLeastClosure
  <2> SUFFICES ASSUME IInv, input.new_mark_allowed, phase \in {"possible", "geom_again"}
               PROVE  /\ Target \subseteq Agreed /\ Closed(Agreed)
                      /\ \A m \in SUBSET Edges :
                            Target \subseteq m /\ Closed(m) => Agreed \subseteq m
                      /\ \A r \in Rank : mark[r] = Agreed \cap HeldEdges[r]
    BY DEF RelaxLeastClosure, Target
  <2>1. PICK A \in SUBSET Edges : LeastClosed(A) /\ Shared(mark, A)
    BY DEF IInv, RelaxedInv
  <2>2. Agreed = A
    BY <2>1, SharedAgreed
  <2> QED
    BY <2>1, <2>2 DEF LeastClosed, Below, Shared
<1> QED
  BY <1>1, SubdivInductive, PTL

(***************************************************************************)
(* Every node that the volume test or a template looks up exists, and when *)
(* the cells are split all ranks agree on the marks, have nodes for just   *)
(* those edges and a template for every tet.                               *)
(***************************************************************************)
THEOREM SplitIsReady == Spec => []SplitReady
<1>1. IInv => SplitReady
  <2> SUFFICES ASSUME IInv PROVE SplitReady
    OBVIOUS
  <2>1. ASSUME phase = "neg", NEW r \in Rank PROVE mark[r] \subseteq node[r]
    <3>1. PICK A \in SUBSET Edges : Sweeping(A) /\ Backed(A)
      BY <2>1 DEF IInv, NegInv
    <3> QED
      BY <3>1 DEF Sweeping, Backed
  <2>2. ASSUME phase = "split", NEW r \in Rank
        PROVE  /\ node[r] = mark[r]
               /\ mark[r] = Agreed \cap HeldEdges[r]
               /\ \A c \in Held(r) :
                     c.kind = "tet" => ref_subdiv_map(c, mark[r]) \in TetMaps
    <3>1. PICK A \in SUBSET Edges : Shared(mark, A) /\ TetsReady(A)
      BY <2>2 DEF IInv, SplitInv
    <3>2. node[r] = mark[r] /\ mark[r] = A \cap HeldEdges[r]
      BY <2>2, <3>1 DEF IInv, SplitInv, Shared
    <3>3. Agreed = A
      BY <3>1, SharedAgreed
    <3>4. ASSUME NEW c \in Held(r), c.kind = "tet"
          PROVE  ref_subdiv_map(c, mark[r]) \in TetMaps
      <4>1. c \in Mesh
        BY DEF Held
      <4> QED
        BY <3>1, <3>2, <3>4, <4>1, MapIsLocal DEF TetsReady
    <3> QED
      BY <3>2, <3>3, <3>4
  <2> QED
    BY <2>1, <2>2 DEF SplitReady
<1> QED
  BY <1>1, SubdivInductive, PTL

(***************************************************************************)
(* After the split each rank holds exactly its share of the split mesh.    *)
(***************************************************************************)
THEOREM SplitIsComplete == Spec => []HaloComplete
<1>1. IInv => HaloComplete
  <2> SUFFICES ASSUME IInv, phase = "done", NEW r \in Rank
               PROVE  cells[r] = {child \in UNION {ChildrenOf(c, Agreed) : c \in Mesh} :
                        \E i \in DOMAIN child.nodes : VertexPart(child.nodes[i]) = r}
    BY DEF HaloComplete
  <2>1. PICK A \in SUBSET Edges : Shared(mark, A)
    BY DEF IInv, SplitInv
  <2>2. \A s \in Rank : Splittable(s) /\ cells[s] = LeftOver(s)
    BY DEF IInv, SplitInv
  <2>3. Agreed = A
    BY <2>1, SharedAgreed
  <2>4. LeftOver(r) = {child \in UNION {ChildrenOf(c, A) : c \in Mesh} :
                        \E i \in DOMAIN child.nodes : VertexPart(child.nodes[i]) = r}
    BY <2>1, <2>2, LeftOverIsShare
  <2> QED
    BY <2>2, <2>3, <2>4
<1> QED
  BY <1>1, SubdivInductive, PTL

(***************************************************************************)
(* A mesh of tets with fewer edges than the limit on sweeps is split, and  *)
(* of any mesh the requested edge with the least numbers is, when new      *)
(* marks are not allowed and the geometry gives no trouble.                *)
(***************************************************************************)
THEOREM SplitMakesProgress == Spec => []SplitProgress
<1>1. IInv => SplitProgress
  <2> SUFFICES ASSUME IInv PROVE SplitProgress
    OBVIOUS
  <2>1. (\A c \in Mesh : c.kind = "tet") /\ Cardinality(Edges) + 1 < SweepLimit
        => phase # "failed"
    BY DEF IInv, SafeInv, AllTets
  <2> DEFINE first == CHOOSE e \in Requested : \A f \in Requested : e = f \/ Before(e, f)
  <2>2. ASSUME phase = "split", ~ input.new_mark_allowed, input.inverted = {},
               input.support = {}, Requested # {}
        PROVE  first \in Agreed
    <3>1. PICK A \in SUBSET Edges : Shared(mark, A) /\ LeastKept(A)
      BY <2>2 DEF IInv, SplitInv
    <3>2. Agreed = A
      BY <3>1, SharedAgreed
    <3>3. \E e : Least(e, Requested)
      BY <2>2, OwnersRequest, LeastExists
    <3>4. \E e \in Requested : \A f \in Requested : e = f \/ Before(e, f)
      BY <3>3 DEF Least
    <3>5. first \in Requested /\ \A f \in Requested : first = f \/ Before(first, f)
      BY <3>4
    <3> HIDE DEF first
    <3>6. Least(first, Requested)
      BY <3>5 DEF Least
    <3> QED
      BY <2>2, <3>1, <3>2, <3>6 DEF LeastKept, Undisturbed
  <2> QED
    BY <2>1, <2>2 DEF SplitProgress
<1> QED
  BY <1>1, SubdivInductive, PTL
=============================================================================
