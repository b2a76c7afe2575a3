--------------------------- MODULE RefAdapt_proofs ---------------------------
(***************************************************************************)
(* The parallel adaptation loop for every conforming mesh, every number of *)
(* ranks, every partition and every interleaving of local operations: what *)
(* each rank holds, that its ghosts agree with their owners, and that the  *)
(* mesh the ranks hold together stays conforming.                          *)
(*                                                                         *)
(* Behind the shares stands one whole mesh M with the owners q, the data V *)
(* and the records G of its nodes, and a rank holds exactly what touches a *)
(* node it owns.  The argument has three parts.  A split, a collapse and a *)
(* swap that pass their tests keep a mesh sound, and change nodes, sides   *)
(* and tri so that Euler's count stays.  A rank that tests its own share   *)
(* has thereby tested the whole mesh, since an operation is allowed only   *)
(* where all the cells it touches are the rank's own, and then the shares  *)
(* of the others do not change.  A migration takes the shares of the old   *)
(* owners to those of the new ones, stage by stage.                        *)
(***************************************************************************)
EXTENDS RefAdapt, RefLemmas, FiniteSetTheorems, SequenceTheorems

-----------------------------------------------------------------------------
(* Cells and the directions in which they run *)

(* A tri has three different nodes and an edg two. *)
Formed(c) ==
  /\ c.kind \in {"tri", "edg"}
  /\ c.nodes \in [1 .. (IF c.kind = "tri" THEN 3 ELSE 2) -> Nat]
  /\ IsInjective(c.nodes)

(* t is a tri that runs through x, y and z in this order. *)
Circles(t, x, y, z) ==
  /\ Formed(t) /\ t.kind = "tri"
  /\ x # y /\ x # z /\ y # z
  /\ NodesOf(t) = {x, y, z}
  /\ Arrows(t) = {<<x, y>>, <<y, z>>, <<z, x>>}

(* c is an edg between x and y. *)
Spans(c, x, y) ==
  /\ Formed(c) /\ c.kind = "edg"
  /\ x # y /\ NodesOf(c) = {x, y}

(* The nodes of a tri in the order they are stored. *)
LEMMA TriCircles ==
  ASSUME NEW t, Formed(t), t.kind = "tri"
  PROVE  Circles(t, t.nodes[1], t.nodes[2], t.nodes[3])
<1>1. t.nodes \in [1 .. 3 -> Nat] /\ IsInjective(t.nodes)
  BY DEF Formed
<1>2. DOMAIN t.nodes = {1, 2, 3} /\ 1 .. 3 = {1, 2, 3}
  BY <1>1
<1>3. NodesOf(t) = {t.nodes[1], t.nodes[2], t.nodes[3]}
  BY <1>2 DEF NodesOf
<1>4. Arrows(t) = {<<t.nodes[1], t.nodes[2]>>, <<t.nodes[2], t.nodes[3]>>,
                   <<t.nodes[3], t.nodes[1]>>}
  <2>1. (1 % 3) + 1 = 2 /\ (2 % 3) + 1 = 3 /\ (3 % 3) + 1 = 1
    OBVIOUS
  <2> QED
    BY <1>2, <2>1 DEF Arrows
<1>5. /\ t.nodes[1] # t.nodes[2] /\ t.nodes[1] # t.nodes[3] /\ t.nodes[2] # t.nodes[3]
  BY <1>1, <1>2 DEF IsInjective
<1> QED
  BY <1>3, <1>4, <1>5 DEF Circles

(* The nodes of an edg. *)
LEMMA EdgSpans ==
  ASSUME NEW c, Formed(c), c.kind = "edg"
  PROVE  Spans(c, c.nodes[1], c.nodes[2])
<1>1. c.nodes \in [1 .. 2 -> Nat] /\ IsInjective(c.nodes)
  BY DEF Formed
<1>2. DOMAIN c.nodes = {1, 2}
  BY <1>1
<1>3. NodesOf(c) = {c.nodes[1], c.nodes[2]}
  BY <1>2 DEF NodesOf
<1>4. c.nodes[1] # c.nodes[2]
  BY <1>1, <1>2 DEF IsInjective
<1> QED
  BY <1>3, <1>4 DEF Spans

(* It does not matter where a tri begins. *)
LEMMA CirclesAround ==
  ASSUME NEW t, NEW x, NEW y, NEW z, Circles(t, x, y, z)
  PROVE  Circles(t, y, z, x) /\ Circles(t, z, x, y)
<1>1. {x, y, z} = {y, z, x} /\ {x, y, z} = {z, x, y}
  OBVIOUS
<1>2. /\ {<<x, y>>, <<y, z>>, <<z, x>>} = {<<y, z>>, <<z, x>>, <<x, y>>}
      /\ {<<x, y>>, <<y, z>>, <<z, x>>} = {<<z, x>>, <<x, y>>, <<y, z>>}
  OBVIOUS
<1> QED
  BY <1>1, <1>2 DEF Circles

(* What an arrow says. *)
LEMMA ArrowCircles ==
  ASSUME NEW t, Formed(t), t.kind = "tri", NEW x, NEW y
  PROVE  <<x, y>> \in Arrows(t) <=> \E z \in NodesOf(t) : Circles(t, x, y, z)
<1>1. PICK a, b, c : Circles(t, a, b, c)
  BY TriCircles
<1>2. Arrows(t) = {<<a, b>>, <<b, c>>, <<c, a>>} /\ NodesOf(t) = {a, b, c}
  BY <1>1 DEF Circles
<1>3. Circles(t, b, c, a) /\ Circles(t, c, a, b)
  BY <1>1, CirclesAround
<1>4. ASSUME <<x, y>> \in Arrows(t) PROVE \E z \in NodesOf(t) : Circles(t, x, y, z)
  <2>1. (x = a /\ y = b) \/ (x = b /\ y = c) \/ (x = c /\ y = a)
    BY <1>2, <1>4
  <2> QED
    BY <1>1, <1>2, <1>3, <2>1
<1>5. ASSUME NEW z, Circles(t, x, y, z) PROVE <<x, y>> \in Arrows(t)
  BY <1>5 DEF Circles
<1> QED
  BY <1>4, <1>5

(* Cell turns three nodes round. *)
LEMMA CellTurns ==
  ASSUME NEW a \in Nat, NEW b \in Nat, NEW c \in Nat,
         NEW nodes \in [1 .. 3 -> Nat], nodes[1] = a, nodes[2] = b, nodes[3] = c, NEW id,
         NEW t, t = Cell("tri", nodes, id), NEW m, m = t.nodes
  PROVE  /\ t.kind = "tri" /\ t.id = id /\ m \in [1 .. 3 -> Nat]
         /\ \/ m[1] = a /\ m[2] = b /\ m[3] = c
            \/ m[1] = b /\ m[2] = c /\ m[3] = a
            \/ m[1] = c /\ m[2] = a /\ m[3] = b
<1> DEFINE k == CHOOSE i \in DOMAIN nodes : \A j \in DOMAIN nodes : nodes[i] <= nodes[j]
           f == [i \in 1 .. 3 |-> nodes[((k + i - 2) % 3) + 1]]
<1>1. DOMAIN nodes = 1 .. 3 /\ 1 .. 3 = {1, 2, 3}
  OBVIOUS
<1>2. \E i \in DOMAIN nodes : \A j \in DOMAIN nodes : nodes[i] <= nodes[j]
  <2>1. (a <= b /\ a <= c) \/ (b <= a /\ b <= c) \/ (c <= a /\ c <= b)
    OBVIOUS
  <2> QED
    BY <1>1, <2>1
<1>3. k \in 1 .. 3
  BY <1>1, <1>2
<1>4. Len(nodes) = 3
  <2>1. nodes \in Seq(Nat)
    BY SeqDef
  <2> QED
    BY <2>1, LenProperties
<1>5. t = [kind |-> "tri", nodes |-> f, id |-> id]
  BY <1>4 DEF Cell
<1> HIDE DEF k
<1>6. k = 1 \/ k = 2 \/ k = 3
  BY <1>3
<1>7. f \in [1 .. 3 -> Nat]
  BY <1>6
<1>8. \/ f[1] = a /\ f[2] = b /\ f[3] = c
      \/ f[1] = b /\ f[2] = c /\ f[3] = a
      \/ f[1] = c /\ f[2] = a /\ f[3] = b
  BY <1>6
<1> HIDE DEF f
<1> QED
  BY <1>5, <1>7, <1>8

(* The constructor of a tri. *)
LEMMA NewTri ==
  ASSUME NEW a \in Nat, NEW b \in Nat, NEW c \in Nat, a # b, a # c, b # c,
         NEW nodes \in [1 .. 3 -> Nat], nodes[1] = a, nodes[2] = b, nodes[3] = c, NEW id
  PROVE  /\ Circles(Cell("tri", nodes, id), a, b, c)
         /\ Cell("tri", nodes, id).id = id
<1>0. PICK t : t = Cell("tri", nodes, id)
  OBVIOUS
<1>1. PICK m : m = t.nodes
  OBVIOUS
<1>2. 1 .. 3 = {1, 2, 3}
  OBVIOUS
<1>7. m \in [1 .. 3 -> Nat] /\ t.kind = "tri" /\ t.id = id
  BY <1>0, <1>1, CellTurns
<1>8. \/ m[1] = a /\ m[2] = b /\ m[3] = c
      \/ m[1] = b /\ m[2] = c /\ m[3] = a
      \/ m[1] = c /\ m[2] = a /\ m[3] = b
  BY <1>0, <1>1, CellTurns
<1>9. t.kind = "tri" /\ t.nodes = m /\ t.id = id
  BY <1>1, <1>7
<1>10. IsInjective(m)
  BY <1>2, <1>7, <1>8 DEF IsInjective
<1>11. Formed(t)
  BY <1>7, <1>9, <1>10 DEF Formed
<1>12. Circles(t, m[1], m[2], m[3])
  BY <1>9, <1>11, TriCircles
<1>13. Circles(t, m[2], m[3], m[1]) /\ Circles(t, m[3], m[1], m[2])
  BY <1>12, CirclesAround
<1>14. Circles(t, a, b, c)
  BY <1>8, <1>12, <1>13
<1> QED
  BY <1>0, <1>9, <1>14

(* And of an edg. *)
LEMMA NewEdg ==
  ASSUME NEW a \in Nat, NEW b \in Nat, a # b,
         NEW nodes \in [1 .. 2 -> Nat], nodes[1] = a, nodes[2] = b, NEW id
  PROVE  /\ Spans(Cell("edg", nodes, id), a, b)
         /\ Cell("edg", nodes, id).id = id
<1> DEFINE k == CHOOSE i \in DOMAIN nodes : \A j \in DOMAIN nodes : nodes[i] <= nodes[j]
           m == [i \in 1 .. 2 |-> nodes[((k + i - 2) % 2) + 1]]
           t == Cell("edg", nodes, id)
<1>1. DOMAIN nodes = 1 .. 2 /\ 1 .. 2 = {1, 2}
  OBVIOUS
<1>2. \E i \in DOMAIN nodes : \A j \in DOMAIN nodes : nodes[i] <= nodes[j]
  <2>1. a <= b \/ b <= a
    OBVIOUS
  <2> QED
    BY <1>1, <2>1
<1>3. k \in 1 .. 2
  BY <1>1, <1>2
<1>4. Len(nodes) = 2
  <2>1. nodes \in Seq(Nat)
    BY SeqDef
  <2> QED
    BY <2>1, LenProperties
<1>5. t = [kind |-> "edg", nodes |-> m, id |-> id]
  BY <1>4 DEF Cell
<1> HIDE DEF t, k
<1>6. k = 1 \/ k = 2
  BY <1>3
<1>7. m \in [1 .. 2 -> Nat]
  BY <1>6
<1>8. (m[1] = a /\ m[2] = b) \/ (m[1] = b /\ m[2] = a)
  BY <1>6
<1> HIDE DEF m
<1>9. t.kind = "edg" /\ t.nodes = m /\ t.id = id
  BY <1>5
<1>10. IsInjective(m)
  BY <1>1, <1>7, <1>8 DEF IsInjective
<1>11. Formed(t)
  BY <1>7, <1>9, <1>10 DEF Formed
<1>12. Spans(t, m[1], m[2])
  BY <1>9, <1>11, EdgSpans
<1>13. Spans(t, a, b)
  BY <1>8, <1>12 DEF Spans
<1> QED
  BY <1>9, <1>13 DEF t

(* x comes before y in a tri. *)
To(t, x, y) == <<x, y>> \in Arrows(t)

(* The sides of a tri: its nodes are different, any two of them are a side  *)
(* in one direction, and each node has one before and one after it.         *)
LEMMA TriSides ==
  ASSUME NEW t, Formed(t), t.kind = "tri"
  PROVE  /\ \A x, y : To(t, x, y) => x # y /\ x \in NodesOf(t) /\ y \in NodesOf(t) /\ ~ To(t, y, x)
         /\ \A x, y \in NodesOf(t) : x = y \/ To(t, x, y) \/ To(t, y, x)
         /\ \A x, y, z : To(t, x, y) /\ To(t, x, z) => y = z
         /\ \A x, y, z : To(t, x, z) /\ To(t, y, z) => x = y
<1>1. PICK a, b, c : Circles(t, a, b, c)
  BY TriCircles
<1>2. /\ Arrows(t) = {<<a, b>>, <<b, c>>, <<c, a>>} /\ NodesOf(t) = {a, b, c}
      /\ a # b /\ a # c /\ b # c
  BY <1>1 DEF Circles
<1>3. \A x, y : To(t, x, y) <=> (x = a /\ y = b) \/ (x = b /\ y = c) \/ (x = c /\ y = a)
  BY <1>2 DEF To
<1> QED
  BY <1>2, <1>3

(* The third node of a tri closes it. *)
LEMMA ThirdNode ==
  ASSUME NEW t, Formed(t), t.kind = "tri", NEW x, NEW y, To(t, x, y)
  PROVE  \E z \in NodesOf(t) : z # x /\ z # y /\ To(t, y, z) /\ To(t, z, x) /\ NodesOf(t) = {x, y, z}
<1>1. PICK z \in NodesOf(t) : Circles(t, x, y, z)
  BY ArrowCircles DEF To
<1> QED
  BY <1>1 DEF Circles, To

(* h is the cell c with the node new in the place of old. *)
Turned(c, old, new, h) ==
  /\ Formed(h) /\ h.kind = c.kind /\ h.id = c.id
  /\ NodesOf(h) = (NodesOf(c) \ {old}) \cup {new}
  /\ c.kind = "tri" => \A x, y :
       To(h, x, y) <=> \/ x # new /\ y # new /\ x # old /\ y # old /\ To(c, x, y)
                       \/ x = new /\ To(c, old, y)
                       \/ y = new /\ To(c, x, old)

(* ref_cell_replace_node turns a cell. *)
LEMMA ReplaceTurns ==
  ASSUME NEW c, Formed(c), NEW old \in NodesOf(c), NEW new \in Nat, new \notin NodesOf(c)
  PROVE  Turned(c, old, new, ref_cell_replace_node(c, old, new))
<1> DEFINE nodes == [i \in DOMAIN c.nodes |-> IF c.nodes[i] = old THEN new ELSE c.nodes[i]]
           h == ref_cell_replace_node(c, old, new)
<1>1. h = Cell(c.kind, nodes, c.id)
  BY DEF ref_cell_replace_node
<1>2. CASE c.kind = "tri"
  <2>1. Circles(c, c.nodes[1], c.nodes[2], c.nodes[3]) /\ c.nodes \in [1 .. 3 -> Nat]
    BY <1>2, TriCircles DEF Formed
  <2>2. PICK a, b, d : /\ c.nodes[1] = a /\ c.nodes[2] = b /\ c.nodes[3] = d
                       /\ a \in Nat /\ b \in Nat /\ d \in Nat
    BY <2>1
  <2>3. /\ NodesOf(c) = {a, b, d} /\ a # b /\ a # d /\ b # d
        /\ Arrows(c) = {<<a, b>>, <<b, d>>, <<d, a>>}
    BY <2>1, <2>2 DEF Circles
  <2>4. PICK p, q, s : /\ p = (IF a = old THEN new ELSE a)
                       /\ q = (IF b = old THEN new ELSE b)
                       /\ s = (IF d = old THEN new ELSE d)
    OBVIOUS
  <2>5. nodes \in [1 .. 3 -> Nat] /\ nodes[1] = p /\ nodes[2] = q /\ nodes[3] = s
    BY <2>1, <2>2, <2>4
  <2>6. p # q /\ p # s /\ q # s /\ p \in Nat /\ q \in Nat /\ s \in Nat
    BY <2>2, <2>3, <2>4
  <2> HIDE DEF nodes
  <2>7. Circles(Cell("tri", nodes, c.id), p, q, s) /\ Cell("tri", nodes, c.id).id = c.id
    BY <2>5, <2>6, NewTri
  <2> HIDE DEF h
  <2>8. Circles(h, p, q, s) /\ h.id = c.id
    BY <1>1, <1>2, <2>7
  <2>9. /\ Formed(h) /\ h.kind = "tri" /\ NodesOf(h) = {p, q, s}
        /\ Arrows(h) = {<<p, q>>, <<q, s>>, <<s, p>>}
    BY <2>8 DEF Circles
  <2>10. NodesOf(h) = (NodesOf(c) \ {old}) \cup {new}
    BY <2>3, <2>4, <2>9
  <2>11. \A x, y : To(c, x, y) <=> (x = a /\ y = b) \/ (x = b /\ y = d) \/ (x = d /\ y = a)
    BY <2>3 DEF To
  <2>12. \A x, y : To(h, x, y) <=> (x = p /\ y = q) \/ (x = q /\ y = s) \/ (x = s /\ y = p)
    BY <2>9 DEF To
  <2>13. \A x, y : To(h, x, y) <=> \/ x # new /\ y # new /\ x # old /\ y # old /\ To(c, x, y)
                                   \/ x = new /\ To(c, old, y)
                                   \/ y = new /\ To(c, x, old)
    <3>1. CASE old = a
      BY <2>3, <2>4, <2>11, <2>12, <3>1
    <3>2. CASE old = b
      BY <2>3, <2>4, <2>11, <2>12, <3>2
    <3>3. CASE old = d
      BY <2>3, <2>4, <2>11, <2>12, <3>3
    <3> QED
      BY <2>3, <3>1, <3>2, <3>3
  <2> QED
    BY <1>2, <2>8, <2>9, <2>10, <2>13 DEF Turned, h
<1>3. CASE c.kind = "edg"
  <2>1. Spans(c, c.nodes[1], c.nodes[2]) /\ c.nodes \in [1 .. 2 -> Nat]
    BY <1>3, EdgSpans DEF Formed
  <2>2. PICK a, b : c.nodes[1] = a /\ c.nodes[2] = b /\ a \in Nat /\ b \in Nat
    BY <2>1
  <2>3. NodesOf(c) = {a, b} /\ a # b
    BY <2>1, <2>2 DEF Spans
  <2>4. PICK p, q : /\ p = (IF a = old THEN new ELSE a)
                    /\ q = (IF b = old THEN new ELSE b)
    OBVIOUS
  <2>5. nodes \in [1 .. 2 -> Nat] /\ nodes[1] = p /\ nodes[2] = q
    BY <2>1, <2>2, <2>4
  <2>6. p # q /\ p \in Nat /\ q \in Nat
    BY <2>2, <2>3, <2>4
  <2> HIDE DEF nodes
  <2>7. Spans(Cell("edg", nodes, c.id), p, q) /\ Cell("edg", nodes, c.id).id = c.id
    BY <2>5, <2>6, NewEdg
  <2> HIDE DEF h
  <2>8. Spans(h, p, q) /\ h.id = c.id
    BY <1>1, <1>3, <2>7
  <2> QED
    BY <1>3, <2>3, <2>4, <2>8 DEF Turned, Spans, h
<1> QED
  BY <1>2, <1>3 DEF Formed

-----------------------------------------------------------------------------
(* Sound meshes *)

(* The tri, the edg and the nodes of the cells M. *)
TriIn(M) == {c \in M : c.kind = "tri"}
EdgIn(M) == {c \in M : c.kind = "edg"}
Verts(M) == UNION {NodesOf(c) : c \in M}

(* The parts of a sound mesh. *)
AllFormed(M) == \A c \in M : Formed(c)
Single(M) == \A c, d \in M : c.kind = d.kind /\ NodesOf(c) = NodesOf(d) => c = d
OneWay(M) == \A t, u \in TriIn(M) : \A x, y : To(t, x, y) /\ To(u, x, y) => t = u
EdgOn(M, x, y) == \E e \in EdgIn(M) : NodesOf(e) = {x, y}
OnSide(M) == \A e \in EdgIn(M) : \E t \in TriIn(M) : NodesOf(e) \subseteq NodesOf(t)
Meets(M, t, x, y) == \E u \in TriIn(M) : To(u, y, x) /\ u.id = t.id
Sealed(M) == \A t \in TriIn(M) : \A x, y :
                To(t, x, y) => EdgOn(M, x, y) \/ Meets(M, t, x, y)
Bordered(M) == \A e \in EdgIn(M) : \A t, u \in TriIn(M) : \A x, y :
                NodesOf(e) = {x, y} /\ To(t, x, y) /\ To(u, y, x) => t.id # u.id

Sound(M) == /\ AllFormed(M) /\ Single(M) /\ OneWay(M)
            /\ OnSide(M) /\ Sealed(M) /\ Bordered(M)

(* A cell of a sound mesh is a tri or an edg. *)
LEMMA Kinds ==
  ASSUME NEW M, AllFormed(M), NEW c \in M
  PROVE  c \in TriIn(M) \/ c \in EdgIn(M)
  BY DEF AllFormed, Formed, TriIn, EdgIn

(* The sides of the tri of a mesh. *)
LEMMA MeshSides ==
  ASSUME NEW M, AllFormed(M), NEW t \in TriIn(M)
  PROVE  /\ \A x, y : To(t, x, y) => x # y /\ x \in NodesOf(t) /\ y \in NodesOf(t) /\ ~ To(t, y, x)
         /\ \A x, y \in NodesOf(t) : x = y \/ To(t, x, y) \/ To(t, y, x)
         /\ \A x, y, z : To(t, x, y) /\ To(t, x, z) => y = z
         /\ \A x, y, z : To(t, x, z) /\ To(t, y, z) => x = y
<1>1. Formed(t) /\ t.kind = "tri"
  BY DEF AllFormed, TriIn
<1> QED
  BY <1>1, TriSides

(* The third node of a tri of a mesh. *)
LEMMA MeshThird ==
  ASSUME NEW M, AllFormed(M), NEW t \in TriIn(M), NEW x, NEW y, To(t, x, y)
  PROVE  \E z \in NodesOf(t) : z # x /\ z # y /\ To(t, y, z) /\ To(t, z, x) /\ NodesOf(t) = {x, y, z}
<1>1. Formed(t) /\ t.kind = "tri"
  BY DEF AllFormed, TriIn
<1> QED
  BY <1>1, ThirdNode

(* Three different nodes of a tri are all of them, and go round one way or  *)
(* the other.                                                               *)
LEMMA MeshRound ==
  ASSUME NEW M, AllFormed(M), NEW t \in TriIn(M), NEW x \in NodesOf(t), NEW y \in NodesOf(t),
         NEW z \in NodesOf(t), x # y, x # z, y # z
  PROVE  /\ NodesOf(t) = {x, y, z}
         /\ \/ To(t, x, y) /\ To(t, y, z) /\ To(t, z, x)
            \/ To(t, y, x) /\ To(t, x, z) /\ To(t, z, y)
<1>1. CASE To(t, x, y)
  <2>1. PICK w \in NodesOf(t) : /\ w # x /\ w # y /\ To(t, y, w) /\ To(t, w, x)
                                /\ NodesOf(t) = {x, y, w}
    BY <1>1, MeshThird
  <2> QED
    BY <1>1, <2>1
<1>2. CASE To(t, y, x)
  <2>1. PICK w \in NodesOf(t) : /\ w # x /\ w # y /\ To(t, x, w) /\ To(t, w, y)
                                /\ NodesOf(t) = {y, x, w}
    BY <1>2, MeshThird
  <2> QED
    BY <1>2, <2>1
<1> QED
  BY <1>1, <1>2, MeshSides

(* An edg has two nodes. *)
LEMMA MeshEnds ==
  ASSUME NEW M, AllFormed(M), NEW e \in EdgIn(M)
  PROVE  \E x, y : x # y /\ NodesOf(e) = {x, y}
<1>1. Formed(e) /\ e.kind = "edg"
  BY DEF AllFormed, EdgIn
<1> QED
  BY <1>1, EdgSpans DEF Spans

(* A tri has three nodes. *)
LEMMA MeshNodes ==
  ASSUME NEW M, AllFormed(M), NEW t \in TriIn(M)
  PROVE  \E x, y, z : /\ x # y /\ x # z /\ y # z /\ NodesOf(t) = {x, y, z}
                      /\ To(t, x, y) /\ To(t, y, z) /\ To(t, z, x)
<1>1. Formed(t) /\ t.kind = "tri"
  BY DEF AllFormed, TriIn
<1>2. Circles(t, t.nodes[1], t.nodes[2], t.nodes[3])
  BY <1>1, TriCircles
<1> QED
  BY <1>2 DEF Circles, To

(* Across a side of a tri lies an edg or another tri of the same face. *)
LEMMA Across ==
  ASSUME NEW M, Sound(M), NEW s \in TriIn(M), NEW x \in NodesOf(s), NEW y \in NodesOf(s), x # y
  PROVE  \/ EdgOn(M, x, y)
         \/ \E u \in TriIn(M) : /\ NodesOf(u) # NodesOf(s) /\ x \in NodesOf(u) /\ y \in NodesOf(u)
                                /\ u.id = s.id
                                /\ To(s, x, y) => To(u, y, x)
                                /\ To(s, y, x) => To(u, x, y)
<1>1. AllFormed(M) /\ Single(M) /\ Sealed(M)
  BY DEF Sound
<1>2. \A u \in TriIn(M) : NodesOf(u) = NodesOf(s) => u = s
  BY <1>1 DEF Single, TriIn
<1>3. CASE To(s, x, y)
  <2>1. SUFFICES ASSUME ~ EdgOn(M, x, y)
                 PROVE  \E u \in TriIn(M) :
                           /\ NodesOf(u) # NodesOf(s) /\ x \in NodesOf(u) /\ y \in NodesOf(u)
                           /\ u.id = s.id
                           /\ To(s, x, y) => To(u, y, x)
                           /\ To(s, y, x) => To(u, x, y)
    OBVIOUS
  <2>2. PICK u \in TriIn(M) : To(u, y, x) /\ u.id = s.id
    BY <1>1, <1>3, <2>1 DEF Sealed, Meets
  <2>3. u # s /\ ~ To(s, y, x) /\ x \in NodesOf(u) /\ y \in NodesOf(u)
    BY <1>1, <1>3, <2>2, MeshSides
  <2> QED
    BY <1>2, <2>2, <2>3
<1>4. CASE To(s, y, x)
  <2>1. SUFFICES ASSUME ~ EdgOn(M, x, y)
                 PROVE  \E u \in TriIn(M) :
                           /\ NodesOf(u) # NodesOf(s) /\ x \in NodesOf(u) /\ y \in NodesOf(u)
                           /\ u.id = s.id
                           /\ To(s, x, y) => To(u, y, x)
                           /\ To(s, y, x) => To(u, x, y)
    OBVIOUS
  <2>2. ~ EdgOn(M, y, x)
    BY <2>1 DEF EdgOn
  <2>3. PICK u \in TriIn(M) : To(u, x, y) /\ u.id = s.id
    BY <1>1, <1>4, <2>2 DEF Sealed, Meets
  <2>4. u # s /\ ~ To(s, x, y) /\ x \in NodesOf(u) /\ y \in NodesOf(u)
    BY <1>1, <1>4, <2>3, MeshSides
  <2> QED
    BY <1>2, <2>3, <2>4
<1> QED
  BY <1>1, <1>3, <1>4, MeshSides

-----------------------------------------------------------------------------
(* Collapse *)

(* The node that stands for a when n1 has become n0. *)
Sub(n0, n1, a) == IF a = n1 THEN n0 ELSE a

(* A cell that vanishes, and what becomes of another one. *)
Gone(n0, n1, c) == n0 \in NodesOf(c) /\ n1 \in NodesOf(c)
Img(n0, n1, c) == IF n1 \in NodesOf(c) THEN ref_cell_replace_node(c, n1, n0) ELSE c
Kept(M, n0, n1) == {c \in M : ~ Gone(n0, n1, c)}
Merged(M, n0, n1) == {Img(n0, n1, c) : c \in Kept(M, n0, n1)}

(* h is c with n0 in the place of n1. *)
Image(n0, n1, c, h) ==
  /\ Formed(h) /\ h.kind = c.kind /\ h.id = c.id
  /\ \A x : x \in NodesOf(h) <=> \E a \in NodesOf(c) : x = Sub(n0, n1, a)
  /\ c.kind = "tri" =>
       \A x, y : To(h, x, y) <=> \E a, b : To(c, a, b) /\ x = Sub(n0, n1, a) /\ y = Sub(n0, n1, b)

(* What ref_cell_replace_node makes of a cell that stays in a collapse. *)
LEMMA ImgIs ==
  ASSUME NEW n0 \in Nat, NEW n1, n0 # n1, NEW c, Formed(c), ~ Gone(n0, n1, c)
  PROVE  Image(n0, n1, c, Img(n0, n1, c))
<1>1. CASE n1 \notin NodesOf(c)
  <2>1. Img(n0, n1, c) = c
    BY <1>1 DEF Img
  <2>2. \A a \in NodesOf(c) : Sub(n0, n1, a) = a
    BY <1>1 DEF Sub
  <2>3. ASSUME c.kind = "tri"
        PROVE \A x, y : To(c, x, y) => Sub(n0, n1, x) = x /\ Sub(n0, n1, y) = y
    BY <2>2, <2>3, TriSides
  <2>4. ASSUME NEW a, NEW b, c.kind = "tri", To(c, a, b)
        PROVE  Sub(n0, n1, a) = a /\ Sub(n0, n1, b) = b
    BY <2>3, <2>4
  <2> QED
    BY <2>1, <2>2, <2>4 DEF Image
<1>2. CASE n1 \in NodesOf(c)
  <2>1. n0 \notin NodesOf(c)
    BY <1>2 DEF Gone
  <2>2. PICK h : h = Img(n0, n1, c)
    OBVIOUS
  <2>3. Turned(c, n1, n0, h)
    BY <1>2, <2>1, <2>2, ReplaceTurns DEF Img
  <2>4. \A x : x \in NodesOf(h) <=> \E a \in NodesOf(c) : x = Sub(n0, n1, a)
    BY <1>2, <2>1, <2>3 DEF Turned, Sub
  <2>5. ASSUME c.kind = "tri", NEW x, NEW y
        PROVE To(h, x, y) <=> \E a, b : To(c, a, b) /\ x = Sub(n0, n1, a) /\ y = Sub(n0, n1, b)
    <3>1. To(h, x, y) <=> \/ x # n0 /\ y # n0 /\ x # n1 /\ y # n1 /\ To(c, x, y)
                          \/ x = n0 /\ To(c, n1, y)
                          \/ y = n0 /\ To(c, x, n1)
      BY <2>3, <2>5 DEF Turned
    <3>2. \A a, b : To(c, a, b) => a # b /\ a \in NodesOf(c) /\ b \in NodesOf(c)
      BY <2>5, TriSides
    <3>3. ASSUME To(h, x, y)
          PROVE \E a, b : To(c, a, b) /\ x = Sub(n0, n1, a) /\ y = Sub(n0, n1, b)
      BY <2>1, <3>1, <3>2, <3>3 DEF Sub
    <3>4. ASSUME NEW a, NEW b, To(c, a, b), x = Sub(n0, n1, a), y = Sub(n0, n1, b)
          PROVE To(h, x, y)
      <4>1. a # b /\ a # n0 /\ b # n0
        BY <2>1, <3>2, <3>4
      <4> QED
        BY <3>1, <3>4, <4>1 DEF Sub
    <3> QED
      BY <3>3, <3>4
  <2> QED
    BY <2>2, <2>3, <2>4, <2>5 DEF Image, Turned
<1> QED
  BY <1>1, <1>2

(* The conditions of ref_collapse_edge_manifold. *)
NoTwin(M, n0, n1) == \A c, d \in M :
    c.kind = d.kind /\ n1 \in NodesOf(c) /\ n0 \notin NodesOf(c)
    => NodesOf(d) # (NodesOf(c) \ {n1}) \cup {n0}
Near(M, x, y) == \E t \in TriIn(M) : x \in NodesOf(t) /\ y \in NodesOf(t)
Closed(M, n0, n1) == \A y :
    y # n0 /\ y # n1 /\ Near(M, n0, y) /\ Near(M, n1, y)
    => \E s \in TriIn(M) : NodesOf(s) = {n0, n1, y}

(* The edge n0 - n1 of the mesh M may be collapsed. *)
Mergeable(M, n0, n1) ==
  /\ Sound(M) /\ n0 \in Nat /\ n0 # n1 /\ Near(M, n0, n1)
  /\ NoTwin(M, n0, n1) /\ Closed(M, n0, n1)

(* The cells of the mesh after a collapse. *)
LEMMA MergedCells ==
  ASSUME NEW M, NEW n0, NEW n1, Mergeable(M, n0, n1)
  PROVE  /\ \A c \in M : ~ Gone(n0, n1, c) =>
              Img(n0, n1, c) \in Merged(M, n0, n1) /\ Image(n0, n1, c, Img(n0, n1, c))
         /\ \A h \in Merged(M, n0, n1) : \E c \in M :
              ~ Gone(n0, n1, c) /\ h = Img(n0, n1, c) /\ Image(n0, n1, c, h)
<1>1. n0 \in Nat /\ n0 # n1 /\ \A c \in M : Formed(c)
  BY DEF Mergeable, Sound, AllFormed
<1>2. \A c \in M : ~ Gone(n0, n1, c) => Image(n0, n1, c, Img(n0, n1, c))
  BY <1>1, ImgIs
<1> QED
  BY <1>2 DEF Merged, Kept

(* The tri. *)
LEMMA MergedTri ==
  ASSUME NEW M, NEW n0, NEW n1, Mergeable(M, n0, n1)
  PROVE  /\ \A c \in TriIn(M) : ~ Gone(n0, n1, c) =>
              /\ Img(n0, n1, c) \in TriIn(Merged(M, n0, n1))
              /\ Image(n0, n1, c, Img(n0, n1, c))
         /\ \A h \in TriIn(Merged(M, n0, n1)) : \E c \in TriIn(M) :
              ~ Gone(n0, n1, c) /\ h = Img(n0, n1, c) /\ Image(n0, n1, c, h)
  BY MergedCells DEF TriIn, Image

(* The edg. *)
LEMMA MergedEdg ==
  ASSUME NEW M, NEW n0, NEW n1, Mergeable(M, n0, n1)
  PROVE  /\ \A c \in EdgIn(M) : ~ Gone(n0, n1, c) =>
              /\ Img(n0, n1, c) \in EdgIn(Merged(M, n0, n1))
              /\ Image(n0, n1, c, Img(n0, n1, c))
         /\ \A h \in EdgIn(Merged(M, n0, n1)) : \E c \in EdgIn(M) :
              ~ Gone(n0, n1, c) /\ h = Img(n0, n1, c) /\ Image(n0, n1, c, h)
  BY MergedCells DEF EdgIn, Image

(* The arrows of an image. *)
LEMMA ImageArrow ==
  ASSUME NEW n0, NEW n1, NEW c, NEW h, Image(n0, n1, c, h), c.kind = "tri", NEW x, NEW y
  PROVE  To(h, x, y) <=> \E a, b : To(c, a, b) /\ x = Sub(n0, n1, a) /\ y = Sub(n0, n1, b)
  BY DEF Image

(* Formed cells. *)
LEMMA MergedFormed ==
  ASSUME NEW M, NEW n0, NEW n1, Mergeable(M, n0, n1)
  PROVE  AllFormed(Merged(M, n0, n1))
  BY MergedCells DEF Image, AllFormed

(* Different cells become different cells. *)
LEMMA ImgApart ==
  ASSUME NEW M, NEW n0, NEW n1, Mergeable(M, n0, n1), NEW c \in M, NEW d \in M,
         ~ Gone(n0, n1, c), ~ Gone(n0, n1, d), c.kind = d.kind,
         NodesOf(Img(n0, n1, c)) = NodesOf(Img(n0, n1, d))
  PROVE  c = d
<1>1. PICK h : h = Img(n0, n1, c) /\ Image(n0, n1, c, h)
  BY MergedCells
<1>2. PICK k : k = Img(n0, n1, d) /\ Image(n0, n1, d, k)
  BY MergedCells
<1>3. Single(M) /\ NoTwin(M, n0, n1) /\ NodesOf(h) = NodesOf(k)
  BY <1>1, <1>2 DEF Mergeable, Sound
<1>4. /\ \A x : x \in NodesOf(h) <=> \E a \in NodesOf(c) : x = Sub(n0, n1, a)
      /\ \A x : x \in NodesOf(k) <=> \E a \in NodesOf(d) : x = Sub(n0, n1, a)
  BY <1>1, <1>2 DEF Image
<1>5. CASE n1 \in NodesOf(c) /\ n1 \in NodesOf(d)
  <2>1. n0 \notin NodesOf(c) /\ n0 \notin NodesOf(d)
    BY <1>5 DEF Gone
  <2>2. NodesOf(c) = NodesOf(d)
    BY <1>3, <1>4, <1>5, <2>1 DEF Sub
  <2> QED
    BY <1>3, <2>2 DEF Single
<1>6. CASE n1 \notin NodesOf(c) /\ n1 \notin NodesOf(d)
  <2>1. NodesOf(c) = NodesOf(d)
    BY <1>3, <1>4, <1>6 DEF Sub
  <2> QED
    BY <1>3, <2>1 DEF Single
<1>7. CASE n1 \in NodesOf(c) /\ n1 \notin NodesOf(d)
  <2>1. n0 \notin NodesOf(c) /\ n0 # n1
    BY <1>7 DEF Gone, Mergeable
  <2>2. NodesOf(d) = (NodesOf(c) \ {n1}) \cup {n0}
    BY <1>3, <1>4, <1>7, <2>1 DEF Sub
  <2> QED
    BY <1>3, <1>7, <2>1, <2>2 DEF NoTwin
<1>8. CASE n1 \notin NodesOf(c) /\ n1 \in NodesOf(d)
  <2>1. n0 \notin NodesOf(d) /\ n0 # n1
    BY <1>8 DEF Gone, Mergeable
  <2>2. NodesOf(c) = (NodesOf(d) \ {n1}) \cup {n0}
    BY <1>3, <1>4, <1>8, <2>1 DEF Sub
  <2> QED
    BY <1>3, <1>8, <2>1, <2>2 DEF NoTwin
<1> QED
  BY <1>5, <1>6, <1>7, <1>8

(* No two cells on the same nodes. *)
LEMMA MergedSingle ==
  ASSUME NEW M, NEW n0, NEW n1, Mergeable(M, n0, n1)
  PROVE  Single(Merged(M, n0, n1))
<1> SUFFICES ASSUME NEW h \in Merged(M, n0, n1), NEW k \in Merged(M, n0, n1),
                    h.kind = k.kind, NodesOf(h) = NodesOf(k)
             PROVE  h = k
  BY DEF Single
<1>1. PICK c \in M : ~ Gone(n0, n1, c) /\ h = Img(n0, n1, c) /\ Image(n0, n1, c, h)
  BY MergedCells
<1>2. PICK d \in M : ~ Gone(n0, n1, d) /\ k = Img(n0, n1, d) /\ Image(n0, n1, d, k)
  BY MergedCells
<1>3. c.kind = d.kind
  BY <1>1, <1>2 DEF Image
<1> QED
  BY <1>1, <1>2, <1>3, ImgApart

(* a and b are the ends of the edge, in some order. *)
Ends(n0, n1, a, b) == (a = n0 /\ b = n1) \/ (a = n1 /\ b = n0)

(* A node next to both ends is the apex of a tri that vanishes. *)
LEMMA Fold ==
  ASSUME NEW M, NEW n0, NEW n1, Mergeable(M, n0, n1), NEW a, NEW b, Ends(n0, n1, a, b),
         NEW y, y # a, y # b, Near(M, a, y), Near(M, b, y)
  PROVE  \E s \in TriIn(M) : Gone(n0, n1, s) /\ NodesOf(s) = {a, b, y}
<1>1. PICK s \in TriIn(M) : NodesOf(s) = {n0, n1, y}
  BY DEF Ends, Mergeable, Closed
<1> QED
  BY <1>1 DEF Gone, Ends

(* A tri that stays has one of the ends at most. *)
LEMMA OneEnd ==
  ASSUME NEW M, NEW n0, NEW n1, Mergeable(M, n0, n1), NEW a, NEW b, Ends(n0, n1, a, b),
         NEW c \in TriIn(M), ~ Gone(n0, n1, c), NEW x, To(c, a, x) \/ To(c, x, a)
  PROVE  x # a /\ x # b /\ Near(M, a, x)
<1>1. a \in NodesOf(c) /\ x \in NodesOf(c) /\ x # a
  BY MeshSides DEF Mergeable, Sound
<1> QED
  BY <1>1 DEF Gone, Ends, Near

(* Two tri that stay do not run the same way from or to the two ends. *)
LEMMA NoMix ==
  ASSUME NEW M, NEW n0, NEW n1, Mergeable(M, n0, n1), NEW a, NEW b, Ends(n0, n1, a, b),
         NEW c \in TriIn(M), NEW d \in TriIn(M), ~ Gone(n0, n1, c), ~ Gone(n0, n1, d), NEW y,
         (To(c, a, y) /\ To(d, b, y)) \/ (To(c, y, a) /\ To(d, y, b))
  PROVE  FALSE
<1>1. y # a /\ y # b /\ Near(M, a, y)
  BY OneEnd
<1>2. Ends(n0, n1, b, a)
  BY DEF Ends
<1>3. Near(M, b, y)
  BY <1>2, OneEnd
<1>4. PICK s \in TriIn(M) : Gone(n0, n1, s) /\ NodesOf(s) = {a, b, y}
  BY <1>1, <1>3, Fold
<1>5. a # b /\ AllFormed(M) /\ OneWay(M)
  BY DEF Ends, Mergeable, Sound
<1>6. \/ To(s, a, b) /\ To(s, b, y) /\ To(s, y, a)
      \/ To(s, b, a) /\ To(s, a, y) /\ To(s, y, b)
  BY <1>1, <1>4, <1>5, MeshRound
<1>7. s = c \/ s = d
  BY <1>5, <1>6 DEF OneWay
<1> QED
  BY <1>4, <1>7

(* Between two tri that run opposite ways lies one that vanishes. *)
LEMMA Between ==
  ASSUME NEW M, NEW n0, NEW n1, Mergeable(M, n0, n1), NEW a, NEW b, Ends(n0, n1, a, b),
         NEW c \in TriIn(M), NEW d \in TriIn(M), ~ Gone(n0, n1, c), ~ Gone(n0, n1, d), NEW y,
         To(c, a, y), To(d, y, b)
  PROVE  \E s \in TriIn(M) : Gone(n0, n1, s) /\ To(s, y, a) /\ To(s, b, y) /\ NodesOf(s) = {a, b, y}
<1>1. y # a /\ y # b /\ Near(M, a, y)
  BY OneEnd
<1>2. Ends(n0, n1, b, a)
  BY DEF Ends
<1>3. Near(M, b, y)
  BY <1>2, OneEnd
<1>4. PICK s \in TriIn(M) : Gone(n0, n1, s) /\ NodesOf(s) = {a, b, y}
  BY <1>1, <1>3, Fold
<1>5. a # b /\ AllFormed(M) /\ OneWay(M)
  BY DEF Ends, Mergeable, Sound
<1>6. \/ To(s, a, b) /\ To(s, b, y) /\ To(s, y, a)
      \/ To(s, b, a) /\ To(s, a, y) /\ To(s, y, b)
  BY <1>1, <1>4, <1>5, MeshRound
<1>7. s # c /\ s # d
  BY <1>4
<1> QED
  BY <1>4, <1>5, <1>6, <1>7 DEF OneWay

(* A side with one end of the edge that n0 and n1 make two of. *)
LEMMA SubEnds ==
  ASSUME NEW n0, NEW n1, NEW a, NEW b, Sub(n0, n1, a) = Sub(n0, n1, b)
  PROVE  a = b \/ Ends(n0, n1, a, b)
  BY DEF Sub, Ends

(* An arrow lies in one tri. *)
LEMMA MergedOneWay ==
  ASSUME NEW M, NEW n0, NEW n1, Mergeable(M, n0, n1)
  PROVE  OneWay(Merged(M, n0, n1))
<1> SUFFICES ASSUME NEW h \in TriIn(Merged(M, n0, n1)), NEW k \in TriIn(Merged(M, n0, n1)),
                    NEW x, NEW y, To(h, x, y), To(k, x, y)
             PROVE  h = k
  BY DEF OneWay
<1>1. PICK c \in TriIn(M) : ~ Gone(n0, n1, c) /\ h = Img(n0, n1, c) /\ Image(n0, n1, c, h)
  BY MergedTri
<1>2. PICK d \in TriIn(M) : ~ Gone(n0, n1, d) /\ k = Img(n0, n1, d) /\ Image(n0, n1, d, k)
  BY MergedTri
<1>3. PICK a, b : To(c, a, b) /\ x = Sub(n0, n1, a) /\ y = Sub(n0, n1, b)
  BY <1>1, ImageArrow DEF TriIn
<1>4. PICK p, q : To(d, p, q) /\ x = Sub(n0, n1, p) /\ y = Sub(n0, n1, q)
  BY <1>2, ImageArrow DEF TriIn
<1>5. (a = p \/ Ends(n0, n1, a, p)) /\ (b = q \/ Ends(n0, n1, b, q))
  BY <1>3, <1>4, SubEnds
<1>6. ~ (Ends(n0, n1, a, p) /\ Ends(n0, n1, b, q))
  <2> SUFFICES ASSUME Ends(n0, n1, a, p), Ends(n0, n1, b, q) PROVE FALSE
    OBVIOUS
  <2>1. b # a /\ b # p
    BY <1>1, <1>3, OneEnd
  <2> QED
    BY <2>1 DEF Ends
<1>7. CASE a = p /\ b = q
  <2>1. c = d
    BY <1>3, <1>4, <1>7 DEF Mergeable, Sound, OneWay
  <2> QED
    BY <1>1, <1>2, <2>1
<1>8. CASE Ends(n0, n1, a, p) /\ b = q
  BY <1>1, <1>2, <1>3, <1>4, <1>8, NoMix
<1>9. CASE a = p /\ Ends(n0, n1, b, q)
  BY <1>1, <1>2, <1>3, <1>4, <1>9, NoMix
<1> QED
  BY <1>5, <1>6, <1>7, <1>8, <1>9

(* What lies across the side of a tri that vanishes. *)
LEMMA FoldSide ==
  ASSUME NEW M, NEW n0, NEW n1, Mergeable(M, n0, n1), NEW a, NEW b, Ends(n0, n1, a, b),
         NEW s \in TriIn(M), NEW y, y # a, y # b, NodesOf(s) = {a, b, y}
  PROVE  \/ EdgOn(M, b, y)
         \/ \E v \in TriIn(M) : /\ ~ Gone(n0, n1, v) /\ b \in NodesOf(v) /\ y \in NodesOf(v)
                                /\ v.id = s.id
                                /\ To(s, b, y) => To(v, y, b)
                                /\ To(s, y, b) => To(v, b, y)
<1>1. Sound(M) /\ AllFormed(M) /\ a # b
  BY DEF Mergeable, Sound, Ends
<1>2. SUFFICES ASSUME ~ EdgOn(M, b, y)
               PROVE  \E v \in TriIn(M) :
                                /\ ~ Gone(n0, n1, v) /\ b \in NodesOf(v) /\ y \in NodesOf(v)
                                /\ v.id = s.id
                                /\ To(s, b, y) => To(v, y, b)
                                /\ To(s, y, b) => To(v, b, y)
  OBVIOUS
<1>3. PICK u \in TriIn(M) : /\ NodesOf(u) # NodesOf(s) /\ b \in NodesOf(u) /\ y \in NodesOf(u)
                            /\ u.id = s.id
                            /\ To(s, b, y) => To(u, y, b)
                            /\ To(s, y, b) => To(u, b, y)
  <2>1. b \in NodesOf(s) /\ y \in NodesOf(s)
    OBVIOUS
  <2> QED
    BY <1>1, <1>2, <2>1, Across
<1>4. ASSUME Gone(n0, n1, u) PROVE FALSE
  <2>1. a \in NodesOf(u)
    BY <1>4 DEF Gone, Ends
  <2>2. NodesOf(u) = {a, b, y}
    BY <1>1, <1>3, <2>1, MeshRound
  <2> QED
    BY <1>3, <2>2
<1> QED
  BY <1>3, <1>4

(* An edg that stays. *)
LEMMA EdgMoves ==
  ASSUME NEW M, NEW n0, NEW n1, Mergeable(M, n0, n1), NEW a, NEW b, EdgOn(M, a, b),
         ~ Ends(n0, n1, a, b)
  PROVE  EdgOn(Merged(M, n0, n1), Sub(n0, n1, a), Sub(n0, n1, b))
<1>1. PICK e \in EdgIn(M) : NodesOf(e) = {a, b}
  BY DEF EdgOn
<1>2. ~ Gone(n0, n1, e)
  BY <1>1 DEF Gone, Ends, Mergeable
<1>3. PICK h \in EdgIn(Merged(M, n0, n1)) : Image(n0, n1, e, h)
  BY <1>2, MergedEdg
<1>4. NodesOf(h) = {Sub(n0, n1, a), Sub(n0, n1, b)}
  BY <1>1, <1>3 DEF Image
<1> QED
  BY <1>4 DEF EdgOn

(* A tri that stays, with an arrow of it. *)
LEMMA ArrowMoves ==
  ASSUME NEW M, NEW n0, NEW n1, Mergeable(M, n0, n1), NEW c \in TriIn(M), ~ Gone(n0, n1, c),
         NEW a, NEW b, To(c, a, b)
  PROVE  \E h \in TriIn(Merged(M, n0, n1)) :
            h.id = c.id /\ To(h, Sub(n0, n1, a), Sub(n0, n1, b))
<1>1. PICK h \in TriIn(Merged(M, n0, n1)) : Image(n0, n1, c, h)
  BY MergedTri
<1> QED
  BY <1>1, ImageArrow DEF Image, TriIn

(* Every side is met. *)
LEMMA MergedSealed ==
  ASSUME NEW M, NEW n0, NEW n1, Mergeable(M, n0, n1)
  PROVE  Sealed(Merged(M, n0, n1))
<1> SUFFICES ASSUME NEW h \in TriIn(Merged(M, n0, n1)), NEW x, NEW y, To(h, x, y)
             PROVE  \/ EdgOn(Merged(M, n0, n1), x, y)
                    \/ \E u \in TriIn(Merged(M, n0, n1)) : To(u, y, x) /\ u.id = h.id
  BY DEF Sealed, Meets
<1>0. Sound(M) /\ AllFormed(M) /\ n0 # n1
  BY DEF Mergeable, Sound
<1>1. PICK c \in TriIn(M) : ~ Gone(n0, n1, c) /\ h = Img(n0, n1, c) /\ Image(n0, n1, c, h)
  BY MergedTri
<1>2. PICK a, b : To(c, a, b) /\ x = Sub(n0, n1, a) /\ y = Sub(n0, n1, b)
  BY <1>1, ImageArrow DEF TriIn
<1>3. h.id = c.id
  BY <1>1 DEF Image
<1>4. a # b /\ a \in NodesOf(c) /\ b \in NodesOf(c)
  BY <1>0, <1>2, MeshSides
<1>5. ~ Ends(n0, n1, a, b)
  BY <1>1, <1>4 DEF Gone, Ends
<1>6. CASE EdgOn(M, a, b)
  BY <1>2, <1>5, <1>6, EdgMoves
<1>7. CASE \E u \in TriIn(M) : To(u, b, a) /\ u.id = c.id
  <2>1. PICK u \in TriIn(M) : To(u, b, a) /\ u.id = c.id
    BY <1>7
  <2>2. CASE ~ Gone(n0, n1, u)
    BY <1>2, <1>3, <2>1, <2>2, ArrowMoves
  <2>3. CASE Gone(n0, n1, u)
    <3>1. PICK w \in NodesOf(u) : /\ w # a /\ w # b /\ To(u, a, w) /\ To(u, w, b)
                                  /\ NodesOf(u) = {b, a, w}
      BY <1>0, <2>1, MeshThird
    <3>2. Ends(n0, n1, a, w) \/ Ends(n0, n1, b, w)
      BY <1>0, <1>4, <1>5, <2>3, <3>1 DEF Gone, Ends
    <3>3. CASE Ends(n0, n1, a, w)
      <4>1. NodesOf(u) = {a, w, b} /\ b # a /\ b # w /\ ~ Ends(n0, n1, w, b)
        BY <1>4, <1>5, <3>1, <3>3 DEF Ends
      <4>2. Sub(n0, n1, w) = x /\ Sub(n0, n1, b) = y
        BY <1>2, <3>3 DEF Sub, Ends
      <4>3. CASE EdgOn(M, w, b)
        BY <4>1, <4>2, <4>3, EdgMoves
      <4>4. CASE \E v \in TriIn(M) : /\ ~ Gone(n0, n1, v) /\ w \in NodesOf(v) /\ b \in NodesOf(v)
                                     /\ v.id = u.id
                                     /\ To(u, w, b) => To(v, b, w)
                                     /\ To(u, b, w) => To(v, w, b)
        <5>1. PICK v \in TriIn(M) : ~ Gone(n0, n1, v) /\ v.id = u.id /\ To(v, b, w)
          BY <3>1, <4>4
        <5> QED
          BY <1>3, <2>1, <4>2, <5>1, ArrowMoves
      <4> QED
        BY <3>3, <4>1, <4>3, <4>4, FoldSide
    <3>4. CASE Ends(n0, n1, b, w)
      <4>1. NodesOf(u) = {b, w, a} /\ b # a /\ a # w /\ ~ Ends(n0, n1, w, a) /\ ~ Ends(n0, n1, a, w)
        BY <1>4, <1>5, <3>1, <3>4 DEF Ends
      <4>2. Sub(n0, n1, w) = y /\ Sub(n0, n1, a) = x
        BY <1>2, <3>4 DEF Sub, Ends
      <4>3. CASE EdgOn(M, w, a)
        <5>1. EdgOn(M, a, w)
          BY <4>3 DEF EdgOn
        <5> QED
          BY <4>1, <4>2, <5>1, EdgMoves
      <4>4. CASE \E v \in TriIn(M) : /\ ~ Gone(n0, n1, v) /\ w \in NodesOf(v) /\ a \in NodesOf(v)
                                     /\ v.id = u.id
                                     /\ To(u, w, a) => To(v, a, w)
                                     /\ To(u, a, w) => To(v, w, a)
        <5>1. PICK v \in TriIn(M) : ~ Gone(n0, n1, v) /\ v.id = u.id /\ To(v, w, a)
          BY <3>1, <4>4
        <5> QED
          BY <1>3, <2>1, <4>2, <5>1, ArrowMoves
      <4> QED
        BY <3>4, <4>1, <4>3, <4>4, FoldSide
    <3> QED
      BY <3>2, <3>3, <3>4
  <2> QED
    BY <2>2, <2>3
<1> QED
  BY <1>0, <1>2, <1>6, <1>7 DEF Sound, Sealed, Meets

(* There are not two edg that would become one. *)
LEMMA NoTwinEdg ==
  ASSUME NEW M, NEW n0, NEW n1, Mergeable(M, n0, n1), NEW a, NEW b, Ends(n0, n1, a, b),
         NEW y, y # a, y # b, EdgOn(M, a, y), EdgOn(M, b, y)
  PROVE  FALSE
<1>1. NoTwin(M, n0, n1) /\ n0 # n1
  BY DEF Mergeable
<1>2. PICK e \in EdgIn(M) : NodesOf(e) = {n0, y}
  BY DEF EdgOn, Ends
<1>3. PICK f \in EdgIn(M) : NodesOf(f) = {n1, y}
  BY DEF EdgOn, Ends
<1>4. y # n0 /\ y # n1
  BY DEF Ends
<1>5. NodesOf(e) = (NodesOf(f) \ {n1}) \cup {n0}
  BY <1>1, <1>2, <1>3, <1>4
<1>6. n1 \in NodesOf(f) /\ n0 \notin NodesOf(f) /\ f.kind = e.kind /\ f \in M /\ e \in M
  BY <1>1, <1>2, <1>3, <1>4 DEF EdgIn
<1> QED
  BY <1>1, <1>5, <1>6 DEF NoTwin

(* The two tri at an edg that has become one of the sides next to a tri     *)
(* that vanishes.                                                           *)
LEMMA FoldBorder ==
  ASSUME NEW M, NEW n0, NEW n1, Mergeable(M, n0, n1), NEW a, NEW b, Ends(n0, n1, a, b),
         NEW c \in TriIn(M), NEW d \in TriIn(M), ~ Gone(n0, n1, c), ~ Gone(n0, n1, d), NEW y,
         To(c, a, y), To(d, y, b), EdgOn(M, a, y) \/ EdgOn(M, b, y)
  PROVE  c.id # d.id
<1>1. PICK s \in TriIn(M) : /\ Gone(n0, n1, s) /\ To(s, y, a) /\ To(s, b, y)
                            /\ NodesOf(s) = {a, b, y}
  BY Between
<1>2. y # a /\ y # b
  BY OneEnd
<1>3. AllFormed(M) /\ OneWay(M) /\ Sealed(M) /\ Bordered(M)
  BY DEF Mergeable, Sound
<1>4. CASE EdgOn(M, a, y)
  <2>1. c.id # s.id
    BY <1>1, <1>3, <1>4 DEF Bordered, EdgOn
  <2>2. ~ EdgOn(M, b, y)
    BY <1>2, <1>4, NoTwinEdg
  <2>3. PICK v \in TriIn(M) : To(v, y, b) /\ v.id = s.id
    BY <1>1, <1>3, <2>2 DEF Sealed, Meets
  <2>4. v = d
    BY <1>3, <2>3 DEF OneWay
  <2> QED
    BY <2>1, <2>3, <2>4
<1>5. CASE EdgOn(M, b, y)
  <2>1. s.id # d.id
    BY <1>1, <1>3, <1>5 DEF Bordered, EdgOn
  <2>2. ~ EdgOn(M, a, y)
    BY <1>2, <1>5, NoTwinEdg
  <2>3. ~ EdgOn(M, y, a)
    BY <2>2 DEF EdgOn
  <2>4. PICK v \in TriIn(M) : To(v, a, y) /\ v.id = s.id
    BY <1>1, <1>3, <2>3 DEF Sealed, Meets
  <2>5. v = c
    BY <1>3, <2>4 DEF OneWay
  <2> QED
    BY <2>1, <2>4, <2>5
<1> QED
  BY <1>4, <1>5

(* An edg ends at nodes next to each other. *)
LEMMA EdgNear ==
  ASSUME NEW M, Sound(M), NEW a, NEW b, EdgOn(M, a, b)
  PROVE  Near(M, a, b)
  BY DEF Sound, OnSide, EdgOn, Near

(* Two tri that stay on either side of a side: an edg at the other end that *)
(* becomes one on this side is on this side.                                *)
LEMMA SameBorder ==
  ASSUME NEW M, NEW n0, NEW n1, Mergeable(M, n0, n1), NEW a, NEW b, Ends(n0, n1, a, b),
         NEW c \in TriIn(M), NEW d \in TriIn(M), ~ Gone(n0, n1, c), ~ Gone(n0, n1, d), NEW y,
         To(c, a, y), To(d, y, a), EdgOn(M, b, y)
  PROVE  FALSE
<1>1. y # a /\ y # b /\ Near(M, a, y)
  BY OneEnd
<1>2. Near(M, b, y)
  BY EdgNear DEF Mergeable
<1>3. PICK s \in TriIn(M) : Gone(n0, n1, s) /\ NodesOf(s) = {a, b, y}
  BY <1>1, <1>2, Fold
<1>4. AllFormed(M) /\ OneWay(M)
  BY DEF Mergeable, Sound
<1>5. To(s, a, y) \/ To(s, y, a)
  BY <1>1, <1>3, <1>4, MeshSides
<1> QED
  BY <1>3, <1>4, <1>5 DEF OneWay

(* An edg separates two faces. *)
LEMMA MergedBordered ==
  ASSUME NEW M, NEW n0, NEW n1, Mergeable(M, n0, n1)
  PROVE  Bordered(Merged(M, n0, n1))
<1> SUFFICES ASSUME NEW g \in EdgIn(Merged(M, n0, n1)), NEW h \in TriIn(Merged(M, n0, n1)),
                    NEW k \in TriIn(Merged(M, n0, n1)), NEW x, NEW y,
                    NodesOf(g) = {x, y}, To(h, x, y), To(k, y, x)
             PROVE  h.id # k.id
  BY DEF Bordered
<1>0. AllFormed(M) /\ n0 # n1 /\ Bordered(M)
  BY DEF Mergeable, Sound
<1>1. PICK c \in TriIn(M) : ~ Gone(n0, n1, c) /\ h = Img(n0, n1, c) /\ Image(n0, n1, c, h)
  BY MergedTri
<1>2. PICK d \in TriIn(M) : ~ Gone(n0, n1, d) /\ k = Img(n0, n1, d) /\ Image(n0, n1, d, k)
  BY MergedTri
<1>3. PICK e \in EdgIn(M) : ~ Gone(n0, n1, e) /\ g = Img(n0, n1, e) /\ Image(n0, n1, e, g)
  BY MergedEdg
<1>4. PICK a, b : To(c, a, b) /\ x = Sub(n0, n1, a) /\ y = Sub(n0, n1, b)
  BY <1>1, ImageArrow DEF TriIn
<1>5. PICK q, p : To(d, q, p) /\ y = Sub(n0, n1, q) /\ x = Sub(n0, n1, p)
  BY <1>2, ImageArrow DEF TriIn
<1>6. PICK v, w : v # w /\ NodesOf(e) = {v, w}
  BY <1>0, MeshEnds
<1>7. {x, y} = {Sub(n0, n1, v), Sub(n0, n1, w)}
  BY <1>3, <1>6 DEF Image
<1>8. PICK i, j : /\ EdgOn(M, i, j) /\ x = Sub(n0, n1, i) /\ y = Sub(n0, n1, j)
                  /\ NodesOf(e) = {i, j}
  <2>1. EdgOn(M, v, w) /\ EdgOn(M, w, v) /\ NodesOf(e) = {w, v}
    BY <1>6 DEF EdgOn
  <2> QED
    BY <1>6, <1>7, <2>1
<1>9. c.id = h.id /\ d.id = k.id
  BY <1>1, <1>2 DEF Image
<1>10. /\ a = p \/ Ends(n0, n1, a, p)
       /\ b = q \/ Ends(n0, n1, b, q)
       /\ a = i \/ Ends(n0, n1, a, i)
       /\ b = j \/ Ends(n0, n1, b, j)
  BY <1>4, <1>5, <1>8, SubEnds
<1>11. ~ (Ends(n0, n1, a, p) /\ Ends(n0, n1, b, q))
  <2> SUFFICES ASSUME Ends(n0, n1, a, p), Ends(n0, n1, b, q) PROVE FALSE
    OBVIOUS
  <2>1. b # a /\ b # p
    BY <1>1, <1>4, OneEnd
  <2> QED
    BY <2>1 DEF Ends
<1>12. CASE a = p /\ b = q
  <2>1. CASE a = i /\ b = j
    BY <1>0, <1>4, <1>5, <1>8, <1>9, <1>12, <2>1 DEF Bordered
  <2>2. CASE Ends(n0, n1, a, i) /\ b = j
    <3>1. EdgOn(M, i, b)
      BY <1>8, <2>2
    <3> QED
      BY <1>1, <1>2, <1>4, <1>5, <1>12, <2>2, <3>1, SameBorder
  <2>3. CASE a = i /\ Ends(n0, n1, b, j)
    <3>1. EdgOn(M, j, a)
      BY <1>8, <2>3 DEF EdgOn
    <3> QED
      BY <1>1, <1>2, <1>4, <1>5, <1>12, <2>3, <3>1, SameBorder
  <2>4. ~ (Ends(n0, n1, a, i) /\ Ends(n0, n1, b, j))
    <3> SUFFICES ASSUME Ends(n0, n1, a, i), Ends(n0, n1, b, j) PROVE FALSE
      OBVIOUS
    <3>1. b # a /\ b # i
      BY <1>1, <1>4, OneEnd
    <3> QED
      BY <3>1 DEF Ends
  <2> QED
    BY <1>10, <2>1, <2>2, <2>3, <2>4
<1>13. CASE Ends(n0, n1, a, p) /\ b = q
  <2>1. b # a /\ b # p
    BY <1>1, <1>4, <1>13, OneEnd
  <2>2. j = b
    BY <1>10, <1>13, <2>1 DEF Ends
  <2>3. i = a \/ i = p
    BY <1>10, <1>13 DEF Ends
  <2>4. EdgOn(M, a, b) \/ EdgOn(M, p, b)
    BY <1>8, <2>2, <2>3
  <2> QED
    BY <1>1, <1>2, <1>4, <1>5, <1>9, <1>13, <2>4, FoldBorder
<1>14. CASE a = p /\ Ends(n0, n1, b, q)
  <2>0. Ends(n0, n1, q, b)
    BY <1>14 DEF Ends
  <2>1. a # b /\ a # q
    BY <1>1, <1>4, <1>14, OneEnd
  <2>2. i = a
    BY <1>10, <1>14, <2>1 DEF Ends
  <2>3. j = b \/ j = q
    BY <1>10, <1>14 DEF Ends
  <2>4. EdgOn(M, q, a) \/ EdgOn(M, b, a)
    BY <1>8, <2>2, <2>3 DEF EdgOn
  <2> QED
    BY <1>1, <1>2, <1>4, <1>5, <1>9, <1>14, <2>0, <2>4, FoldBorder
<1> QED
  BY <1>10, <1>11, <1>12, <1>13, <1>14

(* A tri that vanishes leaves one behind on its folded side. *)
LEMMA FoldLeaves ==
  ASSUME NEW M, NEW n0, NEW n1, Mergeable(M, n0, n1), NEW a, NEW b, Ends(n0, n1, a, b),
         NEW s \in TriIn(M), NEW y, y # a, y # b, NodesOf(s) = {a, b, y}
  PROVE  \E v \in TriIn(M) : ~ Gone(n0, n1, v) /\ y \in NodesOf(v)
                             /\ (a \in NodesOf(v) \/ b \in NodesOf(v))
<1>1. Ends(n0, n1, b, a) /\ NodesOf(s) = {b, a, y}
  BY DEF Ends
<1>2. ~ EdgOn(M, a, y) \/ ~ EdgOn(M, b, y)
  BY NoTwinEdg
<1>3. CASE ~ EdgOn(M, b, y)
  BY <1>3, FoldSide
<1>4. CASE ~ EdgOn(M, a, y)
  BY <1>1, <1>4, FoldSide
<1> QED
  BY <1>2, <1>3, <1>4

(* Nodes next to each other stay so, n0 for n1. *)
LEMMA NearMoves ==
  ASSUME NEW M, NEW n0, NEW n1, Mergeable(M, n0, n1), NEW a, NEW b, a # b, Near(M, a, b),
         ~ Ends(n0, n1, a, b)
  PROVE  Near(Merged(M, n0, n1), Sub(n0, n1, a), Sub(n0, n1, b))
<1>0. AllFormed(M) /\ n0 # n1
  BY DEF Mergeable, Sound
<1>1. PICK t \in TriIn(M) : a \in NodesOf(t) /\ b \in NodesOf(t)
  BY DEF Near
<1>2. ASSUME NEW c \in TriIn(M), ~ Gone(n0, n1, c), NEW p \in NodesOf(c), NEW q \in NodesOf(c),
             Sub(n0, n1, p) = Sub(n0, n1, a), Sub(n0, n1, q) = Sub(n0, n1, b)
      PROVE  Near(Merged(M, n0, n1), Sub(n0, n1, a), Sub(n0, n1, b))
  <2>1. PICK h \in TriIn(Merged(M, n0, n1)) : Image(n0, n1, c, h)
    BY <1>2, MergedTri
  <2>2. Sub(n0, n1, a) \in NodesOf(h) /\ Sub(n0, n1, b) \in NodesOf(h)
    BY <1>2, <2>1 DEF Image
  <2> QED
    BY <2>2 DEF Near
<1>3. CASE ~ Gone(n0, n1, t)
  BY <1>1, <1>2, <1>3
<1>4. CASE Gone(n0, n1, t)
  <2>1. PICK x, y, z : x # y /\ x # z /\ y # z /\ NodesOf(t) = {x, y, z}
    BY <1>0, MeshNodes
  <2>2. PICK w : w # n0 /\ w # n1 /\ NodesOf(t) = {n0, n1, w}
    BY <1>0, <1>4, <2>1 DEF Gone
  <2>3. (a = w /\ (b = n0 \/ b = n1)) \/ (b = w /\ (a = n0 \/ a = n1))
    BY <1>1, <2>2 DEF Ends
  <2>4. Ends(n0, n1, n0, n1)
    BY DEF Ends
  <2>5. PICK v \in TriIn(M) : ~ Gone(n0, n1, v) /\ w \in NodesOf(v)
                             /\ (n0 \in NodesOf(v) \/ n1 \in NodesOf(v))
    BY <2>2, <2>4, FoldLeaves
  <2>6. Sub(n0, n1, n0) = n0 /\ Sub(n0, n1, n1) = n0
    BY DEF Sub
  <2> QED
    BY <1>2, <2>3, <2>5, <2>6
<1> QED
  BY <1>3, <1>4

(* Every edg is a side. *)
LEMMA MergedOnSide ==
  ASSUME NEW M, NEW n0, NEW n1, Mergeable(M, n0, n1)
  PROVE  OnSide(Merged(M, n0, n1))
<1> SUFFICES ASSUME NEW h \in EdgIn(Merged(M, n0, n1))
             PROVE  \E t \in TriIn(Merged(M, n0, n1)) : NodesOf(h) \subseteq NodesOf(t)
  BY DEF OnSide
<1>0. Sound(M) /\ AllFormed(M) /\ n0 # n1
  BY DEF Mergeable, Sound
<1>1. PICK e \in EdgIn(M) : ~ Gone(n0, n1, e) /\ h = Img(n0, n1, e) /\ Image(n0, n1, e, h)
  BY MergedEdg
<1>2. PICK v, w : v # w /\ NodesOf(e) = {v, w}
  BY <1>0, MeshEnds
<1>3. Near(M, v, w)
  BY <1>0, <1>2, EdgNear DEF EdgOn
<1>4. ~ Ends(n0, n1, v, w)
  BY <1>1, <1>2 DEF Ends, Gone
<1>5. Near(Merged(M, n0, n1), Sub(n0, n1, v), Sub(n0, n1, w))
  BY <1>2, <1>3, <1>4, NearMoves
<1>6. \A x \in NodesOf(h) : x = Sub(n0, n1, v) \/ x = Sub(n0, n1, w)
  BY <1>1, <1>2 DEF Image
<1> QED
  BY <1>5, <1>6 DEF Near

(* The nodes: n1 goes. *)
LEMMA MergedVerts ==
  ASSUME NEW M, NEW n0, NEW n1, Mergeable(M, n0, n1)
  PROVE  Verts(Merged(M, n0, n1)) = Verts(M) \ {n1}
<1>0. Sound(M) /\ AllFormed(M) /\ n0 # n1
  BY DEF Mergeable, Sound
<1>1. ASSUME NEW x \in Verts(Merged(M, n0, n1)) PROVE x \in Verts(M) \ {n1}
  <2>1. PICK h \in Merged(M, n0, n1) : x \in NodesOf(h)
    BY DEF Verts
  <2>2. PICK c \in M : ~ Gone(n0, n1, c) /\ Image(n0, n1, c, h)
    BY MergedCells
  <2>3. PICK a \in NodesOf(c) : x = Sub(n0, n1, a)
    BY <2>1, <2>2 DEF Image
  <2>4. a \in Verts(M) /\ n0 \in Verts(M)
    BY <2>3 DEF Verts, Mergeable, Near, TriIn
  <2> QED
    BY <1>0, <2>3, <2>4 DEF Sub
<1>2. ASSUME NEW x \in Verts(M), x # n1 PROVE x \in Verts(Merged(M, n0, n1))
  <2>1. PICK c \in M : x \in NodesOf(c)
    BY DEF Verts
  <2>2. Near(M, x, x)
    <3>1. CASE c \in TriIn(M)
      BY <2>1, <3>1 DEF Near
    <3>2. CASE c \in EdgIn(M)
      BY <1>0, <2>1, <3>2 DEF Sound, OnSide, Near
    <3> QED
      BY <1>0, <3>1, <3>2, Kinds
  <2>3. PICK t \in TriIn(M) : x \in NodesOf(t)
    BY <2>2 DEF Near
  <2>4. PICK p, q, r : p # q /\ p # r /\ q # r /\ NodesOf(t) = {p, q, r}
    BY <1>0, MeshNodes
  <2>5. PICK y \in NodesOf(t) : y # x /\ ~ (x = n0 /\ y = n1)
    BY <2>3, <2>4
  <2>6. Near(M, x, y) /\ ~ Ends(n0, n1, x, y)
    BY <1>2, <2>3, <2>5 DEF Near, Ends
  <2>7. Near(Merged(M, n0, n1), Sub(n0, n1, x), Sub(n0, n1, y))
    BY <2>5, <2>6, NearMoves
  <2>8. Sub(n0, n1, x) = x
    BY <1>2 DEF Sub
  <2> QED
    BY <2>7, <2>8 DEF Near, Verts, TriIn
<1> QED
  BY <1>1, <1>2

(* A collapse keeps a mesh sound. *)
LEMMA MergedSound ==
  ASSUME NEW M, NEW n0, NEW n1, Mergeable(M, n0, n1)
  PROVE  Sound(Merged(M, n0, n1))
  BY MergedFormed, MergedSingle, MergedOneWay, MergedOnSide, MergedSealed, MergedBordered
     DEF Sound

-----------------------------------------------------------------------------
(* Split *)

(* The mesh after a split. *)
Halved(M, n0, n1, new) ==
  {c \in M : ~ Gone(n0, n1, c)}
    \cup {ref_cell_replace_node(c, n0, new) : c \in {d \in M : Gone(n0, n1, d)}}
    \cup {ref_cell_replace_node(c, n1, new) : c \in {d \in M : Gone(n0, n1, d)}}

(* The edge n0 - n1 of the mesh M may be split, and new is a free number. *)
Splittable(M, n0, n1, new) ==
  /\ Sound(M) /\ n0 # n1 /\ Near(M, n0, n1) /\ new \in Nat /\ new \notin Verts(M)

(* h is the half of c in which new has taken the place of a, and b stays. *)
Part(n0, n1, new, c, a, b, h) ==
  /\ Gone(n0, n1, c) /\ Ends(n0, n1, a, b)
  /\ h = ref_cell_replace_node(c, a, new) /\ Turned(c, a, new, h)

(* The cells after a split: those not on the edge, and the two halves of the others. *)
LEMMA HalvedCells ==
  ASSUME NEW M, NEW n0, NEW n1, NEW new, Splittable(M, n0, n1, new)
  PROVE  /\ \A c \in M : ~ Gone(n0, n1, c) => c \in Halved(M, n0, n1, new)
         /\ \A c \in M : \A a, b : Gone(n0, n1, c) /\ Ends(n0, n1, a, b) =>
              \E h \in Halved(M, n0, n1, new) : Part(n0, n1, new, c, a, b, h)
         /\ \A h \in Halved(M, n0, n1, new) :
              \/ h \in M /\ ~ Gone(n0, n1, h)
              \/ \E c \in M : \E a, b : Part(n0, n1, new, c, a, b, h)
<1>1. \A c \in M : Formed(c) /\ new \notin NodesOf(c) /\ new \in Nat
  BY DEF Splittable, Sound, AllFormed, Verts
<1>2. ASSUME NEW c \in M, NEW a, NEW b, Gone(n0, n1, c), Ends(n0, n1, a, b)
      PROVE  Part(n0, n1, new, c, a, b, ref_cell_replace_node(c, a, new))
  <2>1. a \in NodesOf(c)
    BY <1>2 DEF Gone, Ends
  <2>2. Turned(c, a, new, ref_cell_replace_node(c, a, new))
    BY <1>1, <2>1, ReplaceTurns
  <2> QED
    BY <1>2, <2>2 DEF Part
<1>3. Ends(n0, n1, n0, n1) /\ Ends(n0, n1, n1, n0)
  BY DEF Ends
<1>4. \A c \in M : ~ Gone(n0, n1, c) => c \in Halved(M, n0, n1, new)
  BY DEF Halved
<1>5. ASSUME NEW c \in M, NEW a, NEW b, Gone(n0, n1, c), Ends(n0, n1, a, b)
      PROVE  ref_cell_replace_node(c, a, new) \in Halved(M, n0, n1, new)
  BY <1>5 DEF Halved, Ends
<1>6. ASSUME NEW h \in Halved(M, n0, n1, new), ~ (h \in M /\ ~ Gone(n0, n1, h))
      PROVE  \E c \in M : \E a, b : Part(n0, n1, new, c, a, b, h)
  <2>1. PICK c \in M : /\ Gone(n0, n1, c)
                       /\ \/ h = ref_cell_replace_node(c, n0, new)
                          \/ h = ref_cell_replace_node(c, n1, new)
    BY <1>6 DEF Halved
  <2> QED
    BY <1>2, <1>3, <2>1
<1> QED
  BY <1>2, <1>4, <1>5, <1>6

(* The tri among them. *)
LEMMA HalvedTri ==
  ASSUME NEW M, NEW n0, NEW n1, NEW new, Splittable(M, n0, n1, new)
  PROVE  /\ \A c \in TriIn(M) : ~ Gone(n0, n1, c) => c \in TriIn(Halved(M, n0, n1, new))
         /\ \A c \in TriIn(M) : \A a, b : Gone(n0, n1, c) /\ Ends(n0, n1, a, b) =>
              \E h \in TriIn(Halved(M, n0, n1, new)) : Part(n0, n1, new, c, a, b, h)
         /\ \A h \in TriIn(Halved(M, n0, n1, new)) :
              \/ h \in TriIn(M) /\ ~ Gone(n0, n1, h)
              \/ \E c \in TriIn(M) : \E a, b : Part(n0, n1, new, c, a, b, h)
<1>1. \A c, a, b, h : Part(n0, n1, new, c, a, b, h) => h.kind = c.kind
  BY DEF Part, Turned
<1>2. \A c \in TriIn(M) : ~ Gone(n0, n1, c) => c \in TriIn(Halved(M, n0, n1, new))
  BY HalvedCells DEF TriIn
<1>3. \A c \in TriIn(M) : \A a, b : Gone(n0, n1, c) /\ Ends(n0, n1, a, b) =>
              \E h \in TriIn(Halved(M, n0, n1, new)) : Part(n0, n1, new, c, a, b, h)
  BY <1>1, HalvedCells DEF TriIn
<1>4. \A h \in TriIn(Halved(M, n0, n1, new)) :
              \/ h \in TriIn(M) /\ ~ Gone(n0, n1, h)
              \/ \E c \in TriIn(M) : \E a, b : Part(n0, n1, new, c, a, b, h)
  BY <1>1, HalvedCells DEF TriIn
<1> QED
  BY <1>2, <1>3, <1>4

(* The edg among them. *)
LEMMA HalvedEdg ==
  ASSUME NEW M, NEW n0, NEW n1, NEW new, Splittable(M, n0, n1, new)
  PROVE  /\ \A c \in EdgIn(M) : ~ Gone(n0, n1, c) => c \in EdgIn(Halved(M, n0, n1, new))
         /\ \A c \in EdgIn(M) : \A a, b : Gone(n0, n1, c) /\ Ends(n0, n1, a, b) =>
              \E h \in EdgIn(Halved(M, n0, n1, new)) : Part(n0, n1, new, c, a, b, h)
         /\ \A h \in EdgIn(Halved(M, n0, n1, new)) :
              \/ h \in EdgIn(M) /\ ~ Gone(n0, n1, h)
              \/ \E c \in EdgIn(M) : \E a, b : Part(n0, n1, new, c, a, b, h)
<1>1. \A c, a, b, h : Part(n0, n1, new, c, a, b, h) => h.kind = c.kind
  BY DEF Part, Turned
<1>2. \A c \in EdgIn(M) : ~ Gone(n0, n1, c) => c \in EdgIn(Halved(M, n0, n1, new))
  BY HalvedCells DEF EdgIn
<1>3. \A c \in EdgIn(M) : \A a, b : Gone(n0, n1, c) /\ Ends(n0, n1, a, b) =>
              \E h \in EdgIn(Halved(M, n0, n1, new)) : Part(n0, n1, new, c, a, b, h)
  BY <1>1, HalvedCells DEF EdgIn
<1>4. \A h \in EdgIn(Halved(M, n0, n1, new)) :
              \/ h \in EdgIn(M) /\ ~ Gone(n0, n1, h)
              \/ \E c \in EdgIn(M) : \E a, b : Part(n0, n1, new, c, a, b, h)
  BY <1>1, HalvedCells DEF EdgIn
<1> QED
  BY <1>2, <1>3, <1>4

(* The nodes of a half. *)
LEMMA PartNodes ==
  ASSUME NEW n0, NEW n1, n0 # n1, NEW new, NEW c, NEW a, NEW b, NEW h,
         Part(n0, n1, new, c, a, b, h)
  PROVE  /\ NodesOf(h) = (NodesOf(c) \ {a}) \cup {new} /\ h.id = c.id /\ h.kind = c.kind
         /\ Formed(h) /\ a # b /\ a \in NodesOf(c) /\ b \in NodesOf(c)
  BY DEF Part, Turned, Gone, Ends

(* The arrows of a half. *)
LEMMA PartArrow ==
  ASSUME NEW n0, NEW n1, NEW new, NEW c, NEW a, NEW b, NEW h,
         Part(n0, n1, new, c, a, b, h), c.kind = "tri", NEW x, NEW y
  PROVE  To(h, x, y) <=> \/ x # new /\ y # new /\ x # a /\ y # a /\ To(c, x, y)
                         \/ x = new /\ To(c, a, y)
                         \/ y = new /\ To(c, x, a)
  BY DEF Part, Turned

(* The nodes of a tri on the edge. *)
LEMMA GemNodes ==
  ASSUME NEW M, NEW n0, NEW n1, NEW new, Splittable(M, n0, n1, new), NEW c \in TriIn(M),
         Gone(n0, n1, c), NEW a, NEW b, Ends(n0, n1, a, b)
  PROVE  \E w : /\ w # a /\ w # b /\ a # b /\ NodesOf(c) = {a, b, w}
                /\ \/ To(c, a, b) /\ To(c, b, w) /\ To(c, w, a)
                   \/ To(c, b, a) /\ To(c, a, w) /\ To(c, w, b)
<1>1. AllFormed(M) /\ a # b /\ a \in NodesOf(c) /\ b \in NodesOf(c)
  BY DEF Splittable, Sound, Ends, Gone
<1>2. PICK x, y, z : x # y /\ x # z /\ y # z /\ NodesOf(c) = {x, y, z}
  BY <1>1, MeshNodes
<1>3. PICK w \in NodesOf(c) : w # a /\ w # b
  BY <1>1, <1>2
<1> QED
  BY <1>1, <1>3, MeshRound

(* The cells after a split have different nodes. *)
LEMMA HalvedFormed ==
  ASSUME NEW M, NEW n0, NEW n1, NEW new, Splittable(M, n0, n1, new)
  PROVE  AllFormed(Halved(M, n0, n1, new))
<1>1. AllFormed(M)
  BY DEF Splittable, Sound
<1> QED
  BY <1>1, HalvedCells DEF AllFormed, Part, Turned

(* No two cells after a split have the same nodes. *)
LEMMA HalvedSingle ==
  ASSUME NEW M, NEW n0, NEW n1, NEW new, Splittable(M, n0, n1, new)
  PROVE  Single(Halved(M, n0, n1, new))
<1> SUFFICES ASSUME NEW h \in Halved(M, n0, n1, new), NEW k \in Halved(M, n0, n1, new),
                    h.kind = k.kind, NodesOf(h) = NodesOf(k)
             PROVE  h = k
  BY DEF Single
<1>0. Single(M) /\ n0 # n1 /\ \A c \in M : new \notin NodesOf(c)
  BY DEF Splittable, Sound, Verts
<1>1. CASE h \in M /\ k \in M
  BY <1>0, <1>1 DEF Single
<1>2. CASE h \in M /\ k \notin M
  <2>1. PICK d, p, q : d \in M /\ Part(n0, n1, new, d, p, q, k)
    BY <1>2, HalvedCells
  <2> QED
    BY <1>0, <1>2, <2>1, PartNodes
<1>3. CASE h \notin M /\ k \in M
  <2>1. PICK c, a, b : c \in M /\ Part(n0, n1, new, c, a, b, h)
    BY <1>3, HalvedCells
  <2> QED
    BY <1>0, <1>3, <2>1, PartNodes
<1>4. CASE h \notin M /\ k \notin M
  <2>1. PICK c, a, b : c \in M /\ Part(n0, n1, new, c, a, b, h)
    BY <1>4, HalvedCells
  <2>2. PICK d, p, q : d \in M /\ Part(n0, n1, new, d, p, q, k)
    BY <1>4, HalvedCells
  <2>3. /\ NodesOf(h) = (NodesOf(c) \ {a}) \cup {new} /\ h.kind = c.kind
        /\ a # b /\ a \in NodesOf(c) /\ b \in NodesOf(c)
    BY <1>0, <2>1, PartNodes
  <2>4. /\ NodesOf(k) = (NodesOf(d) \ {p}) \cup {new} /\ k.kind = d.kind
        /\ p # q /\ p \in NodesOf(d) /\ q \in NodesOf(d)
    BY <1>0, <2>2, PartNodes
  <2>5. a = p
    <3> SUFFICES ASSUME a # p PROVE FALSE
      OBVIOUS
    <3>1. b = p
      BY <2>1, <2>2 DEF Part, Ends
    <3>2. b \in NodesOf(h) /\ p \notin NodesOf(k)
      BY <1>0, <2>1, <2>2, <2>3, <2>4
    <3> QED
      BY <3>1, <3>2
  <2>6. NodesOf(c) = NodesOf(d)
    <3>1. new \notin NodesOf(c) /\ new \notin NodesOf(d)
      BY <1>0, <2>1, <2>2
    <3>2. (NodesOf(c) \ {a}) \cup {new} = (NodesOf(d) \ {a}) \cup {new}
      BY <2>3, <2>4, <2>5
    <3>3. \A x : x \in NodesOf(c) <=> x \in NodesOf(d)
      BY <2>3, <2>4, <2>5, <3>1, <3>2
    <3> QED
      BY <3>3
  <2>7. c = d
    BY <1>0, <2>1, <2>2, <2>3, <2>4, <2>6 DEF Single
  <2> QED
    BY <2>1, <2>2, <2>5, <2>7 DEF Part
<1> QED
  BY <1>1, <1>2, <1>3, <1>4

(* An arrow between old nodes was there before, in the same tri or in the   *)
(* tri it is a half of.                                                     *)
LEMMA OldArrow ==
  ASSUME NEW M, NEW n0, NEW n1, NEW new, Splittable(M, n0, n1, new),
         NEW h \in TriIn(Halved(M, n0, n1, new)), NEW x, NEW y, To(h, x, y), x # new, y # new
  PROVE  \E c \in TriIn(M) : /\ To(c, x, y) /\ h.id = c.id
                             /\ \/ h = c /\ ~ Gone(n0, n1, c)
                                \/ \E a, b : Part(n0, n1, new, c, a, b, h) /\ x # a /\ y # a
<1>1. CASE h \in TriIn(M) /\ ~ Gone(n0, n1, h)
  BY <1>1
<1>2. CASE \E c \in TriIn(M) : \E a, b : Part(n0, n1, new, c, a, b, h)
  <2>1. PICK c, a, b : c \in TriIn(M) /\ Part(n0, n1, new, c, a, b, h)
    BY <1>2
  <2>2. To(c, x, y) /\ x # a /\ y # a
    BY <2>1, PartArrow DEF TriIn
  <2> QED
    BY <2>1, <2>2 DEF Part, Turned
<1> QED
  BY <1>1, <1>2, HalvedTri

(* An arrow at the new node is in a half. *)
LEMMA NewArrow ==
  ASSUME NEW M, NEW n0, NEW n1, NEW new, Splittable(M, n0, n1, new),
         NEW h \in TriIn(Halved(M, n0, n1, new)), NEW y, To(h, new, y) \/ To(h, y, new)
  PROVE  \E c \in TriIn(M) : \E a, b : /\ Part(n0, n1, new, c, a, b, h)
                                       /\ To(h, new, y) => To(c, a, y)
                                       /\ To(h, y, new) => To(c, y, a)
                                       /\ y # new /\ y # a /\ y \in NodesOf(c)
<1>0. AllFormed(M) /\ \A c \in TriIn(M) : new \notin NodesOf(c)
  BY DEF Splittable, Sound, Verts, TriIn
<1>1. CASE h \in TriIn(M) /\ ~ Gone(n0, n1, h)
  BY <1>0, <1>1, MeshSides
<1>2. CASE \E c \in TriIn(M) : \E a, b : Part(n0, n1, new, c, a, b, h)
  <2>1. PICK c, a, b : c \in TriIn(M) /\ Part(n0, n1, new, c, a, b, h)
    BY <1>2
  <2>2. \A p, q : To(c, p, q) => p # q /\ p \in NodesOf(c) /\ q \in NodesOf(c)
    BY <1>0, <2>1, MeshSides
  <2>3. new \notin NodesOf(c)
    BY <1>0, <2>1
  <2>4. To(h, new, y) => To(c, a, y)
    BY <2>1, <2>2, <2>3, PartArrow DEF TriIn
  <2>5. To(h, y, new) => To(c, y, a)
    BY <2>1, <2>2, <2>3, PartArrow DEF TriIn
  <2>6. y # new /\ y # a /\ y \in NodesOf(c)
    BY <2>2, <2>3, <2>4, <2>5
  <2> QED
    BY <2>1, <2>4, <2>5, <2>6
<1> QED
  BY <1>1, <1>2, HalvedTri

(* Two tri on the edge that run from, or to, its two ends and the same node *)
(* are none.                                                                *)
LEMMA GemMix ==
  ASSUME NEW M, NEW n0, NEW n1, NEW new, Splittable(M, n0, n1, new),
         NEW c \in TriIn(M), NEW d \in TriIn(M), Gone(n0, n1, c), Gone(n0, n1, d),
         NEW a, NEW b, Ends(n0, n1, a, b), NEW y,
         (To(c, a, y) /\ To(d, b, y)) \/ (To(c, y, a) /\ To(d, y, b))
  PROVE  FALSE
<1>0. AllFormed(M) /\ Single(M)
  BY DEF Splittable, Sound
<1>1. PICK w : /\ w # a /\ w # b /\ a # b /\ NodesOf(c) = {a, b, w}
               /\ \/ To(c, a, b) /\ To(c, b, w) /\ To(c, w, a)
                  \/ To(c, b, a) /\ To(c, a, w) /\ To(c, w, b)
  BY GemNodes
<1>2. PICK v : /\ v # a /\ v # b /\ NodesOf(d) = {a, b, v}
               /\ \/ To(d, a, b) /\ To(d, b, v) /\ To(d, v, a)
                  \/ To(d, b, a) /\ To(d, a, v) /\ To(d, v, b)
  BY GemNodes
<1>3. /\ \A p, q : To(c, p, q) => p # q /\ p \in NodesOf(c) /\ q \in NodesOf(c) /\ ~ To(c, q, p)
      /\ \A p, q : To(d, p, q) => p # q /\ p \in NodesOf(d) /\ q \in NodesOf(d) /\ ~ To(d, q, p)
  BY <1>0, MeshSides
<1>4. y = w /\ y = v
  BY <1>1, <1>2, <1>3
<1>5. c = d
  BY <1>0, <1>1, <1>2, <1>4 DEF Single, TriIn
<1> QED
  BY <1>1, <1>3, <1>4, <1>5

(* No two tri after a split run along a side in the same direction. *)
LEMMA HalvedOneWay ==
  ASSUME NEW M, NEW n0, NEW n1, NEW new, Splittable(M, n0, n1, new)
  PROVE  OneWay(Halved(M, n0, n1, new))
<1> SUFFICES ASSUME NEW h \in TriIn(Halved(M, n0, n1, new)), NEW k \in TriIn(Halved(M, n0, n1, new)),
                    NEW x, NEW y, To(h, x, y), To(k, x, y)
             PROVE  h = k
  BY DEF OneWay
<1>0. AllFormed(M) /\ OneWay(M) /\ n0 # n1
  BY DEF Splittable, Sound
<1>1. CASE x # new /\ y # new
  <2>1. PICK c \in TriIn(M) : /\ To(c, x, y)
                              /\ \/ h = c /\ ~ Gone(n0, n1, c)
                                 \/ \E a, b : Part(n0, n1, new, c, a, b, h) /\ x # a /\ y # a
    BY <1>1, OldArrow
  <2>2. PICK d \in TriIn(M) : /\ To(d, x, y)
                              /\ \/ k = d /\ ~ Gone(n0, n1, d)
                                 \/ \E a, b : Part(n0, n1, new, d, a, b, k) /\ x # a /\ y # a
    BY <1>1, OldArrow
  <2>3. c = d
    BY <1>0, <2>1, <2>2 DEF OneWay
  <2>4. CASE ~ Gone(n0, n1, c)
    BY <2>1, <2>2, <2>3, <2>4 DEF Part
  <2>5. CASE Gone(n0, n1, c)
    <3>1. PICK a, b : Part(n0, n1, new, c, a, b, h) /\ x # a /\ y # a
      BY <2>1, <2>5
    <3>2. PICK p, q : Part(n0, n1, new, c, p, q, k) /\ x # p /\ y # p
      BY <2>2, <2>3, <2>5
    <3>3. Ends(n0, n1, a, b) /\ Ends(n0, n1, p, q)
      BY <3>1, <3>2 DEF Part
    <3>4. PICK w : /\ w # a /\ w # b /\ a # b /\ NodesOf(c) = {a, b, w}
      BY <2>5, <3>3, GemNodes
    <3>5. x # y /\ x \in NodesOf(c) /\ y \in NodesOf(c)
      BY <1>0, <2>1, MeshSides
    <3>6. p = a
      BY <3>1, <3>2, <3>3, <3>4, <3>5 DEF Ends
    <3> QED
      BY <3>1, <3>2, <3>6 DEF Part
  <2> QED
    BY <2>4, <2>5
<1>2. CASE x = new
  <2>1. PICK c, a, b : c \in TriIn(M) /\ Part(n0, n1, new, c, a, b, h) /\ To(c, a, y)
    BY <1>2, NewArrow
  <2>2. PICK d, p, q : d \in TriIn(M) /\ Part(n0, n1, new, d, p, q, k) /\ To(d, p, y)
    BY <1>2, NewArrow
  <2>3. /\ Ends(n0, n1, a, b) /\ Ends(n0, n1, p, q)
        /\ Gone(n0, n1, c) /\ Gone(n0, n1, d)
    BY <2>1, <2>2 DEF Part
  <2>4. CASE p = a
    <3>1. c = d
      BY <1>0, <2>1, <2>2, <2>4 DEF OneWay
    <3> QED
      BY <2>1, <2>2, <2>4, <3>1 DEF Part
  <2>5. CASE p # a
    <3>1. Ends(n0, n1, a, p)
      BY <2>3, <2>5 DEF Ends
    <3> QED
      BY <2>1, <2>2, <2>3, <3>1, GemMix
  <2> QED
    BY <2>4, <2>5
<1>3. CASE y = new
  <2>1. PICK c, a, b : c \in TriIn(M) /\ Part(n0, n1, new, c, a, b, h) /\ To(c, x, a)
    BY <1>3, NewArrow
  <2>2. PICK d, p, q : d \in TriIn(M) /\ Part(n0, n1, new, d, p, q, k) /\ To(d, x, p)
    BY <1>3, NewArrow
  <2>3. /\ Ends(n0, n1, a, b) /\ Ends(n0, n1, p, q)
        /\ Gone(n0, n1, c) /\ Gone(n0, n1, d)
    BY <2>1, <2>2 DEF Part
  <2>4. CASE p = a
    <3>1. c = d
      BY <1>0, <2>1, <2>2, <2>4 DEF OneWay
    <3> QED
      BY <2>1, <2>2, <2>4, <3>1 DEF Part
  <2>5. CASE p # a
    <3>1. Ends(n0, n1, a, p)
      BY <2>3, <2>5 DEF Ends
    <3> QED
      BY <2>1, <2>2, <2>3, <3>1, GemMix
  <2> QED
    BY <2>4, <2>5
<1> QED
  BY <1>1, <1>2, <1>3

(* An arrow between old nodes that is not the split one is still there. *)
LEMMA ArrowStays ==
  ASSUME NEW M, NEW n0, NEW n1, NEW new, Splittable(M, n0, n1, new),
         NEW c \in TriIn(M), NEW x, NEW y, To(c, x, y), ~ Ends(n0, n1, x, y)
  PROVE  \E h \in TriIn(Halved(M, n0, n1, new)) : To(h, x, y) /\ h.id = c.id
<1>0. AllFormed(M) /\ n0 # n1 /\ new \notin NodesOf(c)
  BY DEF Splittable, Sound, Verts, TriIn
<1>1. CASE ~ Gone(n0, n1, c)
  BY <1>1, HalvedTri
<1>2. CASE Gone(n0, n1, c)
  <2>1. x # y /\ x \in NodesOf(c) /\ y \in NodesOf(c)
    BY <1>0, MeshSides
  <2>2. PICK a, b : Ends(n0, n1, a, b) /\ x # a /\ y # a
    <3>1. Ends(n0, n1, n0, n1) /\ Ends(n0, n1, n1, n0)
      BY DEF Ends
    <3>2. (x # n0 /\ y # n0) \/ (x # n1 /\ y # n1)
      BY <1>0, <2>1 DEF Ends
    <3> QED
      BY <3>1, <3>2
  <2>3. PICK h \in TriIn(Halved(M, n0, n1, new)) : Part(n0, n1, new, c, a, b, h)
    BY <1>2, <2>2, HalvedTri
  <2>4. To(h, x, y)
    BY <1>0, <2>1, <2>2, <2>3, PartArrow DEF TriIn
  <2> QED
    BY <2>3, <2>4 DEF Part, Turned
<1> QED
  BY <1>1, <1>2

(* An edg that is not the split one is still there. *)
LEMMA EdgStays ==
  ASSUME NEW M, NEW n0, NEW n1, NEW new, Splittable(M, n0, n1, new), NEW x, NEW y,
         EdgOn(M, x, y), ~ Ends(n0, n1, x, y)
  PROVE  EdgOn(Halved(M, n0, n1, new), x, y)
<1>1. PICK e \in EdgIn(M) : NodesOf(e) = {x, y}
  BY DEF EdgOn
<1>2. ~ Gone(n0, n1, e)
  BY <1>1 DEF Gone, Ends, Splittable
<1> QED
  BY <1>1, <1>2, HalvedEdg DEF EdgOn

(* Of the split edg, each end gets a half. *)
LEMMA EdgHalves ==
  ASSUME NEW M, NEW n0, NEW n1, NEW new, Splittable(M, n0, n1, new), NEW a, NEW b,
         EdgOn(M, a, b), Ends(n0, n1, a, b)
  PROVE  EdgOn(Halved(M, n0, n1, new), new, b)
<1>1. PICK e \in EdgIn(M) : NodesOf(e) = {a, b}
  BY DEF EdgOn
<1>2. Gone(n0, n1, e) /\ a # b /\ n0 # n1
  BY <1>1 DEF Gone, Ends, Splittable
<1>3. PICK h \in EdgIn(Halved(M, n0, n1, new)) : Part(n0, n1, new, e, a, b, h)
  BY <1>2, HalvedEdg
<1>4. NodesOf(h) = {new, b}
  BY <1>1, <1>2, <1>3, PartNodes
<1> QED
  BY <1>4 DEF EdgOn

(* The halves of a tri on the edge meet at the new node. *)
LEMMA HalvesMeet ==
  ASSUME NEW M, NEW n0, NEW n1, NEW new, Splittable(M, n0, n1, new), NEW c \in TriIn(M),
         Gone(n0, n1, c), NEW a, NEW b, Ends(n0, n1, a, b), NEW y, y # b
  PROVE  /\ To(c, a, y) => \E h \in TriIn(Halved(M, n0, n1, new)) : To(h, y, new) /\ h.id = c.id
         /\ To(c, y, a) => \E h \in TriIn(Halved(M, n0, n1, new)) : To(h, new, y) /\ h.id = c.id
<1>0. AllFormed(M)
  BY DEF Splittable, Sound
<1>1. PICK w : /\ w # a /\ w # b /\ a # b /\ NodesOf(c) = {a, b, w}
               /\ \/ To(c, a, b) /\ To(c, b, w) /\ To(c, w, a)
                  \/ To(c, b, a) /\ To(c, a, w) /\ To(c, w, b)
  BY GemNodes
<1>2. Ends(n0, n1, b, a)
  BY DEF Ends
<1>3. PICK h \in TriIn(Halved(M, n0, n1, new)) : Part(n0, n1, new, c, b, a, h)
  BY <1>2, HalvedTri
<1>4. \A p, q : To(c, p, q) => p # q /\ p \in NodesOf(c) /\ q \in NodesOf(c) /\ ~ To(c, q, p)
  BY <1>0, MeshSides
<1>5. h.id = c.id /\ c.kind = "tri"
  BY <1>3 DEF Part, Turned, TriIn
<1>6. ASSUME To(c, a, y) PROVE To(h, y, new)
  <2>1. y = w /\ To(c, w, b)
    BY <1>1, <1>4, <1>6
  <2> QED
    BY <1>3, <1>5, <2>1, PartArrow
<1>7. ASSUME To(c, y, a) PROVE To(h, new, y)
  <2>1. y = w /\ To(c, b, w)
    BY <1>1, <1>4, <1>7
  <2> QED
    BY <1>3, <1>5, <2>1, PartArrow
<1> QED
  BY <1>5, <1>6, <1>7

(* The half of a tri across the edge. *)
LEMMA HalfAcross ==
  ASSUME NEW M, NEW n0, NEW n1, NEW new, Splittable(M, n0, n1, new), NEW u \in TriIn(M),
         NEW a, NEW b, Ends(n0, n1, a, b)
  PROVE  /\ To(u, b, a) => \E h \in TriIn(Halved(M, n0, n1, new)) : To(h, b, new) /\ h.id = u.id
         /\ To(u, a, b) => \E h \in TriIn(Halved(M, n0, n1, new)) : To(h, new, b) /\ h.id = u.id
<1>0. AllFormed(M)
  BY DEF Splittable, Sound
<1>1. SUFFICES ASSUME To(u, b, a) \/ To(u, a, b)
               PROVE  \E h \in TriIn(Halved(M, n0, n1, new)) :
                         h.id = u.id /\ (To(u, b, a) => To(h, b, new))
                                     /\ (To(u, a, b) => To(h, new, b))
  <2> QED
    OBVIOUS
<1>2. a \in NodesOf(u) /\ b \in NodesOf(u)
  BY <1>0, <1>1, MeshSides
<1>3. Gone(n0, n1, u)
  BY <1>2 DEF Gone, Ends
<1>4. PICK h \in TriIn(Halved(M, n0, n1, new)) : Part(n0, n1, new, u, a, b, h)
  BY <1>3, HalvedTri
<1>5. h.id = u.id /\ u.kind = "tri"
  BY <1>4 DEF Part, Turned, TriIn
<1>6. To(u, b, a) => To(h, b, new)
  BY <1>4, <1>5, PartArrow
<1>7. To(u, a, b) => To(h, new, b)
  BY <1>4, <1>5, PartArrow
<1> QED
  BY <1>5, <1>6, <1>7

(* After a split a tri without an edg on its side has a neighbour of its surface there. *)
LEMMA HalvedSealed ==
  ASSUME NEW M, NEW n0, NEW n1, NEW new, Splittable(M, n0, n1, new)
  PROVE  Sealed(Halved(M, n0, n1, new))
<1> DEFINE N == Halved(M, n0, n1, new)
<1> SUFFICES ASSUME NEW h \in TriIn(N), NEW x, NEW y, To(h, x, y)
             PROVE  EdgOn(N, x, y) \/ \E u \in TriIn(N) : To(u, y, x) /\ u.id = h.id
  BY DEF Sealed, Meets
<1> HIDE DEF N
<1>0. AllFormed(M) /\ Sealed(M) /\ OneWay(M) /\ n0 # n1
  BY DEF Splittable, Sound
<1>1. CASE x # new /\ y # new
  <2>1. PICK c \in TriIn(M) : /\ To(c, x, y) /\ h.id = c.id
                              /\ \/ h = c /\ ~ Gone(n0, n1, c)
                                 \/ \E a, b : Part(n0, n1, new, c, a, b, h) /\ x # a /\ y # a
    BY <1>1, OldArrow DEF N
  <2>2. x # y /\ x \in NodesOf(c) /\ y \in NodesOf(c)
    BY <1>0, <2>1, MeshSides
  <2>3. ~ Ends(n0, n1, x, y) /\ ~ Ends(n0, n1, y, x)
    BY <2>1, <2>2 DEF Ends, Gone, Part
  <2>4. CASE EdgOn(M, x, y)
    BY <2>3, <2>4, EdgStays DEF N
  <2>5. CASE \E u \in TriIn(M) : To(u, y, x) /\ u.id = c.id
    BY <2>1, <2>3, <2>5, ArrowStays DEF N
  <2> QED
    BY <1>0, <2>1, <2>4, <2>5 DEF Sealed, Meets
<1>2. CASE x = new
  <2>1. PICK c, a, b : c \in TriIn(M) /\ Part(n0, n1, new, c, a, b, h) /\ To(c, a, y)
    BY <1>2, NewArrow DEF N
  <2>2. Ends(n0, n1, a, b) /\ Gone(n0, n1, c) /\ h.id = c.id
    BY <2>1 DEF Part, Turned
  <2>3. CASE y # b
    BY <1>2, <2>1, <2>2, <2>3, HalvesMeet DEF N
  <2>4. CASE y = b /\ EdgOn(M, a, b)
    BY <1>2, <2>2, <2>4, EdgHalves DEF N
  <2>5. CASE y = b /\ ~ EdgOn(M, a, b)
    <3>1. PICK u \in TriIn(M) : To(u, b, a) /\ u.id = c.id
      BY <1>0, <2>1, <2>5 DEF Sealed, Meets
    <3> QED
      BY <1>2, <2>2, <2>5, <3>1, HalfAcross DEF N
  <2> QED
    BY <2>3, <2>4, <2>5
<1>3. CASE y = new
  <2>1. PICK c, a, b : c \in TriIn(M) /\ Part(n0, n1, new, c, a, b, h) /\ To(c, x, a)
    BY <1>3, NewArrow DEF N
  <2>2. Ends(n0, n1, a, b) /\ Gone(n0, n1, c) /\ h.id = c.id
    BY <2>1 DEF Part, Turned
  <2>3. CASE x # b
    BY <1>3, <2>1, <2>2, <2>3, HalvesMeet DEF N
  <2>4. CASE x = b /\ EdgOn(M, b, a)
    <3>1. EdgOn(M, a, b)
      BY <2>4 DEF EdgOn
    <3>2. EdgOn(N, new, b)
      BY <2>2, <3>1, EdgHalves DEF N
    <3> QED
      BY <1>3, <2>4, <3>2 DEF EdgOn
  <2>5. CASE x = b /\ ~ EdgOn(M, b, a)
    <3>1. PICK u \in TriIn(M) : To(u, a, b) /\ u.id = c.id
      BY <1>0, <2>1, <2>5 DEF Sealed, Meets
    <3> QED
      BY <1>3, <2>2, <2>5, <3>1, HalfAcross DEF N
  <2> QED
    BY <2>3, <2>4, <2>5
<1> QED
  BY <1>1, <1>2, <1>3

(* An edg after the split. *)
LEMMA HalvedEdgOn ==
  ASSUME NEW M, NEW n0, NEW n1, NEW new, Splittable(M, n0, n1, new),
         NEW h \in EdgIn(Halved(M, n0, n1, new)), NEW x, NEW y, NodesOf(h) = {x, y}
  PROVE  /\ x # new /\ y # new => EdgOn(M, x, y) /\ ~ Ends(n0, n1, x, y)
         /\ x = new => \E a : Ends(n0, n1, a, y) /\ EdgOn(M, a, y)
         /\ y = new => \E a : Ends(n0, n1, a, x) /\ EdgOn(M, a, x)
<1>0. AllFormed(M) /\ n0 # n1 /\ \A c \in M : new \notin NodesOf(c)
  BY DEF Splittable, Sound, Verts
<1>1. CASE h \in EdgIn(M) /\ ~ Gone(n0, n1, h)
  <2>1. x # new /\ y # new
    BY <1>0, <1>1 DEF EdgIn
  <2> QED
    BY <1>1, <2>1 DEF EdgOn, Ends, Gone
<1>2. CASE \E c \in EdgIn(M) : \E a, b : Part(n0, n1, new, c, a, b, h)
  <2>1. PICK c, a, b : c \in EdgIn(M) /\ Part(n0, n1, new, c, a, b, h)
    BY <1>2
  <2>2. PICK v, w : v # w /\ NodesOf(c) = {v, w}
    BY <1>0, <2>1, MeshEnds
  <2>3. /\ NodesOf(h) = (NodesOf(c) \ {a}) \cup {new}
        /\ a # b /\ a \in NodesOf(c) /\ b \in NodesOf(c)
    BY <1>0, <2>1, PartNodes
  <2>4. NodesOf(c) = {a, b} /\ NodesOf(h) = {b, new} /\ b # new
    BY <1>0, <2>1, <2>2, <2>3 DEF EdgIn
  <2>5. EdgOn(M, a, b) /\ Ends(n0, n1, a, b)
    BY <2>1, <2>4 DEF EdgOn, Part
  <2>6. (x = new /\ y = b) \/ (x = b /\ y = new)
    BY <2>4
  <2> QED
    BY <2>4, <2>5, <2>6
<1> QED
  BY <1>1, <1>2, HalvedEdg

(* After a split an edg lies between different surfaces, or at the border. *)
LEMMA HalvedBordered ==
  ASSUME NEW M, NEW n0, NEW n1, NEW new, Splittable(M, n0, n1, new)
  PROVE  Bordered(Halved(M, n0, n1, new))
<1> DEFINE N == Halved(M, n0, n1, new)
<1> SUFFICES ASSUME NEW g \in EdgIn(N), NEW h \in TriIn(N), NEW k \in TriIn(N), NEW x, NEW y,
                    NodesOf(g) = {x, y}, To(h, x, y), To(k, y, x)
             PROVE  h.id # k.id
  BY DEF Bordered
<1> HIDE DEF N
<1>0. AllFormed(M) /\ Bordered(M) /\ n0 # n1
  BY DEF Splittable, Sound
<1>1. CASE x # new /\ y # new
  <2>1. EdgOn(M, x, y)
    BY <1>1, HalvedEdgOn DEF N
  <2>2. PICK c \in TriIn(M) : To(c, x, y) /\ h.id = c.id
    BY <1>1, OldArrow DEF N
  <2>3. PICK d \in TriIn(M) : To(d, y, x) /\ k.id = d.id
    BY <1>1, OldArrow DEF N
  <2> QED
    BY <1>0, <2>1, <2>2, <2>3 DEF Bordered, EdgOn
<1>2. ASSUME NEW b, NEW i \in TriIn(N), NEW j \in TriIn(N), To(i, new, b), To(j, b, new),
             \E a : Ends(n0, n1, a, b) /\ EdgOn(M, a, b)
      PROVE  i.id # j.id
  <2>1. PICK a : Ends(n0, n1, a, b) /\ EdgOn(M, a, b)
    BY <1>2
  <2>2. PICK c, p, q : c \in TriIn(M) /\ Part(n0, n1, new, c, p, q, i) /\ To(c, p, b) /\ b # p
    BY <1>2, NewArrow DEF N
  <2>3. PICK d, r, s : d \in TriIn(M) /\ Part(n0, n1, new, d, r, s, j) /\ To(d, b, r) /\ b # r
    BY <1>2, NewArrow DEF N
  <2>4. p = a /\ r = a
    BY <2>1, <2>2, <2>3 DEF Part, Ends
  <2>5. c.id # d.id
    BY <1>0, <2>1, <2>2, <2>3, <2>4 DEF Bordered, EdgOn
  <2> QED
    BY <2>2, <2>3, <2>5 DEF Part, Turned
<1>3. CASE x = new
  BY <1>2, <1>3, HalvedEdgOn DEF N
<1>4. CASE y = new
  <2>1. \E a : Ends(n0, n1, a, x) /\ EdgOn(M, a, x)
    BY <1>4, HalvedEdgOn DEF N
  <2>2. k.id # h.id
    BY <1>2, <1>4, <2>1
  <2> QED
    BY <2>2
<1> QED
  BY <1>1, <1>3, <1>4

(* Nodes next to each other stay so, and the new one is next to the ends. *)
LEMMA NearStays ==
  ASSUME NEW M, NEW n0, NEW n1, NEW new, Splittable(M, n0, n1, new), NEW a, NEW b, a # b,
         Near(M, a, b)
  PROVE  /\ ~ Ends(n0, n1, a, b) => Near(Halved(M, n0, n1, new), a, b)
         /\ Ends(n0, n1, a, b) => Near(Halved(M, n0, n1, new), new, b)
<1> DEFINE N == Halved(M, n0, n1, new)
<1>0. AllFormed(M) /\ n0 # n1
  BY DEF Splittable, Sound
<1>1. PICK t \in TriIn(M) : a \in NodesOf(t) /\ b \in NodesOf(t)
  BY DEF Near
<1>2. ASSUME ~ Ends(n0, n1, a, b) PROVE Near(N, a, b)
  <2>1. ~ Ends(n0, n1, b, a) /\ (To(t, a, b) \/ To(t, b, a))
    BY <1>0, <1>1, <1>2, MeshSides DEF Ends
  <2>2. PICK h \in TriIn(N) : To(h, a, b) \/ To(h, b, a)
    BY <1>2, <2>1, ArrowStays
  <2>3. AllFormed(N)
    BY HalvedFormed
  <2> HIDE DEF N
  <2>4. a \in NodesOf(h) /\ b \in NodesOf(h)
    BY <2>2, <2>3, MeshSides
  <2> QED
    BY <2>4 DEF Near
<1>3. ASSUME Ends(n0, n1, a, b) PROVE Near(N, new, b)
  <2>1. Gone(n0, n1, t)
    BY <1>1, <1>3 DEF Gone, Ends
  <2>2. PICK h \in TriIn(N) : Part(n0, n1, new, t, a, b, h)
    BY <1>3, <2>1, HalvedTri
  <2>3. new \in NodesOf(h) /\ b \in NodesOf(h)
    BY <1>0, <2>2, PartNodes
  <2> QED
    BY <2>3 DEF Near
<1> QED
  BY <1>2, <1>3

(* After a split every edg is the side of a tri. *)
LEMMA HalvedOnSide ==
  ASSUME NEW M, NEW n0, NEW n1, NEW new, Splittable(M, n0, n1, new)
  PROVE  OnSide(Halved(M, n0, n1, new))
<1> DEFINE N == Halved(M, n0, n1, new)
<1> SUFFICES ASSUME NEW h \in EdgIn(N)
             PROVE  \E t \in TriIn(N) : NodesOf(h) \subseteq NodesOf(t)
  BY DEF OnSide
<1>0. Sound(M) /\ AllFormed(N) /\ n0 # n1
  BY HalvedFormed DEF Splittable
<1>1. PICK x, y : x # y /\ NodesOf(h) = {x, y}
  BY <1>0, MeshEnds
<1>2. Near(N, x, y)
  <2>1. CASE x # new /\ y # new
    <3>1. EdgOn(M, x, y) /\ ~ Ends(n0, n1, x, y)
      BY <1>1, <2>1, HalvedEdgOn
    <3>2. Near(M, x, y)
      BY <1>0, <3>1, EdgNear
    <3> QED
      BY <1>1, <3>1, <3>2, NearStays
  <2>2. ASSUME NEW b, \E a : Ends(n0, n1, a, b) /\ EdgOn(M, a, b) PROVE Near(N, new, b)
    <3>1. PICK a : Ends(n0, n1, a, b) /\ EdgOn(M, a, b)
      BY <2>2
    <3>2. Near(M, a, b) /\ a # b
      BY <1>0, <3>1, EdgNear DEF Ends
    <3> QED
      BY <3>1, <3>2, NearStays
  <2>3. CASE x = new
    BY <1>1, <2>2, <2>3, HalvedEdgOn
  <2>4. CASE y = new
    <3>1. Near(N, new, x)
      BY <1>1, <2>2, <2>4, HalvedEdgOn
    <3> QED
      BY <2>4, <3>1 DEF Near
  <2> QED
    BY <2>1, <2>3, <2>4
<1> QED
  BY <1>1, <1>2 DEF Near

(* A split adds the new node and loses none. *)
LEMMA HalvedVerts ==
  ASSUME NEW M, NEW n0, NEW n1, NEW new, Splittable(M, n0, n1, new)
  PROVE  Verts(Halved(M, n0, n1, new)) = Verts(M) \cup {new}
<1> DEFINE N == Halved(M, n0, n1, new)
<1>0. AllFormed(M) /\ n0 # n1
  BY DEF Splittable, Sound
<1>1. ASSUME NEW x \in Verts(N) PROVE x \in Verts(M) \cup {new}
  <2>1. PICK h \in N : x \in NodesOf(h)
    BY DEF Verts
  <2>2. CASE h \in M
    BY <2>1, <2>2 DEF Verts
  <2>3. CASE \E c \in M : \E a, b : Part(n0, n1, new, c, a, b, h)
    BY <1>0, <2>1, <2>3, PartNodes DEF Verts
  <2> QED
    BY <2>2, <2>3, HalvedCells
<1>2. ASSUME NEW x \in Verts(M) PROVE x \in Verts(N)
  <2>1. PICK c \in M : x \in NodesOf(c)
    BY DEF Verts
  <2>2. CASE ~ Gone(n0, n1, c)
    BY <2>1, <2>2, HalvedCells DEF Verts
  <2>3. CASE Gone(n0, n1, c)
    <3>1. PICK a, b : Ends(n0, n1, a, b) /\ x # a
      <4>1. Ends(n0, n1, n0, n1) /\ Ends(n0, n1, n1, n0)
        BY DEF Ends
      <4> QED
        BY <1>0, <4>1
    <3>2. PICK h \in N : Part(n0, n1, new, c, a, b, h)
      BY <2>3, <3>1, HalvedCells
    <3>3. x \in NodesOf(h)
      BY <1>0, <2>1, <3>1, <3>2, PartNodes
    <3> QED
      BY <3>3 DEF Verts
  <2> QED
    BY <2>2, <2>3
<1>3. new \in Verts(N)
  <2>1. PICK t \in TriIn(M) : n0 \in NodesOf(t) /\ n1 \in NodesOf(t)
    BY DEF Splittable, Near
  <2>2. Gone(n0, n1, t) /\ Ends(n0, n1, n0, n1) /\ t \in M
    BY <2>1 DEF Gone, Ends, TriIn
  <2>3. PICK h \in N : Part(n0, n1, new, t, n0, n1, h)
    BY <2>2, HalvedCells
  <2>4. new \in NodesOf(h)
    BY <1>0, <2>3, PartNodes
  <2> QED
    BY <2>4 DEF Verts
<1> QED
  BY <1>1, <1>2, <1>3

(* A split keeps a mesh sound. *)
LEMMA HalvedSound ==
  ASSUME NEW M, NEW n0, NEW n1, NEW new, Splittable(M, n0, n1, new)
  PROVE  Sound(Halved(M, n0, n1, new))
  BY HalvedFormed, HalvedSingle, HalvedOneWay, HalvedOnSide, HalvedSealed, HalvedBordered
     DEF Sound

-----------------------------------------------------------------------------
(* Swap *)

(* Exchanging the tri t and u on the edge for a and b. *)
Turn(M, t, u, a, b) == (M \ {t, u}) \cup {a, b}

(* The tri t and u on the edge n0 - n1 may be exchanged for a and b on n2 - n3. *)
Swappable(M, n0, n1, n2, n3, t, u, a, b) ==
  /\ Sound(M) /\ t \in TriIn(M) /\ u \in TriIn(M)
  /\ Circles(t, n0, n1, n2) /\ Circles(u, n1, n0, n3)
  /\ Circles(a, n0, n3, n2) /\ Circles(b, n1, n2, n3)
  /\ t.id = u.id /\ a.id = t.id /\ b.id = t.id
  /\ ~ EdgOn(M, n0, n1) /\ ~ Near(M, n2, n3)

(* The sides that stay. *)
Outer(n0, n1, n2, n3, x, y) ==
  \/ x = n1 /\ y = n2
  \/ x = n2 /\ y = n0
  \/ x = n0 /\ y = n3
  \/ x = n3 /\ y = n1

(* The directions in which the four tri of a swap run. *)
LEMMA SwapArrows ==
  ASSUME NEW M, NEW n0, NEW n1, NEW n2, NEW n3, NEW t, NEW u, NEW a, NEW b,
         Swappable(M, n0, n1, n2, n3, t, u, a, b)
  PROVE  /\ n0 # n1 /\ n0 # n2 /\ n0 # n3 /\ n1 # n2 /\ n1 # n3 /\ n2 # n3
         /\ \A x, y : To(t, x, y) <=> \/ x = n0 /\ y = n1
                                      \/ x = n1 /\ y = n2
                                      \/ x = n2 /\ y = n0
         /\ \A x, y : To(u, x, y) <=> \/ x = n1 /\ y = n0
                                      \/ x = n0 /\ y = n3
                                      \/ x = n3 /\ y = n1
         /\ \A x, y : To(a, x, y) <=> \/ x = n0 /\ y = n3
                                      \/ x = n3 /\ y = n2
                                      \/ x = n2 /\ y = n0
         /\ \A x, y : To(b, x, y) <=> \/ x = n1 /\ y = n2
                                      \/ x = n2 /\ y = n3
                                      \/ x = n3 /\ y = n1
<1>1. n0 # n1 /\ n0 # n2 /\ n0 # n3 /\ n1 # n2 /\ n1 # n3
  BY DEF Swappable, Circles
<1>2. n2 # n3
  BY DEF Swappable, Circles, Near
<1>3. /\ Arrows(t) = {<<n0, n1>>, <<n1, n2>>, <<n2, n0>>}
      /\ Arrows(u) = {<<n1, n0>>, <<n0, n3>>, <<n3, n1>>}
      /\ Arrows(a) = {<<n0, n3>>, <<n3, n2>>, <<n2, n0>>}
      /\ Arrows(b) = {<<n1, n2>>, <<n2, n3>>, <<n3, n1>>}
  BY DEF Swappable, Circles
<1>4. \A p, q, v, w : <<p, q>> = <<v, w>> <=> p = v /\ q = w
  OBVIOUS
<1> QED
  BY <1>1, <1>2, <1>3, <1>4 DEF To

(* The cells of the mesh after a swap. *)
LEMMA SwapCellsOf ==
  ASSUME NEW M, NEW n0, NEW n1, NEW n2, NEW n3, NEW t, NEW u, NEW a, NEW b,
         Swappable(M, n0, n1, n2, n3, t, u, a, b)
  PROVE  /\ EdgIn(Turn(M, t, u, a, b)) = EdgIn(M)
         /\ TriIn(Turn(M, t, u, a, b)) = (TriIn(M) \ {t, u}) \cup {a, b}
         /\ a \notin M /\ b \notin M /\ t # u /\ a # b
         /\ NodesOf(t) = {n0, n1, n2} /\ NodesOf(u) = {n1, n0, n3}
         /\ NodesOf(a) = {n0, n3, n2} /\ NodesOf(b) = {n1, n2, n3}
         /\ Formed(a) /\ Formed(b) /\ AllFormed(M)
<1>1. a.kind = "tri" /\ b.kind = "tri" /\ t.kind = "tri" /\ u.kind = "tri"
  BY DEF Swappable, Circles
<1>2. /\ NodesOf(t) = {n0, n1, n2} /\ NodesOf(u) = {n1, n0, n3}
      /\ NodesOf(a) = {n0, n3, n2} /\ NodesOf(b) = {n1, n2, n3}
      /\ Formed(a) /\ Formed(b) /\ AllFormed(M)
  BY DEF Swappable, Circles, Sound
<1>3. a \notin M /\ b \notin M
  BY <1>1, <1>2 DEF Swappable, Near, TriIn
<1>4. t # u /\ a # b
  <2>1. n0 # n1 /\ n0 # n2 /\ n0 # n3 /\ n1 # n2 /\ n1 # n3 /\ n2 # n3
    BY SwapArrows
  <2> QED
    BY <1>2, <2>1
<1>5. EdgIn(Turn(M, t, u, a, b)) = EdgIn(M)
  BY <1>1 DEF EdgIn, Turn
<1>6. TriIn(Turn(M, t, u, a, b)) = (TriIn(M) \ {t, u}) \cup {a, b}
  BY <1>1 DEF TriIn, Turn
<1> QED
  BY <1>2, <1>3, <1>4, <1>5, <1>6

(* An arrow after the swap: it is the new one, or it was there before in a  *)
(* tri of the same face.                                                    *)
LEMMA SwapBack ==
  ASSUME NEW M, NEW n0, NEW n1, NEW n2, NEW n3, NEW t, NEW u, NEW a, NEW b,
         Swappable(M, n0, n1, n2, n3, t, u, a, b),
         NEW h \in TriIn(Turn(M, t, u, a, b)), NEW x, NEW y, To(h, x, y)
  PROVE  \/ (x = n2 /\ y = n3 /\ h = b) \/ (x = n3 /\ y = n2 /\ h = a)
         \/ \E c \in TriIn(M) : /\ To(c, x, y) /\ c.id = h.id
                                /\ \/ h = c /\ c # t /\ c # u
                                   \/ /\ (h = a \/ h = b) /\ (c = t \/ c = u)
                                      /\ Outer(n0, n1, n2, n3, x, y)
<1>1. t \in TriIn(M) /\ u \in TriIn(M) /\ a.id = t.id /\ b.id = t.id /\ u.id = t.id
  BY DEF Swappable
<1>2. CASE h \in TriIn(M) /\ h # t /\ h # u
  BY <1>2
<1>3. CASE h = a
  BY <1>1, <1>3, SwapArrows DEF Outer
<1>4. CASE h = b
  BY <1>1, <1>4, SwapArrows DEF Outer
<1> QED
  BY <1>2, <1>3, <1>4, SwapCellsOf

(* An outer side after the swap. *)
LEMMA SwapOuter ==
  ASSUME NEW M, NEW n0, NEW n1, NEW n2, NEW n3, NEW t, NEW u, NEW a, NEW b,
         Swappable(M, n0, n1, n2, n3, t, u, a, b), NEW x, NEW y, Outer(n0, n1, n2, n3, x, y)
  PROVE  /\ To(a, x, y) \/ To(b, x, y)
         /\ To(t, x, y) \/ To(u, x, y)
         /\ ~ To(t, y, x) /\ ~ To(u, y, x)
  BY SwapArrows DEF Outer

(* A swap keeps the mesh sound, and its nodes. *)
LEMMA SwapSound ==
  ASSUME NEW M, NEW n0, NEW n1, NEW n2, NEW n3, NEW t, NEW u, NEW a, NEW b,
         Swappable(M, n0, n1, n2, n3, t, u, a, b)
  PROVE  Sound(Turn(M, t, u, a, b)) /\ Verts(Turn(M, t, u, a, b)) = Verts(M)
<1> DEFINE N == Turn(M, t, u, a, b)
<1>0. /\ AllFormed(M) /\ Single(M) /\ OneWay(M) /\ OnSide(M) /\ Sealed(M) /\ Bordered(M)
      /\ Sound(M)
  BY DEF Swappable, Sound
<1>1. /\ EdgIn(N) = EdgIn(M) /\ TriIn(N) = (TriIn(M) \ {t, u}) \cup {a, b}
      /\ a \notin M /\ b \notin M /\ t # u /\ a # b
      /\ NodesOf(t) = {n0, n1, n2} /\ NodesOf(u) = {n1, n0, n3}
      /\ NodesOf(a) = {n0, n3, n2} /\ NodesOf(b) = {n1, n2, n3}
      /\ Formed(a) /\ Formed(b)
  BY SwapCellsOf
<1>2. /\ n0 # n1 /\ n0 # n2 /\ n0 # n3 /\ n1 # n2 /\ n1 # n3 /\ n2 # n3
      /\ ~ EdgOn(M, n0, n1) /\ ~ Near(M, n2, n3)
      /\ t.id = u.id /\ a.id = t.id /\ b.id = t.id /\ t \in TriIn(M) /\ u \in TriIn(M)
  BY SwapArrows DEF Swappable
<1>3. N = (M \ {t, u}) \cup {a, b} /\ a.kind = "tri" /\ b.kind = "tri"
  BY DEF Turn, Swappable, Circles
<1>4. \A x, y : EdgOn(M, x, y) => ~ (x = n2 /\ y = n3) /\ ~ (x = n3 /\ y = n2)
  <2>1. ASSUME EdgOn(M, n3, n2) \/ EdgOn(M, n2, n3) PROVE Near(M, n2, n3)
    BY <1>0, <2>1, EdgNear DEF Near
  <2> QED
    BY <1>2, <2>1
<1>5. \A c \in TriIn(M) : ~ To(c, n2, n3) /\ ~ To(c, n3, n2)
  BY <1>0, <1>2, MeshSides DEF Near
<1>6. \A x, y : EdgOn(N, x, y) <=> EdgOn(M, x, y)
  BY <1>1 DEF EdgOn
<1> HIDE DEF N
<1>7. AllFormed(N)
  BY <1>0, <1>1, <1>3 DEF AllFormed
<1>8. Single(N)
  <2>1. \A c \in M : c.kind = "tri" => NodesOf(c) # NodesOf(a) /\ NodesOf(c) # NodesOf(b)
    BY <1>1, <1>2 DEF Near, TriIn
  <2>2. NodesOf(a) # NodesOf(b)
    BY <1>1, <1>2
  <2> QED
    BY <1>0, <1>3, <2>1, <2>2 DEF Single
<1>9. OneWay(N)
  <2> SUFFICES ASSUME NEW h \in TriIn(N), NEW k \in TriIn(N), NEW x, NEW y,
                      To(h, x, y), To(k, x, y)
               PROVE  h = k
    BY DEF OneWay
  <2>1. CASE h \in TriIn(M) /\ k \in TriIn(M)
    BY <1>0, <2>1 DEF OneWay
  <2>2. ASSUME NEW c \in TriIn(M), c # t, c # u, To(c, x, y), To(a, x, y) \/ To(b, x, y)
        PROVE  FALSE
    <3>1. Outer(n0, n1, n2, n3, x, y)
      BY <1>5, <2>2, SwapArrows DEF Outer
    <3>2. To(t, x, y) \/ To(u, x, y)
      BY <3>1, SwapOuter
    <3> QED
      BY <1>0, <1>2, <2>2, <3>2 DEF OneWay
  <2>3. ~ (To(a, x, y) /\ To(b, x, y))
    BY SwapArrows
  <2> QED
    BY <1>1, <2>1, <2>2, <2>3
<1>10. OnSide(N)
  <2> SUFFICES ASSUME NEW e \in EdgIn(M)
               PROVE  \E v \in TriIn(N) : NodesOf(e) \subseteq NodesOf(v)
    BY <1>1 DEF OnSide
  <2>1. PICK v \in TriIn(M) : NodesOf(e) \subseteq NodesOf(v)
    BY <1>0 DEF OnSide
  <2>2. PICK x, y : x # y /\ NodesOf(e) = {x, y}
    BY <1>0, MeshEnds
  <2>3. ~ (n0 \in NodesOf(e) /\ n1 \in NodesOf(e))
    BY <1>2, <2>2 DEF EdgOn
  <2>4. CASE v = t \/ v = u
    BY <1>1, <2>1, <2>3, <2>4
  <2>5. CASE v # t /\ v # u
    BY <1>1, <2>1, <2>5
  <2> QED
    BY <2>4, <2>5
<1>11. Sealed(N)
  <2> SUFFICES ASSUME NEW h \in TriIn(N), NEW x, NEW y, To(h, x, y), ~ EdgOn(M, x, y)
               PROVE  \E v \in TriIn(N) : To(v, y, x) /\ v.id = h.id
    BY <1>6 DEF Sealed, Meets
  <2>1. CASE x = n2 /\ y = n3 /\ h = b
    BY <1>1, <1>2, <2>1, SwapArrows
  <2>2. CASE x = n3 /\ y = n2 /\ h = a
    BY <1>1, <1>2, <2>2, SwapArrows
  <2>3. CASE \E c \in TriIn(M) : /\ To(c, x, y) /\ c.id = h.id
                                /\ \/ h = c /\ c # t /\ c # u
                                   \/ /\ (h = a \/ h = b) /\ (c = t \/ c = u)
                                      /\ Outer(n0, n1, n2, n3, x, y)
    <3>1. PICK c \in TriIn(M) : /\ To(c, x, y) /\ c.id = h.id
                                /\ \/ h = c /\ c # t /\ c # u
                                   \/ /\ (h = a \/ h = b) /\ (c = t \/ c = u)
                                      /\ Outer(n0, n1, n2, n3, x, y)
      BY <2>3
    <3>2. PICK v \in TriIn(M) : To(v, y, x) /\ v.id = c.id
      BY <1>0, <3>1 DEF Sealed, Meets
    <3>3. CASE v # t /\ v # u
      BY <1>1, <3>1, <3>2, <3>3
    <3>4. CASE v = t \/ v = u
      <4>1. h = c /\ c # t /\ c # u
        BY <3>1, <3>2, <3>4, SwapOuter
      <4>2. ~ (x = n0 /\ y = n1) /\ ~ (x = n1 /\ y = n0)
        <5>1. To(t, n0, n1) /\ To(u, n1, n0)
          BY SwapArrows
        <5> QED
          BY <1>0, <1>2, <3>1, <4>1, <5>1 DEF OneWay
      <4>3. Outer(n0, n1, n2, n3, y, x)
        BY <3>2, <3>4, <4>2, SwapArrows DEF Outer
      <4>4. To(a, y, x) \/ To(b, y, x)
        BY <4>3, SwapOuter
      <4>5. v.id = t.id
        BY <1>2, <3>4
      <4> QED
        BY <1>1, <1>2, <3>1, <3>2, <4>4, <4>5
    <3> QED
      BY <3>3, <3>4
  <2> QED
    BY <2>1, <2>2, <2>3, SwapBack DEF N
<1>12. Bordered(N)
  <2> SUFFICES ASSUME NEW e \in EdgIn(M), NEW h \in TriIn(N), NEW k \in TriIn(N), NEW x, NEW y,
                      NodesOf(e) = {x, y}, To(h, x, y), To(k, y, x)
               PROVE  h.id # k.id
    BY <1>1 DEF Bordered
  <2>0. EdgOn(M, x, y)
    BY DEF EdgOn
  <2>1. ~ (x = n2 /\ y = n3) /\ ~ (x = n3 /\ y = n2)
    BY <1>4, <2>0
  <2>2. PICK c \in TriIn(M) : To(c, x, y) /\ c.id = h.id
    <3>1. h \in TriIn(Turn(M, t, u, a, b))
      BY DEF N
    <3> QED
      BY <2>1, <3>1, SwapBack
  <2>3. PICK d \in TriIn(M) : To(d, y, x) /\ d.id = k.id
    <3>1. k \in TriIn(Turn(M, t, u, a, b))
      BY DEF N
    <3> QED
      BY <2>1, <3>1, SwapBack
  <2> QED
    BY <1>0, <2>2, <2>3 DEF Bordered
<1>13. Verts(N) = Verts(M)
  <2>1. \A x \in {n0, n1, n2, n3} : x \in Verts(M) /\ x \in Verts(N)
    <3>1. a \in N /\ b \in N /\ t \in M /\ u \in M
      BY <1>2, <1>3 DEF TriIn
    <3> QED
      BY <1>1, <3>1 DEF Verts
  <2>2. ASSUME NEW x \in Verts(M) PROVE x \in Verts(N)
    <3>1. PICK c \in M : x \in NodesOf(c)
      BY DEF Verts
    <3> QED
      BY <1>1, <1>3, <2>1, <3>1 DEF Verts
  <2>3. ASSUME NEW x \in Verts(N) PROVE x \in Verts(M)
    <3>1. PICK c \in N : x \in NodesOf(c)
      BY DEF Verts
    <3> QED
      BY <1>1, <1>3, <2>1, <3>1 DEF Verts
  <2> QED
    BY <2>2, <2>3
<1> QED
  BY <1>7, <1>8, <1>9, <1>10, <1>11, <1>12, <1>13 DEF Sound, N

-----------------------------------------------------------------------------
(* Counting nodes, sides and tri *)

(* As many images as elements, when no two have the same. *)
LEMMA CardImage ==
  ASSUME NEW S, IsFiniteSet(S), NEW T, NEW f \in [S -> T],
         \A x, y \in S : f[x] = f[y] => x = y, \A z \in T : \E x \in S : f[x] = z
  PROVE  IsFiniteSet(T) /\ Cardinality(T) = Cardinality(S)
<1>1. f \in Injection(S, T)
  BY DEF Injection, IsInjective
<1>2. f \in Surjection(S, T)
  BY DEF Surjection
<1>3. ExistsBijection(S, T)
  BY <1>1, <1>2 DEF ExistsBijection, Bijection
<1> QED
  BY <1>3, FS_Bijection

(* Two sets without a common element. *)
LEMMA CardUnion ==
  ASSUME NEW S, IsFiniteSet(S), NEW T, IsFiniteSet(T), S \cap T = {}
  PROVE  IsFiniteSet(S \cup T) /\ Cardinality(S \cup T) = Cardinality(S) + Cardinality(T)
<1>1. Cardinality(S \cap T) = 0
  BY FS_EmptySet
<1>2. Cardinality(S) \in Nat /\ Cardinality(T) \in Nat
  BY FS_CardinalityType
<1>3. /\ IsFiniteSet(S \cup T)
      /\ Cardinality(S \cup T) = Cardinality(S) + Cardinality(T) - Cardinality(S \cap T)
  BY FS_Union
<1> QED
  BY <1>1, <1>2, <1>3

(* The sides of the tri of a mesh. *)
SidesOf(M) == {s \in SUBSET Verts(M) : \E x, y : x # y /\ s = {x, y} /\ Near(M, x, y)}

(* What a side is. *)
LEMMA IsSide ==
  ASSUME NEW M, NEW x, NEW y, x # y
  PROVE  {x, y} \in SidesOf(M) <=> Near(M, x, y)
<1>1. ASSUME Near(M, x, y) PROVE {x, y} \in SidesOf(M)
  <2>1. x \in Verts(M) /\ y \in Verts(M)
    BY <1>1 DEF Near, Verts, TriIn
  <2> QED
    BY <1>1, <2>1 DEF SidesOf
<1>2. ASSUME {x, y} \in SidesOf(M) PROVE Near(M, x, y)
  <2>1. PICK p, q : p # q /\ {x, y} = {p, q} /\ Near(M, p, q)
    BY <1>2 DEF SidesOf
  <2>2. (p = x /\ q = y) \/ (p = y /\ q = x)
    BY <2>1
  <2> QED
    BY <2>1, <2>2 DEF Near
<1> QED
  BY <1>1, <1>2

(* A side has two ends. *)
LEMMA SideEnds ==
  ASSUME NEW M, NEW s \in SidesOf(M)
  PROVE  \E x, y : x # y /\ s = {x, y} /\ Near(M, x, y)
  BY DEF SidesOf

(* Everything is finite. *)
LEMMA MeshFinite ==
  ASSUME NEW M, Single(M), IsFiniteSet(Verts(M))
  PROVE  IsFiniteSet(SidesOf(M)) /\ IsFiniteSet(TriIn(M)) /\ IsFiniteSet(EdgIn(M))
<1>1. IsFiniteSet(SUBSET Verts(M))
  BY FS_SUBSET
<1>2. IsFiniteSet(SidesOf(M))
  <2>1. SidesOf(M) \in SUBSET (SUBSET Verts(M))
    BY DEF SidesOf
  <2> QED
    BY <1>1, <2>1, FS_Subset
<1>3. ASSUME NEW S \in SUBSET M, \A c, d \in S : c.kind = d.kind
      PROVE  IsFiniteSet(S)
  <2> DEFINE f == [c \in S |-> NodesOf(c)]
  <2>1. f \in [S -> SUBSET Verts(M)]
    BY DEF Verts
  <2>2. \A c, d \in S : f[c] = f[d] => c = d
    BY <1>3 DEF Single
  <2>3. f \in Injection(S, SUBSET Verts(M))
    BY <2>1, <2>2 DEF Injection, IsInjective
  <2> HIDE DEF f
  <2> QED
    BY <1>1, <2>3, FS_Injection
<1>4. TriIn(M) \in SUBSET M /\ \A c, d \in TriIn(M) : c.kind = d.kind
  BY DEF TriIn
<1>5. EdgIn(M) \in SUBSET M /\ \A c, d \in EdgIn(M) : c.kind = d.kind
  BY DEF EdgIn
<1> QED
  BY <1>2, <1>3, <1>4, <1>5

(* The sides that meet in a node. *)
Spokes(n, S) == {{n, y} : y \in S}

(* There are as many sides from n as nodes at their other ends. *)
LEMMA CardSpokes ==
  ASSUME NEW n, NEW S, IsFiniteSet(S), n \notin S
  PROVE  IsFiniteSet(Spokes(n, S)) /\ Cardinality(Spokes(n, S)) = Cardinality(S)
<1> DEFINE f == [y \in S |-> {n, y}]
<1>1. f \in [S -> Spokes(n, S)]
  BY DEF Spokes
<1>2. \A x, y \in S : f[x] = f[y] => x = y
  <2> SUFFICES ASSUME NEW x \in S, NEW y \in S, {n, x} = {n, y} PROVE x = y
    OBVIOUS
  <2>1. x \in {n, y}
    OBVIOUS
  <2> QED
    BY <2>1
<1>3. \A z \in Spokes(n, S) : \E x \in S : f[x] = z
  BY DEF Spokes
<1> HIDE DEF f
<1> QED
  BY <1>1, <1>2, <1>3, CardImage

(* The tri on an edge, and the nodes across it. *)
GemTri(M, n0, n1) == {t \in TriIn(M) : Gone(n0, n1, t)}
Apex(M, n0, n1) == {w \in Verts(M) : /\ w # n0 /\ w # n1
                                     /\ \E t \in TriIn(M) : NodesOf(t) = {n0, n1, w}}

(* A tri on an edge has one node across it. *)
LEMMA GemApex ==
  ASSUME NEW M, Sound(M), NEW n0, NEW n1, n0 # n1, NEW t \in GemTri(M, n0, n1)
  PROVE  \E w \in Apex(M, n0, n1) : NodesOf(t) = {n0, n1, w}
<1>0. AllFormed(M) /\ t \in TriIn(M) /\ n0 \in NodesOf(t) /\ n1 \in NodesOf(t)
  BY DEF Sound, GemTri, Gone
<1>1. PICK x, y, z : x # y /\ x # z /\ y # z /\ NodesOf(t) = {x, y, z}
  BY <1>0, MeshNodes
<1>2. PICK w \in NodesOf(t) : w # n0 /\ w # n1
  BY <1>0, <1>1
<1>3. NodesOf(t) = {n0, n1, w}
  BY <1>0, <1>1, <1>2
<1>4. w \in Verts(M)
  BY <1>0, <1>2 DEF Verts, TriIn
<1> QED
  BY <1>0, <1>2, <1>3, <1>4 DEF Apex

(* An edge has as many nodes across it as tri on it. *)
LEMMA CardApex ==
  ASSUME NEW M, Sound(M), IsFiniteSet(Verts(M)), NEW n0, NEW n1, n0 # n1
  PROVE  /\ IsFiniteSet(GemTri(M, n0, n1)) /\ IsFiniteSet(Apex(M, n0, n1))
         /\ Cardinality(Apex(M, n0, n1)) = Cardinality(GemTri(M, n0, n1))
<1> DEFINE S == GemTri(M, n0, n1)
           T == Apex(M, n0, n1)
           f == [t \in S |-> CHOOSE w \in T : NodesOf(t) = {n0, n1, w}]
<1>1. Single(M)
  BY DEF Sound
<1>2. IsFiniteSet(S)
  <2>1. S \in SUBSET TriIn(M)
    BY DEF GemTri
  <2> QED
    BY <1>1, <2>1, MeshFinite, FS_Subset
<1>3. \A t \in S : f[t] \in T /\ NodesOf(t) = {n0, n1, f[t]}
  BY GemApex
<1>4. f \in [S -> T]
  BY <1>3
<1>5. \A t \in S : t \in M /\ t.kind = "tri"
  BY DEF GemTri, TriIn
<1>6. \A t, u \in S : f[t] = f[u] => t = u
  <2> SUFFICES ASSUME NEW t \in S, NEW u \in S, f[t] = f[u] PROVE t = u
    OBVIOUS
  <2>1. NodesOf(t) = NodesOf(u)
    BY <1>3
  <2> QED
    BY <1>1, <1>5, <2>1 DEF Single
<1>7. \A w \in T : \E t \in S : f[t] = w
  <2> SUFFICES ASSUME NEW w \in T PROVE \E t \in S : f[t] = w
    OBVIOUS
  <2>1. PICK t \in TriIn(M) : NodesOf(t) = {n0, n1, w} /\ w # n0 /\ w # n1
    BY DEF Apex
  <2>2. t \in S
    BY <2>1 DEF GemTri, Gone
  <2>3. f[t] # n0 /\ f[t] # n1 /\ NodesOf(t) = {n0, n1, f[t]}
    <3>1. f[t] \in T
      BY <1>3, <2>2
    <3>2. f[t] # n0 /\ f[t] # n1
      BY <3>1 DEF Apex
    <3> QED
      BY <1>3, <2>2, <3>2
  <2> HIDE DEF f
  <2>4. f[t] = w
    BY <2>1, <2>3
  <2> QED
    BY <2>2, <2>4
<1> HIDE DEF f, S, T
<1>8. IsFiniteSet(T) /\ Cardinality(T) = Cardinality(S)
  BY <1>2, <1>4, <1>6, <1>7, CardImage
<1> QED
  BY <1>2, <1>8 DEF S, T

(* Nodes - sides + tri = 1, as for a disk. *)
Euler(M) == /\ IsFiniteSet(Verts(M))
            /\ Cardinality(Verts(M)) - Cardinality(SidesOf(M)) + Cardinality(TriIn(M)) = 1

(* Which nodes are next to each other after a swap. *)
LEMMA SwapNear ==
  ASSUME NEW M, NEW n0, NEW n1, NEW n2, NEW n3, NEW t, NEW u, NEW a, NEW b,
         Swappable(M, n0, n1, n2, n3, t, u, a, b), NEW x, NEW y, x # y
  PROVE  Near(Turn(M, t, u, a, b), x, y) <=>
           \/ Near(M, x, y) /\ ~ Ends(n0, n1, x, y)
           \/ Ends(n2, n3, x, y)
<1> DEFINE N == Turn(M, t, u, a, b)
<1>0. AllFormed(M) /\ OneWay(M) /\ t \in TriIn(M) /\ u \in TriIn(M) /\ ~ Near(M, n2, n3)
  BY DEF Swappable, Sound
<1>1. /\ TriIn(N) = (TriIn(M) \ {t, u}) \cup {a, b}
      /\ NodesOf(t) = {n0, n1, n2} /\ NodesOf(u) = {n1, n0, n3}
      /\ NodesOf(a) = {n0, n3, n2} /\ NodesOf(b) = {n1, n2, n3}
  BY SwapCellsOf
<1>2. /\ n0 # n1 /\ n0 # n2 /\ n0 # n3 /\ n1 # n2 /\ n1 # n3 /\ n2 # n3
      /\ To(t, n0, n1) /\ To(u, n1, n0)
  BY SwapArrows
<1> HIDE DEF N
<1>3. ASSUME NEW c \in TriIn(M), c # t, c # u, n0 \in NodesOf(c), n1 \in NodesOf(c) PROVE FALSE
  <2>1. To(c, n0, n1) \/ To(c, n1, n0)
    BY <1>0, <1>2, <1>3, MeshSides
  <2> QED
    BY <1>0, <1>2, <1>3, <2>1 DEF OneWay
<1>4. ASSUME Near(N, x, y)
      PROVE  (Near(M, x, y) /\ ~ Ends(n0, n1, x, y)) \/ Ends(n2, n3, x, y)
  <2>1. PICK c \in TriIn(N) : x \in NodesOf(c) /\ y \in NodesOf(c)
    BY <1>4 DEF Near
  <2>2. CASE c \in TriIn(M) /\ c # t /\ c # u
    BY <1>3, <2>1, <2>2 DEF Near, Ends
  <2>3. CASE c = a
    BY <1>0, <1>1, <1>2, <2>1, <2>3 DEF Near, Ends
  <2>4. CASE c = b
    BY <1>0, <1>1, <1>2, <2>1, <2>4 DEF Near, Ends
  <2> QED
    BY <1>1, <2>2, <2>3, <2>4
<1>5. ASSUME Near(M, x, y), ~ Ends(n0, n1, x, y) PROVE Near(N, x, y)
  <2>1. PICK c \in TriIn(M) : x \in NodesOf(c) /\ y \in NodesOf(c)
    BY <1>5 DEF Near
  <2>2. a \in TriIn(N) /\ b \in TriIn(N)
    BY <1>1
  <2>3. CASE c = t
    BY <1>1, <1>5, <2>1, <2>2, <2>3 DEF Near, Ends
  <2>4. CASE c = u
    BY <1>1, <1>5, <2>1, <2>2, <2>4 DEF Near, Ends
  <2>5. CASE c # t /\ c # u
    BY <1>1, <2>1, <2>5 DEF Near
  <2> QED
    BY <2>3, <2>4, <2>5
<1>6. ASSUME Ends(n2, n3, x, y) PROVE Near(N, x, y)
  BY <1>1, <1>6 DEF Near, Ends
<1> QED
  BY <1>4, <1>5, <1>6 DEF N

(* A swap takes one side away and adds one. *)
LEMMA SwapEuler ==
  ASSUME NEW M, NEW n0, NEW n1, NEW n2, NEW n3, NEW t, NEW u, NEW a, NEW b,
         Swappable(M, n0, n1, n2, n3, t, u, a, b), Euler(M)
  PROVE  Euler(Turn(M, t, u, a, b))
<1> DEFINE N == Turn(M, t, u, a, b)
<1>0. Single(M) /\ IsFiniteSet(Verts(M)) /\ t \in TriIn(M) /\ u \in TriIn(M) /\ ~ Near(M, n2, n3)
  BY DEF Swappable, Sound, Euler
<1>1. /\ TriIn(N) = (TriIn(M) \ {t, u}) \cup {a, b} /\ a \notin M /\ b \notin M /\ t # u /\ a # b
      /\ NodesOf(t) = {n0, n1, n2}
  BY SwapCellsOf
<1>2. Verts(N) = Verts(M)
  BY SwapSound
<1>3. n0 # n1 /\ n2 # n3
  BY SwapArrows
<1>4. IsFiniteSet(SidesOf(M)) /\ IsFiniteSet(TriIn(M))
  BY <1>0, MeshFinite
<1>5. SidesOf(N) = (SidesOf(M) \ {{n0, n1}}) \cup {{n2, n3}}
  <2>1. \A x, y : x # y => ({x, y} \in SidesOf(N) <=>
              (Near(M, x, y) /\ ~ Ends(n0, n1, x, y)) \/ Ends(n2, n3, x, y))
    BY SwapNear, IsSide
  <2>2. \A x, y : x # y => ({x, y} \in SidesOf(M) <=> Near(M, x, y))
    BY IsSide
  <2>3. \A x, y, p, q : {x, y} = {p, q} <=> Ends(p, q, x, y) \/ (x = y /\ p = x /\ q = x)
    BY DEF Ends
  <2>4. \A s \in SidesOf(N) : \E x, y : x # y /\ s = {x, y}
    BY DEF SidesOf
  <2>5. \A s \in SidesOf(M) : \E x, y : x # y /\ s = {x, y}
    BY DEF SidesOf
  <2> HIDE DEF N
  <2>6. ASSUME NEW s \in SidesOf(N) PROVE s \in (SidesOf(M) \ {{n0, n1}}) \cup {{n2, n3}}
    <3>1. PICK x, y : x # y /\ s = {x, y}
      BY <2>4
    <3>2. (Near(M, x, y) /\ ~ Ends(n0, n1, x, y)) \/ Ends(n2, n3, x, y)
      BY <2>1, <3>1
    <3>3. CASE Near(M, x, y) /\ ~ Ends(n0, n1, x, y)
      <4>1. s \in SidesOf(M) /\ s # {n0, n1}
        BY <2>2, <2>3, <3>1, <3>3
      <4> QED
        BY <4>1
    <3>4. CASE Ends(n2, n3, x, y)
      BY <2>3, <3>1, <3>4
    <3> QED
      BY <3>2, <3>3, <3>4
  <2>7. ASSUME NEW s \in SidesOf(M), s # {n0, n1} PROVE s \in SidesOf(N)
    <3>1. PICK x, y : x # y /\ s = {x, y}
      BY <2>5
    <3>2. Near(M, x, y) /\ ~ Ends(n0, n1, x, y)
      BY <2>2, <2>3, <2>7, <3>1
    <3> QED
      BY <2>1, <3>1, <3>2
  <2>8. {n2, n3} \in SidesOf(N)
    BY <1>3, <2>1 DEF Ends
  <2> QED
    BY <2>6, <2>7, <2>8
<1>6. {n0, n1} \in SidesOf(M) /\ {n2, n3} \notin SidesOf(M)
  BY <1>0, <1>1, <1>3, IsSide DEF Near
<1> HIDE DEF N
<1>7. IsFiniteSet(SidesOf(N)) /\ Cardinality(SidesOf(N)) = Cardinality(SidesOf(M))
  <2>1. PICK S : S = SidesOf(M) \ {{n0, n1}}
    OBVIOUS
  <2>2. IsFiniteSet(S) /\ Cardinality(S) = Cardinality(SidesOf(M)) - 1
    BY <1>4, <1>6, <2>1, FS_RemoveElement
  <2>0. PICK p : p = {n2, n3}
    OBVIOUS
  <2>3. p \notin S /\ SidesOf(N) = S \cup {p}
    BY <1>5, <1>6, <2>0, <2>1
  <2>4. IsFiniteSet(SidesOf(N)) /\ Cardinality(SidesOf(N)) = Cardinality(S) + 1
    BY <2>2, <2>3, FS_AddElement
  <2>5. Cardinality(SidesOf(M)) \in Nat
    BY <1>4, FS_CardinalityType
  <2> QED
    BY <2>2, <2>4, <2>5
<1>8. IsFiniteSet(TriIn(N)) /\ Cardinality(TriIn(N)) = Cardinality(TriIn(M))
  <2>1. PICK S : S = TriIn(M) \ {t}
    OBVIOUS
  <2>2. PICK T : T = S \ {u}
    OBVIOUS
  <2>3. PICK U : U = T \cup {a}
    OBVIOUS
  <2>4. a \notin TriIn(M) /\ b \notin TriIn(M)
    BY <1>1 DEF TriIn
  <2>5. IsFiniteSet(S) /\ Cardinality(S) = Cardinality(TriIn(M)) - 1 /\ u \in S
    BY <1>0, <1>1, <1>4, <2>1, FS_RemoveElement
  <2>6. IsFiniteSet(T) /\ Cardinality(T) = Cardinality(S) - 1 /\ a \notin T /\ b \notin T
    BY <2>1, <2>2, <2>4, <2>5, FS_RemoveElement
  <2>7. IsFiniteSet(U) /\ Cardinality(U) = Cardinality(T) + 1 /\ b \notin U
    BY <1>1, <2>3, <2>6, FS_AddElement
  <2>8. TriIn(N) = U \cup {b}
    BY <1>1, <2>1, <2>2, <2>3
  <2>9. IsFiniteSet(TriIn(N)) /\ Cardinality(TriIn(N)) = Cardinality(U) + 1
    BY <2>7, <2>8, FS_AddElement
  <2>10. Cardinality(TriIn(M)) \in Nat
    BY <1>4, FS_CardinalityType
  <2> QED
    BY <2>5, <2>6, <2>7, <2>9, <2>10
<1> QED
  BY <1>2, <1>7, <1>8 DEF Euler, N

(* Two pairs of nodes that are the same set. *)
LEMMA SamePair ==
  ASSUME NEW x, NEW y, NEW p, NEW q, x # y
  PROVE  {x, y} = {p, q} <=> Ends(p, q, x, y)
<1>1. ASSUME {x, y} = {p, q} PROVE Ends(p, q, x, y)
  <2>1. x \in {p, q} /\ y \in {p, q}
    BY <1>1
  <2> QED
    BY <2>1 DEF Ends
<1>2. ASSUME Ends(p, q, x, y) PROVE {x, y} = {p, q}
  BY <1>2 DEF Ends
<1> QED
  BY <1>1, <1>2

(* The neighbours of the new node. *)
LEMMA HalvedRim ==
  ASSUME NEW M, NEW n0, NEW n1, NEW new, Splittable(M, n0, n1, new), NEW y, y # new
  PROVE  Near(Halved(M, n0, n1, new), new, y) <=> y \in Apex(M, n0, n1) \cup {n0, n1}
<1> DEFINE N == Halved(M, n0, n1, new)
<1>0. Sound(M) /\ n0 # n1 /\ (\A c \in TriIn(M) : new \notin NodesOf(c)) /\ AllFormed(M)
  BY DEF Splittable, Verts, TriIn, Sound
<1>1. ASSUME Near(N, new, y) PROVE y \in Apex(M, n0, n1) \cup {n0, n1}
  <2>1. PICK h \in TriIn(N) : new \in NodesOf(h) /\ y \in NodesOf(h)
    BY <1>1 DEF Near
  <2>2. PICK c, a, b : c \in TriIn(M) /\ Part(n0, n1, new, c, a, b, h)
    BY <1>0, <2>1, HalvedTri
  <2>3. y \in NodesOf(c) /\ c \in GemTri(M, n0, n1)
    BY <1>0, <2>1, <2>2, PartNodes DEF Part, GemTri
  <2> QED
    BY <1>0, <2>3, GemApex
<1>2. ASSUME NEW t \in GemTri(M, n0, n1), y \in NodesOf(t) PROVE Near(N, new, y)
  <2>1. t \in TriIn(M) /\ Gone(n0, n1, t)
    BY DEF GemTri
  <2>2. PICK a, b : Ends(n0, n1, a, b) /\ y # a
    <3>1. Ends(n0, n1, n0, n1) /\ Ends(n0, n1, n1, n0)
      BY DEF Ends
    <3> QED
      BY <1>0, <3>1
  <2>3. PICK h \in TriIn(N) : Part(n0, n1, new, t, a, b, h)
    BY <2>1, <2>2, HalvedTri
  <2>4. new \in NodesOf(h) /\ y \in NodesOf(h)
    BY <1>0, <1>2, <2>2, <2>3, PartNodes
  <2> QED
    BY <2>4 DEF Near
<1>3. ASSUME y \in Apex(M, n0, n1) \cup {n0, n1} PROVE Near(N, new, y)
  <2>1. PICK t \in TriIn(M) : n0 \in NodesOf(t) /\ n1 \in NodesOf(t)
    BY DEF Splittable, Near
  <2>2. t \in GemTri(M, n0, n1)
    BY <2>1 DEF GemTri, Gone
  <2>3. CASE y \in {n0, n1}
    BY <1>2, <2>1, <2>2, <2>3
  <2>4. CASE y \in Apex(M, n0, n1)
    <3>1. PICK u \in TriIn(M) : NodesOf(u) = {n0, n1, y}
      BY <2>4 DEF Apex
    <3>2. u \in GemTri(M, n0, n1) /\ y \in NodesOf(u)
      BY <3>1 DEF GemTri, Gone
    <3> QED
      BY <1>2, <3>2
  <2> QED
    BY <1>3, <2>3, <2>4
<1> QED
  BY <1>1, <1>3

(* Old nodes next to each other after a split. *)
LEMMA HalvedNear ==
  ASSUME NEW M, NEW n0, NEW n1, NEW new, Splittable(M, n0, n1, new), NEW x, NEW y, x # y,
         x # new, y # new
  PROVE  Near(Halved(M, n0, n1, new), x, y) <=> Near(M, x, y) /\ ~ Ends(n0, n1, x, y)
<1> DEFINE N == Halved(M, n0, n1, new)
<1>1. ASSUME Near(N, x, y) PROVE Near(M, x, y) /\ ~ Ends(n0, n1, x, y)
  <2>0. AllFormed(N) /\ n0 # n1 /\ AllFormed(M)
    BY HalvedFormed DEF Splittable, Sound
  <2>1. PICK h \in TriIn(N) : x \in NodesOf(h) /\ y \in NodesOf(h)
    BY <1>1 DEF Near
  <2>2. PICK v, w : To(h, v, w) /\ ((v = x /\ w = y) \/ (v = y /\ w = x))
    <3> HIDE DEF N
    <3> QED
      BY <2>0, <2>1, MeshSides
  <2>3. PICK c \in TriIn(M) : /\ To(c, v, w)
                              /\ \/ h = c /\ ~ Gone(n0, n1, c)
                                 \/ \E a, b : Part(n0, n1, new, c, a, b, h) /\ v # a /\ w # a
    BY <2>2, OldArrow
  <2>4. v \in NodesOf(c) /\ w \in NodesOf(c)
    BY <2>0, <2>3, MeshSides
  <2>5. ~ Ends(n0, n1, v, w)
    BY <2>0, <2>3, <2>4 DEF Ends, Gone, Part
  <2> QED
    BY <2>2, <2>4, <2>5 DEF Near, Ends
<1> QED
  BY <1>1, NearStays

(* The sides after a split. *)
LEMMA HalvedSides ==
  ASSUME NEW M, NEW n0, NEW n1, NEW new, Splittable(M, n0, n1, new)
  PROVE  SidesOf(Halved(M, n0, n1, new)) =
           (SidesOf(M) \ {{n0, n1}}) \cup Spokes(new, Apex(M, n0, n1) \cup {n0, n1})
<1> DEFINE N == Halved(M, n0, n1, new)
           A == Apex(M, n0, n1) \cup {n0, n1}
<1>0. new \notin Verts(M) /\ n0 # n1
  BY DEF Splittable
<1>1. new \notin A
  <2>1. n0 \in Verts(M) /\ n1 \in Verts(M)
    BY DEF Splittable, Near, Verts, TriIn
  <2> QED
    BY <1>0, <2>1 DEF Apex
<1>2. ASSUME NEW s \in SidesOf(N) PROVE s \in (SidesOf(M) \ {{n0, n1}}) \cup Spokes(new, A)
  <2>1. PICK x, y : x # y /\ s = {x, y} /\ Near(N, x, y)
    BY SideEnds
  <2>2. CASE x # new /\ y # new
    <3>1. Near(M, x, y) /\ ~ Ends(n0, n1, x, y)
      BY <2>1, <2>2, HalvedNear
    <3>2. s \in SidesOf(M) /\ s # {n0, n1}
      BY <2>1, <3>1, IsSide, SamePair
    <3> QED
      BY <3>2
  <2>3. CASE x = new
    <3>1. y \in A
      BY <2>1, <2>3, HalvedRim
    <3> QED
      BY <2>1, <2>3, <3>1 DEF Spokes
  <2>4. CASE y = new
    <3>1. Near(N, new, x)
      BY <2>1, <2>4 DEF Near
    <3>2. x \in A
      BY <2>1, <2>4, <3>1, HalvedRim
    <3>3. s = {new, x}
      BY <2>1, <2>4
    <3> QED
      BY <3>2, <3>3 DEF Spokes
  <2> QED
    BY <2>2, <2>3, <2>4
<1>3. ASSUME NEW s \in SidesOf(M), s # {n0, n1} PROVE s \in SidesOf(N)
  <2>1. PICK x, y : x # y /\ s = {x, y} /\ Near(M, x, y)
    BY SideEnds
  <2>2. x # new /\ y # new
    BY <1>0, <2>1 DEF Near, Verts, TriIn
  <2>3. Near(N, x, y)
    BY <1>3, <2>1, <2>2, HalvedNear, SamePair
  <2> QED
    BY <2>1, <2>3, IsSide
<1>4. ASSUME NEW s \in Spokes(new, A) PROVE s \in SidesOf(N)
  <2>1. PICK y \in A : s = {new, y}
    BY DEF Spokes
  <2>2. y # new
    BY <1>1
  <2>3. Near(N, new, y)
    BY <2>2, HalvedRim
  <2> QED
    BY <2>1, <2>2, <2>3, IsSide
<1> HIDE DEF N, A
<1>5. SidesOf(N) = (SidesOf(M) \ {{n0, n1}}) \cup Spokes(new, A)
  BY <1>2, <1>3, <1>4
<1> QED
  BY <1>5 DEF N, A

(* Twice as many tri on the edge. *)
LEMMA HalvedTriCount ==
  ASSUME NEW M, NEW n0, NEW n1, NEW new, Splittable(M, n0, n1, new), IsFiniteSet(Verts(M))
  PROVE  Cardinality(TriIn(Halved(M, n0, n1, new))) =
           Cardinality(TriIn(M)) + Cardinality(GemTri(M, n0, n1))
<1> DEFINE N == Halved(M, n0, n1, new)
           G == GemTri(M, n0, n1)
           half(a, b) == {h \in TriIn(N) : \E c \in G : Part(n0, n1, new, c, a, b, h)}
<1>0. Single(M) /\ Sound(M) /\ n0 # n1 /\ (\A c \in M : new \notin NodesOf(c))
  BY DEF Splittable, Sound, Verts
<1>1. IsFiniteSet(G) /\ IsFiniteSet(TriIn(M))
  BY <1>0, CardApex, MeshFinite
<1>2. ASSUME NEW a, NEW b, Ends(n0, n1, a, b)
      PROVE  IsFiniteSet(half(a, b)) /\ Cardinality(half(a, b)) = Cardinality(G)
  <2> DEFINE f == [c \in G |-> ref_cell_replace_node(c, a, new)]
  <2>1. ASSUME NEW c \in G
        PROVE  f[c] \in half(a, b) /\ Part(n0, n1, new, c, a, b, f[c])
    <3>1. c \in TriIn(M) /\ Gone(n0, n1, c)
      BY DEF GemTri
    <3>2. PICK h \in TriIn(N) : Part(n0, n1, new, c, a, b, h)
      BY <1>2, <3>1, HalvedTri
    <3>3. h = f[c]
      BY <3>2 DEF Part
    <3> QED
      BY <3>2, <3>3
  <2>2. \A h \in half(a, b) : \E c \in G : f[c] = h
    BY DEF Part
  <2>3. ASSUME NEW c \in G, NEW d \in G, f[c] = f[d] PROVE c = d
    <3>1. PICK h : h = f[c] /\ Part(n0, n1, new, c, a, b, h) /\ Part(n0, n1, new, d, a, b, h)
      BY <2>1, <2>3
    <3>2. /\ NodesOf(h) = (NodesOf(c) \ {a}) \cup {new} /\ a \in NodesOf(c)
          /\ NodesOf(h) = (NodesOf(d) \ {a}) \cup {new} /\ a \in NodesOf(d)
      BY <1>0, <3>1, PartNodes
    <3>3. c \in M /\ d \in M /\ c.kind = "tri" /\ d.kind = "tri"
      BY DEF GemTri, TriIn
    <3>4. new \notin NodesOf(c) /\ new \notin NodesOf(d)
      BY <1>0, <3>3
    <3>5. \A x : x \in NodesOf(c) <=> x \in NodesOf(d)
      BY <3>2, <3>4
    <3>6. NodesOf(c) = NodesOf(d)
      BY <3>5
    <3> QED
      BY <1>0, <3>3, <3>6 DEF Single
  <2>4. f \in [G -> half(a, b)]
    BY <2>1
  <2> HIDE DEF f, half
  <2> QED
    BY <1>1, <2>2, <2>3, <2>4, CardImage
<1>3. Ends(n0, n1, n0, n1) /\ Ends(n0, n1, n1, n0)
  BY DEF Ends
<1>4. PICK L : L = half(n0, n1)
  OBVIOUS
<1>5. PICK R : R = half(n1, n0)
  OBVIOUS
<1>6. /\ IsFiniteSet(L) /\ Cardinality(L) = Cardinality(G)
      /\ IsFiniteSet(R) /\ Cardinality(R) = Cardinality(G)
  BY <1>2, <1>3, <1>4, <1>5
<1>7. PICK K : K = TriIn(M) \ G
  OBVIOUS
<1>8. IsFiniteSet(K) /\ Cardinality(K) = Cardinality(TriIn(M)) - Cardinality(G)
  <2>1. TriIn(M) \cap G = G
    BY DEF GemTri
  <2>2. IsFiniteSet(TriIn(M) \ G)
        /\ Cardinality(TriIn(M) \ G) = Cardinality(TriIn(M)) - Cardinality(TriIn(M) \cap G)
    BY <1>1, FS_Difference
  <2> QED
    BY <1>7, <2>1, <2>2
<1>9. \A h \in L : n1 \in NodesOf(h) /\ n0 \notin NodesOf(h) /\ new \in NodesOf(h)
  <2> SUFFICES ASSUME NEW h \in L
               PROVE  n1 \in NodesOf(h) /\ n0 \notin NodesOf(h) /\ new \in NodesOf(h)
    OBVIOUS
  <2>1. PICK c \in G : Part(n0, n1, new, c, n0, n1, h)
    BY <1>4
  <2>2. c \in M /\ n0 \in NodesOf(c)
    BY DEF GemTri, TriIn, Gone
  <2>3. n0 # new
    BY <1>0, <2>2
  <2> QED
    BY <1>0, <2>1, <2>3, PartNodes
<1>10. \A h \in R : n0 \in NodesOf(h) /\ new \in NodesOf(h)
  <2> SUFFICES ASSUME NEW h \in R
               PROVE  n0 \in NodesOf(h) /\ new \in NodesOf(h)
    OBVIOUS
  <2>1. PICK c \in G : Part(n0, n1, new, c, n1, n0, h)
    BY <1>5
  <2> QED
    BY <1>0, <2>1, PartNodes
<1>11. \A h \in K : new \notin NodesOf(h)
  BY <1>0, <1>7 DEF TriIn
<1>12. L \cap R = {} /\ K \cap (L \cup R) = {}
  BY <1>9, <1>10, <1>11
<1>13. TriIn(N) = K \cup (L \cup R)
  <2>1. ASSUME NEW h \in TriIn(N) PROVE h \in K \cup (L \cup R)
    <3>1. CASE h \in TriIn(M) /\ ~ Gone(n0, n1, h)
      BY <1>7, <3>1 DEF GemTri
    <3>2. CASE \E c \in TriIn(M) : \E a, b : Part(n0, n1, new, c, a, b, h)
      <4>1. PICK c, a, b : c \in TriIn(M) /\ Part(n0, n1, new, c, a, b, h)
        BY <3>2
      <4>2. c \in G /\ ((a = n0 /\ b = n1) \/ (a = n1 /\ b = n0))
        BY <4>1 DEF Part, GemTri, Ends
      <4> QED
        BY <1>4, <1>5, <4>1, <4>2
    <3> QED
      BY <3>1, <3>2, HalvedTri
  <2>2. \A h \in K : h \in TriIn(N)
    BY <1>7, HalvedTri DEF GemTri
  <2>3. \A h \in L \cup R : h \in TriIn(N)
    BY <1>4, <1>5
  <2> QED
    BY <2>1, <2>2, <2>3
<1> HIDE DEF N, G, half
<1>14. IsFiniteSet(L \cup R) /\ Cardinality(L \cup R) = Cardinality(L) + Cardinality(R)
  BY <1>6, <1>12, CardUnion
<1>15. Cardinality(K \cup (L \cup R)) = Cardinality(K) + Cardinality(L \cup R)
  BY <1>8, <1>12, <1>14, CardUnion
<1>16. Cardinality(G) \in Nat /\ Cardinality(TriIn(M)) \in Nat
  BY <1>1, FS_CardinalityType
<1>17. Cardinality(TriIn(N)) = Cardinality(TriIn(M)) + Cardinality(G)
  BY <1>6, <1>8, <1>13, <1>14, <1>15, <1>16
<1> QED
  BY <1>17 DEF N, G

(* A split adds a node, 1 + a sides and a tri, where a tri lie on the edge. *)
LEMMA HalvedEuler ==
  ASSUME NEW M, NEW n0, NEW n1, NEW new, Splittable(M, n0, n1, new), Euler(M)
  PROVE  Euler(Halved(M, n0, n1, new))
<1>0. /\ Sound(M) /\ Single(M) /\ n0 # n1 /\ new \notin Verts(M) /\ Near(M, n0, n1)
      /\ IsFiniteSet(Verts(M))
      /\ Cardinality(Verts(M)) - Cardinality(SidesOf(M)) + Cardinality(TriIn(M)) = 1
  BY DEF Splittable, Sound, Euler
<1>1. PICK N : N = Halved(M, n0, n1, new)
  OBVIOUS
<1>2. PICK k : k = Cardinality(GemTri(M, n0, n1))
  OBVIOUS
<1>3. PICK A : A = Apex(M, n0, n1)
  OBVIOUS
<1>4. PICK S : S = SidesOf(M) \ {{n0, n1}}
  OBVIOUS
<1>5. IsFiniteSet(SidesOf(M)) /\ IsFiniteSet(TriIn(M))
  BY <1>0, MeshFinite
<1>6. k \in Nat /\ IsFiniteSet(A) /\ Cardinality(A) = k
  BY <1>0, <1>2, <1>3, CardApex, FS_CardinalityType
<1>7. Cardinality(TriIn(N)) = Cardinality(TriIn(M)) + k
  BY <1>0, <1>1, <1>2, HalvedTriCount
<1>8. IsFiniteSet(Verts(N)) /\ Cardinality(Verts(N)) = Cardinality(Verts(M)) + 1
  <2>1. Verts(N) = Verts(M) \cup {new}
    BY <1>1, HalvedVerts
  <2> QED
    BY <1>0, <2>1, FS_AddElement
<1>9. IsFiniteSet(S) /\ Cardinality(S) = Cardinality(SidesOf(M)) - 1
  <2>1. PICK p : p = {n0, n1}
    OBVIOUS
  <2>2. p \in SidesOf(M)
    BY <1>0, <2>1, IsSide
  <2> QED
    BY <1>4, <1>5, <2>1, <2>2, FS_RemoveElement
<1>10. PICK B : B = A \cup {n0, n1}
  OBVIOUS
<1>11. IsFiniteSet(B) /\ Cardinality(B) = k + 2
  <2>1. n0 \notin A /\ n1 \notin A
    BY <1>3 DEF Apex
  <2>2. PICK C : C = A \cup {n0}
    OBVIOUS
  <2>3. IsFiniteSet(C) /\ Cardinality(C) = k + 1 /\ n1 \notin C /\ B = C \cup {n1}
    BY <1>0, <1>6, <1>10, <2>1, <2>2, FS_AddElement
  <2>4. IsFiniteSet(B) /\ Cardinality(B) = Cardinality(C) + 1
    BY <2>3, FS_AddElement
  <2> QED
    BY <1>6, <2>3, <2>4
<1>12. B \subseteq Verts(M) /\ new \notin B
  BY <1>0, <1>3, <1>10 DEF Apex, Near, Verts, TriIn
<1>13. IsFiniteSet(Spokes(new, B)) /\ Cardinality(Spokes(new, B)) = k + 2
  BY <1>11, <1>12, CardSpokes
<1>14. S \cap Spokes(new, B) = {}
  <2>1. \A s \in S : new \notin s
    BY <1>0, <1>4 DEF SidesOf
  <2>2. \A s \in Spokes(new, B) : new \in s
    BY DEF Spokes
  <2> QED
    BY <2>1, <2>2
<1>15. SidesOf(N) = S \cup Spokes(new, B)
  BY <1>1, <1>3, <1>4, <1>10, HalvedSides
<1>16. Cardinality(SidesOf(N)) = Cardinality(S) + (k + 2)
  BY <1>9, <1>13, <1>14, <1>15, CardUnion
<1>17. /\ Cardinality(SidesOf(M)) \in Nat /\ Cardinality(TriIn(M)) \in Nat
       /\ Cardinality(Verts(M)) \in Nat
  BY <1>0, <1>5, FS_CardinalityType
<1>18. Cardinality(Verts(N)) - Cardinality(SidesOf(N)) + Cardinality(TriIn(N)) = 1
  BY <1>0, <1>6, <1>7, <1>8, <1>9, <1>16, <1>17
<1> QED
  BY <1>1, <1>8, <1>18 DEF Euler

(* The nodes next to n, and those only next to the node that goes. *)
Around(M, n) == {y \in Verts(M) : y # n /\ Near(M, n, y)}
Fresh(M, n0, n1) == Around(M, n1) \ (Apex(M, n0, n1) \cup {n0})

(* A node is next to both ends exactly if it is across a tri on the edge. *)
LEMMA ApexIsBoth ==
  ASSUME NEW M, NEW n0, NEW n1, Mergeable(M, n0, n1), NEW y, y # n0, y # n1
  PROVE  y \in Apex(M, n0, n1) <=> Near(M, n0, y) /\ Near(M, n1, y)
<1>1. ASSUME y \in Apex(M, n0, n1) PROVE Near(M, n0, y) /\ Near(M, n1, y)
  BY <1>1 DEF Apex, Near
<1>2. ASSUME Near(M, n0, y), Near(M, n1, y) PROVE y \in Apex(M, n0, n1)
  <2>1. PICK s \in TriIn(M) : NodesOf(s) = {n0, n1, y}
    BY <1>2 DEF Mergeable, Closed
  <2>2. y \in Verts(M)
    BY <2>1 DEF Verts, TriIn
  <2> QED
    BY <2>1, <2>2 DEF Apex
<1> QED
  BY <1>1, <1>2

(* Which nodes are next to each other after a collapse. *)
LEMMA MergedNear ==
  ASSUME NEW M, NEW n0, NEW n1, Mergeable(M, n0, n1), NEW x, NEW y, x # y,
         Near(Merged(M, n0, n1), x, y)
  PROVE  /\ x # n1 /\ y # n1
         /\ x # n0 /\ y # n0 => Near(M, x, y)
         /\ x = n0 => Near(M, n0, y) \/ Near(M, n1, y)
         /\ y = n0 => Near(M, n0, x) \/ Near(M, n1, x)
<1>0. n0 # n1
  BY DEF Mergeable
<1>1. PICK h \in TriIn(Merged(M, n0, n1)) : x \in NodesOf(h) /\ y \in NodesOf(h)
  BY DEF Near
<1>2. PICK c \in TriIn(M) : Image(n0, n1, c, h)
  BY MergedTri
<1>3. PICK a \in NodesOf(c) : x = Sub(n0, n1, a)
  BY <1>1, <1>2 DEF Image
<1>4. PICK b \in NodesOf(c) : y = Sub(n0, n1, b)
  BY <1>1, <1>2 DEF Image
<1>5. Near(M, a, b) /\ Near(M, b, a)
  BY DEF Near
<1> QED
  BY <1>0, <1>3, <1>4, <1>5 DEF Sub

(* The sides after a collapse. *)
LEMMA MergedSides ==
  ASSUME NEW M, NEW n0, NEW n1, Mergeable(M, n0, n1)
  PROVE  SidesOf(Merged(M, n0, n1)) =
           {s \in SidesOf(M) : n1 \notin s} \cup Spokes(n0, Fresh(M, n0, n1))
<1> DEFINE N == Merged(M, n0, n1)
           F == Fresh(M, n0, n1)
           K == {s \in SidesOf(M) : n1 \notin s}
<1>0. n0 # n1
  BY DEF Mergeable
<1>1. ASSUME NEW y, y # n0, Near(N, n0, y) PROVE {n0, y} \in K \cup Spokes(n0, F)
  <2>1. y # n1 /\ (Near(M, n0, y) \/ Near(M, n1, y))
    BY <1>1, MergedNear
  <2>2. CASE Near(M, n0, y)
    <3>1. {n0, y} \in SidesOf(M)
      BY <1>1, <2>2, IsSide
    <3> QED
      BY <1>0, <2>1, <3>1
  <2>3. CASE Near(M, n1, y) /\ ~ Near(M, n0, y)
    <3>1. y \notin Apex(M, n0, n1)
      BY <1>1, <2>1, <2>3, ApexIsBoth
    <3>2. y \in Verts(M)
      BY <2>3 DEF Near, Verts, TriIn
    <3>3. y \in F
      BY <1>1, <2>1, <2>3, <3>1, <3>2 DEF Fresh, Around
    <3> QED
      BY <3>3 DEF Spokes
  <2> QED
    BY <2>1, <2>2, <2>3
<1>2. ASSUME NEW s \in SidesOf(N) PROVE s \in K \cup Spokes(n0, F)
  <2>1. PICK x, y : x # y /\ s = {x, y} /\ Near(N, x, y)
    BY SideEnds
  <2>2. x # n1 /\ y # n1
    BY <2>1, MergedNear
  <2>3. CASE x # n0 /\ y # n0
    <3>1. Near(M, x, y)
      BY <2>1, <2>3, MergedNear
    <3>2. s \in SidesOf(M)
      BY <2>1, <3>1, IsSide
    <3> QED
      BY <2>1, <2>2, <3>2
  <2>4. CASE x = n0
    BY <1>1, <2>1, <2>4
  <2>5. CASE y = n0
    <3>1. Near(N, n0, x) /\ s = {n0, x}
      BY <2>1, <2>5 DEF Near
    <3> QED
      BY <1>1, <2>1, <2>5, <3>1
  <2> QED
    BY <2>3, <2>4, <2>5
<1>3. ASSUME NEW s \in K PROVE s \in SidesOf(N)
  <2>1. PICK x, y : x # y /\ s = {x, y} /\ Near(M, x, y)
    BY SideEnds
  <2>2. x # n1 /\ y # n1 /\ ~ Ends(n0, n1, x, y)
    BY <2>1 DEF Ends
  <2>3. Near(N, x, y)
    BY <2>1, <2>2, NearMoves DEF Sub
  <2> QED
    BY <2>1, <2>3, IsSide
<1>4. ASSUME NEW s \in Spokes(n0, F) PROVE s \in SidesOf(N)
  <2>1. PICK y \in F : s = {n0, y}
    BY DEF Spokes
  <2>2. y # n1 /\ y # n0 /\ Near(M, n1, y)
    BY DEF Fresh, Around
  <2>3. ~ Ends(n0, n1, n1, y)
    BY <2>2 DEF Ends
  <2>4. Near(N, Sub(n0, n1, n1), Sub(n0, n1, y))
    BY <2>2, <2>3, NearMoves
  <2>5. Near(N, n0, y)
    BY <2>2, <2>4 DEF Sub
  <2> QED
    BY <2>1, <2>2, <2>5, IsSide
<1> HIDE DEF N, F, K
<1>5. SidesOf(N) = K \cup Spokes(n0, F)
  BY <1>2, <1>3, <1>4
<1> QED
  BY <1>5 DEF N, F, K

(* The sides before: those without n1, and the spokes of n1. *)
LEMMA SidesAt ==
  ASSUME NEW M, NEW n
  PROVE  SidesOf(M) = {s \in SidesOf(M) : n \notin s} \cup Spokes(n, Around(M, n))
<1>1. ASSUME NEW s \in SidesOf(M), n \in s PROVE s \in Spokes(n, Around(M, n))
  <2>1. PICK x, y : x # y /\ s = {x, y} /\ Near(M, x, y)
    BY SideEnds
  <2>2. PICK z : z # n /\ s = {n, z} /\ Near(M, n, z)
    BY <1>1, <2>1 DEF Near
  <2>3. z \in Verts(M)
    BY <2>2 DEF Near, Verts, TriIn
  <2> QED
    BY <2>2, <2>3 DEF Spokes, Around
<1>2. ASSUME NEW s \in Spokes(n, Around(M, n)) PROVE s \in SidesOf(M)
  <2>1. PICK y \in Around(M, n) : s = {n, y}
    BY DEF Spokes
  <2>2. y # n /\ Near(M, n, y)
    BY DEF Around
  <2> QED
    BY <2>1, <2>2, IsSide
<1> QED
  BY <1>1, <1>2

(* The tri that stay. *)
LEMMA MergedTriCount ==
  ASSUME NEW M, NEW n0, NEW n1, Mergeable(M, n0, n1), IsFiniteSet(Verts(M))
  PROVE  Cardinality(TriIn(Merged(M, n0, n1))) =
           Cardinality(TriIn(M)) - Cardinality(GemTri(M, n0, n1))
<1>0. Sound(M) /\ Single(M) /\ n0 # n1
  BY DEF Mergeable, Sound
<1>1. PICK G : G = GemTri(M, n0, n1)
  OBVIOUS
<1>2. PICK N : N = Merged(M, n0, n1)
  OBVIOUS
<1>3. PICK K : K = TriIn(M) \ G
  OBVIOUS
<1>4. IsFiniteSet(TriIn(M))
  BY <1>0, MeshFinite
<1>5. IsFiniteSet(K) /\ Cardinality(K) = Cardinality(TriIn(M)) - Cardinality(G)
  <2>1. TriIn(M) \cap G = G
    BY <1>1 DEF GemTri
  <2>2. IsFiniteSet(TriIn(M) \ G)
        /\ Cardinality(TriIn(M) \ G) = Cardinality(TriIn(M)) - Cardinality(TriIn(M) \cap G)
    BY <1>4, FS_Difference
  <2> QED
    BY <1>3, <2>1, <2>2
<1>6. \A c \in K : c \in TriIn(M) /\ ~ Gone(n0, n1, c) /\ c \in M /\ c.kind = "tri"
  BY <1>1, <1>3 DEF GemTri, TriIn
<1> DEFINE f == [c \in K |-> Img(n0, n1, c)]
<1>7. f \in [K -> TriIn(N)]
  BY <1>2, <1>6, MergedTri
<1>8. \A c, d \in K : f[c] = f[d] => c = d
  BY <1>6, ImgApart
<1>9. \A h \in TriIn(N) : \E c \in K : f[c] = h
  <2> SUFFICES ASSUME NEW h \in TriIn(N) PROVE \E c \in K : f[c] = h
    OBVIOUS
  <2>1. PICK c \in TriIn(M) : ~ Gone(n0, n1, c) /\ h = Img(n0, n1, c)
    BY <1>2, MergedTri
  <2>2. c \in K
    BY <1>1, <1>3, <2>1 DEF GemTri
  <2> QED
    BY <2>1, <2>2
<1> HIDE DEF f
<1>10. Cardinality(TriIn(N)) = Cardinality(K)
  BY <1>5, <1>7, <1>8, <1>9, CardImage
<1> QED
  BY <1>1, <1>2, <1>5, <1>10

(* A collapse takes a node, 1 + a sides and a tri away, where a tri lie on the edge. *)
LEMMA MergedEuler ==
  ASSUME NEW M, NEW n0, NEW n1, Mergeable(M, n0, n1), n1 \in Verts(M), Euler(M)
  PROVE  Euler(Merged(M, n0, n1))
<1>0. /\ Sound(M) /\ Single(M) /\ n0 # n1 /\ Near(M, n0, n1) /\ IsFiniteSet(Verts(M))
      /\ Cardinality(Verts(M)) - Cardinality(SidesOf(M)) + Cardinality(TriIn(M)) = 1
  BY DEF Mergeable, Sound, Euler
<1>1. PICK N : N = Merged(M, n0, n1)
  OBVIOUS
<1>2. PICK k : k = Cardinality(GemTri(M, n0, n1))
  OBVIOUS
<1>3. PICK A : A = Apex(M, n0, n1)
  OBVIOUS
<1>4. PICK K : K = {s \in SidesOf(M) : n1 \notin s}
  OBVIOUS
<1>5. PICK B : B = Fresh(M, n0, n1)
  OBVIOUS
<1>6. PICK D : D = Around(M, n1)
  OBVIOUS
<1>7. IsFiniteSet(SidesOf(M)) /\ IsFiniteSet(TriIn(M))
  BY <1>0, MeshFinite
<1>8. k \in Nat /\ IsFiniteSet(A) /\ Cardinality(A) = k
  BY <1>0, <1>2, <1>3, CardApex, FS_CardinalityType
<1>9. Cardinality(TriIn(N)) = Cardinality(TriIn(M)) - k
  BY <1>0, <1>1, <1>2, MergedTriCount
<1>10. IsFiniteSet(Verts(N)) /\ Cardinality(Verts(N)) = Cardinality(Verts(M)) - 1
  <2>1. Verts(N) = Verts(M) \ {n1}
    BY <1>1, MergedVerts
  <2> QED
    BY <1>0, <2>1, FS_RemoveElement
<1>11. IsFiniteSet(K)
  BY <1>4, <1>7, FS_Subset
<1>12. IsFiniteSet(D) /\ D \subseteq Verts(M)
  <2>1. D \in SUBSET Verts(M)
    BY <1>6 DEF Around
  <2> QED
    BY <1>0, <2>1, FS_Subset
<1>13. n1 \notin D /\ A \subseteq D /\ n0 \in D /\ n0 \notin A
  <2>1. n0 \in Verts(M) /\ Near(M, n1, n0)
    BY <1>0 DEF Near, Verts, TriIn
  <2>2. \A w \in A : w # n0 /\ w # n1 /\ w \in Verts(M)
    BY <1>3 DEF Apex
  <2>3. \A w \in A : Near(M, n1, w)
    BY <1>3, <2>2, ApexIsBoth
  <2> QED
    BY <1>0, <1>6, <2>1, <2>2, <2>3 DEF Around
<1>14. PICK C : C = A \cup {n0}
  OBVIOUS
<1>15. IsFiniteSet(C) /\ Cardinality(C) = k + 1
  BY <1>8, <1>13, <1>14, FS_AddElement
<1>16. B = D \ C /\ D \cap C = C
  BY <1>3, <1>5, <1>6, <1>13, <1>14 DEF Fresh
<1>17. IsFiniteSet(B) /\ Cardinality(B) = Cardinality(D) - (k + 1)
  <2>1. IsFiniteSet(D \ C) /\ Cardinality(D \ C) = Cardinality(D) - Cardinality(D \cap C)
    BY <1>12, FS_Difference
  <2> QED
    BY <1>15, <1>16, <2>1
<1>18. n0 \notin B
  BY <1>14, <1>16
<1>19. Cardinality(SidesOf(M)) = Cardinality(K) + Cardinality(D)
  <2>1. IsFiniteSet(Spokes(n1, D)) /\ Cardinality(Spokes(n1, D)) = Cardinality(D)
    BY <1>12, <1>13, CardSpokes
  <2>2. K \cap Spokes(n1, D) = {}
    <3>1. \A s \in Spokes(n1, D) : n1 \in s
      BY DEF Spokes
    <3> QED
      BY <1>4, <3>1
  <2>3. SidesOf(M) = K \cup Spokes(n1, D)
    BY <1>4, <1>6, SidesAt
  <2> QED
    BY <1>11, <2>1, <2>2, <2>3, CardUnion
<1>20. Cardinality(SidesOf(N)) = Cardinality(K) + Cardinality(B)
  <2>1. IsFiniteSet(Spokes(n0, B)) /\ Cardinality(Spokes(n0, B)) = Cardinality(B)
    BY <1>17, <1>18, CardSpokes
  <2>2. K \cap Spokes(n0, B) = {}
    <3> SUFFICES ASSUME NEW s \in K, s \in Spokes(n0, B) PROVE FALSE
      OBVIOUS
    <3>1. PICK y \in B : s = {n0, y}
      BY DEF Spokes
    <3>2. y # n0 /\ y # n1 /\ Near(M, n1, y) /\ y \notin Apex(M, n0, n1)
      BY <1>5 DEF Fresh, Around
    <3>3. Near(M, n0, y)
      BY <1>4, <3>1, <3>2, IsSide
    <3> QED
      BY <3>2, <3>3, ApexIsBoth
  <2>3. SidesOf(N) = K \cup Spokes(n0, B)
    BY <1>1, <1>4, <1>5, MergedSides
  <2> QED
    BY <1>11, <2>1, <2>2, <2>3, CardUnion
<1>21. /\ Cardinality(SidesOf(M)) \in Nat /\ Cardinality(TriIn(M)) \in Nat
       /\ Cardinality(Verts(M)) \in Nat /\ Cardinality(K) \in Nat /\ Cardinality(D) \in Nat
  BY <1>0, <1>7, <1>11, <1>12, FS_CardinalityType
<1>22. Cardinality(Verts(N)) - Cardinality(SidesOf(N)) + Cardinality(TriIn(N)) = 1
  BY <1>0, <1>8, <1>9, <1>10, <1>17, <1>19, <1>20, <1>21
<1> QED
  BY <1>1, <1>10, <1>22 DEF Euler

-----------------------------------------------------------------------------
(* Sound meshes are conforming disks *)

(* The tri on an arrow and the edg on a side. *)
OnArrow(M, a) == {t \in TriIn(M) : a \in Arrows(t)}
OnPair(M, s) == {c \in M : c.kind = "edg" /\ NodesOf(c) = s}
ArrowsOf(M) == UNION {Arrows(t) : t \in TriIn(M)}

(* ConformingDisk in these terms. *)
LEMMA DiskParts ==
  ASSUME NEW M, NEW V
  PROVE  ConformingDisk(M, V) <=>
           /\ \A a \in ArrowsOf(M) :
                /\ Cardinality(OnArrow(M, a)) = 1
                /\ Cardinality(OnPair(M, {a[1], a[2]})) <= 1
                /\ OnPair(M, {a[1], a[2]}) = {} <=>
                     {t.id : t \in OnArrow(M, <<a[2], a[1]>>)} = {t.id : t \in OnArrow(M, a)}
           /\ \A c \in M : c.kind = "edg" => NodesOf(c) \in {{a[1], a[2]} : a \in ArrowsOf(M)}
           /\ Cardinality(V) - Cardinality({{a[1], a[2]} : a \in ArrowsOf(M)})
                + Cardinality(TriIn(M)) = 1
  BY DEF ConformingDisk, OnArrow, OnPair, ArrowsOf, TriIn

(* An arrow is a pair of nodes. *)
LEMMA ArrowPair ==
  ASSUME NEW t, NEW a \in Arrows(t)
  PROVE  a = <<a[1], a[2]>> /\ To(t, a[1], a[2])
<1>1. PICK i \in 1 .. 3 : a = <<t.nodes[i], t.nodes[(i % 3) + 1]>>
  BY DEF Arrows
<1>2. a = <<a[1], a[2]>>
  BY <1>1
<1> QED
  BY <1>2 DEF To

(* The arrows give the sides. *)
LEMMA ArrowSides ==
  ASSUME NEW M, AllFormed(M)
  PROVE  {{a[1], a[2]} : a \in ArrowsOf(M)} = SidesOf(M)
<1>1. ASSUME NEW a \in ArrowsOf(M) PROVE {a[1], a[2]} \in SidesOf(M)
  <2>1. PICK t \in TriIn(M) : a \in Arrows(t)
    BY DEF ArrowsOf
  <2>2. To(t, a[1], a[2])
    BY <2>1, ArrowPair
  <2>3. a[1] # a[2] /\ Near(M, a[1], a[2])
    BY <2>2, MeshSides DEF Near
  <2> QED
    BY <2>3, IsSide
<1>2. ASSUME NEW s \in SidesOf(M) PROVE \E a \in ArrowsOf(M) : s = {a[1], a[2]}
  <2>1. PICK x, y : x # y /\ s = {x, y} /\ Near(M, x, y)
    BY SideEnds
  <2>2. PICK t \in TriIn(M) : x \in NodesOf(t) /\ y \in NodesOf(t)
    BY <2>1 DEF Near
  <2>3. PICK p, q : To(t, p, q) /\ s = {p, q}
    BY <2>1, <2>2, MeshSides
  <2>4. <<p, q>> \in ArrowsOf(M)
    BY <2>3 DEF ArrowsOf, To
  <2>5. <<p, q>>[1] = p /\ <<p, q>>[2] = q
    OBVIOUS
  <2> QED
    BY <2>3, <2>4, <2>5
<1> QED
  BY <1>1, <1>2

(* A set with at most one element. *)
LEMMA CardOne ==
  ASSUME NEW S, IsFiniteSet(S)
  PROVE  /\ Cardinality(S) = 1 <=> \E x : S = {x}
         /\ Cardinality(S) <= 1 <=> \A x, y \in S : x = y
<1>1. Cardinality(S) = 1 <=> \E x : S = {x}
  BY FS_Singleton
<1>2. Cardinality(S) = 0 <=> S = {}
  BY FS_EmptySet
<1>3. Cardinality(S) \in Nat
  BY FS_CardinalityType
<1>4. Cardinality(S) <= 1 <=> Cardinality(S) = 0 \/ Cardinality(S) = 1
  BY <1>3
<1>5. (\A x, y \in S : x = y) <=> S = {} \/ \E x : S = {x}
  <2>1. ASSUME \A x, y \in S : x = y, S # {} PROVE \E x : S = {x}
    <3>1. PICK x \in S : TRUE
      BY <2>1
    <3>2. S = {x}
      BY <2>1, <3>1
    <3> QED
      BY <3>2
  <2>2. ASSUME S = {} \/ \E x : S = {x} PROVE \A x, y \in S : x = y
    BY <2>2
  <2> QED
    BY <2>1, <2>2
<1> QED
  BY <1>1, <1>2, <1>4, <1>5

(* The condition on the two directions of a side. *)
Agrees(M, x, y) ==
  OnPair(M, {x, y}) = {} <=>
    {u.id : u \in OnArrow(M, <<y, x>>)} = {u.id : u \in OnArrow(M, <<x, y>>)}

(* What the condition on an arrow means. *)
LEMMA ArrowMeans ==
  ASSUME NEW M, AllFormed(M), Single(M), OneWay(M), NEW t \in TriIn(M), NEW x, NEW y, To(t, x, y)
  PROVE  Agrees(M, x, y)
         <=> /\ EdgOn(M, x, y) \/ Meets(M, t, x, y)
             /\ ~ (EdgOn(M, x, y) /\ Meets(M, t, x, y))
<1>1. OnArrow(M, <<x, y>>) = {t}
  BY DEF OnArrow, OneWay, To
<1>2. {u.id : u \in OnArrow(M, <<x, y>>)} = {t.id}
  BY <1>1
<1>3. OnPair(M, {x, y}) = {} <=> ~ EdgOn(M, x, y)
  BY DEF OnPair, EdgOn, EdgIn
<1>4. \A u, v \in OnArrow(M, <<y, x>>) : u = v
  BY DEF OnArrow, OneWay, To
<1>5. {u.id : u \in OnArrow(M, <<y, x>>)} = {t.id} <=> Meets(M, t, x, y)
  <2>1. ASSUME Meets(M, t, x, y) PROVE {u.id : u \in OnArrow(M, <<y, x>>)} = {t.id}
    <3>1. PICK u \in TriIn(M) : To(u, y, x) /\ u.id = t.id
      BY <2>1 DEF Meets
    <3>2. OnArrow(M, <<y, x>>) = {u}
      BY <1>4, <3>1 DEF OnArrow, To
    <3> QED
      BY <3>1, <3>2
  <2>2. ASSUME {u.id : u \in OnArrow(M, <<y, x>>)} = {t.id} PROVE Meets(M, t, x, y)
    <3>1. t.id \in {u.id : u \in OnArrow(M, <<y, x>>)}
      BY <2>2
    <3>2. PICK u \in OnArrow(M, <<y, x>>) : u.id = t.id
      BY <3>1
    <3> QED
      BY <3>2 DEF Meets, OnArrow, To
  <2> QED
    BY <2>1, <2>2
<1> QED
  BY <1>2, <1>3, <1>5 DEF Agrees

(* A sound mesh with the right count is a conforming disk. *)
LEMMA SoundIsDisk ==
  ASSUME NEW M, Sound(M), Euler(M)
  PROVE  ConformingDisk(M, Verts(M))
<1>0. /\ AllFormed(M) /\ Single(M) /\ OneWay(M) /\ OnSide(M) /\ Sealed(M) /\ Bordered(M)
      /\ IsFiniteSet(Verts(M))
  BY DEF Sound, Euler
<1>1. IsFiniteSet(TriIn(M)) /\ IsFiniteSet(EdgIn(M))
  BY <1>0, MeshFinite
<1>2. ASSUME NEW a \in ArrowsOf(M)
      PROVE  /\ Cardinality(OnArrow(M, a)) = 1
             /\ Cardinality(OnPair(M, {a[1], a[2]})) <= 1
             /\ OnPair(M, {a[1], a[2]}) = {} <=>
                  {t.id : t \in OnArrow(M, <<a[2], a[1]>>)} = {t.id : t \in OnArrow(M, a)}
  <2>1. PICK t \in TriIn(M) : a \in Arrows(t)
    BY DEF ArrowsOf
  <2>2. a = <<a[1], a[2]>> /\ To(t, a[1], a[2])
    BY <2>1, ArrowPair
  <2>3. OnArrow(M, a) = {t}
    BY <1>0, <2>1, <2>2 DEF OnArrow, OneWay, To
  <2>4. Cardinality(OnArrow(M, a)) = 1
    BY <2>3, FS_Singleton
  <2>5. IsFiniteSet(OnPair(M, {a[1], a[2]}))
    <3>1. OnPair(M, {a[1], a[2]}) \in SUBSET EdgIn(M)
      BY DEF OnPair, EdgIn
    <3> QED
      BY <1>1, <3>1, FS_Subset
  <2>6. \A c, d \in OnPair(M, {a[1], a[2]}) : c = d
    BY <1>0 DEF OnPair, Single
  <2>7. Cardinality(OnPair(M, {a[1], a[2]})) <= 1
    BY <2>5, <2>6, CardOne
  <2>8. EdgOn(M, a[1], a[2]) \/ Meets(M, t, a[1], a[2])
    BY <1>0, <2>2 DEF Sealed
  <2>9. ~ (EdgOn(M, a[1], a[2]) /\ Meets(M, t, a[1], a[2]))
    BY <1>0, <2>2 DEF Bordered, EdgOn, Meets
  <2>10. OnPair(M, {a[1], a[2]}) = {} <=>
            {u.id : u \in OnArrow(M, <<a[2], a[1]>>)} = {u.id : u \in OnArrow(M, <<a[1], a[2]>>)}
    <3>1. PICK x, y : x = a[1] /\ y = a[2]
      OBVIOUS
    <3>2. To(t, x, y) /\ (EdgOn(M, x, y) \/ Meets(M, t, x, y))
          /\ ~ (EdgOn(M, x, y) /\ Meets(M, t, x, y))
      BY <2>2, <2>8, <2>9, <3>1
    <3>3. Agrees(M, x, y)
      BY <1>0, <3>2, ArrowMeans
    <3> QED
      BY <3>1, <3>3 DEF Agrees
  <2>11. OnArrow(M, a) = OnArrow(M, <<a[1], a[2]>>)
    BY <2>2
  <2> QED
    BY <2>4, <2>7, <2>10, <2>11
<1>3. ASSUME NEW c \in M, c.kind = "edg" PROVE NodesOf(c) \in SidesOf(M)
  <2>1. c \in EdgIn(M)
    BY <1>3 DEF EdgIn
  <2>2. PICK x, y : x # y /\ NodesOf(c) = {x, y}
    BY <1>0, <2>1, MeshEnds
  <2>3. Near(M, x, y)
    BY <1>0, <2>1, <2>2 DEF OnSide, Near
  <2> QED
    BY <2>2, <2>3, IsSide
<1>4. {{a[1], a[2]} : a \in ArrowsOf(M)} = SidesOf(M)
  BY <1>0, ArrowSides
<1> QED
  BY <1>2, <1>3, <1>4, DiskParts DEF Euler

(* And a conforming disk of well-formed cells is sound. *)
LEMMA DiskIsSound ==
  ASSUME NEW M, AllFormed(M), Single(M), IsFiniteSet(Verts(M)), ConformingDisk(M, Verts(M))
  PROVE  Sound(M) /\ Euler(M)
<1>1. IsFiniteSet(TriIn(M)) /\ IsFiniteSet(EdgIn(M))
  BY MeshFinite
<1>2. {{a[1], a[2]} : a \in ArrowsOf(M)} = SidesOf(M)
  BY ArrowSides
<1>3. /\ \A a \in ArrowsOf(M) :
           /\ Cardinality(OnArrow(M, a)) = 1
           /\ OnPair(M, {a[1], a[2]}) = {} <=>
                {t.id : t \in OnArrow(M, <<a[2], a[1]>>)} = {t.id : t \in OnArrow(M, a)}
      /\ \A c \in M : c.kind = "edg" => NodesOf(c) \in SidesOf(M)
      /\ Cardinality(Verts(M)) - Cardinality(SidesOf(M)) + Cardinality(TriIn(M)) = 1
  BY <1>2, DiskParts
<1>4. OneWay(M)
  <2> SUFFICES ASSUME NEW t \in TriIn(M), NEW u \in TriIn(M), NEW x, NEW y, To(t, x, y), To(u, x, y)
               PROVE  t = u
    BY DEF OneWay
  <2>1. PICK a : a = <<x, y>>
    OBVIOUS
  <2>2. a \in ArrowsOf(M)
    BY <2>1 DEF ArrowsOf, To
  <2>3. IsFiniteSet(OnArrow(M, a))
    <3>1. OnArrow(M, a) \in SUBSET TriIn(M)
      BY DEF OnArrow
    <3> QED
      BY <1>1, <3>1, FS_Subset
  <2>4. PICK v : OnArrow(M, a) = {v}
    BY <1>3, <2>2, <2>3, CardOne
  <2>5. t \in OnArrow(M, a) /\ u \in OnArrow(M, a)
    BY <2>1 DEF OnArrow, To
  <2> QED
    BY <2>4, <2>5
<1>5. ASSUME NEW t \in TriIn(M), NEW x, NEW y, To(t, x, y)
      PROVE  /\ EdgOn(M, x, y) \/ Meets(M, t, x, y)
             /\ ~ (EdgOn(M, x, y) /\ Meets(M, t, x, y))
  <2>1. PICK a : a = <<x, y>>
    OBVIOUS
  <2>2. a \in ArrowsOf(M) /\ a[1] = x /\ a[2] = y
    BY <1>5, <2>1 DEF ArrowsOf, To
  <2>3. Agrees(M, x, y)
    BY <1>3, <2>1, <2>2 DEF Agrees
  <2> QED
    BY <1>4, <1>5, <2>3, ArrowMeans
<1>6. Sealed(M)
  BY <1>5 DEF Sealed
<1>7. Bordered(M)
  <2> SUFFICES ASSUME NEW e \in EdgIn(M), NEW t \in TriIn(M), NEW u \in TriIn(M), NEW x, NEW y,
                      NodesOf(e) = {x, y}, To(t, x, y), To(u, y, x)
               PROVE  t.id # u.id
    BY DEF Bordered
  <2>1. EdgOn(M, x, y)
    BY DEF EdgOn
  <2>2. ~ Meets(M, t, x, y)
    BY <1>5, <2>1
  <2> QED
    BY <2>2 DEF Meets
<1>8. OnSide(M)
  <2> SUFFICES ASSUME NEW e \in EdgIn(M)
               PROVE  \E t \in TriIn(M) : NodesOf(e) \subseteq NodesOf(t)
    BY DEF OnSide
  <2>1. NodesOf(e) \in SidesOf(M)
    BY <1>3 DEF EdgIn
  <2>2. PICK x, y : x # y /\ NodesOf(e) = {x, y} /\ Near(M, x, y)
    BY <2>1, SideEnds
  <2> QED
    BY <2>2 DEF Near
<1> QED
  BY <1>3, <1>4, <1>6, <1>7, <1>8 DEF Sound, Euler

-----------------------------------------------------------------------------
(* The shares of the ranks *)

(* What rank r holds of the mesh M when q says who owns the nodes. *)
Touches(q, r, c) == \E n \in NodesOf(c) : q[n] = r
Touched(M, q, r) == {c \in M : Touches(q, r, c)}
Ring(M, q, r) == Verts(Touched(M, q, r))
Recs(G, S) == {k \in DOMAIN G : k[1] \in S}

(* The share of rank r: these cells, their nodes, and the records of the nodes. *)
Piece(M, q, V, G, r) ==
  [node |-> [n \in Ring(M, q, r) |-> [part |-> q[n], real |-> V[n]]],
   cell |-> Touched(M, q, r),
   geom |-> [k \in Recs(G, Ring(M, q, r)) |-> G[k]]]

(* The whole grid behind the shares. *)
Whole(M, q, V, G) ==
  /\ Sound(M) /\ Euler(M) /\ Verts(M) \subseteq 1 .. MaxNode
  /\ q \in [Verts(M) -> Rank]
  /\ V \in [Verts(M) -> {0, 1}]
  /\ G \in [DOMAIN G -> {0, 1}]
  /\ \A k \in DOMAIN G : k[1] \in Verts(M) /\ k[2] \in {"node", "edge", "face"}

(* The shares of all ranks. *)
Shares(M, q, V, G) == [r \in Rank |-> Piece(M, q, V, G, r)]

(* A change that touches only what r owns. *)
LocalTo(M, N, q, p, r) ==
  /\ \A c \in M : c \notin N => \A n \in NodesOf(c) : q[n] = r
  /\ \A c \in N : c \notin M => \A n \in NodesOf(c) : p[n] = r
  /\ \A n \in Verts(M) : n \in Verts(N) => q[n] = p[n]

(* A cell has a node. *)
LEMMA SomeNode ==
  ASSUME NEW M, AllFormed(M), NEW c \in M
  PROVE  NodesOf(c) # {}
<1>1. CASE c \in TriIn(M)
  BY <1>1, MeshNodes
<1>2. CASE c \in EdgIn(M)
  BY <1>2, MeshEnds
<1> QED
  BY <1>1, <1>2, Kinds

(* The nodes of a cell are nodes of the mesh. *)
LEMMA NodesIn ==
  ASSUME NEW M, NEW c \in M
  PROVE  NodesOf(c) \subseteq Verts(M)
  BY DEF Verts

(* The others keep what they hold. *)
LEMMA OthersKeep ==
  ASSUME NEW M, NEW N, NEW q, NEW p, NEW r, LocalTo(M, N, q, p, r), NEW s, s # r
  PROVE  Touched(N, p, s) = Touched(M, q, s) /\ Ring(N, p, s) = Ring(M, q, s)
<1>1. ASSUME NEW c \in Touched(M, q, s) PROVE c \in Touched(N, p, s)
  <2>1. c \in M /\ \E n \in NodesOf(c) : q[n] = s
    BY DEF Touched, Touches
  <2>2. c \in N
    BY <2>1 DEF LocalTo
  <2>3. NodesOf(c) \subseteq Verts(M) /\ NodesOf(c) \subseteq Verts(N)
    BY <2>1, <2>2, NodesIn
  <2> QED
    BY <2>1, <2>2, <2>3 DEF Touched, Touches, LocalTo
<1>2. ASSUME NEW c \in Touched(N, p, s) PROVE c \in Touched(M, q, s)
  <2>1. c \in N /\ \E n \in NodesOf(c) : p[n] = s
    BY DEF Touched, Touches
  <2>2. c \in M
    BY <2>1 DEF LocalTo
  <2>3. NodesOf(c) \subseteq Verts(M) /\ NodesOf(c) \subseteq Verts(N)
    BY <2>1, <2>2, NodesIn
  <2> QED
    BY <2>1, <2>2, <2>3 DEF Touched, Touches, LocalTo
<1>3. Touched(N, p, s) = Touched(M, q, s)
  BY <1>1, <1>2
<1> QED
  BY <1>3 DEF Ring

(* What r holds after it. *)
LEMMA OwnChange ==
  ASSUME NEW M, NEW N, NEW q, NEW p, NEW r, LocalTo(M, N, q, p, r), AllFormed(N)
  PROVE  /\ Touched(N, p, r) = {c \in Touched(M, q, r) : c \in N} \cup {c \in N : c \notin M}
         /\ Ring(N, p, r) = {n \in Ring(M, q, r) : n \in Verts(N)} \cup {n \in Verts(N) : n \notin Verts(M)}
<1>0. /\ \A c \in M : c \notin N => \A n \in NodesOf(c) : q[n] = r
      /\ \A c \in N : c \notin M => \A n \in NodesOf(c) : p[n] = r
      /\ \A n \in Verts(M) : n \in Verts(N) => q[n] = p[n]
  BY DEF LocalTo
<1>1. \A c \in M : c \in N => (Touches(q, r, c) <=> Touches(p, r, c))
  BY <1>0 DEF Touches, Verts
<1>2. \A c \in N : c \notin M => Touches(p, r, c)
  BY <1>0, SomeNode DEF Touches
<1>3. Touched(N, p, r) = {c \in Touched(M, q, r) : c \in N} \cup {c \in N : c \notin M}
  BY <1>1, <1>2 DEF Touched
<1>4. ASSUME NEW n \in Verts(N), n \notin Verts(M) PROVE n \in Ring(N, p, r)
  <2>1. PICK c \in N : n \in NodesOf(c)
    BY DEF Verts
  <2>2. c \notin M
    BY <1>4, <2>1 DEF Verts
  <2>3. c \in Touched(N, p, r)
    BY <1>2, <2>2 DEF Touched
  <2> QED
    BY <2>1, <2>3 DEF Ring, Verts
<1>5. ASSUME NEW n \in Ring(M, q, r), n \in Verts(N) PROVE n \in Ring(N, p, r)
  <2>1. PICK c \in Touched(M, q, r) : n \in NodesOf(c)
    BY DEF Ring, Verts
  <2>2. CASE c \in N
    BY <1>3, <2>1, <2>2 DEF Ring, Verts
  <2>3. CASE c \notin N
    <3>1. c \in M /\ n \in Verts(M)
      BY <2>1 DEF Touched, Verts
    <3>2. p[n] = r
      BY <1>0, <1>5, <2>1, <2>3, <3>1
    <3>3. PICK d \in N : n \in NodesOf(d)
      BY <1>5 DEF Verts
    <3>4. d \in Touched(N, p, r)
      BY <3>2, <3>3 DEF Touched, Touches
    <3> QED
      BY <3>3, <3>4 DEF Ring, Verts
  <2> QED
    BY <2>2, <2>3
<1>6. ASSUME NEW n \in Ring(N, p, r), n \in Verts(M) PROVE n \in Ring(M, q, r)
  <2>1. PICK c \in Touched(N, p, r) : n \in NodesOf(c)
    BY DEF Ring, Verts
  <2>2. CASE c \in M
    <3>1. c \in Touched(M, q, r)
      BY <1>3, <2>2
    <3> QED
      BY <2>1, <3>1 DEF Ring, Verts
  <2>3. CASE c \notin M
    <3>1. c \in N /\ p[n] = r
      BY <1>0, <2>1, <2>3 DEF Touched
    <3>2. q[n] = r
      BY <1>0, <1>6, <2>1, <3>1 DEF Verts
    <3>3. PICK d \in M : n \in NodesOf(d)
      BY <1>6 DEF Verts
    <3>4. d \in Touched(M, q, r)
      BY <3>2, <3>3 DEF Touched, Touches
    <3> QED
      BY <3>3, <3>4 DEF Ring, Verts
  <2> QED
    BY <2>2, <2>3
<1>7. \A n \in Ring(N, p, r) : n \in Verts(N)
  BY DEF Ring, Verts, Touched
<1> QED
  BY <1>3, <1>4, <1>5, <1>6, <1>7

(* The same share. *)
LEMMA PieceSame ==
  ASSUME NEW M, NEW N, NEW q, NEW p, NEW V, NEW W, NEW G, NEW H, NEW s,
         Touched(N, p, s) = Touched(M, q, s), Ring(N, p, s) = Ring(M, q, s),
         \A n \in Ring(M, q, s) : p[n] = q[n] /\ W[n] = V[n],
         Recs(H, Ring(M, q, s)) = Recs(G, Ring(M, q, s)),
         \A k \in Recs(G, Ring(M, q, s)) : H[k] = G[k]
  PROVE  Piece(N, p, W, H, s) = Piece(M, q, V, G, s)
<1>1. [n \in Ring(N, p, s) |-> [part |-> p[n], real |-> W[n]]]
        = [n \in Ring(M, q, s) |-> [part |-> q[n], real |-> V[n]]]
  OBVIOUS
<1>2. [k \in Recs(H, Ring(N, p, s)) |-> H[k]] = [k \in Recs(G, Ring(M, q, s)) |-> G[k]]
  OBVIOUS
<1> QED
  BY <1>1, <1>2 DEF Piece

(* What r sees of a share. *)
LEMMA PieceSees ==
  ASSUME NEW M, NEW q, NEW V, NEW G, NEW r, NEW g, g = Piece(M, q, V, G, r)
  PROVE  /\ Held(g) = Ring(M, q, r) /\ g.cell = Touched(M, q, r)
         /\ \A n \in Ring(M, q, r) : g.node[n].part = q[n] /\ g.node[n].real = V[n]
                                     /\ (ref_node_owned(g, r, n) <=> q[n] = r)
         /\ DOMAIN g.geom = Recs(G, Ring(M, q, r))
         /\ \A k \in DOMAIN g.geom : g.geom[k] = G[k]
         /\ g = [node |-> g.node, cell |-> g.cell, geom |-> g.geom]
  BY DEF Piece, Held, ref_node_owned

(* All nodes of the mesh are held by their owners, and no others are held. *)
LEMMA HeldByOwner ==
  ASSUME NEW M, NEW q, NEW n \in Verts(M)
  PROVE  n \in Ring(M, q, q[n])
<1>1. PICK c \in M : n \in NodesOf(c)
  BY DEF Verts
<1>2. c \in Touched(M, q, q[n])
  BY <1>1 DEF Touched, Touches
<1> QED
  BY <1>1, <1>2 DEF Ring, Verts

(* A rank holds nodes of the mesh only. *)
LEMMA RingIn ==
  ASSUME NEW M, NEW q, NEW r
  PROVE  Ring(M, q, r) \subseteq Verts(M)
  BY DEF Ring, Verts, Touched

(* The nodes some rank holds are the nodes of the mesh. *)
LEMMA LiveIs ==
  ASSUME NEW M, NEW q, NEW V, NEW G, Whole(M, q, V, G), grid = Shares(M, q, V, G)
  PROVE  LiveNodes = Verts(M)
<1>1. \A r \in Rank : Held(grid[r]) = Ring(M, q, r)
  BY PieceSees DEF Shares
<1>2. \A n \in Verts(M) : q[n] \in Rank
  BY DEF Whole
<1> QED
  BY <1>1, <1>2, HeldByOwner, RingIn DEF LiveNodes

-----------------------------------------------------------------------------
(* Operations on a share *)

(* The shares of some whole grid. *)
Good(g) == \E M, q, V, G : Whole(M, q, V, G) /\ g = Shares(M, q, V, G)

(* The part of the data of nodes and records that rank s holds is the same. *)
SameFor(S, V, W, G, H) ==
  /\ \A n \in S : W[n] = V[n]
  /\ Recs(H, S) = Recs(G, S)
  /\ \A k \in Recs(G, S) : H[k] = G[k]

(* A change local to r that r alone carries out leaves each rank its share of the whole. *)
LEMMA LocalStep ==
  ASSUME NEW M, NEW q, NEW V, NEW G, NEW N, NEW p, NEW W, NEW H, NEW r \in Rank,
         Whole(N, p, W, H), LocalTo(M, N, q, p, r),
         \A s \in Rank : s # r => SameFor(Ring(M, q, s), V, W, G, H),
         NEW g, g = Shares(M, q, V, G)
  PROVE  Good([g EXCEPT ![r] = Piece(N, p, W, H, r)])
<1>1. ASSUME NEW s \in Rank, s # r PROVE Piece(N, p, W, H, s) = g[s]
  <2>1. Touched(N, p, s) = Touched(M, q, s) /\ Ring(N, p, s) = Ring(M, q, s)
    BY <1>1, OthersKeep
  <2>2. Ring(M, q, s) \subseteq Verts(M) /\ Ring(N, p, s) \subseteq Verts(N)
    BY RingIn
  <2>3. \A n \in Ring(M, q, s) : p[n] = q[n]
    BY <2>1, <2>2 DEF LocalTo
  <2>4. SameFor(Ring(M, q, s), V, W, G, H)
    BY <1>1
  <2>5. Piece(N, p, W, H, s) = Piece(M, q, V, G, s)
    BY <2>1, <2>3, <2>4, PieceSame DEF SameFor
  <2> QED
    BY <2>5 DEF Shares
<1>2. [g EXCEPT ![r] = Piece(N, p, W, H, r)] = Shares(N, p, W, H)
  BY <1>1 DEF Shares
<1> QED
  BY <1>2 DEF Good

(* A held node has a tri in the share. *)
LEMMA TriHeld ==
  ASSUME NEW M, Sound(M), NEW q, NEW r, NEW n \in Ring(M, q, r)
  PROVE  \E t \in TriIn(M) : n \in NodesOf(t) /\ Touches(q, r, t)
<1>1. PICK c \in M : n \in NodesOf(c) /\ Touches(q, r, c)
  BY DEF Ring, Verts, Touched
<1>2. CASE c \in TriIn(M)
  BY <1>1, <1>2
<1>3. CASE c \in EdgIn(M)
  <2>1. PICK t \in TriIn(M) : NodesOf(c) \subseteq NodesOf(t)
    BY <1>3 DEF Sound, OnSide
  <2> QED
    BY <1>1, <2>1 DEF Touches
<1> QED
  BY <1>2, <1>3, Kinds DEF Sound

(* When the tri around a node are all its own, the other cells are too. *)
OwnTri(M, q, r, n) == \A t \in TriIn(M) : n \in NodesOf(t) => \A x \in NodesOf(t) : q[x] = r

(* The edg around such a node are the rank's own too: each is the side of a tri. *)
LEMMA AllAround ==
  ASSUME NEW M, Sound(M), NEW q, NEW r, NEW n, OwnTri(M, q, r, n), NEW c \in M, n \in NodesOf(c)
  PROVE  \A x \in NodesOf(c) : q[x] = r
<1>0. \A t \in TriIn(M) : n \in NodesOf(t) => \A x \in NodesOf(t) : q[x] = r
  BY DEF OwnTri
<1>1. CASE c \in TriIn(M)
  BY <1>0, <1>1
<1>2. CASE c \in EdgIn(M)
  <2>1. PICK t \in TriIn(M) : NodesOf(c) \subseteq NodesOf(t)
    BY <1>2 DEF Sound, OnSide
  <2> QED
    BY <1>0, <2>1
<1> QED
  BY <1>1, <1>2, Kinds DEF Sound

(* The test ref_*_local_cell on the tri around a held node. *)
LEMMA LocalCell ==
  ASSUME NEW M, NEW q, NEW V, NEW G, Whole(M, q, V, G), NEW r \in Rank,
         NEW g, g = Piece(M, q, V, G, r), NEW n \in Held(g), AllOwned(g, r, Having(g, "tri", n))
  PROVE  /\ q[n] = r /\ n \in Verts(M)
         /\ \A c \in M : n \in NodesOf(c) => \A x \in NodesOf(c) : q[x] = r
<1>0. Sound(M)
  BY DEF Whole
<1>1. Held(g) = Ring(M, q, r) /\ g.cell = Touched(M, q, r)
      /\ \A m \in Ring(M, q, r) : ref_node_owned(g, r, m) <=> q[m] = r
  BY PieceSees
<1>2. ASSUME NEW t \in TriIn(M), n \in NodesOf(t), Touches(q, r, t)
      PROVE  \A x \in NodesOf(t) : q[x] = r
  <2>1. t \in Having(g, "tri", n)
    BY <1>1, <1>2 DEF Having, Touched, TriIn
  <2>2. NodesOf(t) \subseteq Ring(M, q, r)
    BY <1>2 DEF Ring, Verts, Touched, TriIn
  <2>3. \A x \in NodesOf(t) : ref_node_owned(g, r, x)
    BY <2>1 DEF AllOwned
  <2> QED
    BY <1>1, <2>2, <2>3
<1>3. q[n] = r
  BY <1>0, <1>1, <1>2, TriHeld
<1>4. OwnTri(M, q, r, n)
  BY <1>2, <1>3 DEF Touches, OwnTri
<1>5. n \in Verts(M)
  BY <1>1, RingIn
<1>6. ASSUME NEW c \in M, n \in NodesOf(c) PROVE \A x \in NodesOf(c) : q[x] = r
  BY <1>0, <1>4, <1>6, AllAround
<1> QED
  BY <1>3, <1>5, <1>6

(* ref_smooth_pass on one node. *)
LEMMA SmoothStep ==
  ASSUME NEW M, NEW q, NEW V, NEW G, Whole(M, q, V, G), grid = Shares(M, q, V, G),
         NEW r \in Rank, NEW n \in Held(grid[r]), Smooth(r, n)
  PROVE  Good(grid')
<1> DEFINE g == grid[r]
           W == [m \in Verts(M) |-> IF m = n THEN 1 - V[m] ELSE V[m]]
           H == [k \in DOMAIN G |-> IF k[1] = n /\ SmoothGeom(g, n) THEN 1 - G[k] ELSE G[k]]
           h == [node |-> [m \in Held(g) |->
                           [part |-> g.node[m].part,
                            real |-> IF m = n THEN 1 - g.node[m].real ELSE g.node[m].real]],
                 cell |-> g.cell,
                 geom |-> [k \in DOMAIN g.geom |->
                           IF k[1] = n /\ SmoothGeom(g, n) THEN 1 - g.geom[k]
                                                           ELSE g.geom[k]]]
<1>1. g = Piece(M, q, V, G, r)
  BY DEF Shares
<1>2. grid' = [grid EXCEPT ![r] = h] /\ AllOwned(g, r, Having(g, "tri", n))
  BY DEF Smooth, Commit, ref_smooth_local_cell_about
<1>3. /\ q[n] = r /\ n \in Verts(M)
      /\ \A c \in M : n \in NodesOf(c) => \A x \in NodesOf(c) : q[x] = r
  <2> HIDE DEF g
  <2> QED
    BY <1>1, <1>2, LocalCell DEF g
<1>4. Whole(M, q, W, H)
  <2>1. W \in [Verts(M) -> {0, 1}] /\ H \in [DOMAIN H -> {0, 1}] /\ DOMAIN H = DOMAIN G
    BY DEF Whole
  <2> QED
    BY <2>1 DEF Whole
<1>5. ASSUME NEW s \in Rank, s # r PROVE n \notin Ring(M, q, s)
  BY <1>3, <1>5 DEF Ring, Verts, Touched, Touches
<1>6. \A s \in Rank : s # r => SameFor(Ring(M, q, s), V, W, G, H)
  <2>1. \A s \in Rank : Ring(M, q, s) \subseteq Verts(M)
    BY RingIn
  <2> QED
    BY <1>5, <2>1 DEF SameFor, Recs
<1>7. LocalTo(M, M, q, q, r)
  BY DEF LocalTo
<1>8. h = Piece(M, q, W, H, r)
  <2>1. /\ Held(g) = Ring(M, q, r) /\ g.cell = Touched(M, q, r)
        /\ DOMAIN g.geom = Recs(G, Ring(M, q, r)) /\ \A k \in DOMAIN g.geom : g.geom[k] = G[k]
        /\ \A m \in Ring(M, q, r) : g.node[m].part = q[m] /\ g.node[m].real = V[m]
    BY <1>1, PieceSees
  <2>2. Ring(M, q, r) \subseteq Verts(M)
    BY RingIn
  <2>3. h.geom = [k \in Recs(H, Ring(M, q, r)) |-> H[k]]
    BY <2>1 DEF Recs
  <2>4. h.node = [m \in Ring(M, q, r) |-> [part |-> q[m], real |-> W[m]]]
    BY <2>1, <2>2
  <2> QED
    BY <2>1, <2>3, <2>4 DEF Piece
<1>9. [grid EXCEPT ![r] = Piece(M, q, W, H, r)] = grid'
  BY <1>2, <1>8
<1> HIDE DEF W, H, h
<1>10. Good([grid EXCEPT ![r] = Piece(M, q, W, H, r)])
  BY <1>4, <1>6, <1>7, LocalStep
<1> QED
  BY <1>9, <1>10

(* The free number a new node takes. *)
LEMMA FreeNumber ==
  ASSUME NEW M, NEW q, NEW V, NEW G, Whole(M, q, V, G), grid = Shares(M, q, V, G),
         NEW new, new = Min((1 .. MaxNode + 1) \ LiveNodes)
  PROVE  new \in Nat /\ new \notin Verts(M) /\ 1 <= new
<1> DEFINE S == (1 .. MaxNode + 1) \ LiveNodes
<1>1. LiveNodes = Verts(M) /\ Verts(M) \subseteq 1 .. MaxNode /\ MaxNode \in Nat
  BY LiveIs, GridAssumption DEF Whole
<1>2. S \subseteq Nat /\ MaxNode + 1 \in S
  BY <1>1
<1>3. \E x \in S : \A y \in S : x <= y
  BY <1>2, LeastNatural
<1>4. new \in S
  BY <1>3 DEF Min
<1> QED
  BY <1>1, <1>4

(* Of an edge all of whose tri are local, the ends are owned, and the gem is that of the whole grid *)
LEMMA GemLocal ==
  ASSUME NEW M, NEW q, NEW V, NEW G, Whole(M, q, V, G), NEW r \in Rank,
         NEW g, g = Piece(M, q, V, G, r), NEW n0, NEW n1, n0 # n1,
         ref_cell_list_with2(g, "tri", n0, n1) # {},
         AllOwned(g, r, ref_cell_list_with2(g, "tri", n0, n1))
  PROVE  /\ q[n0] = r /\ q[n1] = r /\ Near(M, n0, n1)
         /\ \A kind : ref_cell_list_with2(g, kind, n0, n1)
                        = {c \in M : c.kind = kind /\ Gone(n0, n1, c)}
         /\ \A c \in M : Gone(n0, n1, c) => \A x \in NodesOf(c) : q[x] = r
<1>0. AllFormed(M)
  BY DEF Whole, Sound
<1>1. Held(g) = Ring(M, q, r) /\ g.cell = Touched(M, q, r)
      /\ \A m \in Ring(M, q, r) : ref_node_owned(g, r, m) <=> q[m] = r
  BY PieceSees
<1>2. \A c \in g.cell : c \in M /\ NodesOf(c) \subseteq Ring(M, q, r)
  BY <1>1 DEF Touched, Ring, Verts
<1>3. \A c \in ref_cell_list_with2(g, "tri", n0, n1) :
        /\ c \in TriIn(M) /\ n0 \in NodesOf(c) /\ n1 \in NodesOf(c)
        /\ \A x \in NodesOf(c) : q[x] = r
  BY <1>1, <1>2 DEF ref_cell_list_with2, Having, AllOwned, TriIn
<1>4. PICK t : t \in ref_cell_list_with2(g, "tri", n0, n1)
  OBVIOUS
<1>5. q[n0] = r /\ q[n1] = r /\ Near(M, n0, n1)
  BY <1>3, <1>4 DEF Near
<1>6. ASSUME NEW kind PROVE Having(g, kind, n0) = {c \in M : c.kind = kind /\ n0 \in NodesOf(c)}
  BY <1>1, <1>5 DEF Having, Touched, Touches
<1>7. ASSUME NEW kind PROVE Having(g, kind, n1) = {c \in M : c.kind = kind /\ n1 \in NodesOf(c)}
  BY <1>1, <1>5 DEF Having, Touched, Touches
<1>8. ASSUME NEW kind
      PROVE  ref_cell_list_with2(g, kind, n0, n1) = {c \in M : c.kind = kind /\ Gone(n0, n1, c)}
  BY <1>6, <1>7 DEF ref_cell_list_with2, Gone
<1>9. ASSUME NEW c \in M, Gone(n0, n1, c) PROVE \A x \in NodesOf(c) : q[x] = r
  <2>1. CASE c \in TriIn(M)
    <3>1. c \in ref_cell_list_with2(g, "tri", n0, n1)
      BY <1>8, <1>9, <2>1 DEF TriIn
    <3> QED
      BY <1>3, <3>1
  <2>2. CASE c \in EdgIn(M)
    <3>1. PICK x, y : NodesOf(c) = {x, y}
      BY <1>0, <2>2, MeshEnds
    <3> QED
      BY <1>5, <1>9, <3>1 DEF Gone
  <2> QED
    BY <1>0, <2>1, <2>2, Kinds
<1> QED
  BY <1>5, <1>8, <1>9

(* The cells on the edge n0 - n1 are all r's own (ref_cell_local_gem). *)
OwnGem(M, q, r, n0, n1) == \A c \in M : Gone(n0, n1, c) => \A x \in NodesOf(c) : q[x] = r

(* What a split does to the cells of the whole grid stays local. *)
LEMMA HalvedLocal ==
  ASSUME NEW M, NEW n0, NEW n1, NEW new, Splittable(M, n0, n1, new), NEW q, NEW r, NEW p,
         p = [n \in Verts(M) \cup {new} |-> IF n = new THEN r ELSE q[n]],
         OwnGem(M, q, r, n0, n1)
  PROVE  /\ LocalTo(M, Halved(M, n0, n1, new), q, p, r)
         /\ \A c \in M : c \in Halved(M, n0, n1, new) <=> ~ Gone(n0, n1, c)
         /\ \A c \in M : Gone(n0, n1, c) =>
              ref_cell_replace_node(c, n0, new) \notin M /\ ref_cell_replace_node(c, n1, new) \notin M
<1> DEFINE N == Halved(M, n0, n1, new)
<1>0. Sound(M) /\ n0 # n1 /\ new \notin Verts(M)
  BY DEF Splittable
<1>1. \A c \in M : new \notin NodesOf(c)
  BY <1>0 DEF Verts
<1>2. ASSUME NEW c \in M, NEW h, NEW a, NEW b, Part(n0, n1, new, c, a, b, h)
      PROVE  h \notin M /\ \A x \in NodesOf(h) : p[x] = r
  <2>1. NodesOf(h) = (NodesOf(c) \ {a}) \cup {new} /\ Gone(n0, n1, c)
    BY <1>0, <1>2, PartNodes DEF Part
  <2>2. h \notin M
    BY <1>1, <2>1
  <2>3. \A x \in NodesOf(c) : q[x] = r /\ x \in Verts(M)
    BY <2>1 DEF Verts, OwnGem
  <2> QED
    BY <2>1, <2>2, <2>3
<1>3. \A h \in N : h \notin M => \A x \in NodesOf(h) : p[x] = r
  BY <1>2, HalvedCells
<1>4. \A c \in M : c \in N <=> ~ Gone(n0, n1, c)
  BY <1>2, HalvedCells
<1>5. \A n \in Verts(M) : p[n] = q[n]
  BY <1>0
<1>6. LocalTo(M, N, q, p, r)
  <2> HIDE DEF N
  <2> QED
    BY <1>3, <1>4, <1>5 DEF LocalTo, OwnGem
<1>7. ASSUME NEW c \in M, Gone(n0, n1, c)
      PROVE  ref_cell_replace_node(c, n0, new) \notin M /\ ref_cell_replace_node(c, n1, new) \notin M
  <2>1. \E h : Part(n0, n1, new, c, n0, n1, h)
    BY <1>7, HalvedCells DEF Ends
  <2>2. \E h : Part(n0, n1, new, c, n1, n0, h)
    BY <1>7, HalvedCells DEF Ends
  <2> QED
    BY <1>2, <2>1, <2>2 DEF Part
<1> QED
  BY <1>4, <1>6, <1>7

(* The first two entries of two lists put together. *)
LEMMA ConcatHeads ==
  ASSUME NEW S, NEW s \in Seq(S), NEW t \in Seq(S), Len(s) = 1, Len(t) = 2
  PROVE  (s \o t)[1] = s[1] /\ (s \o t)[2] = t[1]
<1>1. \A i \in 1 .. Len(s) + Len(t) : (s \o t)[i] = IF i <= Len(s) THEN s[i] ELSE t[i - Len(s)]
  BY ConcatProperties, Zenon
<1>2. \A x : (\A i \in 1 .. 1 + 2 : x[i] = IF i <= 1 THEN s[i] ELSE t[i - 1])
             => x[1] = s[1] /\ x[2] = t[1]
  OBVIOUS
<1>3. \A i \in 1 .. 1 + 2 : (s \o t)[i] = IF i <= 1 THEN s[i] ELSE t[i - 1]
  BY <1>1, Zenon
<1> QED
  BY <1>2, <1>3, Zenon

(* The keys of the records of a new node. *)
LEMMA NewKeys ==
  ASSUME NEW g, NEW n0, NEW n1, NEW new, NEW k \in ref_geom_add_between(g, n0, n1)
  PROVE  (<<new>> \o k)[1] = new /\ (<<new>> \o k)[2] \in {"node", "edge", "face"}
<1>1. GeomAt(g, n0) # {} /\ GeomAt(g, n1) # {}
  BY DEF ref_geom_add_between
<1>2. \/ \E c : k = <<"edge", c.id>>
      \/ \E c : k = <<"face", c.id>>
  BY <1>1 DEF ref_geom_add_between
<1>3. PICK type, id : type \in {"edge", "face"} /\ k = <<type, id>>
  BY <1>2
<1>4. PICK S : S = {new, type, id}
  OBVIOUS
<1>5. <<new>> \in Seq(S) /\ k \in Seq(S) /\ Len(<<new>>) = 1 /\ Len(k) = 2
  BY <1>3, <1>4
<1>6. PICK s : s = <<new>>
  OBVIOUS
<1>7. (s \o k)[1] = s[1] /\ (s \o k)[2] = k[1]
  BY <1>5, <1>6, ConcatHeads
<1>8. k[1] = type /\ s[1] = new
  BY <1>3, <1>6
<1>9. (s \o k)[1] = new /\ (s \o k)[2] \in {"node", "edge", "face"}
  BY <1>3, <1>7, <1>8
<1> QED
  BY <1>6, <1>9, Zenon

(* ref_split_pass on one edge. *)
LEMMA SplitStep ==
  ASSUME NEW M, NEW q, NEW V, NEW G, Whole(M, q, V, G), grid = Shares(M, q, V, G),
         NEW r \in Rank, NEW n0, NEW n1, n0 # n1, Split(r, n0, n1)
  PROVE  Good(grid')
<1> DEFINE g == grid[r]
           new == Min((1 .. MaxNode + 1) \ LiveNodes)
           rec == {<<new>> \o k : k \in ref_geom_add_between(g, n0, n1)}
           h == [node |-> [n \in Held(g) \cup {new} |->
                                   IF n = new THEN [part |-> r, real |-> 0]
                                              ELSE g.node[n]],
                      cell |-> ref_split_edge(g, n0, n1, new),
                      geom |-> [k \in DOMAIN g.geom \cup rec |->
                                   IF k \in rec THEN 0 ELSE g.geom[k]]]
           N == Halved(M, n0, n1, new)
           p == [n \in Verts(M) \cup {new} |-> IF n = new THEN r ELSE q[n]]
           W == [n \in Verts(M) \cup {new} |-> IF n = new THEN 0 ELSE V[n]]
           H == [k \in DOMAIN G \cup rec |-> IF k \in rec THEN 0 ELSE G[k]]
<1>0. CASE Fail
  <2>1. grid' = grid
    BY <1>0 DEF Fail
  <2> QED
    BY <2>1 DEF Good
<1>1. CASE ~ Fail
  <2>1. /\ ref_cell_list_with2(g, "tri", n0, n1) # {} /\ new <= MaxNode
        /\ AllOwned(g, r, ref_cell_list_with2(g, "tri", n0, n1))
        /\ grid' = [grid EXCEPT ![r] = h]
    BY <1>1 DEF Split, Commit, ref_cell_local_gem
  <2>2. new \in Nat /\ new \notin Verts(M) /\ 1 <= new
    BY FreeNumber
  <2>3. g = Piece(M, q, V, G, r)
    BY DEF Shares
  <2>4. /\ q[n0] = r /\ q[n1] = r /\ Near(M, n0, n1)
        /\ \A kind : ref_cell_list_with2(g, kind, n0, n1)
                        = {c \in M : c.kind = kind /\ Gone(n0, n1, c)}
        /\ \A c \in M : Gone(n0, n1, c) => \A x \in NodesOf(c) : q[x] = r
    <3> HIDE DEF g
    <3> QED
      BY <2>1, <2>3, GemLocal
  <2>5. Splittable(M, n0, n1, new) /\ Sound(M) /\ Euler(M) /\ AllFormed(M)
    BY <2>2, <2>4 DEF Splittable, Whole, Sound
  <2> HIDE DEF new
  <2>6. \A k \in rec : k[1] = new /\ k[2] \in {"node", "edge", "face"}
    <3> TAKE k \in rec
    <3>1. PICK j \in ref_geom_add_between(g, n0, n1) : k = <<new>> \o j
      OBVIOUS
    <3> HIDE DEF rec, g
    <3>2. (<<new>> \o j)[1] = new /\ (<<new>> \o j)[2] \in {"node", "edge", "face"}
      BY NewKeys, Zenon
    <3> QED
      BY <3>1, <3>2, Zenon
  <2>7. /\ LocalTo(M, N, q, p, r)
        /\ \A c \in M : c \in N <=> ~ Gone(n0, n1, c)
        /\ \A c \in M : Gone(n0, n1, c) =>
             ref_cell_replace_node(c, n0, new) \notin M /\ ref_cell_replace_node(c, n1, new) \notin M
    <3>1. OwnGem(M, q, r, n0, n1)
      BY <2>4 DEF OwnGem
    <3> HIDE DEF N
    <3> QED
      BY <2>5, <3>1, HalvedLocal DEF N
  <2>8. Sound(N) /\ Euler(N) /\ Verts(N) = Verts(M) \cup {new} /\ AllFormed(N)
    BY <2>5, HalvedSound, HalvedEuler, HalvedVerts, HalvedFormed
  <2>9. \A k \in rec : k \notin DOMAIN G
    BY <2>2, <2>6 DEF Whole
  <2>10. Whole(N, p, W, H)
    <3>1. Verts(N) \subseteq 1 .. MaxNode
      BY <2>1, <2>2, <2>8, GridAssumption DEF Whole
    <3>2. p \in [Verts(N) -> Rank] /\ W \in [Verts(N) -> {0, 1}]
      <4> HIDE DEF N
      <4> QED
        BY <2>8 DEF Whole
    <3>3. H \in [DOMAIN H -> {0, 1}] /\ DOMAIN H = DOMAIN G \cup rec
      <4> HIDE DEF rec
      <4> QED
        BY DEF Whole
    <3>4. \A k \in DOMAIN H : k[1] \in Verts(N) /\ k[2] \in {"node", "edge", "face"}
      <4> HIDE DEF N, rec
      <4> QED
        BY <2>6, <2>8 DEF Whole
    <3> HIDE DEF N, p, W, H, rec
    <3> QED
      BY <2>8, <3>1, <3>2, <3>3, <3>4 DEF Whole
  <2>11. /\ Touched(N, p, r) = {c \in Touched(M, q, r) : c \in N} \cup {c \in N : c \notin M}
         /\ Ring(N, p, r) = {n \in Ring(M, q, r) : n \in Verts(N)} \cup {n \in Verts(N) : n \notin Verts(M)}
    <3> HIDE DEF N, p
    <3> QED
      BY <2>7, <2>8, OwnChange
  <2>12. \A s : Ring(M, q, s) \subseteq Verts(M)
    BY RingIn
  <2>13. Ring(N, p, r) = Ring(M, q, r) \cup {new}
    <3> HIDE DEF N, p
    <3> QED
      BY <2>2, <2>8, <2>11, <2>12
  <2>14. \A s \in Rank : s # r => SameFor(Ring(M, q, s), V, W, G, H)
    <3> HIDE DEF N, rec
    <3> QED
      BY <2>2, <2>6, <2>12 DEF SameFor, Recs
  <2>15. /\ Held(g) = Ring(M, q, r) /\ g.cell = Touched(M, q, r)
         /\ DOMAIN g.geom = Recs(G, Ring(M, q, r)) /\ \A k \in DOMAIN g.geom : g.geom[k] = G[k]
         /\ g.node = [n \in Ring(M, q, r) |-> [part |-> q[n], real |-> V[n]]]
    BY <2>3, PieceSees DEF Piece
  <2>16. h.cell = Touched(N, p, r)
    <3>1. UNION {ref_cell_list_with2(g, kind, n0, n1) : kind \in {"tri", "edg"}}
            = {c \in M : Gone(n0, n1, c)}
      <4>1. \A c \in M : c.kind \in {"tri", "edg"}
        BY <2>5 DEF AllFormed, Formed
      <4> HIDE DEF g
      <4> QED
        BY <2>4, <4>1
    <3>2. h.cell = (Touched(M, q, r) \ {c \in M : Gone(n0, n1, c)})
              \cup {ref_cell_replace_node(c, n0, new) : c \in {c \in M : Gone(n0, n1, c)}}
              \cup {ref_cell_replace_node(c, n1, new) : c \in {c \in M : Gone(n0, n1, c)}}
      <4> HIDE DEF g
      <4> QED
        BY <2>15, <3>1 DEF ref_split_edge
    <3>3. {c \in N : c \notin M} = {ref_cell_replace_node(c, n0, new) : c \in {c \in M : Gone(n0, n1, c)}}
              \cup {ref_cell_replace_node(c, n1, new) : c \in {c \in M : Gone(n0, n1, c)}}
      BY <2>7 DEF Halved
    <3>4. {c \in Touched(M, q, r) : c \in N} = Touched(M, q, r) \ {c \in M : Gone(n0, n1, c)}
      BY <2>7 DEF Touched
    <3> HIDE DEF h, N, p
    <3> QED
      BY <2>11, <3>2, <3>3, <3>4
  <2>17. h.node = [n \in Ring(N, p, r) |-> [part |-> p[n], real |-> W[n]]]
    <3> DEFINE R == Ring(N, p, r)
    <3>1. R = Ring(M, q, r) \cup {new}
      BY <2>13
    <3> HIDE DEF R, N
    <3>2. h.node = [n \in R |-> IF n = new THEN [part |-> r, real |-> 0]
                                   ELSE [part |-> q[n], real |-> V[n]]]
      BY <2>15, <3>1
    <3>3. \A n \in R : n \in Verts(M) \cup {new}
      BY <2>12, <3>1
    <3>4. h.node = [n \in R |-> [part |-> p[n], real |-> W[n]]]
      <4> HIDE DEF h
      <4> QED
        BY <3>2, <3>3
    <3> QED
      BY <3>4 DEF R
  <2>18. h.geom = [k \in Recs(H, Ring(N, p, r)) |-> H[k]]
    <3>1. Recs(H, Ring(N, p, r)) = Recs(G, Ring(M, q, r)) \cup rec
      <4> HIDE DEF N, p, rec
      <4> QED
        BY <2>2, <2>6, <2>9, <2>13 DEF Recs, Whole
    <3>2. DOMAIN g.geom \subseteq DOMAIN G
      BY <2>15 DEF Recs
    <3> HIDE DEF N, p, rec, g
    <3> QED
      BY <2>15, <3>1, <3>2
  <2>19. h = Piece(N, p, W, H, r)
    <3> HIDE DEF N, p, W, H
    <3> QED
      BY <2>16, <2>17, <2>18 DEF Piece
  <2> HIDE DEF N, p, W, H, h
  <2>20. Good([grid EXCEPT ![r] = Piece(N, p, W, H, r)])
    BY <2>7, <2>10, <2>14, LocalStep
  <2> QED
    BY <2>1, <2>19, <2>20
<1> QED
  BY <1>0, <1>1

(* ref_swap_node23: the tri goes from n0 to n1 and on to the node found. *)
LEMMA CirclesFrom ==
  ASSUME NEW t, Formed(t), t.kind = "tri", NEW x \in Nat, NEW y \in Nat, NEW z \in Nat, NEW id,
         t.nodes = Cell("tri", <<x, y, z>>, id).nodes
  PROVE  Circles(t, x, y, z)
<1>0. PICK s : s = <<x, y, z>>
  OBVIOUS
<1>1. s \in [1 .. 3 -> Nat] /\ s[1] = x /\ s[2] = y /\ s[3] = z
  BY <1>0
<1>2. PICK u : u = Cell("tri", s, id)
  OBVIOUS
<1>3. PICK m : m = u.nodes
  OBVIOUS
<1>4. \/ m[1] = x /\ m[2] = y /\ m[3] = z
      \/ m[1] = y /\ m[2] = z /\ m[3] = x
      \/ m[1] = z /\ m[2] = x /\ m[3] = y
  BY <1>1, <1>2, <1>3, CellTurns
<1>5. t.nodes = m
  BY <1>0, <1>2, <1>3
<1>6. Circles(t, m[1], m[2], m[3])
  BY <1>5, TriCircles
<1>7. Circles(t, m[2], m[3], m[1]) /\ Circles(t, m[3], m[1], m[2])
  BY <1>6, CirclesAround
<1> QED
  BY <1>4, <1>6, <1>7

(* The two tri of a side that can be swapped. *)
LEMMA SwapPair ==
  ASSUME NEW M, Sound(M), NEW n0, NEW n1, n0 # n1, NEW n2, NEW n3, NEW t \in TriIn(M),
         NEW u \in TriIn(M), Circles(t, n0, n1, n2), Circles(u, n1, n0, n3)
  PROVE  /\ t # u /\ n2 # n3
         /\ \A c \in M : c.kind = "tri" /\ Gone(n0, n1, c) <=> c = t \/ c = u
<1>0. AllFormed(M) /\ OneWay(M) /\ Single(M)
  BY DEF Sound
<1>1. To(t, n0, n1) /\ To(u, n1, n0) /\ NodesOf(t) = {n0, n1, n2} /\ NodesOf(u) = {n1, n0, n3}
  BY DEF Circles, To
<1>2. t # u
  BY <1>0, <1>1, MeshSides
<1>3. n2 # n3
  BY <1>0, <1>1, <1>2 DEF Single, TriIn
<1>4. ASSUME NEW c \in TriIn(M), Gone(n0, n1, c) PROVE c = t \/ c = u
  <2>1. To(c, n0, n1) \/ To(c, n1, n0)
    BY <1>0, <1>4, MeshSides DEF Gone
  <2> QED
    BY <1>0, <1>1, <2>1 DEF OneWay
<1> QED
  BY <1>1, <1>2, <1>3, <1>4 DEF TriIn, Gone

(* ref_swap_tri_pass on one edge. *)
LEMMA SwapStep ==
  ASSUME NEW M, NEW q, NEW V, NEW G, Whole(M, q, V, G), grid = Shares(M, q, V, G),
         NEW r \in Rank, NEW n0, NEW n1, n0 # n1, Swap(r, n0, n1)
  PROVE  Good(grid')
<1> DEFINE g == grid[r]
           tri == ref_cell_list_with2(g, "tri", n0, n1)
<1>0. CASE Fail
  <2>1. grid' = grid
    BY <1>0 DEF Fail
  <2> QED
    BY <2>1 DEF Good
<1>1. CASE ~ Fail
  <2>1. /\ ref_cell_list_with2(g, "edg", n0, n1) = {}
        /\ tri # {} /\ SameFace(tri) /\ AllOwned(g, r, tri)
    BY <1>1 DEF Swap, ref_swap_local_cell
  <2>2. PICK n2 \in ref_swap_node23(g, n0, n1), n3 \in ref_swap_node23(g, n1, n0) :
          /\ ref_swap_manifold(g, n0, n1, n2, n3)
          /\ grid' = [grid EXCEPT ![r] = [g EXCEPT !.cell = SwapCells(g, n0, n1, n2, n3)]]
    BY <1>1 DEF Swap, Commit
  <2>3. g = Piece(M, q, V, G, r)
    BY DEF Shares
  <2> HIDE DEF g
  <2>4. /\ q[n0] = r /\ q[n1] = r
        /\ \A kind : ref_cell_list_with2(g, kind, n0, n1)
                        = {c \in M : c.kind = kind /\ Gone(n0, n1, c)}
        /\ \A c \in M : Gone(n0, n1, c) => \A x \in NodesOf(c) : q[x] = r
    BY <2>1, <2>3, GemLocal
  <2>5. tri = {c \in M : c.kind = "tri" /\ Gone(n0, n1, c)}
        /\ ref_cell_list_with2(g, "tri", n1, n0) = tri
    BY <2>4 DEF ref_cell_list_with2
  <2>6. Sound(M) /\ AllFormed(M) /\ Euler(M) /\ Verts(M) \subseteq Nat
    BY GridAssumption DEF Whole, Sound
  <2>7. Held(g) = Ring(M, q, r) /\ g.cell = Touched(M, q, r)
    BY <2>3, PieceSees
  <2>8. n2 \in Verts(M) /\ n3 \in Verts(M)
    BY <2>2, <2>7, RingIn DEF ref_swap_node23
  <2> HIDE DEF tri
  <2>9. PICK t : t \in tri /\ t.nodes = Cell("tri", <<n0, n1, n2>>, t.id).nodes
    BY <2>2 DEF ref_swap_node23, tri
  <2>10. PICK u : u \in tri /\ u.nodes = Cell("tri", <<n1, n0, n3>>, u.id).nodes
    BY <2>2, <2>5 DEF ref_swap_node23
  <2>11. /\ t \in M /\ t \in TriIn(M) /\ u \in M /\ u \in TriIn(M) /\ Formed(t) /\ Formed(u)
         /\ Gone(n0, n1, t) /\ Gone(n0, n1, u)
    BY <2>5, <2>6, <2>9, <2>10 DEF TriIn, AllFormed
  <2>12. n0 \in Nat /\ n1 \in Nat /\ n2 \in Nat /\ n3 \in Nat
    BY <2>6, <2>8, <2>11 DEF Gone, Verts
  <2>13. Circles(t, n0, n1, n2) /\ Circles(u, n1, n0, n3)
    BY <2>9, <2>10, <2>11, <2>12, CirclesFrom DEF TriIn
  <2>14. t # u /\ n2 # n3 /\ tri = {t, u}
    <3>1. /\ t # u /\ n2 # n3
          /\ \A c \in M : c.kind = "tri" /\ Gone(n0, n1, c) <=> c = t \/ c = u
      BY <2>6, <2>11, <2>13, SwapPair
    <3> QED
      BY <2>5, <2>11, <3>1
  <2>15. t.id = u.id
    <3>1. PICK S : S = {t.id, u.id}
      OBVIOUS
    <3>2. IsFiniteSet(S)
      <4>1. PICK P : P = {t.id}
        OBVIOUS
      <4>2. IsFiniteSet(P)
        BY <4>1, FS_Singleton
      <4>3. S = P \cup {u.id}
        BY <3>1, <4>1
      <4> QED
        BY <4>2, <4>3, FS_AddElement
    <3>3. S = {c.id : c \in tri}
      BY <2>14, <3>1
    <3>4. Cardinality(S) = 1
      BY <2>1, <3>3 DEF SameFace, tri
    <3>5. \E x : S = {x}
      BY <3>2, <3>4, CardOne
    <3> QED
      BY <3>1, <3>5
  <2>16. PICK a : a = Cell("tri", <<n0, n3, n2>>, t.id)
    OBVIOUS
  <2>17. PICK b : b = Cell("tri", <<n1, n2, n3>>, t.id)
    OBVIOUS
  <2>18. n0 # n1 /\ n0 # n2 /\ n0 # n3 /\ n1 # n2 /\ n1 # n3 /\ n2 # n3
    BY <2>13, <2>14 DEF Circles
  <2>19. Circles(a, n0, n3, n2) /\ a.id = t.id
    <3>1. PICK s : s = <<n0, n3, n2>>
      OBVIOUS
    <3>2. s \in [1 .. 3 -> Nat] /\ s[1] = n0 /\ s[2] = n3 /\ s[3] = n2
      BY <2>12, <3>1
    <3> QED
      BY <2>12, <2>16, <2>18, <3>1, <3>2, NewTri
  <2>20. Circles(b, n1, n2, n3) /\ b.id = t.id
    <3>1. PICK s : s = <<n1, n2, n3>>
      OBVIOUS
    <3>2. s \in [1 .. 3 -> Nat] /\ s[1] = n1 /\ s[2] = n2 /\ s[3] = n3
      BY <2>12, <3>1
    <3> QED
      BY <2>12, <2>17, <2>18, <3>1, <3>2, NewTri
  <2>21. ~ EdgOn(M, n0, n1)
    BY <2>1, <2>4 DEF EdgOn, EdgIn, Gone
  <2>22. q[n2] = r /\ q[n3] = r
    BY <2>4, <2>11, <2>13 DEF Circles
  <2>23. ~ Near(M, n2, n3)
    <3>1. Having(g, "tri", n2) = {c \in M : c.kind = "tri" /\ n2 \in NodesOf(c)}
      BY <2>7, <2>22 DEF Having, Touched, Touches
    <3>2. Having(g, "tri", n3) = {c \in M : c.kind = "tri" /\ n3 \in NodesOf(c)}
      BY <2>7, <2>22 DEF Having, Touched, Touches
    <3> QED
      BY <2>2, <3>1, <3>2 DEF ref_swap_manifold, ref_cell_list_with2, Near, TriIn
  <2>24. Swappable(M, n0, n1, n2, n3, t, u, a, b)
    BY <2>6, <2>11, <2>13, <2>15, <2>19, <2>20, <2>21, <2>23 DEF Swappable
  <2>25. PICK N : N = Turn(M, t, u, a, b)
    OBVIOUS
  <2>26. Sound(N) /\ Euler(N) /\ Verts(N) = Verts(M) /\ AllFormed(N)
    BY <2>6, <2>24, <2>25, SwapSound, SwapEuler DEF Sound
  <2>27. a \notin M /\ b \notin M /\ NodesOf(t) = {n0, n1, n2} /\ NodesOf(u) = {n1, n0, n3}
         /\ NodesOf(a) = {n0, n3, n2} /\ NodesOf(b) = {n1, n2, n3}
    BY <2>24, SwapCellsOf
  <2>28. Whole(N, q, V, G)
    BY <2>26 DEF Whole
  <2>29. \A c \in M : c \in N <=> c # t /\ c # u
    BY <2>25, <2>27 DEF Turn
  <2>30. \A c : c \in N /\ c \notin M <=> c = a \/ c = b
    BY <2>25, <2>27 DEF Turn
  <2>31. LocalTo(M, N, q, q, r)
    <3>1. \A c \in M : c \notin N => \A n \in NodesOf(c) : q[n] = r
      BY <2>4, <2>11, <2>29
    <3>2. \A c \in N : c \notin M => \A n \in NodesOf(c) : q[n] = r
      BY <2>4, <2>22, <2>27, <2>30
    <3> QED
      BY <3>1, <3>2 DEF LocalTo
  <2>32. /\ Touched(N, q, r) = {c \in Touched(M, q, r) : c \in N} \cup {c \in N : c \notin M}
         /\ Ring(N, q, r) = {n \in Ring(M, q, r) : n \in Verts(N)} \cup {n \in Verts(N) : n \notin Verts(M)}
    BY <2>26, <2>31, OwnChange
  <2>33. Touched(N, q, r) = (Touched(M, q, r) \ {t, u}) \cup {a, b}
    BY <2>29, <2>30, <2>32 DEF Touched
  <2>34. Ring(N, q, r) = Ring(M, q, r)
    BY <2>26, <2>32, RingIn
  <2>35. SwapCells(g, n0, n1, n2, n3) = Touched(N, q, r)
    <3>1. UNION {{Cell("tri", <<n0, n3, n2>>, c.id), Cell("tri", <<n1, n2, n3>>, c.id)} : c \in tri}
            = {a, b}
      BY <2>14, <2>15, <2>16, <2>17
    <3> QED
      BY <2>7, <2>14, <2>33, <3>1 DEF SwapCells, tri
  <2>36. [g EXCEPT !.cell = Touched(N, q, r)] = Piece(N, q, V, G, r)
    BY <2>3, <2>34 DEF Piece
  <2>37. \A s \in Rank : s # r => SameFor(Ring(M, q, s), V, V, G, G)
    BY DEF SameFor
  <2>38. Good([grid EXCEPT ![r] = Piece(N, q, V, G, r)])
    BY <2>28, <2>31, <2>37, LocalStep
  <2> QED
    BY <2>2, <2>35, <2>36, <2>38
<1> QED
  BY <1>0, <1>1

(* Every cell around n is owned by r. *)
OwnCellsAt(M, q, r, n) == \A c \in M : n \in NodesOf(c) => \A x \in NodesOf(c) : q[x] = r

(* The tests of ref_collapse_edge_manifold and ref_collapse_edge_local_cell on a share say of *)
(* the whole grid what the merge needs. *)
LEMMA CollapseAllowed ==
  ASSUME NEW M, NEW q, NEW V, NEW G, Whole(M, q, V, G), NEW r \in Rank,
         NEW g, g = Piece(M, q, V, G, r), NEW n0 \in Held(g), NEW n1 \in Held(g),
         n0 \in ref_cell_node_list_around(g, "tri", n1),
         ref_collapse_edge_manifold(g, n0, n1), ref_collapse_edge_local_cell(g, r, n0, n1)
  PROVE  /\ Mergeable(M, n0, n1) /\ q[n0] = r /\ q[n1] = r /\ n1 \in Verts(M)
         /\ OwnCellsAt(M, q, r, n0) /\ OwnCellsAt(M, q, r, n1)
<1>0. Sound(M) /\ AllFormed(M) /\ Verts(M) \subseteq Nat
  BY GridAssumption DEF Whole, Sound
<1>1. AllOwned(g, r, Having(g, "tri", n0)) /\ AllOwned(g, r, Having(g, "tri", n1))
  BY DEF ref_collapse_edge_local_cell, AllOwned
<1>2. q[n0] = r /\ n0 \in Verts(M) /\ OwnCellsAt(M, q, r, n0)
  <2>1. /\ q[n0] = r /\ n0 \in Verts(M)
        /\ \A c \in M : n0 \in NodesOf(c) => \A x \in NodesOf(c) : q[x] = r
    BY <1>1, LocalCell
  <2> QED
    BY <2>1 DEF OwnCellsAt
<1>3. q[n1] = r /\ n1 \in Verts(M) /\ OwnCellsAt(M, q, r, n1)
  <2>1. /\ q[n1] = r /\ n1 \in Verts(M)
        /\ \A c \in M : n1 \in NodesOf(c) => \A x \in NodesOf(c) : q[x] = r
    BY <1>1, LocalCell
  <2> QED
    BY <2>1 DEF OwnCellsAt
<1>4. g.cell = Touched(M, q, r)
  BY PieceSees
<1>5. ASSUME NEW kind PROVE Having(g, kind, n0) = {c \in M : c.kind = kind /\ n0 \in NodesOf(c)}
  BY <1>2, <1>4 DEF Having, Touched, Touches
<1>6. ASSUME NEW kind PROVE Having(g, kind, n1) = {c \in M : c.kind = kind /\ n1 \in NodesOf(c)}
  BY <1>3, <1>4 DEF Having, Touched, Touches
<1>51. Having(g, "tri", n0) = {c \in M : c.kind = "tri" /\ n0 \in NodesOf(c)}
  BY <1>2, <1>4 DEF Having, Touched, Touches
<1>61. Having(g, "tri", n1) = {c \in M : c.kind = "tri" /\ n1 \in NodesOf(c)}
  BY <1>3, <1>4 DEF Having, Touched, Touches
<1>7. n0 # n1 /\ Near(M, n0, n1)
  <2>1. PICK t \in Having(g, "tri", n1) : n0 \in NodesOf(t)
    BY DEF ref_cell_node_list_around
  <2>2. n0 # n1
    BY DEF ref_cell_node_list_around
  <2>3. t \in M /\ t.kind = "tri" /\ n1 \in NodesOf(t)
    BY <1>61, <2>1
  <2> QED
    BY <2>1, <2>2, <2>3 DEF Near, TriIn
<1>8. ASSUME NEW c \in M, NEW d \in M, c.kind = d.kind, n1 \in NodesOf(c), n0 \notin NodesOf(c),
             NodesOf(d) = (NodesOf(c) \ {n1}) \cup {n0}
      PROVE  FALSE
  <2>1. c.kind = "tri" \/ c.kind = "edg"
    BY <1>0 DEF AllFormed, Formed
  <2>2. d \in g.cell
    BY <1>2, <1>4, <1>8 DEF Touched, Touches
  <2>3. c \in Having(g, c.kind, n1) \ Having(g, c.kind, n0)
    BY <1>5, <1>6, <1>8
  <2>4. NoDuplicate(g, c.kind, n0, n1)
    BY <2>1 DEF ref_collapse_edge_manifold
  <2> QED
    BY <1>8, <2>2, <2>3, <2>4 DEF NoDuplicate, ref_cell_with
<1>9. NoTwin(M, n0, n1)
  BY <1>8 DEF NoTwin
<1>10. ASSUME NEW y, y # n0, y # n1, Near(M, n0, y), Near(M, n1, y)
       PROVE  \E s \in TriIn(M) : NodesOf(s) = {n0, n1, y}
  <2>1. y \in ref_cell_node_list_around(g, "tri", n0)
    <3>1. PICK t \in TriIn(M) : n0 \in NodesOf(t) /\ y \in NodesOf(t)
      BY <1>10 DEF Near
    <3>2. t \in Having(g, "tri", n0)
      BY <1>51, <3>1 DEF TriIn
    <3> QED
      BY <1>10, <3>1, <3>2 DEF ref_cell_node_list_around
  <2>2. y \in ref_cell_node_list_around(g, "tri", n1)
    <3>1. PICK t \in TriIn(M) : n1 \in NodesOf(t) /\ y \in NodesOf(t)
      BY <1>10 DEF Near
    <3>2. t \in Having(g, "tri", n1)
      BY <1>61, <3>1 DEF TriIn
    <3> QED
      BY <1>10, <3>1, <3>2 DEF ref_cell_node_list_around
  <2>3. y \in SafeNodes(g, n0, n1)
    BY <2>1, <2>2 DEF ref_collapse_edge_manifold, NoNewNeighbours
  <2>4. PICK c \in ref_cell_list_with2(g, "tri", n0, n1) : y \in NodesOf(c)
    BY <2>3 DEF SafeNodes
  <2>5. c \in TriIn(M) /\ n0 \in NodesOf(c) /\ n1 \in NodesOf(c)
    BY <1>51, <1>61 DEF ref_cell_list_with2, TriIn
  <2>6. NodesOf(c) = {n0, n1, y}
    BY <1>0, <1>7, <1>10, <2>4, <2>5, MeshRound
  <2> QED
    BY <2>5, <2>6
<1>11. Closed(M, n0, n1)
  BY <1>10 DEF Closed
<1>12. n0 \in Nat
  BY <1>0, <1>2
<1> QED
  BY <1>0, <1>2, <1>3, <1>7, <1>9, <1>11, <1>12 DEF Mergeable

(* p says of all nodes but n1 what q says. *)
Restricts(M, n1, q, p) == \A n \in Verts(M) \ {n1} : p[n] = q[n]

(* What a collapse does to the cells of the whole grid stays local. *)
LEMMA MergedLocal ==
  ASSUME NEW M, NEW n0, NEW n1, Mergeable(M, n0, n1), NEW q, NEW r, q[n0] = r, n0 \in Verts(M), NEW p,
         Restricts(M, n1, q, p), OwnCellsAt(M, q, r, n1), NEW N, N = Merged(M, n0, n1)
  PROVE  /\ LocalTo(M, N, q, p, r)
         /\ \A c \in M : c \in N <=> n1 \notin NodesOf(c)
         /\ \A h : h \in N /\ h \notin M <=>
              \E c \in M : n1 \in NodesOf(c) /\ n0 \notin NodesOf(c) /\ h = ref_cell_replace_node(c, n1, n0)
<1>0. Sound(M) /\ n0 # n1 /\ NoTwin(M, n0, n1) /\ AllFormed(M)
  BY DEF Mergeable, Sound
<1>1. Verts(N) = Verts(M) \ {n1}
  BY MergedVerts
<1>2. /\ \A c \in M : ~ Gone(n0, n1, c) =>
              Img(n0, n1, c) \in N /\ Image(n0, n1, c, Img(n0, n1, c))
      /\ \A h \in N : \E c \in M :
              ~ Gone(n0, n1, c) /\ h = Img(n0, n1, c) /\ Image(n0, n1, c, h)
  BY MergedCells
<1>3. ASSUME NEW c \in M PROVE c \in N <=> n1 \notin NodesOf(c)
  <2>1. ASSUME n1 \notin NodesOf(c) PROVE c \in N
    BY <1>2, <2>1 DEF Gone, Img
  <2>2. ASSUME c \in N PROVE n1 \notin NodesOf(c)
    BY <1>1, <2>2 DEF Verts
  <2> QED
    BY <2>1, <2>2
<1>4. ASSUME NEW h \in N, h \notin M
      PROVE  /\ \E c \in M : n1 \in NodesOf(c) /\ n0 \notin NodesOf(c) /\ h = ref_cell_replace_node(c, n1, n0)
             /\ \A x \in NodesOf(h) : p[x] = r
  <2>1. PICK c \in M : ~ Gone(n0, n1, c) /\ h = Img(n0, n1, c) /\ Image(n0, n1, c, h)
    BY <1>2
  <2>2. n1 \in NodesOf(c) /\ n0 \notin NodesOf(c)
    BY <1>4, <2>1 DEF Img, Gone
  <2>3. ASSUME NEW x \in NodesOf(h) PROVE p[x] = r
    <3>1. PICK a \in NodesOf(c) : x = Sub(n0, n1, a)
      BY <2>1 DEF Image
    <3>2. q[a] = r
      BY <2>2 DEF OwnCellsAt
    <3>3. x \in Verts(M) \ {n1}
      BY <1>1 DEF Verts
    <3> QED
      BY <3>1, <3>2, <3>3 DEF Sub, Restricts
  <2> QED
    BY <2>1, <2>2, <2>3 DEF Img
<1>5. ASSUME NEW c \in M, n1 \in NodesOf(c), n0 \notin NodesOf(c)
      PROVE  ref_cell_replace_node(c, n1, n0) \in N /\ ref_cell_replace_node(c, n1, n0) \notin M
  <2>1. PICK h : h = ref_cell_replace_node(c, n1, n0)
    OBVIOUS
  <2>2. h \in N /\ Image(n0, n1, c, h)
    BY <1>2, <1>5, <2>1 DEF Gone, Img
  <2>3. h.kind = c.kind
    BY <2>2 DEF Image
  <2>4. NodesOf(h) = (NodesOf(c) \ {n1}) \cup {n0}
    BY <1>5, <2>2 DEF Image, Sub
  <2> QED
    BY <1>0, <1>5, <2>1, <2>2, <2>3, <2>4 DEF NoTwin
<1>6. LocalTo(M, N, q, p, r)
  <2>1. \A c \in M : c \notin N => \A n \in NodesOf(c) : q[n] = r
    BY <1>3 DEF OwnCellsAt
  <2>2. \A n \in Verts(M) : n \in Verts(N) => q[n] = p[n]
    BY <1>1 DEF Restricts
  <2> QED
    BY <1>4, <2>1, <2>2 DEF LocalTo
<1> QED
  BY <1>3, <1>4, <1>5, <1>6

(* ref_collapse_to_remove_node1. *)
LEMMA CollapseStep ==
  ASSUME NEW M, NEW q, NEW V, NEW G, Whole(M, q, V, G), grid = Shares(M, q, V, G),
         NEW r \in Rank, NEW n0 \in Held(grid[r]), NEW n1 \in Held(grid[r]), Collapse(r, n0, n1)
  PROVE  Good(grid')
<1> DEFINE g == grid[r]
           h == [node |-> [n \in Held(g) \ {n1} |-> g.node[n]],
                 cell |-> ref_collapse_edge(g, n0, n1),
                 geom |-> [k \in DOMAIN g.geom \ GeomAt(g, n1) |-> g.geom[k]]]
           p == [n \in Verts(M) \ {n1} |-> q[n]]
           W == [n \in Verts(M) \ {n1} |-> V[n]]
           H == [k \in {k \in DOMAIN G : k[1] # n1} |-> G[k]]
<1>0. CASE Fail
  <2>1. grid' = grid
    BY <1>0 DEF Fail
  <2> QED
    BY <2>1 DEF Good
<1>1. CASE ~ Fail
  <2>1. /\ n0 \in ref_cell_node_list_around(g, "tri", n1)
        /\ ref_collapse_edge_manifold(g, n0, n1) /\ ref_collapse_edge_local_cell(g, r, n0, n1)
        /\ grid' = [grid EXCEPT ![r] = h]
    BY <1>1 DEF Collapse, Commit
  <2>2. g = Piece(M, q, V, G, r)
    BY DEF Shares
  <2>3. n0 \in Held(g) /\ n1 \in Held(g)
    OBVIOUS
  <2> HIDE DEF g
  <2>4. /\ Mergeable(M, n0, n1) /\ q[n0] = r /\ q[n1] = r /\ n1 \in Verts(M)
        /\ OwnCellsAt(M, q, r, n0) /\ OwnCellsAt(M, q, r, n1)
    BY <2>1, <2>2, <2>3, CollapseAllowed
  <2>51. Restricts(M, n1, q, p)
    BY DEF Restricts
  <2>5. n0 \in Verts(M) /\ n0 # n1
    BY <2>4 DEF Mergeable, Near, Verts, TriIn
  <2>6. PICK N : N = Merged(M, n0, n1)
    OBVIOUS
  <2>7. Sound(N) /\ Euler(N) /\ Verts(N) = Verts(M) \ {n1} /\ AllFormed(N)
    <3>1. Euler(M)
      BY DEF Whole
    <3> QED
      BY <2>4, <2>6, <3>1, MergedSound, MergedEuler, MergedVerts DEF Sound
  <2>8. /\ LocalTo(M, N, q, p, r)
        /\ \A c \in M : c \in N <=> n1 \notin NodesOf(c)
        /\ \A c : c \in N /\ c \notin M <=>
             \E d \in M : n1 \in NodesOf(d) /\ n0 \notin NodesOf(d) /\ c = ref_cell_replace_node(d, n1, n0)
    <3> HIDE DEF p
    <3> QED
      BY <2>4, <2>5, <2>51, <2>6, MergedLocal
  <2>9. Whole(N, p, W, H)
    <3>1. p \in [Verts(N) -> Rank] /\ W \in [Verts(N) -> {0, 1}]
      BY <2>7 DEF Whole
    <3>2. H \in [DOMAIN H -> {0, 1}] /\ DOMAIN H = {k \in DOMAIN G : k[1] # n1}
      BY DEF Whole
    <3>3. \A k \in DOMAIN H : k[1] \in Verts(N) /\ k[2] \in {"node", "edge", "face"}
      BY <2>7, <3>2 DEF Whole
    <3> HIDE DEF p, W, H
    <3> QED
      BY <2>7, <3>1, <3>2, <3>3 DEF Whole
  <2>10. /\ Touched(N, p, r) = {c \in Touched(M, q, r) : c \in N} \cup {c \in N : c \notin M}
         /\ Ring(N, p, r) = {n \in Ring(M, q, r) : n \in Verts(N)} \cup {n \in Verts(N) : n \notin Verts(M)}
    <3> HIDE DEF p
    <3> QED
      BY <2>7, <2>8, OwnChange
  <2>11. \A s : Ring(M, q, s) \subseteq Verts(M)
    BY RingIn
  <2>12. Ring(N, p, r) = Ring(M, q, r) \ {n1}
    <3> HIDE DEF p
    <3> QED
      BY <2>7, <2>10, <2>11
  <2>13. ASSUME NEW s \in Rank, s # r PROVE n1 \notin Ring(M, q, s)
    BY <2>4, <2>13 DEF Ring, Verts, Touched, Touches, OwnCellsAt
  <2>14. \A s \in Rank : s # r => SameFor(Ring(M, q, s), V, W, G, H)
    BY <2>11, <2>13 DEF SameFor, Recs
  <2>15. /\ Held(g) = Ring(M, q, r) /\ g.cell = Touched(M, q, r)
         /\ DOMAIN g.geom = Recs(G, Ring(M, q, r)) /\ \A k \in DOMAIN g.geom : g.geom[k] = G[k]
         /\ g.node = [n \in Ring(M, q, r) |-> [part |-> q[n], real |-> V[n]]]
    BY <2>2, PieceSees DEF Piece
  <2>16. h.cell = Touched(N, p, r)
    <3>1. {c \in g.cell : n1 \notin NodesOf(c)} = {c \in Touched(M, q, r) : c \in N}
      BY <2>8, <2>15 DEF Touched
    <3>2. {d \in g.cell : n1 \in NodesOf(d) /\ n0 \notin NodesOf(d)}
            = {d \in M : n1 \in NodesOf(d) /\ n0 \notin NodesOf(d)}
      BY <2>4, <2>15 DEF Touched, Touches
    <3>3. {c \in N : c \notin M} =
            {ref_cell_replace_node(c, n1, n0) : c \in {d \in M : n1 \in NodesOf(d) /\ n0 \notin NodesOf(d)}}
      BY <2>8
    <3> HIDE DEF p
    <3> QED
      BY <2>10, <3>1, <3>2, <3>3 DEF ref_collapse_edge
  <2>17. h.node = [n \in Ring(N, p, r) |-> [part |-> p[n], real |-> W[n]]]
    <3> DEFINE R == Ring(N, p, r)
    <3>1. R = Ring(M, q, r) \ {n1}
      BY <2>12
    <3> HIDE DEF R
    <3>2. h.node = [n \in R |-> [part |-> q[n], real |-> V[n]]]
      BY <2>15, <3>1
    <3>3. \A n \in R : n \in Verts(M) \ {n1}
      BY <2>11, <3>1
    <3>4. h.node = [n \in R |-> [part |-> p[n], real |-> W[n]]]
      <4> HIDE DEF h
      <4> QED
        BY <3>2, <3>3
    <3> QED
      BY <3>4 DEF R
  <2>18. h.geom = [k \in Recs(H, Ring(N, p, r)) |-> H[k]]
    <3>1. Recs(H, Ring(N, p, r)) = DOMAIN g.geom \ GeomAt(g, n1)
      <4> HIDE DEF p
      <4> QED
        BY <2>12, <2>15 DEF Recs, GeomAt
    <3>2. DOMAIN g.geom \subseteq DOMAIN G
      BY <2>15 DEF Recs
    <3>3. \A k \in DOMAIN g.geom \ GeomAt(g, n1) : k[1] # n1 /\ g.geom[k] = G[k]
      BY <2>15 DEF GeomAt
    <3> HIDE DEF p
    <3> QED
      BY <3>1, <3>2, <3>3
  <2>19. h = Piece(N, p, W, H, r)
    <3> HIDE DEF p, W, H
    <3> QED
      BY <2>16, <2>17, <2>18 DEF Piece
  <2> HIDE DEF p, W, H, h
  <2>20. Good([grid EXCEPT ![r] = Piece(N, p, W, H, r)])
    BY <2>8, <2>9, <2>14, LocalStep
  <2> QED
    BY <2>1, <2>19, <2>20
<1> QED
  BY <1>0, <1>1

-----------------------------------------------------------------------------
(* Migration *)

(* The nodes rank r holds once it has been sent those p gives it. *)
Known(M, q, p, r) == Ring(M, q, r) \cup {n \in Verts(M) : p[n] = r}

(* A share in the middle of a migration: nodes S, with real data on X, cells C, records D. *)
NodeBits(S, X, p, V) == [n \in S |-> [part |-> p[n], real |-> IF n \in X THEN V[n] ELSE NoReal]]
GeomBits(D, G) == [k \in D |-> G[k]]

(* Such a share. *)
Bits(S, X, C, D, p, V, G) ==
  [node |-> NodeBits(S, X, p, V), cell |-> C, geom |-> GeomBits(D, G)]

(* A whole grid, and the new owners p of its nodes. *)
Moving(M, q, p, V, G) == Whole(M, q, V, G) /\ p \in [Verts(M) -> Rank]

(* The shares before the nodes are sent, and before the records are. *)
AtNode(M, q, p, V, G) ==
  [r \in Rank |-> Bits(Ring(M, q, r), Ring(M, q, r), Touched(M, q, r), Recs(G, Ring(M, q, r)),
                       p, V, G)]
AtGeom(M, q, p, V, G) ==
  [r \in Rank |-> Bits(Known(M, q, p, r), Known(M, q, p, r), Touched(M, q, r),
                       Recs(G, Ring(M, q, r)), p, V, G)]

(* What such a share holds. *)
LEMMA BitsSees ==
  ASSUME NEW S, NEW X, NEW C, NEW D, NEW p, NEW V, NEW G, NEW g, g = Bits(S, X, C, D, p, V, G)
  PROVE  /\ Held(g) = S /\ g.cell = C /\ DOMAIN g.geom = D
         /\ \A n \in S : g.node[n].part = p[n] /\ g.node[n].real = IF n \in X THEN V[n] ELSE NoReal
         /\ \A k \in D : g.geom[k] = G[k]
         /\ g = [node |-> g.node, cell |-> g.cell, geom |-> g.geom]
  BY DEF Bits, Held, NodeBits, GeomBits

(* When all nodes have their data. *)
LEMMA AllReal ==
  ASSUME NEW S, NEW p, NEW V
  PROVE  NodeBits(S, S, p, V) = [n \in S |-> [part |-> p[n], real |-> V[n]]]
  BY DEF NodeBits

(* A share with other nodes. *)
LEMMA SetNode ==
  ASSUME NEW g, g = [node |-> g.node, cell |-> g.cell, geom |-> g.geom], NEW B
  PROVE  [g EXCEPT !.node = B] = [node |-> B, cell |-> g.cell, geom |-> g.geom]
  OBVIOUS

(* A share with other records. *)
LEMMA SetGeom ==
  ASSUME NEW g, g = [node |-> g.node, cell |-> g.cell, geom |-> g.geom], NEW B
  PROVE  [g EXCEPT !.geom = B] = [node |-> g.node, cell |-> g.cell, geom |-> B]
  OBVIOUS

(* A set of ranks has a largest one. *)
LEMMA RankMax ==
  ASSUME NEW S, S \subseteq Rank, S # {}
  PROVE  Max(S) \in S
<1>0. NRank \in Nat /\ \A s \in S : s \in Nat /\ s <= NRank
  BY GridAssumption DEF Rank
<1> DEFINE T == {NRank - s : s \in S}
<1>1. T \in SUBSET Nat /\ T # {}
  <2>1. \A s \in S : NRank - s \in Nat
    BY <1>0
  <2> QED
    BY <2>1
<1>2. PICK m \in T : \A k \in T : m <= k
  BY <1>1, LeastNatural
<1>3. PICK x \in S : m = NRank - x
  BY <1>2
<1>4. \A s \in S : NRank - x <= NRank - s
  BY <1>2, <1>3
<1>5. \A y \in S : x >= y
  BY <1>0, <1>4
<1> QED
  BY <1>5 DEF Max

(* The new parts are written over the old. *)
LEMMA NewPart ==
  ASSUME NEW M, NEW q, NEW p, NEW V, NEW G, Moving(M, q, p, V, G), NEW g, g = Shares(M, q, V, G)
  PROVE  ref_migrate_new_part(g, p) = AtNode(M, q, p, V, G)
<1>1. ASSUME NEW r \in Rank
      PROVE  [g[r] EXCEPT !.node = [n \in Held(g[r]) |-> [@[n] EXCEPT !.part = p[n]]]]
               = Bits(Ring(M, q, r), Ring(M, q, r), Touched(M, q, r), Recs(G, Ring(M, q, r)), p, V, G)
  <2>1. PICK h : h = Piece(M, q, V, G, r)
    OBVIOUS
  <2>2. h = [node |-> [n \in Ring(M, q, r) |-> [part |-> q[n], real |-> V[n]]],
             cell |-> Touched(M, q, r), geom |-> [k \in Recs(G, Ring(M, q, r)) |-> G[k]]]
    BY <2>1 DEF Piece
  <2>3. /\ h.node = [n \in Ring(M, q, r) |-> [part |-> q[n], real |-> V[n]]] /\ Held(h) = Ring(M, q, r)
        /\ h.cell = Touched(M, q, r) /\ h.geom = GeomBits(Recs(G, Ring(M, q, r)), G)
        /\ h = [node |-> h.node, cell |-> h.cell, geom |-> h.geom]
    BY <2>2 DEF Held, GeomBits
  <2>4. PICK B : B = [n \in Held(h) |-> [h.node[n] EXCEPT !.part = p[n]]]
    OBVIOUS
  <2>5. B = NodeBits(Ring(M, q, r), Ring(M, q, r), p, V)
    <3>1. B = [n \in Ring(M, q, r) |-> [part |-> p[n], real |-> V[n]]]
      BY <2>3, <2>4
    <3> QED
      BY <3>1, AllReal
  <2>6. h = g[r]
    BY <2>1 DEF Shares
  <2>7. [h EXCEPT !.node = B] = [node |-> B, cell |-> h.cell, geom |-> h.geom]
    BY <2>3, SetNode
  <2>8. [h EXCEPT !.node = B]
          = Bits(Ring(M, q, r), Ring(M, q, r), Touched(M, q, r), Recs(G, Ring(M, q, r)), p, V, G)
    BY <2>3, <2>5, <2>7 DEF Bits
  <2> QED
    BY <2>4, <2>6, <2>8
<1> QED
  BY <1>1 DEF ref_migrate_new_part, AtNode

(* ref_migrate_shufflin_node. *)
LEMMA NodesSent ==
  ASSUME NEW M, NEW q, NEW p, NEW V, NEW G, Moving(M, q, p, V, G), NEW g, g = AtNode(M, q, p, V, G)
  PROVE  ref_migrate_shufflin_node(g) = AtGeom(M, q, p, V, G)
<1>0. /\ \A s \in Rank : Ring(M, q, s) \subseteq Verts(M)
      /\ \A n \in Verts(M) : q[n] \in Rank /\ n \in Ring(M, q, q[n])
  BY RingIn, HeldByOwner DEF Moving, Whole
<1>1. \A s \in Rank : g[s] = Bits(Ring(M, q, s), Ring(M, q, s), Touched(M, q, s),
                                  Recs(G, Ring(M, q, s)), p, V, G)
  BY DEF AtNode
<1>2. \A s \in Rank : /\ Held(g[s]) = Ring(M, q, s)
                      /\ \A m \in Ring(M, q, s) : g[s].node[m].part = p[m] /\ g[s].node[m].real = V[m]
  BY <1>1, BitsSees
<1>3. ASSUME NEW r \in Rank
      PROVE  [g[r] EXCEPT !.node =
                [n \in Held(g[r]) \cup Incoming(g, r) |->
                    IF n \in Incoming(g, r)
                    THEN [part |-> r, real |-> g[Max(Senders(g, r, n))].node[n].real]
                    ELSE g[r].node[n]]]
               = Bits(Known(M, q, p, r), Known(M, q, p, r), Touched(M, q, r),
                      Recs(G, Ring(M, q, r)), p, V, G)
  <2>1. \A n : Senders(g, r, n) = {s \in Rank \ {r} : n \in Ring(M, q, s) /\ p[n] = r}
    BY <1>2 DEF Senders, Others
  <2>2. \A n : n \in Incoming(g, r) <=> p[n] = r /\ \E s \in Rank \ {r} : n \in Ring(M, q, s)
    BY <1>2, <2>1 DEF Incoming, Others
  <2>3. Held(g[r]) \cup Incoming(g, r) = Known(M, q, p, r)
    BY <1>0, <1>2, <2>2 DEF Known
  <2>4. ASSUME NEW n \in Incoming(g, r) PROVE g[Max(Senders(g, r, n))].node[n].real = V[n] /\ p[n] = r
    <3>1. Senders(g, r, n) # {} /\ Senders(g, r, n) \subseteq Rank /\ p[n] = r
      BY <2>1, <2>2, <2>4
    <3>2. PICK s : s = Max(Senders(g, r, n))
      OBVIOUS
    <3>3. s \in Senders(g, r, n)
      BY <3>1, <3>2, RankMax
    <3>4. s \in Rank /\ n \in Ring(M, q, s)
      BY <2>1, <3>3
    <3> QED
      BY <1>2, <3>1, <3>2, <3>4
  <2>5. PICK h : h = g[r]
    OBVIOUS
  <2>6. /\ h.node = [n \in Ring(M, q, r) |-> [part |-> p[n], real |-> V[n]]]
        /\ h.cell = Touched(M, q, r) /\ h.geom = GeomBits(Recs(G, Ring(M, q, r)), G)
        /\ h = [node |-> h.node, cell |-> h.cell, geom |-> h.geom]
    <3>1. h = Bits(Ring(M, q, r), Ring(M, q, r), Touched(M, q, r), Recs(G, Ring(M, q, r)), p, V, G)
      BY <1>1, <2>5
    <3>2. h.node = NodeBits(Ring(M, q, r), Ring(M, q, r), p, V)
          /\ h.cell = Touched(M, q, r) /\ h.geom = GeomBits(Recs(G, Ring(M, q, r)), G)
          /\ h = [node |-> h.node, cell |-> h.cell, geom |-> h.geom]
      BY <3>1 DEF Bits
    <3> QED
      BY <3>2, AllReal
  <2>7. PICK B : B = [n \in Held(g[r]) \cup Incoming(g, r) |->
                    IF n \in Incoming(g, r)
                    THEN [part |-> r, real |-> g[Max(Senders(g, r, n))].node[n].real]
                    ELSE g[r].node[n]]
    OBVIOUS
  <2>8. B = [n \in Known(M, q, p, r) |-> [part |-> p[n], real |-> V[n]]]
    BY <1>2, <2>3, <2>4, <2>5, <2>6, <2>7
  <2>9. B = NodeBits(Known(M, q, p, r), Known(M, q, p, r), p, V)
    BY <2>8, AllReal
  <2>10. [h EXCEPT !.node = B] = [node |-> B, cell |-> h.cell, geom |-> h.geom]
    BY <2>6, SetNode
  <2>11. [h EXCEPT !.node = B]
           = Bits(Known(M, q, p, r), Known(M, q, p, r), Touched(M, q, r),
                  Recs(G, Ring(M, q, r)), p, V, G)
    BY <2>6, <2>9, <2>10 DEF Bits
  <2> QED
    BY <2>5, <2>7, <2>11
<1> QED
  BY <1>3 DEF ref_migrate_shufflin_node, AtGeom

(* The cells of the kinds K that have come to rank r, and what it holds then. *)
Come(M, p, K, r) == {c \in M : c.kind \in K /\ Touches(p, r, c)}
Mixed(M, q, p, K, r) == Come(M, p, K, r) \cup {c \in M : c.kind \notin K /\ Touches(q, r, c)}
Grown(M, q, p, K, r) == Known(M, q, p, r) \cup Verts(Come(M, p, K, r))

(* The shares when the cells of the kinds K have been sent. *)
AtCell(K, M, q, p, V, G) ==
  [r \in Rank |-> Bits(Grown(M, q, p, K, r), Known(M, q, p, r), Mixed(M, q, p, K, r),
                       Recs(G, Known(M, q, p, r)), p, V, G)]

(* The parts of such a share. *)
LEMMA BitsParts ==
  ASSUME NEW S, NEW X, NEW C, NEW D, NEW p, NEW V, NEW G, NEW g, g = Bits(S, X, C, D, p, V, G)
  PROVE  /\ g.node = NodeBits(S, X, p, V) /\ g.cell = C /\ g.geom = GeomBits(D, G)
         /\ g = [node |-> g.node, cell |-> g.cell, geom |-> g.geom]
  BY DEF Bits

(* ref_migrate_shufflin_geom. *)
LEMMA GeomsSent ==
  ASSUME NEW M, NEW q, NEW p, NEW V, NEW G, Moving(M, q, p, V, G), NEW g, g = AtGeom(M, q, p, V, G)
  PROVE  ref_migrate_shufflin_geom(g) = AtCell({}, M, q, p, V, G)
<1>0. /\ \A s \in Rank : Ring(M, q, s) \subseteq Verts(M)
      /\ \A n \in Verts(M) : q[n] \in Rank /\ n \in Ring(M, q, q[n])
      /\ \A k \in DOMAIN G : k[1] \in Verts(M)
  BY RingIn, HeldByOwner DEF Moving, Whole
<1>1. \A s \in Rank : g[s] = Bits(Known(M, q, p, s), Known(M, q, p, s), Touched(M, q, s),
                                  Recs(G, Ring(M, q, s)), p, V, G)
  BY DEF AtGeom
<1>2. \A s \in Rank : /\ Held(g[s]) = Known(M, q, p, s) /\ DOMAIN g[s].geom = Recs(G, Ring(M, q, s))
                      /\ \A k \in DOMAIN g[s].geom : g[s].geom[k] = G[k]
                      /\ \A n \in Known(M, q, p, s) : g[s].node[n].part = p[n]
  BY <1>1, BitsSees
<1>3. \A s \in Rank : Ring(M, q, s) \subseteq Known(M, q, p, s)
  BY DEF Known
<1>4. ASSUME NEW r \in Rank, NEW in,
             in = UNION {{k \in DOMAIN g[s].geom : r = g[s].node[k[1]].part} : s \in Others(r)}
      PROVE  [g[r] EXCEPT !.geom =
                [k \in DOMAIN g[r].geom \cup in |->
                    IF k \in in THEN g[Max({s \in Senders(g, r, k[1]) : k \in DOMAIN g[s].geom})].geom[k]
                                ELSE g[r].geom[k]]]
               = Bits(Grown(M, q, p, {}, r), Known(M, q, p, r), Mixed(M, q, p, {}, r),
                      Recs(G, Known(M, q, p, r)), p, V, G)
  <2>1. \A k : k \in in <=> \E s \in Rank \ {r} : k \in Recs(G, Ring(M, q, s)) /\ r = p[k[1]]
    <3>1. \A s \in Rank : \A k \in DOMAIN g[s].geom : g[s].node[k[1]].part = p[k[1]]
      BY <1>2, <1>3 DEF Recs
    <3> QED
      BY <1>2, <1>4, <3>1 DEF Others
  <2>2. DOMAIN g[r].geom \cup in = Recs(G, Known(M, q, p, r))
    BY <1>0, <1>2, <2>1 DEF Recs, Known
  <2>3. ASSUME NEW k \in in
        PROVE  g[Max({s \in Senders(g, r, k[1]) : k \in DOMAIN g[s].geom})].geom[k] = G[k]
    <3>1. PICK F : F = {s \in Senders(g, r, k[1]) : k \in DOMAIN g[s].geom}
      OBVIOUS
    <3>2. PICK s \in Rank \ {r} : k \in Recs(G, Ring(M, q, s)) /\ r = p[k[1]]
      BY <2>1, <2>3
    <3>3. s \in Senders(g, r, k[1])
      BY <1>2, <1>3, <3>2 DEF Senders, Others, Recs
    <3>4. s \in F /\ F \subseteq Rank
      BY <1>2, <3>1, <3>2, <3>3 DEF Senders, Others
    <3>5. PICK m : m = Max(F)
      OBVIOUS
    <3>6. m \in F
      BY <3>4, <3>5, RankMax
    <3>7. m \in Rank /\ k \in DOMAIN g[m].geom
      BY <3>1, <3>4, <3>6
    <3> QED
      BY <1>2, <3>1, <3>5, <3>7
  <2>4. PICK h : h = g[r]
    OBVIOUS
  <2>5. PICK B : B = [k \in DOMAIN g[r].geom \cup in |->
                    IF k \in in THEN g[Max({s \in Senders(g, r, k[1]) : k \in DOMAIN g[s].geom})].geom[k]
                                ELSE g[r].geom[k]]
    OBVIOUS
  <2>6. B = GeomBits(Recs(G, Known(M, q, p, r)), G)
    <3>1. \A k \in Recs(G, Known(M, q, p, r)) : k \notin in => g[r].geom[k] = G[k]
      BY <1>2, <2>2
    <3>2. DOMAIN B = Recs(G, Known(M, q, p, r))
      BY <2>2, <2>5
    <3>3. \A k \in Recs(G, Known(M, q, p, r)) : B[k] = G[k]
      BY <2>2, <2>3, <2>5, <3>1
    <3>4. B = [k \in DOMAIN B |-> B[k]]
      BY <2>5
    <3> QED
      BY <3>2, <3>3, <3>4 DEF GeomBits
  <2>7. /\ h.node = NodeBits(Known(M, q, p, r), Known(M, q, p, r), p, V) /\ h.cell = Touched(M, q, r)
        /\ h = [node |-> h.node, cell |-> h.cell, geom |-> h.geom]
    BY <1>1, <2>4, BitsParts
  <2>8. Grown(M, q, p, {}, r) = Known(M, q, p, r) /\ Mixed(M, q, p, {}, r) = Touched(M, q, r)
    BY DEF Grown, Mixed, Come, Verts, Touched
  <2>9. [h EXCEPT !.geom = B] = [node |-> h.node, cell |-> h.cell, geom |-> B]
    BY <2>7, SetGeom
  <2>10. [h EXCEPT !.geom = B]
           = Bits(Grown(M, q, p, {}, r), Known(M, q, p, r), Mixed(M, q, p, {}, r),
                  Recs(G, Known(M, q, p, r)), p, V, G)
    BY <2>6, <2>7, <2>8, <2>9 DEF Bits
  <2> QED
    BY <2>4, <2>5, <2>10
<1> QED
  BY <1>4 DEF ref_migrate_shufflin_geom, AtCell

(* What a rank holds while the cells are sent. *)
LEMMA CellHeld ==
  ASSUME NEW M, NEW q, NEW p, NEW K, NEW r
  PROVE  /\ \A c \in Mixed(M, q, p, K, r) : c \in M /\ NodesOf(c) \subseteq Grown(M, q, p, K, r)
         /\ Ring(M, q, r) \subseteq Known(M, q, p, r)
         /\ Known(M, q, p, r) \subseteq Grown(M, q, p, K, r)
         /\ Grown(M, q, p, K, r) \subseteq Verts(M)
<1>1. Ring(M, q, r) \subseteq Known(M, q, p, r) /\ Known(M, q, p, r) \subseteq Grown(M, q, p, K, r)
  BY DEF Known, Grown
<1>2. ASSUME NEW c \in Mixed(M, q, p, K, r) PROVE c \in M /\ NodesOf(c) \subseteq Grown(M, q, p, K, r)
  <2>1. CASE c \in Come(M, p, K, r)
    BY <2>1 DEF Come, Grown, Verts
  <2>2. CASE c \in Touched(M, q, r)
    BY <1>1, <2>2 DEF Ring, Verts, Touched
  <2> QED
    BY <2>1, <2>2 DEF Mixed, Touched
<1>3. Grown(M, q, p, K, r) \subseteq Verts(M)
  BY RingIn DEF Grown, Known, Come, Verts
<1> QED
  BY <1>1, <1>2, <1>3

(* The cells of a kind that come from rank s. *)
Sent(M, q, p, kind, s, r) == {c \in M : c.kind = kind /\ Touches(q, s, c) /\ Touches(p, r, c)}

(* Together they bring r all cells of the kind it is to hold and does not. *)
LEMMA SentMeans ==
  ASSUME NEW M, NEW q, NEW p, NEW V, NEW G, Moving(M, q, p, V, G), NEW kind, NEW r \in Rank,
         NEW c \in M, c.kind = kind, Touches(p, r, c)
  PROVE  \/ NodesOf(c) \subseteq Known(M, q, p, r) /\ Touches(q, r, c)
         \/ \E s \in Others(r) : c \in Sent(M, q, p, kind, s, r)
<1>1. CASE \E n \in NodesOf(c) : q[n] # r
  <2>1. PICK n \in NodesOf(c) : q[n] # r
    BY <1>1
  <2>2. q[n] \in Rank
    BY DEF Moving, Whole, Verts
  <2> QED
    BY <2>1, <2>2 DEF Others, Sent, Touches
<1>2. CASE \A n \in NodesOf(c) : q[n] = r
  <2>1. Touches(q, r, c)
    BY <1>2 DEF Touches
  <2> QED
    BY <2>1 DEF Known, Ring, Verts, Touched
<1> QED
  BY <1>1, <1>2

(* ref_migrate_shufflin_cell. *)
LEMMA CellsSent ==
  ASSUME NEW M, NEW q, NEW p, NEW V, NEW G, Moving(M, q, p, V, G), NEW K, NEW kind, kind \notin K,
         NEW g, g = AtCell(K, M, q, p, V, G)
  PROVE  ref_migrate_shufflin_cell(g, kind) = AtCell(K \cup {kind}, M, q, p, V, G)
<1>0. Single(M)
  BY DEF Moving, Whole, Sound
<1>1. \A s \in Rank : g[s] = Bits(Grown(M, q, p, K, s), Known(M, q, p, s), Mixed(M, q, p, K, s),
                                  Recs(G, Known(M, q, p, s)), p, V, G)
  BY DEF AtCell
<1>2. \A s \in Rank : /\ Held(g[s]) = Grown(M, q, p, K, s) /\ g[s].cell = Mixed(M, q, p, K, s)
                      /\ \A n \in Grown(M, q, p, K, s) : g[s].node[n].part = p[n]
                      /\ \A n \in Grown(M, q, p, K, s) :
                            g[s].node[n].real = IF n \in Known(M, q, p, s) THEN V[n] ELSE NoReal
  BY <1>1, BitsSees
<1>3. ASSUME NEW r \in Rank, NEW s \in Rank PROVE Delivered(g, kind, s, r) = Sent(M, q, p, kind, s, r)
  <2>1. \A c \in g[s].cell : \A n \in NodesOf(c) : ref_node_owned(g[s], r, n) <=> p[n] = r
    BY <1>2, CellHeld DEF ref_node_owned
  <2>2. \A c : c \in g[s].cell /\ c.kind = kind <=> c \in M /\ c.kind = kind /\ Touches(q, s, c)
    BY <1>2 DEF Mixed, Come
  <2> QED
    BY <2>1, <2>2 DEF Delivered, Sent, Touches
<1>4. ASSUME NEW r \in Rank
      PROVE  ref_migrate_shufflin_cell(g, kind)[r]
               = Bits(Grown(M, q, p, K \cup {kind}, r), Known(M, q, p, r), Mixed(M, q, p, K \cup {kind}, r),
                      Recs(G, Known(M, q, p, r)), p, V, G)
  <2>21. PICK sent : sent = [s \in Others(r) |-> Delivered(g, kind, s, r)]
    OBVIOUS
  <2>22. PICK new : new = UNION {UNION {NodesOf(c) : c \in sent[s]} : s \in Others(r)}
    OBVIOUS
  <2>23. PICK node : node = [n \in Held(g[r]) \cup new |->
                        [part |-> IF n \in new
                                  THEN g[Max({s \in Others(r) : n \in UNION {NodesOf(c) : c \in sent[s]}})].node[n].part
                                  ELSE g[r].node[n].part,
                         real |-> IF n \in Held(g[r]) THEN g[r].node[n].real
                                                      ELSE NoReal]]
    OBVIOUS
  <2>24. PICK add : add = {c \in UNION {sent[s] : s \in Others(r)} :
                        ref_cell_with(g[r], kind, NodesOf(c)) = {}}
    OBVIOUS
  <2>0. Others(r) \subseteq Rank
    BY DEF Others
  <2>1. \A s \in Others(r) : sent[s] = Sent(M, q, p, kind, s, r)
    BY <1>3, <2>21, <2>0
  <2>2. \A s \in Others(r) : \A c \in sent[s] :
           c \in M /\ c.kind = kind /\ Touches(p, r, c) /\ NodesOf(c) \subseteq Grown(M, q, p, K, s)
    <3>1. \A s \in Others(r) : \A c \in sent[s] : c \in Mixed(M, q, p, K, s)
      BY <2>1 DEF Sent, Mixed
    <3> QED
      BY <2>1, <3>1, CellHeld DEF Sent
  <2>3. \A n : n \in new <=> \E s \in Others(r) : \E c \in sent[s] : n \in NodesOf(c)
    BY <2>22
  <2>4. Held(g[r]) \cup new = Grown(M, q, p, K \cup {kind}, r)
    <3>1. \A n \in new : n \in Verts(Come(M, p, K \cup {kind}, r))
      BY <2>2, <2>3 DEF Verts, Come
    <3>2. Verts(Come(M, p, K, r)) \subseteq Verts(Come(M, p, K \cup {kind}, r))
      BY DEF Verts, Come
    <3>3. ASSUME NEW n \in Verts(Come(M, p, K \cup {kind}, r)) PROVE n \in Held(g[r]) \cup new
      <4>1. PICK c \in Come(M, p, K \cup {kind}, r) : n \in NodesOf(c)
        BY DEF Verts
      <4>2. CASE c.kind \in K
        BY <1>2, <4>1, <4>2 DEF Come, Grown, Verts
      <4>3. CASE c.kind = kind
        <5>1. c \in M /\ Touches(p, r, c)
          BY <4>1 DEF Come
        <5>2. \/ NodesOf(c) \subseteq Known(M, q, p, r)
              \/ \E s \in Others(r) : c \in Sent(M, q, p, kind, s, r)
          BY <4>3, <5>1, SentMeans
        <5> QED
          BY <1>2, <2>1, <2>3, <4>1, <5>2 DEF Grown
      <4> QED
        BY <4>1, <4>2, <4>3 DEF Come
    <3> QED
      BY <1>2, <3>1, <3>2, <3>3 DEF Grown
  <2>5. ASSUME NEW n \in new
        PROVE  g[Max({s \in Others(r) : n \in UNION {NodesOf(c) : c \in sent[s]}})].node[n].part = p[n]
    <3>1. PICK F : F = {s \in Others(r) : n \in UNION {NodesOf(c) : c \in sent[s]}}
      OBVIOUS
    <3>2. F # {} /\ F \subseteq Rank
      BY <2>0, <2>3, <2>5, <3>1
    <3>3. PICK m : m = Max(F)
      OBVIOUS
    <3>4. m \in F
      BY <3>2, <3>3, RankMax
    <3>5. m \in Rank /\ n \in Grown(M, q, p, K, m)
      BY <2>0, <2>2, <3>1, <3>4
    <3> QED
      BY <1>2, <3>1, <3>3, <3>5
  <2>6. node = NodeBits(Grown(M, q, p, K \cup {kind}, r), Known(M, q, p, r), p, V)
    <3>1. PICK F : F = [n \in new |->
             g[Max({s \in Others(r) : n \in UNION {NodesOf(c) : c \in sent[s]}})].node[n].part]
      OBVIOUS
    <3>2. \A n \in new : F[n] = p[n]
      BY <2>5, <3>1
    <3>3. node = [n \in Grown(M, q, p, K \cup {kind}, r) |->
                     [part |-> IF n \in new THEN F[n] ELSE g[r].node[n].part,
                      real |-> IF n \in Held(g[r]) THEN g[r].node[n].real ELSE NoReal]]
      BY <2>23, <2>4, <3>1
    <3>4. \A n \in Grown(M, q, p, K \cup {kind}, r) :
             (IF n \in new THEN F[n] ELSE g[r].node[n].part) = p[n]
      BY <1>2, <2>4, <3>2
    <3>5. \A n \in Grown(M, q, p, K \cup {kind}, r) :
             (IF n \in Held(g[r]) THEN g[r].node[n].real ELSE NoReal)
               = (IF n \in Known(M, q, p, r) THEN V[n] ELSE NoReal)
      BY <1>2, CellHeld
    <3> QED
      BY <3>3, <3>4, <3>5 DEF NodeBits
  <2>7. \A c : c \in add <=> \E s \in Others(r) : c \in sent[s] /\ ref_cell_with(g[r], kind, NodesOf(c)) = {}
    BY <2>24
  <2>8. \A n \in Grown(M, q, p, K \cup {kind}, r) : node[n].part = p[n]
    BY <2>6 DEF NodeBits
  <2>9. PICK C : C = {c \in g[r].cell \cup add : c.kind = kind => \E n \in NodesOf(c) : node[n].part = r}
    OBVIOUS
  <2>10. \A c \in g[r].cell \cup add : c \in M /\ NodesOf(c) \subseteq Grown(M, q, p, K \cup {kind}, r)
    <3>1. \A c \in g[r].cell : c \in M /\ NodesOf(c) \subseteq Held(g[r])
      BY <1>2, CellHeld
    <3>2. \A c \in add : c \in M /\ NodesOf(c) \subseteq new
      BY <2>2, <2>3, <2>7
    <3> QED
      BY <2>4, <3>1, <3>2
  <2>11. \A c : c \in C <=> /\ c \in g[r].cell \cup add
                            /\ c.kind = kind => Touches(p, r, c)
    BY <2>8, <2>9, <2>10 DEF Touches
  <2>12. ASSUME NEW c, c \in C PROVE c \in Mixed(M, q, p, K \cup {kind}, r)
    <3>1. CASE c \in add
      <4>1. c \in M /\ c.kind = kind /\ Touches(p, r, c)
        BY <2>2, <2>7, <3>1
      <4> QED
        BY <4>1 DEF Mixed, Come
    <3>2. CASE c \in g[r].cell
      BY <1>2, <2>11, <2>12, <3>2 DEF Mixed, Come
    <3> QED
      BY <2>11, <2>12, <3>1, <3>2
  <2>13. ASSUME NEW c, c \in Mixed(M, q, p, K \cup {kind}, r) PROVE c \in C
    <3>1. CASE c.kind # kind
      BY <1>2, <2>11, <2>13, <3>1 DEF Mixed, Come
    <3>2. CASE c.kind = kind
      <4>1. c \in M /\ Touches(p, r, c)
        BY <2>13, <3>2 DEF Mixed, Come
      <4>2. CASE c \in g[r].cell
        BY <2>11, <4>1, <4>2
      <4>3. CASE c \notin g[r].cell
        <5>1. ~ Touches(q, r, c)
          BY <1>2, <3>2, <4>1, <4>3 DEF Mixed
        <5>2. PICK s \in Others(r) : c \in Sent(M, q, p, kind, s, r)
          BY <3>2, <4>1, <5>1, SentMeans
        <5>3. ref_cell_with(g[r], kind, NodesOf(c)) = {}
          <6> SUFFICES ASSUME NEW d \in g[r].cell, d.kind = kind, NodesOf(d) = NodesOf(c) PROVE FALSE
            BY DEF ref_cell_with
          <6>1. d \in M
            BY <2>10
          <6> QED
            BY <1>0, <3>2, <4>1, <4>3, <6>1 DEF Single
        <5>4. c \in add
          BY <2>1, <2>7, <5>2, <5>3
        <5> QED
          BY <2>11, <4>1, <5>4
      <4> QED
        BY <4>2, <4>3
    <3> QED
      BY <3>1, <3>2
  <2>14. C = Mixed(M, q, p, K \cup {kind}, r)
    BY <2>12, <2>13
  <2>15. g[r].geom = GeomBits(Recs(G, Known(M, q, p, r)), G)
    BY <1>1, BitsParts
  <2>16. ref_migrate_shufflin_cell(g, kind)[r]
          = [node |-> node,
             cell |-> {c \in g[r].cell \cup add : c.kind = kind => \E n \in NodesOf(c) : node[n].part = r},
             geom |-> g[r].geom]
    BY <2>21, <2>22, <2>23, <2>24 DEF ref_migrate_shufflin_cell
  <2> QED
    BY <2>6, <2>9, <2>14, <2>15, <2>16 DEF Bits
<1>5. ref_migrate_shufflin_cell(g, kind) = [r \in Rank |-> ref_migrate_shufflin_cell(g, kind)[r]]
  BY DEF ref_migrate_shufflin_cell
<1> QED
  BY <1>4, <1>5 DEF AtCell

(* A record of the whole grid that ref_geom_remove_without_cell keeps. *)
Useful(M, k) ==
  /\ k[2] = "edge" => \E c \in M : c.kind = "edg" /\ k[1] \in NodesOf(c)
  /\ k[2] = "face" => \E c \in M : c.kind = "tri" /\ k[1] \in NodesOf(c)

(* The owners hold all useful records of their nodes, the others some of them. *)
Partial(M, p, G, D) == \A r \in Rank :
  /\ \A k \in D[r] : k \in DOMAIN G /\ Useful(M, k) /\ k[1] \in Ring(M, p, r)
  /\ \A k \in DOMAIN G : Useful(M, k) /\ p[k[1]] = r => k \in D[r]

(* The shares before the data, and before the records, of the ghosts are filled. *)
AtReal(D, M, q, p, V, G) ==
  [r \in Rank |-> Bits(Ring(M, p, r), Known(M, q, p, r), Touched(M, p, r), D[r], p, V, G)]
AtFill(D, M, p, V, G) ==
  [r \in Rank |-> Bits(Ring(M, p, r), Ring(M, p, r), Touched(M, p, r), D[r], p, V, G)]

(* All cells sent: r has what it is to hold. *)
LEMMA AllCome ==
  ASSUME NEW M, AllFormed(M), NEW q, NEW p, NEW r
  PROVE  /\ Mixed(M, q, p, {"edg", "tri"}, r) = Touched(M, p, r)
         /\ Ring(M, p, r) \subseteq Grown(M, q, p, {"edg", "tri"}, r)
<1>1. \A c \in M : c.kind \in {"edg", "tri"}
  BY DEF AllFormed, Formed
<1>2. Come(M, p, {"edg", "tri"}, r) = Touched(M, p, r)
  BY <1>1 DEF Come, Touched
<1>3. Mixed(M, q, p, {"edg", "tri"}, r) = Touched(M, p, r)
  BY <1>1, <1>2 DEF Mixed
<1> QED
  BY <1>2, <1>3 DEF Ring, Grown

(* The end of ref_migrate_shufflin. *)
LEMMA Tidied ==
  ASSUME NEW M, NEW q, NEW p, NEW V, NEW G, Moving(M, q, p, V, G),
         NEW g, g = AtCell({"edg", "tri"}, M, q, p, V, G)
  PROVE  \E D : Partial(M, p, G, D) /\ RemoveUnused(g) = AtReal(D, M, q, p, V, G)
<1> DEFINE D == [r \in Rank |-> {k \in Recs(G, Known(M, q, p, r)) :
                                    k[1] \in Ring(M, p, r) /\ HasCell(g[r], k)}]
<1>0. AllFormed(M) /\ \A k \in DOMAIN G : k[1] \in Verts(M)
  BY DEF Moving, Whole, Sound
<1>1. \A r \in Rank : g[r] = Bits(Grown(M, q, p, {"edg", "tri"}, r), Known(M, q, p, r), Touched(M, p, r),
                                  Recs(G, Known(M, q, p, r)), p, V, G)
  BY <1>0, AllCome DEF AtCell
<1>2. \A r \in Rank : /\ Held(g[r]) = Grown(M, q, p, {"edg", "tri"}, r) /\ g[r].cell = Touched(M, p, r)
                      /\ DOMAIN g[r].geom = Recs(G, Known(M, q, p, r))
                      /\ \A k \in DOMAIN g[r].geom : g[r].geom[k] = G[k]
                      /\ \A n \in Held(g[r]) : g[r].node[n].part = p[n]
  BY <1>1, BitsSees
<1>3. ASSUME NEW r \in Rank
      PROVE  {n \in Held(g[r]) : \/ ref_node_owned(g[r], r, n)
                                 \/ \E c \in g[r].cell : n \in NodesOf(c)} = Ring(M, p, r)
  <2>1. \A n \in Held(g[r]) : p[n] = r => n \in Ring(M, p, r)
    <3>1. Held(g[r]) \subseteq Verts(M)
      BY <1>2, CellHeld
    <3> QED
      BY <3>1, HeldByOwner
  <2>2. \A n : (\E c \in g[r].cell : n \in NodesOf(c)) <=> n \in Ring(M, p, r)
    BY <1>2 DEF Ring, Verts
  <2>3. Ring(M, p, r) \subseteq Held(g[r])
    BY <1>0, <1>2, AllCome
  <2> QED
    BY <1>2, <2>1, <2>2, <2>3 DEF ref_node_owned
<1>4. ASSUME NEW r \in Rank, NEW k, HasCell(g[r], k) PROVE Useful(M, k)
  BY <1>2, <1>4 DEF HasCell, Useful, Having, Touched
<1>5. ASSUME NEW r \in Rank, NEW k, Useful(M, k), p[k[1]] = r PROVE HasCell(g[r], k)
  BY <1>2, <1>5 DEF HasCell, Useful, Having, Touched, Touches
<1>6. Partial(M, p, G, D)
  <2>1. ASSUME NEW r \in Rank, NEW k \in D[r]
        PROVE  k \in DOMAIN G /\ Useful(M, k) /\ k[1] \in Ring(M, p, r)
    BY <1>4 DEF Recs
  <2>2. ASSUME NEW r \in Rank, NEW k \in DOMAIN G, Useful(M, k), p[k[1]] = r PROVE k \in D[r]
    <3>1. k[1] \in Verts(M) /\ k[1] \in Ring(M, p, r)
      BY <1>0, <2>2, HeldByOwner
    <3>2. k \in Recs(G, Known(M, q, p, r))
      BY <2>2, <3>1 DEF Recs, Known
    <3> QED
      BY <1>5, <2>2, <3>1, <3>2
  <2> HIDE DEF D
  <2> QED
    BY <2>1, <2>2 DEF Partial
<1>7. ASSUME NEW r \in Rank
      PROVE  RemoveUnused(g)[r] = Bits(Ring(M, p, r), Known(M, q, p, r), Touched(M, p, r), D[r], p, V, G)
  <2>1. PICK kept : kept = {n \in Held(g[r]) : \/ ref_node_owned(g[r], r, n)
                                               \/ \E c \in g[r].cell : n \in NodesOf(c)}
    OBVIOUS
  <2>2. PICK used : used = {k \in DOMAIN g[r].geom : k[1] \in kept /\ HasCell(g[r], k)}
    OBVIOUS
  <2>3. RemoveUnused(g)[r] = [node |-> [n \in kept |-> g[r].node[n]], cell |-> g[r].cell,
                              geom |-> [k \in used |-> g[r].geom[k]]]
    BY <2>1, <2>2 DEF RemoveUnused
  <2>4. kept = Ring(M, p, r)
    BY <1>3, <2>1
  <2>5. used = D[r]
    BY <1>2, <2>2, <2>4
  <2>6. [k \in used |-> g[r].geom[k]] = GeomBits(D[r], G)
    <3>1. \A k \in used : g[r].geom[k] = G[k]
      BY <1>2, <2>2
    <3> HIDE DEF D
    <3> QED
      BY <2>5, <3>1 DEF GeomBits
  <2>7. [n \in kept |-> g[r].node[n]] = NodeBits(Ring(M, p, r), Known(M, q, p, r), p, V)
    <3>1. g[r].node = NodeBits(Grown(M, q, p, {"edg", "tri"}, r), Known(M, q, p, r), p, V)
      BY <1>1, BitsParts
    <3>2. Ring(M, p, r) \subseteq Grown(M, q, p, {"edg", "tri"}, r)
      BY <1>0, AllCome
    <3> QED
      BY <2>4, <3>1, <3>2 DEF NodeBits
  <2> HIDE DEF D
  <2> QED
    BY <1>2, <2>3, <2>6, <2>7 DEF Bits
<1>8. RemoveUnused(g) = [r \in Rank |-> RemoveUnused(g)[r]]
  BY DEF RemoveUnused
<1> HIDE DEF D
<1>9. RemoveUnused(g) = AtReal(D, M, q, p, V, G)
  BY <1>7, <1>8 DEF AtReal
<1> QED
  BY <1>6, <1>9

(* ref_node_ghost_real. *)
LEMMA RealFilled ==
  ASSUME NEW M, NEW q, NEW p, NEW V, NEW G, Moving(M, q, p, V, G), NEW D,
         NEW g, g = AtReal(D, M, q, p, V, G)
  PROVE  ref_node_ghost_real(g) = AtFill(D, M, p, V, G)
<1>1. \A r \in Rank : g[r] = Bits(Ring(M, p, r), Known(M, q, p, r), Touched(M, p, r), D[r], p, V, G)
  BY DEF AtReal
<1>2. \A r \in Rank : /\ Held(g[r]) = Ring(M, p, r)
                      /\ \A n \in Ring(M, p, r) : /\ g[r].node[n].part = p[n]
                                                  /\ n \in Known(M, q, p, r) => g[r].node[n].real = V[n]
  BY <1>1, BitsSees
<1>3. ASSUME NEW r \in Rank, NEW n \in Ring(M, p, r)
      PROVE  p[n] \in Rank /\ g[g[r].node[n].part].node[n].real = V[n]
  <2>1. n \in Verts(M)
    BY RingIn
  <2>2. p[n] \in Rank /\ n \in Ring(M, p, p[n]) /\ n \in Known(M, q, p, p[n])
    BY <2>1, HeldByOwner DEF Moving, Known
  <2> QED
    BY <1>2, <2>2
<1>4. ASSUME NEW r \in Rank
      PROVE  [g[r] EXCEPT !.node = [n \in Held(g[r]) |->
                [@[n] EXCEPT !.real = g[g[r].node[n].part].node[n].real]]]
               = Bits(Ring(M, p, r), Ring(M, p, r), Touched(M, p, r), D[r], p, V, G)
  <2>1. PICK h : h = g[r]
    OBVIOUS
  <2>2. PICK B : B = [n \in Held(g[r]) |-> [h.node[n] EXCEPT !.real = g[g[r].node[n].part].node[n].real]]
    OBVIOUS
  <2>3. /\ h.node = NodeBits(Ring(M, p, r), Known(M, q, p, r), p, V)
        /\ h.cell = Touched(M, p, r) /\ h.geom = GeomBits(D[r], G)
        /\ h = [node |-> h.node, cell |-> h.cell, geom |-> h.geom]
    BY <1>1, <2>1, BitsParts
  <2>4. B = [n \in Ring(M, p, r) |-> [h.node[n] EXCEPT !.real = V[n]]]
    BY <1>2, <1>3, <2>2
  <2>5. B = [n \in Ring(M, p, r) |-> [part |-> p[n], real |-> V[n]]]
    BY <2>3, <2>4 DEF NodeBits
  <2>6. B = NodeBits(Ring(M, p, r), Ring(M, p, r), p, V)
    BY <2>5, AllReal
  <2>7. [h EXCEPT !.node = B] = [node |-> B, cell |-> h.cell, geom |-> h.geom]
    BY <2>3, SetNode
  <2>8. [h EXCEPT !.node = B] = Bits(Ring(M, p, r), Ring(M, p, r), Touched(M, p, r), D[r], p, V, G)
    BY <2>3, <2>6, <2>7 DEF Bits
  <2> QED
    BY <2>1, <2>2, <2>8
<1> QED
  BY <1>4 DEF ref_node_ghost_real, AtFill

(* ref_geom_ghost. *)
LEMMA GeomFilled ==
  ASSUME NEW M, NEW q, NEW p, NEW V, NEW G, Moving(M, q, p, V, G), NEW D, Partial(M, p, G, D),
         NEW g, g = AtFill(D, M, p, V, G)
  PROVE  Good(ref_geom_ghost(g))
<1> DEFINE H == [k \in {k \in DOMAIN G : Useful(M, k)} |-> G[k]]
<1>1. \A r \in Rank : g[r] = Bits(Ring(M, p, r), Ring(M, p, r), Touched(M, p, r), D[r], p, V, G)
  BY DEF AtFill
<1>2. \A r \in Rank : /\ Held(g[r]) = Ring(M, p, r) /\ DOMAIN g[r].geom = D[r]
                      /\ \A n \in Ring(M, p, r) : g[r].node[n].part = p[n]
                      /\ \A k \in D[r] : g[r].geom[k] = G[k]
  BY <1>1, BitsSees
<1>3. \A r \in Rank : Ring(M, p, r) \subseteq Verts(M) /\ \A n \in Verts(M) : p[n] \in Rank
  BY RingIn DEF Moving
<1>4. ASSUME NEW n, p[n] \in Rank
      PROVE  \A k : k \in GeomAt(g[p[n]], n) <=> k \in DOMAIN G /\ Useful(M, k) /\ k[1] = n
  BY <1>2, <1>4 DEF GeomAt, Partial
<1>5. ASSUME NEW r \in Rank, NEW in,
             in = UNION {GeomAt(g[g[r].node[n].part], n) :
                           n \in {n \in Held(g[r]) : g[r].node[n].part # r}}
      PROVE  [g[r] EXCEPT !.geom = [k \in DOMAIN @ \cup in |->
                IF k \in in THEN g[g[r].node[k[1]].part].geom[k] ELSE @[k]]] = Piece(M, p, V, H, r)
  <2>1. \A k : k \in in <=> /\ k \in DOMAIN G /\ Useful(M, k)
                            /\ k[1] \in Ring(M, p, r) /\ p[k[1]] # r
    <3>1. \A k : k \in in <=> \E n \in Ring(M, p, r) : p[n] # r /\ k \in GeomAt(g[p[n]], n)
      BY <1>2, <1>5
    <3> QED
      BY <1>3, <1>4, <3>1
  <2>2. D[r] \cup in = Recs(H, Ring(M, p, r))
    <3>1. \A k : k \in D[r] => k \in DOMAIN G /\ Useful(M, k) /\ k[1] \in Ring(M, p, r)
      BY DEF Partial
    <3>2. \A k : k \in DOMAIN G /\ Useful(M, k) /\ p[k[1]] = r => k \in D[r]
      BY DEF Partial
    <3> QED
      BY <2>1, <3>1, <3>2 DEF Recs
  <2>3. ASSUME NEW k \in in PROVE g[g[r].node[k[1]].part].geom[k] = G[k]
    <3>1. /\ k \in DOMAIN G /\ Useful(M, k) /\ k[1] \in Ring(M, p, r) /\ p[k[1]] \in Rank
      BY <1>3, <2>1, <2>3
    <3>2. k \in D[p[k[1]]]
      BY <3>1 DEF Partial
    <3> QED
      BY <1>2, <3>1, <3>2
  <2>4. PICK h : h = g[r]
    OBVIOUS
  <2>5. PICK B : B = [k \in DOMAIN h.geom \cup in |->
                       IF k \in in THEN g[g[r].node[k[1]].part].geom[k] ELSE h.geom[k]]
    OBVIOUS
  <2>6. /\ h.node = NodeBits(Ring(M, p, r), Ring(M, p, r), p, V) /\ h.cell = Touched(M, p, r)
        /\ h = [node |-> h.node, cell |-> h.cell, geom |-> h.geom]
    BY <1>1, <2>4, BitsParts
  <2>7. B = [k \in Recs(H, Ring(M, p, r)) |-> H[k]]
    <3>1. DOMAIN B = Recs(H, Ring(M, p, r)) /\ B = [k \in DOMAIN B |-> B[k]]
      BY <1>2, <2>2, <2>4, <2>5
    <3>2. \A k \in Recs(H, Ring(M, p, r)) : B[k] = G[k]
      <4> HIDE DEF H
      <4> QED
        BY <1>2, <2>2, <2>3, <2>4, <2>5
    <3>3. \A k \in Recs(H, Ring(M, p, r)) : H[k] = G[k]
      BY DEF Recs
    <3> HIDE DEF H
    <3> QED
      BY <3>1, <3>2, <3>3
  <2>8. h.node = [n \in Ring(M, p, r) |-> [part |-> p[n], real |-> V[n]]]
    BY <2>6, AllReal
  <2>9. [h EXCEPT !.geom = B] = [node |-> h.node, cell |-> h.cell, geom |-> B]
    BY <2>6, SetGeom
  <2>10. [h EXCEPT !.geom = B] = Piece(M, p, V, H, r)
    <3> HIDE DEF H
    <3> QED
      BY <2>6, <2>7, <2>8, <2>9 DEF Piece
  <2> HIDE DEF H
  <2> QED
    BY <2>4, <2>5, <2>10
<1>6. Whole(M, p, V, H)
  <2>1. H \in [DOMAIN H -> {0, 1}] /\ DOMAIN H \subseteq DOMAIN G
    BY DEF Moving, Whole
  <2> HIDE DEF H
  <2> QED
    BY <2>1 DEF Moving, Whole
<1> HIDE DEF H
<1>7. ref_geom_ghost(g) = Shares(M, p, V, H)
  BY <1>5 DEF ref_geom_ghost, Shares
<1> QED
  BY <1>6, <1>7 DEF Good

-----------------------------------------------------------------------------
(* The invariant *)

(* What the shares are at each stage. *)
NodeStage(g) == \E M, q, p, V, G : Moving(M, q, p, V, G) /\ g = AtNode(M, q, p, V, G)
GeomStage(g) == \E M, q, p, V, G : Moving(M, q, p, V, G) /\ g = AtGeom(M, q, p, V, G)
CellStage(K, g) == \E M, q, p, V, G : Moving(M, q, p, V, G) /\ g = AtCell(K, M, q, p, V, G)
RealStage(g) == \E M, q, p, V, G, D :
  Moving(M, q, p, V, G) /\ Partial(M, p, G, D) /\ g = AtReal(D, M, q, p, V, G)
FillStage(g) == \E M, q, p, V, G, D :
  Moving(M, q, p, V, G) /\ Partial(M, p, G, D) /\ g = AtFill(D, M, p, V, G)

(* The stages of an adaptation pass. *)
Phases == {"adapt", "node", "geom", "edg", "tri", "tidy", "real", "fill"}

(* The inductive invariant: between the passes the shares are those of one whole grid, and
   at each stage of the migration exactly what that stage leaves of it. *)
AdaptInv ==
  /\ ops \in 0 .. MaxOp
  /\ failed \in BOOLEAN
  /\ phase \in Phases
  /\ phase = "adapt" => Good(grid)
  /\ phase = "node" => NodeStage(grid)
  /\ phase = "geom" => GeomStage(grid)
  /\ phase = "edg" => CellStage({}, grid)
  /\ phase = "tri" => CellStage({"edg"}, grid)
  /\ phase = "tidy" => CellStage({"edg", "tri"}, grid)
  /\ phase = "real" => RealStage(grid)
  /\ phase = "fill" => FillStage(grid)

(* The grid the program starts with. *)
LEMMA InitWhole ==
  ASSUME NEW p \in [InitNode -> Rank]
  PROVE  Good([r \in Rank |-> Share(r, p)])
<1> DEFINE V == [n \in InitNode |-> 0]
           G == [k \in InitGeom |-> 0]
<1>1. Verts(InitCell) = InitNode
  BY DEF Verts, InitNode
<1>2. AllFormed(InitCell)
  BY GridAssumption DEF AllFormed, Formed
<1>3. Single(InitCell)
  BY GridAssumption DEF Single
<1>4. MaxNode \in Nat /\ InitNode \subseteq 1 .. MaxNode /\ ConformingDisk(InitCell, InitNode)
  BY GridAssumption
<1>5. IsFiniteSet(Verts(InitCell))
  <2>1. \A a, b \in Int : IsFiniteSet(a .. b)
    BY FS_Interval
  <2>2. IsFiniteSet(1 .. MaxNode)
    BY <1>4, <2>1
  <2> QED
    BY <1>1, <1>4, <2>2, FS_Subset
<1>6. Sound(InitCell) /\ Euler(InitCell)
  BY <1>1, <1>2, <1>3, <1>4, <1>5, DiskIsSound
<1>7. Whole(InitCell, p, V, G)
  <2>1. \A k \in InitGeom : k[1] \in InitNode /\ k[2] \in {"node", "edge", "face"}
    BY GridAssumption
  <2>2. DOMAIN G = InitGeom /\ G \in [DOMAIN G -> {0, 1}] /\ V \in [InitNode -> {0, 1}]
    OBVIOUS
  <2> HIDE DEF V, G
  <2> QED
    BY <1>1, <1>4, <1>6, <2>1, <2>2 DEF Whole
<1>8. ASSUME NEW r \in Rank PROVE Share(r, p) = Piece(InitCell, p, V, G, r)
  <2>1. {c \in InitCell : \E n \in NodesOf(c) : p[n] = r} = Touched(InitCell, p, r)
    BY DEF Touched, Touches
  <2>2. UNION {NodesOf(c) : c \in Touched(InitCell, p, r)} = Ring(InitCell, p, r)
    BY DEF Ring, Verts
  <2>3. PICK R : R = Ring(InitCell, p, r)
    OBVIOUS
  <2>4. R \subseteq InitNode
    BY <1>1, <2>3, RingIn
  <2>5. [n \in R |-> [part |-> p[n], real |-> 0]] = [n \in R |-> [part |-> p[n], real |-> V[n]]]
    BY <2>4
  <2>6. {k \in InitGeom : k[1] \in R} = Recs(G, R)
    BY DEF Recs
  <2>7. [k \in {k \in InitGeom : k[1] \in R} |-> 0] = [k \in Recs(G, R) |-> G[k]]
    BY <2>6 DEF Recs
  <2>8. Share(r, p) = [node |-> [n \in R |-> [part |-> p[n], real |-> 0]],
                       cell |-> Touched(InitCell, p, r),
                       geom |-> [k \in {k \in InitGeom : k[1] \in R} |-> 0]]
    BY <2>1, <2>2, <2>3 DEF Share
  <2> HIDE DEF V, G
  <2> QED
    BY <2>3, <2>5, <2>7, <2>8 DEF Piece
<1> HIDE DEF V, G
<1>9. [r \in Rank |-> Share(r, p)] = Shares(InitCell, p, V, G)
  BY <1>8 DEF Shares
<1> QED
  BY <1>7, <1>9 DEF Good

(* The invariant holds at the start. *)
LEMMA InitAdapt == Init => AdaptInv
<1> SUFFICES ASSUME Init PROVE AdaptInv
  OBVIOUS
<1>1. phase = "adapt" /\ ops = 0 /\ failed = FALSE /\ MaxOp \in Nat
  BY GridAssumption DEF Init
<1>2. Good(grid)
  BY InitWhole DEF Init
<1>3. ops \in 0 .. MaxOp
  BY <1>1
<1>4. failed \in BOOLEAN
  BY <1>1, Zenon
<1>5. phase \in Phases
  BY <1>1 DEF Phases
<1> QED
  BY <1>1, <1>2, <1>3, <1>4, <1>5 DEF AdaptInv

(* An operation of a rank keeps the grid whole. *)
LEMMA OperationStep ==
  ASSUME AdaptInv, NEW r \in Rank, Adapting,
         \/ \E n \in Held(grid[r]) : Smooth(r, n)
         \/ \E e \in Sides(r) : Split(r, e[1], e[2])
         \/ \E e \in Sides(r) : Swap(r, e[1], e[2])
         \/ \E n0 \in Held(grid[r]), n1 \in Held(grid[r]) : Collapse(r, n0, n1)
  PROVE  AdaptInv'
<1>1. phase = "adapt" /\ ops < MaxOp /\ ops \in 0 .. MaxOp /\ failed \in BOOLEAN /\ MaxOp \in Nat
  BY GridAssumption DEF Adapting, AdaptInv
<1>2. PICK M, q, V, G : Whole(M, q, V, G) /\ grid = Shares(M, q, V, G)
  BY <1>1 DEF AdaptInv, Good
<1>3. \A e \in Sides(r) : e[1] # e[2]
  <2>1. Held(grid[r]) \subseteq Nat
    <3>1. Held(grid[r]) = Ring(M, q, r)
      BY <1>2, PieceSees DEF Shares
    <3> QED
      BY <1>2, <3>1, RingIn, GridAssumption DEF Whole
  <2> QED
    BY <2>1 DEF Sides
<1>4. Good(grid')
  <2>1. CASE \E n \in Held(grid[r]) : Smooth(r, n)
    BY <1>2, <2>1, SmoothStep
  <2>2. CASE \E e \in Sides(r) : Split(r, e[1], e[2])
    BY <1>2, <1>3, <2>2, SplitStep
  <2>3. CASE \E e \in Sides(r) : Swap(r, e[1], e[2])
    BY <1>2, <1>3, <2>3, SwapStep
  <2>4. CASE \E n0 \in Held(grid[r]), n1 \in Held(grid[r]) : Collapse(r, n0, n1)
    BY <1>2, <2>4, CollapseStep
  <2> QED
    BY <2>1, <2>2, <2>3, <2>4
<1>5. phase' = phase /\ (ops' = ops \/ ops' = ops + 1) /\ failed' \in BOOLEAN
  BY <1>1 DEF Smooth, Split, Swap, Collapse, Commit, Fail
<1> QED
  BY <1>1, <1>4, <1>5 DEF AdaptInv, Phases

(* A failing call changes no share. *)
LEMMA FailStep ==
  ASSUME AdaptInv, Fail
  PROVE  AdaptInv'
  BY DEF AdaptInv, Fail

(* ref_migrate_new_part: each rank that holds a node learns its new owner. *)
LEMMA BalanceStep ==
  ASSUME AdaptInv, Balance
  PROVE  AdaptInv'
<1>1. PICK M, q, V, G : Whole(M, q, V, G) /\ grid = Shares(M, q, V, G)
  BY DEF AdaptInv, Good, Balance
<1>2. PICK p \in [LiveNodes -> Rank] : Stage(OwnersKnow(grid), ref_migrate_new_part(grid, p), "node")
  BY DEF Balance
<1>3. CASE Fail
  BY <1>3, FailStep
<1>4. CASE ~ Fail
  <2>1. grid' = ref_migrate_new_part(grid, p) /\ phase' = "node" /\ UNCHANGED <<ops, failed>>
    BY <1>2, <1>4 DEF Stage
  <2>2. Moving(M, q, p, V, G)
    BY <1>1, <1>2, LiveIs DEF Moving
  <2>3. grid' = AtNode(M, q, p, V, G)
    BY <1>1, <2>1, <2>2, NewPart
  <2>4. NodeStage(grid')
    BY <2>2, <2>3 DEF NodeStage
  <2> QED
    BY <2>1, <2>4 DEF AdaptInv, Phases
<1> QED
  BY <1>3, <1>4

(* ref_migrate_shufflin_node. *)
LEMMA NodesStep ==
  ASSUME AdaptInv, SendNodes
  PROVE  AdaptInv'
<1>1. phase = "node" /\ grid' = ref_migrate_shufflin_node(grid) /\ phase' = "geom" /\ UNCHANGED <<ops, failed>>
  BY DEF SendNodes, Stage
<1>2. GeomStage(grid')
  BY <1>1, NodesSent DEF AdaptInv, NodeStage, GeomStage
<1> QED
  BY <1>1, <1>2 DEF AdaptInv, Phases

(* ref_migrate_shufflin_geom. *)
LEMMA GeomStep ==
  ASSUME AdaptInv, SendGeom
  PROVE  AdaptInv'
<1>1. CASE Fail
  BY <1>1, FailStep
<1>2. CASE ~ Fail
  <2>1. phase = "geom" /\ grid' = ref_migrate_shufflin_geom(grid) /\ phase' = "edg" /\ UNCHANGED <<ops, failed>>
    BY <1>2 DEF SendGeom, Stage
  <2>2. CellStage({}, grid')
    BY <2>1, GeomsSent DEF AdaptInv, GeomStage, CellStage
  <2> QED
    BY <2>1, <2>2 DEF AdaptInv, Phases
<1> QED
  BY <1>1, <1>2

(* ref_migrate_shufflin_cell for the edg. *)
LEMMA EdgStep ==
  ASSUME AdaptInv, SendEdg
  PROVE  AdaptInv'
<1>1. CASE Fail
  BY <1>1, FailStep
<1>2. CASE ~ Fail
  <2>1. phase = "edg" /\ grid' = ref_migrate_shufflin_cell(grid, "edg") /\ phase' = "tri" /\ UNCHANGED <<ops, failed>>
    BY <1>2 DEF SendEdg, Stage
  <2>2. PICK M, q, p, V, G : Moving(M, q, p, V, G) /\ grid = AtCell({}, M, q, p, V, G)
    BY <2>1 DEF AdaptInv, CellStage
  <2>3. grid' = AtCell({} \cup {"edg"}, M, q, p, V, G)
    BY <2>1, <2>2, CellsSent
  <2>4. {} \cup {"edg"} = {"edg"}
    OBVIOUS
  <2>5. CellStage({"edg"}, grid')
    BY <2>2, <2>3, <2>4 DEF CellStage
  <2> QED
    BY <2>1, <2>5 DEF AdaptInv, Phases
<1> QED
  BY <1>1, <1>2

(* ref_migrate_shufflin_cell for the tri. *)
LEMMA TriStep ==
  ASSUME AdaptInv, SendTri
  PROVE  AdaptInv'
<1>1. CASE Fail
  BY <1>1, FailStep
<1>2. CASE ~ Fail
  <2>1. phase = "tri" /\ grid' = ref_migrate_shufflin_cell(grid, "tri") /\ phase' = "tidy" /\ UNCHANGED <<ops, failed>>
    BY <1>2 DEF SendTri, Stage
  <2>2. PICK M, q, p, V, G : Moving(M, q, p, V, G) /\ grid = AtCell({"edg"}, M, q, p, V, G)
    BY <2>1 DEF AdaptInv, CellStage
  <2>3. grid' = AtCell({"edg"} \cup {"tri"}, M, q, p, V, G)
    BY <2>1, <2>2, CellsSent
  <2>4. {"edg"} \cup {"tri"} = {"edg", "tri"}
    OBVIOUS
  <2>5. CellStage({"edg", "tri"}, grid')
    BY <2>2, <2>3, <2>4 DEF CellStage
  <2> QED
    BY <2>1, <2>5 DEF AdaptInv, Phases
<1> QED
  BY <1>1, <1>2

(* The removal of unused nodes and records. *)
LEMMA TidyStep ==
  ASSUME AdaptInv, Tidy
  PROVE  AdaptInv'
<1>1. phase = "tidy" /\ grid' = RemoveUnused(grid) /\ phase' = "real" /\ UNCHANGED <<ops, failed>>
  BY DEF Tidy, Stage
<1>2. PICK M, q, p, V, G : Moving(M, q, p, V, G) /\ grid = AtCell({"edg", "tri"}, M, q, p, V, G)
  BY <1>1 DEF AdaptInv, CellStage
<1>3. PICK D : Partial(M, p, G, D) /\ grid' = AtReal(D, M, q, p, V, G)
  BY <1>1, <1>2, Tidied
<1>4. RealStage(grid')
  BY <1>2, <1>3 DEF RealStage
<1> QED
  BY <1>1, <1>4 DEF AdaptInv, Phases

(* ref_node_ghost_real. *)
LEMMA RealStep ==
  ASSUME AdaptInv, FillReal
  PROVE  AdaptInv'
<1>1. CASE Fail
  BY <1>1, FailStep
<1>2. CASE ~ Fail
  <2>1. phase = "real" /\ grid' = ref_node_ghost_real(grid) /\ phase' = "fill" /\ UNCHANGED <<ops, failed>>
    BY <1>2 DEF FillReal, Stage
  <2>2. PICK M, q, p, V, G, D :
          Moving(M, q, p, V, G) /\ Partial(M, p, G, D) /\ grid = AtReal(D, M, q, p, V, G)
    BY <2>1 DEF AdaptInv, RealStage
  <2>3. grid' = AtFill(D, M, p, V, G)
    BY <2>1, <2>2, RealFilled
  <2>4. FillStage(grid')
    BY <2>2, <2>3 DEF FillStage
  <2> QED
    BY <2>1, <2>4 DEF AdaptInv, Phases
<1> QED
  BY <1>1, <1>2

(* ref_geom_ghost. *)
LEMMA FillStep ==
  ASSUME AdaptInv, FillGeom
  PROVE  AdaptInv'
<1>1. CASE Fail
  BY <1>1, FailStep
<1>2. CASE ~ Fail
  <2>1. phase = "fill" /\ grid' = ref_geom_ghost(grid) /\ phase' = "adapt" /\ UNCHANGED <<ops, failed>>
    BY <1>2 DEF FillGeom, Stage
  <2>2. PICK M, q, p, V, G, D :
          Moving(M, q, p, V, G) /\ Partial(M, p, G, D) /\ grid = AtFill(D, M, p, V, G)
    BY <2>1 DEF AdaptInv, FillStage
  <2>3. Good(grid')
    BY <2>1, <2>2, GeomFilled
  <2> QED
    BY <2>1, <2>3 DEF AdaptInv, Phases
<1> QED
  BY <1>1, <1>2

(* The invariant holds throughout, for every conforming disk whose CAD faces differ across
   every CAD edge inside it (GridAssumption), number of ranks, partition, order of local operations (ref_split_edge, ref_collapse_edge, ref_swap_tri_pass,
   ref_smooth_pass) and outcome of the load balancing, a failing call included. *)
THEOREM AdaptInductive == Spec => []AdaptInv
<1>1. Init => AdaptInv
  BY InitAdapt
<1>2. AdaptInv /\ [Next]_vars => AdaptInv'
  <2> SUFFICES ASSUME AdaptInv, [Next]_vars PROVE AdaptInv'
    OBVIOUS
  <2>1. CASE UNCHANGED vars
    BY <2>1 DEF AdaptInv, vars
  <2>2. CASE \E r \in Rank :
         /\ Adapting
         /\ \/ \E n \in Held(grid[r]) : Smooth(r, n)
            \/ \E e \in Sides(r) : Split(r, e[1], e[2])
            \/ \E e \in Sides(r) : Swap(r, e[1], e[2])
            \/ \E n0 \in Held(grid[r]), n1 \in Held(grid[r]) : Collapse(r, n0, n1)
    BY <2>2, OperationStep
  <2>3. CASE Balance
    BY <2>3, BalanceStep
  <2>4. CASE SendNodes
    BY <2>4, NodesStep
  <2>5. CASE SendGeom
    BY <2>5, GeomStep
  <2>6. CASE SendEdg
    BY <2>6, EdgStep
  <2>7. CASE SendTri
    BY <2>7, TriStep
  <2>8. CASE Tidy
    BY <2>8, TidyStep
  <2>9. CASE FillReal
    BY <2>9, RealStep
  <2>10. CASE FillGeom
    BY <2>10, FillStep
  <2> QED
    BY <2>1, <2>2, <2>3, <2>4, <2>5, <2>6, <2>7, <2>8, <2>9, <2>10 DEF Next
<1> QED
  BY <1>1, <1>2, PTL DEF Spec

-----------------------------------------------------------------------------
(* What the invariant implies *)

(* What TypeOK says of a share. *)
ShareOK(g) ==
  /\ Held(g) \subseteq 1 .. MaxNode
  /\ \A n \in Held(g) : g.node[n] \in [part : Rank, real : {0, 1, NoReal}]
  /\ \A c \in g.cell : NodesOf(c) \subseteq Held(g)
  /\ \A k \in DOMAIN g.geom : g.geom[k] \in {0, 1}

(* A share in the middle of a migration is well formed when its cells have their nodes. *)
LEMMA BitsOK ==
  ASSUME NEW M, NEW q, NEW p, NEW V, NEW G, Moving(M, q, p, V, G), NEW S, S \subseteq Verts(M),
         NEW X, NEW C, Verts(C) \subseteq S, NEW D, D \subseteq DOMAIN G
  PROVE  ShareOK(Bits(S, X, C, D, p, V, G))
<1>1. PICK g : g = Bits(S, X, C, D, p, V, G)
  OBVIOUS
<1>2. Held(g) = S /\ g.cell = C /\ DOMAIN g.geom = D /\ \A k \in D : g.geom[k] = G[k]
  BY <1>1, BitsSees
<1>3. /\ Verts(M) \subseteq 1 .. MaxNode /\ \A n \in Verts(M) : p[n] \in Rank /\ V[n] \in {0, 1}
      /\ \A k \in DOMAIN G : G[k] \in {0, 1}
  BY DEF Moving, Whole
<1>4. g.node = NodeBits(S, X, p, V)
  BY <1>1, BitsParts
<1>5. \A n \in S : g.node[n] \in [part : Rank, real : {0, 1, NoReal}]
  BY <1>3, <1>4 DEF NodeBits
<1>6. \A c \in C : NodesOf(c) \subseteq S
  BY DEF Verts
<1>7. ShareOK(g)
  BY <1>2, <1>3, <1>5, <1>6 DEF ShareOK
<1> QED
  BY <1>1, <1>7

(* At rest a share is one of these. *)
LEMMA PieceBits ==
  ASSUME NEW M, NEW q, NEW V, NEW G, NEW r
  PROVE  Piece(M, q, V, G, r)
           = Bits(Ring(M, q, r), Ring(M, q, r), Touched(M, q, r), Recs(G, Ring(M, q, r)), q, V, G)
  BY AllReal DEF Piece, Bits, GeomBits

(* So every share is, at every stage. *)
LEMMA AllOK ==
  ASSUME AdaptInv
  PROVE  \A r \in Rank : ShareOK(grid[r])
<1> USE DEF Phases
<1>0. /\ \A M, q, r : Verts(Touched(M, q, r)) = Ring(M, q, r) /\ Ring(M, q, r) \subseteq Verts(M)
      /\ \A G, S : Recs(G, S) \subseteq DOMAIN G
  BY RingIn DEF Ring, Recs
<1>1. CASE phase = "adapt"
  <2>1. PICK M, q, V, G : Whole(M, q, V, G) /\ grid = Shares(M, q, V, G)
    BY <1>1 DEF AdaptInv, Good
  <2>2. Moving(M, q, q, V, G)
    BY <2>1 DEF Moving, Whole
  <2> QED
    BY <1>0, <2>1, <2>2, BitsOK, PieceBits DEF Shares
<1>2. CASE phase = "node"
  <2>1. PICK M, q, p, V, G : Moving(M, q, p, V, G) /\ grid = AtNode(M, q, p, V, G)
    BY <1>2 DEF AdaptInv, NodeStage
  <2> QED
    BY <1>0, <2>1, BitsOK DEF AtNode
<1>3. CASE phase = "geom"
  <2>1. PICK M, q, p, V, G : Moving(M, q, p, V, G) /\ grid = AtGeom(M, q, p, V, G)
    BY <1>3 DEF AdaptInv, GeomStage
  <2>2. \A r : Known(M, q, p, r) \subseteq Verts(M) /\ Ring(M, q, r) \subseteq Known(M, q, p, r)
    BY <1>0 DEF Known
  <2> QED
    BY <1>0, <2>1, <2>2, BitsOK DEF AtGeom
<1>4. ASSUME NEW K, CellStage(K, grid) PROVE \A r \in Rank : ShareOK(grid[r])
  <2>1. PICK M, q, p, V, G : Moving(M, q, p, V, G) /\ grid = AtCell(K, M, q, p, V, G)
    BY <1>4 DEF CellStage
  <2>2. ASSUME NEW r PROVE Verts(Mixed(M, q, p, K, r)) \subseteq Grown(M, q, p, K, r)
                           /\ Grown(M, q, p, K, r) \subseteq Verts(M)
    BY CellHeld DEF Verts
  <2> QED
    BY <1>0, <2>1, <2>2, BitsOK DEF AtCell
<1>5. CASE phase \in {"edg", "tri", "tidy"}
  BY <1>4, <1>5 DEF AdaptInv
<1>6. CASE phase = "real"
  <2>1. PICK M, q, p, V, G, D :
          Moving(M, q, p, V, G) /\ Partial(M, p, G, D) /\ grid = AtReal(D, M, q, p, V, G)
    BY <1>6 DEF AdaptInv, RealStage
  <2>2. \A r \in Rank : D[r] \subseteq DOMAIN G
    BY <2>1 DEF Partial
  <2> QED
    BY <1>0, <2>1, <2>2, BitsOK DEF AtReal
<1>7. CASE phase = "fill"
  <2>1. PICK M, q, p, V, G, D :
          Moving(M, q, p, V, G) /\ Partial(M, p, G, D) /\ grid = AtFill(D, M, p, V, G)
    BY <1>7 DEF AdaptInv, FillStage
  <2>2. \A r \in Rank : D[r] \subseteq DOMAIN G
    BY <2>1 DEF Partial
  <2> QED
    BY <1>0, <2>1, <2>2, BitsOK DEF AtFill
<1> QED
  BY <1>1, <1>2, <1>3, <1>5, <1>6, <1>7 DEF AdaptInv

(* The invariant implies the types. *)
LEMMA AdaptTypes ==
  ASSUME AdaptInv
  PROVE  TypeOK
  BY AllOK DEF AdaptInv, TypeOK, Phases, ShareOK

(* What the shares of a whole grid say of it. *)
LEMMA RestSees ==
  ASSUME NEW M, NEW q, NEW V, NEW G, Whole(M, q, V, G), grid = Shares(M, q, V, G)
  PROVE  /\ Mesh = M /\ LiveNodes = Verts(M)
         /\ \A r \in Rank : OwnedNodes(r) = {n \in Verts(M) : q[n] = r}
         /\ \A r \in Rank : /\ Held(grid[r]) = Ring(M, q, r) /\ grid[r].cell = Touched(M, q, r)
                            /\ \A n \in Ring(M, q, r) : /\ grid[r].node[n].part = q[n]
                                                        /\ grid[r].node[n].real = V[n]
                            /\ DOMAIN grid[r].geom = Recs(G, Ring(M, q, r))
                            /\ \A k \in DOMAIN grid[r].geom : grid[r].geom[k] = G[k]
<1>1. \A r \in Rank : /\ Held(grid[r]) = Ring(M, q, r) /\ grid[r].cell = Touched(M, q, r)
                      /\ \A n \in Ring(M, q, r) : /\ grid[r].node[n].part = q[n]
                                                  /\ grid[r].node[n].real = V[n]
                      /\ DOMAIN grid[r].geom = Recs(G, Ring(M, q, r))
                      /\ \A k \in DOMAIN grid[r].geom : grid[r].geom[k] = G[k]
  BY PieceSees DEF Shares
<1>2. AllFormed(M) /\ \A n \in Verts(M) : q[n] \in Rank
  BY DEF Whole, Sound
<1>3. ASSUME NEW c \in M PROVE \E r \in Rank : c \in Touched(M, q, r)
  <2>1. PICK n \in NodesOf(c) : TRUE
    BY <1>2, SomeNode
  <2>2. q[n] \in Rank
    BY <1>2 DEF Verts
  <2> QED
    BY <2>2 DEF Touched, Touches
<1>4. Mesh = M
  BY <1>1, <1>3 DEF Mesh, Touched
<1>5. ASSUME NEW r \in Rank PROVE OwnedNodes(r) = {n \in Verts(M) : q[n] = r}
  <2>1. Ring(M, q, r) \subseteq Verts(M) /\ \A n \in Verts(M) : q[n] = r => n \in Ring(M, q, r)
    BY RingIn, HeldByOwner
  <2> QED
    BY <1>1, <2>1 DEF OwnedNodes, ref_node_owned
<1> QED
  BY <1>1, <1>4, <1>5, LiveIs

(* Between the operations each node has one owner, each rank holds exactly the cells that
   touch a node it owns and exactly their nodes, and it knows their owners: what the local
   tests of split, collapse and swap, and ref_migrate_shufflin, rely on. *)
THEOREM HaloIsExact == Spec => []HaloExact
<1>1. AdaptInv => HaloExact
  <2> SUFFICES ASSUME AdaptInv PROVE HaloExact
    OBVIOUS
  <2>1. TypeOK
    BY AdaptTypes
  <2>2. ASSUME phase = "adapt"
        PROVE  /\ \A n \in LiveNodes : Cardinality({r \in Rank : n \in OwnedNodes(r)}) = 1
               /\ \A r \in Rank :
                    /\ grid[r].cell = {c \in Mesh : NodesOf(c) \cap OwnedNodes(r) # {}}
                    /\ Held(grid[r]) = UNION {NodesOf(c) : c \in grid[r].cell}
                    /\ \A n \in Held(grid[r]) : n \in OwnedNodes(grid[r].node[n].part)
    <3>1. PICK M, q, V, G : Whole(M, q, V, G) /\ grid = Shares(M, q, V, G)
      BY <2>2 DEF AdaptInv, Good
    <3>2. /\ Mesh = M /\ LiveNodes = Verts(M)
          /\ \A r \in Rank : OwnedNodes(r) = {n \in Verts(M) : q[n] = r}
          /\ \A r \in Rank : /\ Held(grid[r]) = Ring(M, q, r) /\ grid[r].cell = Touched(M, q, r)
                             /\ \A n \in Ring(M, q, r) : grid[r].node[n].part = q[n]
      BY <3>1, RestSees
    <3>3. \A n \in Verts(M) : q[n] \in Rank
      BY <3>1 DEF Whole
    <3>4. ASSUME NEW n \in LiveNodes PROVE Cardinality({r \in Rank : n \in OwnedNodes(r)}) = 1
      <4>1. {r \in Rank : n \in OwnedNodes(r)} = {q[n]}
        BY <3>2, <3>3
      <4> QED
        BY <4>1, FS_Singleton
    <3>5. ASSUME NEW r \in Rank
          PROVE  /\ grid[r].cell = {c \in Mesh : NodesOf(c) \cap OwnedNodes(r) # {}}
                 /\ Held(grid[r]) = UNION {NodesOf(c) : c \in grid[r].cell}
                 /\ \A n \in Held(grid[r]) : n \in OwnedNodes(grid[r].node[n].part)
      <4>1. grid[r].cell = {c \in Mesh : NodesOf(c) \cap OwnedNodes(r) # {}}
        BY <3>2 DEF Touched, Touches, Verts
      <4>2. Held(grid[r]) = UNION {NodesOf(c) : c \in grid[r].cell}
        BY <3>2 DEF Ring, Verts
      <4>3. Ring(M, q, r) \subseteq Verts(M)
        BY RingIn
      <4>4. \A n \in Held(grid[r]) : n \in OwnedNodes(grid[r].node[n].part)
        BY <3>2, <3>3, <4>3
      <4> QED
        BY <4>1, <4>2, <4>4
    <3> QED
      BY <3>4, <3>5
  <2> QED
    BY <2>1, <2>2 DEF HaloExact
<1> QED
  BY <1>1, AdaptInductive, PTL

(* Between the operations a ghost has the coordinates, metric and geometry records of the
   node it stands for: ref_smooth, ref_split and ref_collapse move and remove only nodes no
   other rank holds a copy of, and the migration fills each copy it makes. *)
THEOREM GhostsAreFresh == Spec => []GhostsFresh
<1>1. AdaptInv => GhostsFresh
  <2> SUFFICES ASSUME AdaptInv, phase = "adapt", NEW r \in Rank, NEW n \in Held(grid[r]), NEW o,
                      o = grid[grid[r].node[n].part]
               PROVE  /\ n \in Held(o) /\ o.node[n].real = grid[r].node[n].real
                      /\ GeomAt(o, n) = GeomAt(grid[r], n)
                      /\ \A k \in GeomAt(o, n) : o.geom[k] = grid[r].geom[k]
    BY DEF GhostsFresh
  <2>1. PICK M, q, V, G : Whole(M, q, V, G) /\ grid = Shares(M, q, V, G)
    BY DEF AdaptInv, Good
  <2>2. \A s \in Rank : /\ Held(grid[s]) = Ring(M, q, s)
                        /\ \A m \in Ring(M, q, s) : /\ grid[s].node[m].part = q[m]
                                                    /\ grid[s].node[m].real = V[m]
                        /\ DOMAIN grid[s].geom = Recs(G, Ring(M, q, s))
                        /\ \A k \in DOMAIN grid[s].geom : grid[s].geom[k] = G[k]
    BY <2>1, RestSees
  <2>3. n \in Ring(M, q, r) /\ n \in Verts(M)
    BY <2>2, RingIn
  <2>4. q[n] \in Rank /\ n \in Ring(M, q, q[n]) /\ o = grid[q[n]]
    BY <2>1, <2>2, <2>3, HeldByOwner DEF Whole
  <2>5. n \in Held(o) /\ o.node[n].real = grid[r].node[n].real
    BY <2>2, <2>3, <2>4
  <2>6. \A s \in Rank : n \in Ring(M, q, s) => GeomAt(grid[s], n) = {k \in DOMAIN G : k[1] = n}
    BY <2>2 DEF GeomAt, Recs
  <2>7. GeomAt(o, n) = GeomAt(grid[r], n)
    BY <2>3, <2>4, <2>6
  <2>8. \A k \in GeomAt(o, n) : o.geom[k] = grid[r].geom[k]
    BY <2>2, <2>3, <2>4, <2>7 DEF GeomAt
  <2> QED
    BY <2>5, <2>7, <2>8
<1> QED
  BY <1>1, AdaptInductive, PTL

(* The mesh the ranks hold together stays a conforming disk: no two tri run along a side in
   the same direction, an edg lies exactly where the tri of a surface end, nothing hangs, and
   nodes - sides + tri = 1.  Each rank tests only what it holds (ref_collapse_edge_manifold,
   ref_swap_manifold, ref_cell_local_gem), and another rank may change its part meanwhile. *)
THEOREM MeshStaysConforming == Spec => []MeshConforms
<1>1. AdaptInv => MeshConforms
  <2> SUFFICES ASSUME AdaptInv, phase = "adapt" PROVE ConformingDisk(Mesh, LiveNodes)
    BY DEF MeshConforms
  <2>1. PICK M, q, V, G : Whole(M, q, V, G) /\ grid = Shares(M, q, V, G)
    BY DEF AdaptInv, Good
  <2>2. Mesh = M /\ LiveNodes = Verts(M)
    BY <2>1, RestSees
  <2>3. ConformingDisk(M, Verts(M))
    BY <2>1, SoundIsDisk DEF Whole
  <2> QED
    BY <2>2, <2>3
<1> QED
  BY <1>1, AdaptInductive, PTL
=============================================================================
