--------------------------- MODULE RefSubdivSplit ---------------------------
(***************************************************************************)
(* The splitting templates of ref_subdiv.c: for a cell and the set of its  *)
(* edges that are marked, the cells that replace it.                       *)
(*                                                                         *)
(* A vertex is the set of parent nodes it is the average of: {n} for a     *)
(* parent node, the union of two for the node ref_subdiv_node_between      *)
(* returns, of a face or of a cell for the centres of ref_subdiv_to_hex.   *)
(* The code's map is the sum of 2^edge over the marked cell edges; here it *)
(* is the set of those edges.                                              *)
(***************************************************************************)
EXTENDS RefCellShape

Corners(kind) == [i \in 0 .. NodePer(kind) - 1 |-> {i}]

(* ref_subdiv_node_between *)
Between(n, i, j) == n[i] \cup n[j]

------------------------------------------------------------------------------
(* ref_subdiv_split_tet *)

TetFaceMaps == {{0,1,3}, {3,4,5}, {1,2,5}, {0,2,4}}
TetMaps == {{}} \cup {{e} : e \in 0 .. 5} \cup TetFaceMaps \cup {0 .. 5}

Swap(n, a, b) == [n EXCEPT ![a] = n[b], ![b] = n[a]]

(* turn the cell so that the face with three marks is 0, 1, 2 *)
OrientTet(n, map) ==
  CASE map = {3,4,5} -> Swap(Swap(n, 0, 3), 1, 2)
    [] map = {1,2,5} -> Swap(Swap(n, 1, 3), 0, 2)
    [] map = {0,2,4} -> Swap(Swap(n, 2, 3), 0, 1)
    [] OTHER         -> n

(* one marked edge: each copy of the cell has one end replaced *)
HalveTet(n, edge) ==
  LET n0  == EdgeNode("tet", 0, edge)
      n1  == EdgeNode("tet", 1, edge)
      mid == Between(n, n0, n1)
  IN {[n EXCEPT ![n0] = mid], [n EXCEPT ![n1] = mid]}

QuarterTet(n) ==
  {[n EXCEPT ![1] = Between(n, 0, 1), ![2] = Between(n, 0, 2)],
   [n EXCEPT ![0] = Between(n, 1, 0), ![2] = Between(n, 1, 2)],
   [n EXCEPT ![0] = Between(n, 2, 0), ![1] = Between(n, 2, 1)],
   [n EXCEPT ![0] = Between(n, 0, 1), ![1] = Between(n, 1, 2), ![2] = Between(n, 2, 0)]}

Tet4(a, b, c, d) == Listed(<<a, b, c, d>>)

(* mutant: two tets of the inner octahedron on another diagonal *)
EighthTet_mutant(n) ==
  LET e0 == Between(n, 0, 1)
      e1 == Between(n, 0, 2)
      e2 == Between(n, 0, 3)
      e3 == Between(n, 1, 2)
      e4 == Between(n, 1, 3)
      e5 == Between(n, 2, 3)
  IN {Tet4(e0, e2, e1, n[0]), Tet4(e0, e3, e4, n[1]),
      Tet4(e1, e5, e3, n[2]), Tet4(e2, e4, e5, n[3]),
      Tet4(e0, e5, e1, e2), Tet4(e0, e5, e2, e4),
      Tet4(e1, e4, e3, e0), Tet4(e1, e5, e4, e3)}

EighthTet(n) ==
  LET e0 == Between(n, 0, 1)
      e1 == Between(n, 0, 2)
      e2 == Between(n, 0, 3)
      e3 == Between(n, 1, 2)
      e4 == Between(n, 1, 3)
      e5 == Between(n, 2, 3)
  IN {Tet4(e0, e2, e1, n[0]), Tet4(e0, e3, e4, n[1]),
      Tet4(e1, e5, e3, n[2]), Tet4(e2, e4, e5, n[3]),
      Tet4(e0, e5, e1, e2), Tet4(e0, e5, e2, e4),
      Tet4(e0, e5, e4, e3), Tet4(e0, e5, e3, e1)}

SplitTet(n, map) ==
  {Cell("tet", child) : child \in
     CASE map = {}            -> {n}
       [] Cardinality(map) = 1 -> HalveTet(n, CHOOSE e \in map : TRUE)
       [] map \in TetFaceMaps -> QuarterTet(OrientTet(n, map))
       [] map = 0 .. 5        -> EighthTet(n)}

------------------------------------------------------------------------------
(* ref_subdiv_split_pri *)

PriMaps == {{}, {2,4,5}, {0,6}, {1,7}, {3,8}, {0,1,3,6,7,8}}

SplitPri(n, map) ==
  LET m(i, j) == Between(n, i, j)
  IN {Cell("pri", child) : child \in
     CASE map = {} -> {n}
       [] map = {2,4,5} ->
            {[n EXCEPT ![0] = m(0,3), ![1] = m(1,4), ![2] = m(2,5)],
             [n EXCEPT ![3] = m(0,3), ![4] = m(1,4), ![5] = m(2,5)]}
       [] map = {0,6} ->
            {[n EXCEPT ![0] = m(0,1), ![3] = m(3,4)],
             [n EXCEPT ![1] = m(0,1), ![4] = m(3,4)]}
       [] map = {1,7} ->
            {[n EXCEPT ![0] = m(0,2), ![3] = m(3,5)],
             [n EXCEPT ![2] = m(0,2), ![5] = m(3,5)]}
       [] map = {3,8} ->
            {[n EXCEPT ![1] = m(1,2), ![4] = m(4,5)],
             [n EXCEPT ![2] = m(1,2), ![5] = m(4,5)]}
       [] map = {0,1,3,6,7,8} ->
            {[n EXCEPT ![1] = m(0,1), ![2] = m(0,2), ![4] = m(3,4), ![5] = m(3,5)],
             [n EXCEPT ![0] = m(1,0), ![2] = m(1,2), ![3] = m(4,3), ![5] = m(4,5)],
             [n EXCEPT ![1] = m(2,1), ![0] = m(2,0), ![4] = m(5,4), ![3] = m(5,3)],
             Listed(<<m(0,1), m(1,2), m(2,0), m(3,4), m(4,5), m(5,3)>>)}}

------------------------------------------------------------------------------
(* ref_subdiv_split_pyr: the quad base is 0, 1, 4, 3 and the apex 2 *)

PyrMaps == {{}, {0,7}, {2,4}, {3,6}, {1,5}, {0,1,3,5,6,7}, {6},
            {0,1,3,7}, {0,5,6,7}, {2,3,4,6}}

(* turn the cell so that the triangle with three marks is 0, 1, 2 *)
OrientPyr(n, map) ==
  CASE map = {0,5,6,7} -> [i \in 0 .. 4 |-> n[4 - i]]
    [] map = {2,3,4,6} -> Listed(<<n[1], n[4], n[2], n[0], n[3]>>)
    [] OTHER -> n

SplitPyr(parent, map) ==
  LET n == OrientPyr(parent, map)
      m(i, j) == Between(n, i, j)
      Pyr(a, b, c, d, e) == Cell("pyr", Listed(<<a, b, c, d, e>>))
      Pri(a, b, c, d, e, f) == Cell("pri", Listed(<<a, b, c, d, e, f>>))
      Tet(a, b, c, d) == Cell("tet", Tet4(a, b, c, d))
  IN CASE map = {} -> {Cell("pyr", n)}
       [] map = {0,7} ->
            {Pyr(m(0,1), n[1], n[2], m(3,4), n[4]),
             Pyr(n[0], m(0,1), n[2], n[3], m(3,4))}
       [] map = {2,4} ->
            {Pyr(m(0,3), m(1,4), n[2], n[3], n[4]),
             Pyr(n[0], n[1], n[2], m(0,3), m(1,4))}
       [] map = {3,6} ->
            {Pyr(n[0], m(1,2), n[2], n[3], m(4,2)),
             Pri(n[0], n[1], m(1,2), n[3], n[4], m(4,2))}
       [] map = {1,5} ->
            {Pyr(m(0,2), n[1], n[2], m(3,2), n[4]),
             Pri(n[0], n[1], m(0,2), n[3], n[4], m(3,2))}
       [] map = {0,1,3,5,6,7} ->
            {Pyr(m(0,2), m(1,2), n[2], m(3,2), m(4,2)),
             Pri(m(0,1), m(1,2), m(2,0), m(3,4), m(4,2), m(2,3)),
             Pri(n[0], m(0,1), m(0,2), n[3], m(3,4), m(3,2)),
             Pri(m(0,1), n[1], m(1,2), m(3,4), n[4], m(4,2))}
       [] map = {6} ->
            {Pyr(n[0], n[1], m(4,2), n[3], n[4]),
             Tet(n[0], n[1], n[2], m(4,2)), Tet(n[0], n[2], n[3], m(4,2))}
       [] map \in {{0,1,3,7}, {0,5,6,7}, {2,3,4,6}} ->
            {Pyr(m(0,1), n[1], m(1,2), m(3,4), n[4]),
             Pyr(n[0], m(0,1), m(0,2), n[3], m(3,4)),
             Tet(n[4], m(3,4), n[2], m(1,2)),
             Tet(m(3,4), n[3], n[2], m(0,2)),
             Tet(m(0,2), m(1,2), n[2], m(3,4)),
             Tet(m(0,2), m(0,1), m(1,2), m(3,4))}

------------------------------------------------------------------------------
(* ref_subdiv_split_tri and ref_subdiv_split_qua: the surface elements *)

SplitTri(n, map) ==
  LET m(i, j) == Between(n, i, j)
      Tri(a, b, c) == Cell("tri", Listed(<<a, b, c>>))
      Qua(a, b, c, d) == Cell("qua", Tet4(a, b, c, d))
  IN CASE map = {0,1,2} ->
            {Tri(n[0], m(0,1), m(0,2)), Tri(m(1,0), n[1], m(1,2)),
             Tri(m(2,0), m(2,1), n[2]),
             Tri(m(0,1), m(1,2), m(2,0))}
       [] map = {0,1} -> {Tri(m(1,0), n[1], m(1,2)), Qua(n[0], m(1,0), m(1,2), n[2])}
       [] map = {1,2} -> {Tri(m(2,0), m(2,1), n[2]), Qua(n[0], n[1], m(2,1), m(2,0))}
       [] map = {0,2} -> {Tri(n[0], m(0,1), m(0,2)), Qua(m(0,1), n[1], n[2], m(0,2))}
       [] map = {0}   -> {Tri(m(0,1), n[1], n[2]), Tri(n[0], m(0,1), n[2])}
       [] map = {1}   -> {Tri(n[0], m(1,2), n[2]), Tri(n[0], n[1], m(1,2))}
       [] map = {2}   -> {Tri(n[0], n[1], m(2,0)), Tri(m(2,0), n[1], n[2])}
       [] map = {}    -> {Cell("tri", n)}

QuaMaps == {{}, {0,2}, {1,3}}

SplitQua(n, map) ==
  LET m(i, j) == Between(n, i, j)
  IN {Cell("qua", child) : child \in
     CASE map = {0,2} ->
            {[n EXCEPT ![1] = m(0,1), ![2] = m(2,3)],
             [n EXCEPT ![0] = m(0,1), ![3] = m(2,3)]}
       [] map = {1,3} ->
            {[n EXCEPT ![2] = m(1,2), ![3] = m(3,0)],
             [n EXCEPT ![1] = m(1,2), ![0] = m(3,0)]}
       [] map = {} -> {n}}

------------------------------------------------------------------------------
(* ref_subdiv_to_hex: every tet becomes four hexes, every triangle three    *)
(* quads; the edges of a tet in order are e(0)..e(5), its faces f(0)..f(3). *)

TetToHex(n) ==
  LET e(k) == Between(n, EdgeNode("tet", 0, k), EdgeNode("tet", 1, k))
      f(k) == LET face == F2N("tet")[k + 1]
              IN n[face[1]] \cup n[face[2]] \cup n[face[3]]
      node == UNION {n[i] : i \in DOMAIN n}
      Hex(a, b, c, d, g, h, i, j) ==
        Cell("hex", Listed(<<a, b, c, d, g, h, i, j>>))
  IN {Hex(n[0], e(0), f(3), e(1), e(2), f(2), node, f(1)),
      Hex(n[1], e(3), f(3), e(0), e(4), f(0), node, f(2)),
      Hex(n[2], e(1), f(3), e(3), e(5), f(1), node, f(0)),
      Hex(n[3], e(4), f(2), e(2), e(5), f(0), node, f(1))}

TriToQua(n) ==
  LET m(i, j) == Between(n, i, j)
      node == n[0] \cup n[1] \cup n[2]
      Qua(a, b, c, d) == Cell("qua", Tet4(a, b, c, d))
  IN {Qua(n[0], m(0,1), node, m(2,0)), Qua(n[1], m(1,2), node, m(0,1)),
      Qua(n[2], m(2,0), node, m(1,2))}
=============================================================================
