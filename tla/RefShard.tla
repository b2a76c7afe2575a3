------------------------------ MODULE RefShard ------------------------------
(***************************************************************************)
(* The templates of ref_shard.c that cut quads into triangles, and         *)
(* pyramids, prisms and hexes into tets (ref_shard_in_place,               *)
(* ref_shard_extract_tet, ref_shard_extract_tri and, outside the layers it *)
(* keeps, ref_shard_prism_into_tet), and hexes into prisms where faces are *)
(* marked (ref_shard_split).                                               *)
(*                                                                         *)
(* No cell sees its neighbour when it is cut: which diagonal a quad gets   *)
(* is decided from the global numbers of the nodes alone, on every rank    *)
(* and on both sides of the quad.  A node is therefore its global number.  *)
(***************************************************************************)
EXTENDS RefCellShape

MinOf(a, b) == IF a < b THEN a ELSE b
SmallestOf(n) == CHOOSE x \in {n[i] : i \in DOMAIN n} : \A i \in DOMAIN n : x <= n[i]

(* the entries of n in the order of the local nodes in order *)
Pick(n, order) == [i \in 0 .. Len(order) - 1 |-> n[order[i + 1]]]
Picks(kind, n, orders) == {Cell(kind, Pick(n, order)) : order \in orders}

(* both ref_shard_add_qua_as_tri and the quads of ref_shard_prism_into_tet *)
ref_shard_add_qua_as_tri(n) ==
  Picks("tri", n, IF \/ n[0] < n[1] /\ n[0] < n[3]
                     \/ n[2] < n[1] /\ n[2] < n[3]
                  THEN {<<0,2,3>>, <<0,1,2>>}
                  ELSE {<<0,1,3>>, <<2,3,1>>})

(* mutant: the far corner of the base is not compared *)
ref_shard_add_pyr_as_tet_mutant(n) ==
  Picks("tet", n, IF n[0] < n[1] /\ n[0] < n[3]
                  THEN {<<0,4,1,2>>, <<0,3,4,2>>}
                  ELSE {<<0,3,1,2>>, <<1,3,4,2>>})

ref_shard_add_pyr_as_tet(n) ==
  Picks("tet", n, IF \/ n[0] < n[1] /\ n[0] < n[3]
                     \/ n[4] < n[1] /\ n[4] < n[3]
                  THEN {<<0,4,1,2>>, <<0,3,4,2>>}
                  ELSE {<<0,3,1,2>>, <<1,3,4,2>>})

(* the rotations that bring each node of a prism to the front *)
PriRotation == <<<<0,1,2,3,4,5>>, <<1,2,0,4,5,3>>, <<2,0,1,5,3,4>>,
                 <<3,5,4,0,2,1>>, <<4,3,5,1,0,2>>, <<5,4,3,2,1,0>>>>

(* the rotation whose first node has the smallest global number *)
Turned(n, rotation) ==
  Pick(n, CHOOSE r \in {rotation[i] : i \in DOMAIN rotation} : n[r[1]] = SmallestOf(n))

ref_shard_add_pri_as_tet(nodes) ==
  LET n == Turned(nodes, PriRotation)
  IN Picks("tet", n, {<<0,4,5,3>>} \cup
           IF \/ n[1] < n[2] /\ n[1] < n[4]
              \/ n[5] < n[2] /\ n[5] < n[4]
           THEN {<<0,1,5,4>>, <<0,1,2,5>>}
           ELSE {<<2,0,4,5>>, <<0,1,2,4>>})

HexRotation == <<<<0,1,2,3,4,5,6,7>>, <<1,0,4,5,2,3,7,6>>, <<2,1,5,6,3,0,4,7>>,
                 <<3,0,1,2,7,4,5,6>>, <<4,0,3,7,5,1,2,6>>, <<5,1,0,4,6,2,3,7>>,
                 <<6,2,1,5,7,3,0,4>>, <<7,3,2,6,4,0,1,5>>>>

(* I[1], I[4], I[3] and I[5], I[7], I[2] move round one place *)
ref_shard_permute_hex_120(n) == Pick(n, <<0,4,5,1,3,7,6,2>>)

HexDegrees(faces) ==
  CASE faces \in {<<0,0,1>>, <<1,1,0>>} -> 120
    [] faces \in {<<0,1,0>>, <<1,0,1>>} -> 240
    [] OTHER -> 0

HexTets(n) ==
  CASE n = 0 -> {<<0,1,2,5>>, <<0,2,7,5>>, <<0,2,3,7>>, <<0,5,7,4>>, <<2,7,5,6>>}
    [] n = 1 -> {<<0,5,7,4>>, <<0,1,7,5>>, <<1,6,7,5>>, <<0,7,2,3>>, <<0,7,1,2>>, <<1,7,6,2>>}
    [] n = 2 -> {<<0,4,5,6>>, <<0,3,7,6>>, <<0,7,4,6>>, <<0,1,2,5>>, <<0,3,6,2>>, <<0,6,5,2>>}
    [] n = 3 -> {<<0,2,3,6>>, <<0,3,7,6>>, <<0,7,4,6>>, <<0,5,6,4>>, <<1,5,6,0>>, <<1,6,2,0>>}

ref_shard_add_hex_as_tet(nodes) ==
  LET I == Turned(nodes, HexRotation)
      toward(a, b, c, d) == IF MinOf(I[a], I[b]) < MinOf(I[c], I[d]) THEN 1 ELSE 0
      faces == <<toward(1,6,2,5), toward(3,6,2,7), toward(4,6,5,7)>>
      once  == ref_shard_permute_hex_120(I)
      J == CASE HexDegrees(faces) = 120 -> once
             [] HexDegrees(faces) = 240 -> ref_shard_permute_hex_120(once)
             [] OTHER -> I
  IN Picks("tet", J, HexTets(faces[1] + faces[2] + faces[3]))

------------------------------------------------------------------------------
(* ref_shard_split: marked holds the pairs of nodes of the marked diagonals *)

SplitMarkedQua(n, marked) ==
  CASE {n[0], n[2]} \in marked -> Picks("tri", n, {<<0,1,2>>, <<0,2,3>>})
    [] {n[1], n[3]} \in marked -> Picks("tri", n, {<<0,1,3>>, <<1,2,3>>})
    [] OTHER -> {Cell("qua", n)}

(* the diagonals are tried in this order, and the first marked one decides *)
HexDiagonals ==
  << [diagonal |-> <<1,4>>, pris |-> {<<1,0,4,2,3,7>>, <<1,4,5,2,7,6>>}],
     [diagonal |-> <<0,5>>, pris |-> {<<0,5,1,3,6,2>>, <<4,5,0,7,6,3>>}],
     [diagonal |-> <<1,6>>, pris |-> {<<1,5,6,0,4,7>>, <<1,6,2,0,7,3>>}],
     [diagonal |-> <<2,5>>, pris |-> {<<1,5,2,0,4,3>>, <<2,5,6,3,4,7>>}],
     [diagonal |-> <<0,2>>, pris |-> {<<0,1,2,4,5,6>>, <<0,2,3,4,6,7>>}],
     [diagonal |-> <<1,3>>, pris |-> {<<0,1,3,4,5,7>>, <<1,2,3,5,6,7>>}] >>

SplitMarkedHex(n, marked) ==
  LET hit == {i \in DOMAIN HexDiagonals :
                {n[HexDiagonals[i].diagonal[1]], n[HexDiagonals[i].diagonal[2]]} \in marked}
  IN IF hit = {} THEN {Cell("hex", n)}
     ELSE Picks("pri", n, HexDiagonals[CHOOSE i \in hit : \A j \in hit : i <= j].pris)

(* the pairs of parallel diagonals ref_shard_mark_relax keeps together *)
HexPairs == {{{1,4},{2,7}}, {{5,0},{6,3}}, {{1,6},{0,7}},
             {{5,2},{4,3}}, {{0,2},{4,6}}, {{1,3},{5,7}}}

(* one pass of ref_shard_mark_relax over the only hex of a grid: a pair     *)
(* with one diagonal marked gets both                                       *)
ref_shard_mark_relax(n, marked) ==
  marked \cup UNION {{{n[i] : i \in d} : d \in pair} :
                     pair \in {p \in HexPairs : \E d \in p : {n[i] : i \in d} \in marked}}
=============================================================================
