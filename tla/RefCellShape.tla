---------------------------- MODULE RefCellShape ----------------------------
(***************************************************************************)
(* The element types of ref_cell.c: which local nodes bound each edge      *)
(* (e2n) and each face (f2n), as ref_cell_initialize fills the tables.     *)
(* The face tables repeat a triangle's first node to mark it; here a       *)
(* triangle is a sequence of three nodes and a quad of four.               *)
(*                                                                         *)
(* A cell is a record of its kind and its nodes, numbered from 0 as in the *)
(* code.  The rest of the module is the reference notion the splitting     *)
(* templates are compared with: the oriented faces left when the faces two *)
(* cells share, seen from opposite sides, cancel.                          *)
(***************************************************************************)
EXTENDS Integers, Sequences, FiniteSets

NodePer(kind) ==
  CASE kind = "edg" -> 2 [] kind = "tri" -> 3 [] kind = "qua" -> 4
    [] kind = "tet" -> 4 [] kind = "pyr" -> 5 [] kind = "pri" -> 6
    [] kind = "hex" -> 8

E2N(kind) ==
  CASE kind = "edg" -> << <<0,1>> >>
    [] kind = "tri" -> << <<0,1>>, <<1,2>>, <<2,0>> >>
    [] kind = "qua" -> << <<0,1>>, <<1,2>>, <<2,3>>, <<3,0>> >>
    [] kind = "tet" -> << <<0,1>>, <<0,2>>, <<0,3>>, <<1,2>>, <<1,3>>, <<2,3>> >>
    [] kind = "pyr" -> << <<0,1>>, <<0,2>>, <<0,3>>, <<1,2>>, <<1,4>>,
                          <<2,3>>, <<2,4>>, <<3,4>> >>
    [] kind = "pri" -> << <<0,1>>, <<0,2>>, <<0,3>>, <<1,2>>, <<1,4>>,
                          <<2,5>>, <<3,4>>, <<3,5>>, <<4,5>> >>
    [] kind = "hex" -> << <<0,1>>, <<0,3>>, <<0,4>>, <<1,2>>, <<1,5>>, <<2,3>>,
                          <<2,6>>, <<3,7>>, <<4,5>>, <<4,7>>, <<5,6>>, <<6,7>> >>

F2N(kind) ==
  CASE kind = "tri" -> << <<0,1,2>> >>
    [] kind = "qua" -> << <<0,1,2,3>> >>
    [] kind = "tet" -> << <<1,3,2>>, <<0,2,3>>, <<0,3,1>>, <<0,1,2>> >>
    [] kind = "pyr" -> << <<0,1,2>>, <<1,4,2>>, <<2,4,3>>, <<0,2,3>>, <<0,3,4,1>> >>
    [] kind = "pri" -> << <<0,3,4,1>>, <<1,4,5,2>>, <<0,2,5,3>>, <<0,1,2>>, <<3,5,4>> >>
    [] kind = "hex" -> << <<0,3,7,4>>, <<1,5,6,2>>, <<0,4,5,1>>, <<2,6,7,3>>,
                          <<0,1,2,3>>, <<4,7,6,5>> >>

(* cell edges are numbered from 0 in the code, sequences from 1 *)
EdgeNumbers(kind) == 0 .. Len(E2N(kind)) - 1
EdgeNode(kind, i, edge) == E2N(kind)[edge + 1][i + 1]

Cell(kind, nodes) == [kind |-> kind, nodes |-> nodes]

(* the nodes of a cell listed in order *)
Listed(seq) == [i \in 0 .. Len(seq) - 1 |-> seq[i + 1]]

------------------------------------------------------------------------------
(* An oriented polygon is the set of its directed sides, so that rotating   *)
(* its nodes does not matter and reversing them does.                       *)
Polygon(ring) ==
  {<<ring[i], ring[IF i = Len(ring) THEN 1 ELSE i + 1]>> : i \in DOMAIN ring}

Reversed(polygon) == {<<side[2], side[1]>> : side \in polygon}

FaceOf(cell, face) == [i \in DOMAIN face |-> cell.nodes[face[i]]]

FacesOf(cell) == {Polygon(FaceOf(cell, f)) :
                  f \in {F2N(cell.kind)[i] : i \in DOMAIN F2N(cell.kind)}}

AllFaces(cells) == UNION {FacesOf(cell) : cell \in cells}

(* what is left of the faces of cells after shared faces cancel *)
Boundary(cells) == {p \in AllFaces(cells) : Reversed(p) \notin AllFaces(cells)}

(* no two cells lie on the same side of one face *)
OneCellPerSide(cells) ==
  \A a, b \in cells : a # b => FacesOf(a) \cap FacesOf(b) = {}
=============================================================================
