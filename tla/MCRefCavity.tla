----------------------------- MODULE MCRefCavity -----------------------------
(***************************************************************************)
(* A square of nine nodes, CAD face 1, with one node inside, and a tri of  *)
(* CAD face 2 beside it; CAD edge 30 between them, 10 and 20 around them,  *)
(* CAD nodes where they meet.  Lengths allow two halvings of a side.       *)
(*                                                                         *)
(*        7 ------ 8 ------ 9                                              *)
(*        |      / |      / |                                              *)
(*        |    /   |    /   |                                              *)
(*        |  /     |  /     |                                              *)
(*        4 ------ 5 ------ 6 \                                            *)
(*        |      / |      / |   \                                          *)
(*        |    /   |    /   |  2  10                                       *)
(*        |  /     |  /     |   /                                          *)
(*        1 ------ 2 ------ 3 /                                            *)
(***************************************************************************)
EXTENDS RefCavity

SheetPlace == [n \in 1 .. 10 |->
    IF n = 10 THEN <<24, 4>> ELSE <<8 * ((n - 1) % 3), 8 * ((n - 1) \div 3)>>]

SheetCell ==
    LET tri(a, b, c, id) == Cell("tri", <<a, b, c>>, id)
        edg(a, b, id)    == Cell("edg", <<a, b>>, id)
    IN  {tri(1, 2, 5, 1), tri(1, 5, 4, 1), tri(2, 3, 6, 1), tri(2, 6, 5, 1),
         tri(4, 5, 8, 1), tri(4, 8, 7, 1), tri(5, 6, 9, 1), tri(5, 9, 8, 1),
         tri(3, 10, 6, 2),
         edg(1, 2, 10), edg(2, 3, 10), edg(6, 9, 10), edg(9, 8, 10),
         edg(8, 7, 10), edg(7, 4, 10), edg(4, 1, 10),
         edg(3, 10, 20), edg(10, 6, 20), edg(3, 6, 30)}

\* a node has the records of the cells around it
SheetGeom ==
    LET type(c) == IF c.kind = "edg" THEN "edge" ELSE "face"
    IN  {<<3, "node", 100>>, <<6, "node", 101>>} \cup
        UNION {{<<n, type(c), c.id>> : n \in NodesOf(c)} : c \in SheetCell}
=============================================================================
