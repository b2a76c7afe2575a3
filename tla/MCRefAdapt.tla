------------------------------ MODULE MCRefAdapt ------------------------------
(***************************************************************************)
(* A sheet of two CAD faces, 1 and 2, that meet along CAD edge 30:         *)
(*                                                                         *)
(*        1 ------ 2 ------ 3          nodes 2 and 5 are CAD nodes         *)
(*        |  1   / |   2  / |          boundary of face 1: CAD edge 10     *)
(*        |    /   |    /   |          boundary of face 2: CAD edge 20     *)
(*        |  /  1  |  /  2  |                                              *)
(*        4 ------ 5 ------ 6                                              *)
(***************************************************************************)
EXTENDS RefAdapt

SheetCell ==
    {Cell("tri", <<1, 4, 2>>, 1), Cell("tri", <<2, 4, 5>>, 1),
     Cell("tri", <<2, 5, 3>>, 2), Cell("tri", <<3, 5, 6>>, 2),
     Cell("edg", <<1, 2>>, 10), Cell("edg", <<1, 4>>, 10),
     Cell("edg", <<4, 5>>, 10), Cell("edg", <<2, 5>>, 30),
     Cell("edg", <<5, 6>>, 20), Cell("edg", <<6, 3>>, 20),
     Cell("edg", <<3, 2>>, 20)}

\* a node has the records of the cells around it
SheetGeom ==
    LET type(c) == IF c.kind = "edg" THEN "edge" ELSE "face"
    IN  {<<2, "node", 100>>, <<5, "node", 101>>} \cup
        UNION {{<<n, type(c), c.id>> : n \in NodesOf(c)} : c \in SheetCell}
=============================================================================
