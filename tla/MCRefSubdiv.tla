---------------------------- MODULE MCRefSubdiv ----------------------------
EXTENDS RefSubdiv

MCCell(kind, seq) == Cell(kind, [i \in 0 .. Len(seq) - 1 |-> seq[i + 1]])

(* three tets in a row; rank a holds all of them and rank b, which owns the *)
(* two ends, does not see the one between them                              *)
T1 == MCCell("tet", <<1, 2, 3, 4>>)
T2 == MCCell("tet", <<2, 3, 4, 5>>)
T3 == MCCell("tet", <<3, 4, 5, 6>>)
TetMesh == {T1, T2, T3}
TetPart == <<"b", "a", "a", "a", "a", "b">>
TetOrders == {<<T1, T2, T3>>, <<T3, T2, T1>>, <<T2, T3, T1>>, <<T1, T3>>, <<T3, T1>>}
TetAsked == {{}, {{1,2}}, {{4,6}}, {{3,5}}, {{1,3}, {4,6}}, {{1,4}, {5,6}, {2,3}},
             {{1,2}, {1,3}, {2,3}, {4,5}}}
TetInversions == {{}, {<<T2, {k}>> : k \in 0 .. 5}, {<<T1, 0 .. 5>>, <<T2, {1,2,5}>>}}
TetSupports == {{}, {{3,4}, {4,5}}}

(* two tets, a prism on one and a pyramid on the side of the prism; rank b, *)
(* which owns the other ends, does not see the tet between them            *)
M1 == MCCell("tet", <<1, 2, 3, 4>>)
M2 == MCCell("pyr", <<2, 5, 8, 3, 6>>)
M3 == MCCell("pri", <<1, 3, 2, 7, 6, 5>>)
M4 == MCCell("tet", <<2, 3, 4, 9>>)
MixedMesh == {M1, M2, M3, M4}
MixedPart == <<"a", "a", "a", "a", "b", "b", "b", "b", "b">>
MixedOrders == {<<M1, M2, M3, M4>>, <<M4, M2, M3>>}
MixedAsked == {{}, {{1,2}}, {{5,6}}, {{3,4}, {2,9}}, {{2,4}, {3,4}, {6,7}},
               {{1,7}, {2,5}, {3,6}}}
MixedInversions == {{}, {<<M1, {k}>> : k \in 0 .. 5} \cup {<<M4, 0 .. 5>>}}
NoSupports == {{}}
============================================================================
