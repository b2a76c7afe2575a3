------------------------- MODULE MCRefInterpLocate --------------------------
(***************************************************************************)
(* Instances of RefInterpLocate: a strip of nodes on two ranks, dealt in   *)
(* turn so that every edge crosses the ranks, and a fan of triangles on    *)
(* three ranks.                                                            *)
(***************************************************************************)
EXTENDS RefInterpLocate

CONSTANTS r0, r1, r2, n1, n2, n3, n4

(* triangles n1 n2 n3 and n2 n3 n4, with n1 and n2 on one rank; n1 lies in *)
(* a cell of two ranks, n4 in none                                         *)
FanNode == {n1, n2, n3, n4}
FanOwner == [n \in FanNode |-> CASE n = n3 -> r1 [] n = n4 -> r2 [] OTHER -> r0]
FanAround == [n \in FanNode |-> IF n \in {n1, n4} THEN {n2, n3}
                                                  ELSE FanNode \ {n}]
FanDonor == [n \in FanNode |-> CASE n = n1 -> {r0, r1}
                                 [] n = n4 -> {}
                                 [] OTHER -> {r1}]

(* the strip n1 - n2 - n3 - n4; the donor cells are on alternating pairs *)
StripNode == {n1, n2, n3, n4}
StripOwner == [n \in StripNode |-> IF n \in {n1, n3} THEN r0 ELSE r1]
StripAround == [n \in StripNode |-> CASE n = n1 -> {n2}
                                      [] n = n2 -> {n1, n3}
                                      [] n = n3 -> {n2, n4}
                                      [] OTHER -> {n3}]
StripDonor == [n \in StripNode |-> {IF n \in {n2, n3} THEN r0 ELSE r1}]
=============================================================================
