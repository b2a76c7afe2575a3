------------------------------ MODULE MCRefAdj ------------------------------
(* Adjacency lists whose pool grows from one item to the largest int. *)
EXTENDS RefAdj
=============================================================================
