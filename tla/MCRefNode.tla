----------------------------- MODULE MCRefNode -----------------------------
(* The vertex storage, small enough to grow twice. *)
EXTENDS RefNode
=============================================================================
