--------------------------- MODULE MCRefNodeSync ---------------------------
(* Model-checking instances of RefNodeSync; the bounds are in the configs. *)
EXTENDS RefNodeSync
=============================================================================
