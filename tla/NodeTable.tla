----------------------------- MODULE NodeTable -----------------------------
(***************************************************************************)
(* What a REF_NODE promises to the rest of the program on one rank: a      *)
(* table from the global numbers of the vertices this rank has to local    *)
(* indices.  No two vertices share an index, a vertex keeps its index for  *)
(* as long as it is here (the cells store local indices), and only a pack  *)
(* deals out new ones.                                                     *)
(***************************************************************************)
EXTENDS Integers, FiniteSets, Functions, TLC

CONSTANT Glob               \* the global numbers

VARIABLE table              \* global number -> local index

Local == Range(table)

Init == table = <<>>

Insert(new) ==
    /\ new \in SUBSET Glob /\ new # {}
    /\ new \cap DOMAIN table = {}
    /\ DOMAIN table' = DOMAIN table \cup new
    /\ \A g \in DOMAIN table : table'[g] = table[g]
    /\ Range(table') \subseteq Nat
    /\ IsInjective(table')

Delete(g) ==
    /\ g \in DOMAIN table
    /\ table' = Restrict(table, DOMAIN table \ {g})

Pack ==
    /\ DOMAIN table' = DOMAIN table
    /\ IsInjective(table')
    /\ Range(table') = 0..(Cardinality(DOMAIN table) - 1)

Next ==
    \/ \E new \in SUBSET Glob : Insert(new)
    \/ \E g \in Glob : Delete(g)
    \/ Pack

Spec == Init /\ [][Next]_table
=============================================================================
