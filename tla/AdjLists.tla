------------------------------ MODULE AdjLists ------------------------------
(***************************************************************************)
(* What a REF_ADJ promises: for every node a list of references, the last  *)
(* added first, of which one occurrence at a time can be removed.          *)
(***************************************************************************)
EXTENDS Sequences, SequencesExt

CONSTANTS Node, Ref

VARIABLE lists              \* node -> its references

Init == lists = [node \in Node |-> <<>>]

Add(node, r) == lists' = [lists EXCEPT ![node] = Cons(r, @)]

Drop(node, r) ==
    /\ Contains(lists[node], r)
    /\ lists' = [lists EXCEPT ![node] = RemoveFirst(@, r)]

Next == \E node \in Node, r \in Ref : Add(node, r) \/ Drop(node, r)

Spec == Init /\ [][Next]_lists
=============================================================================
