------------------------------- MODULE RefAdj -------------------------------
(***************************************************************************)
(* Adjacency lists, ref_adj.c: for each node a linked list of items in one *)
(* pool, and the list of the unused items of the pool.  ref_cell.c,        *)
(* ref_geom.c, ref_edge.c and ref_face.c find what touches a node with it. *)
(***************************************************************************)
EXTENDS Integers, Sequences, FiniteSets, FiniteSetsExt

CONSTANTS
    InitNode, InitItem, \* the 10 and 20 of ref_adj_create
    GrowNode, GrowItem, \* the two 100 of ref_adj_add
    MaxInt,             \* REF_INT_MAX
    NNode,              \* bound: nodes below this one are used
    NRef                \* bound: references below this one are used

ASSUME SizeAssumption ==
    /\ InitNode \in Nat \ {0} /\ InitItem \in Nat \ {0}
    /\ GrowNode \in Nat \ {0} /\ GrowItem \in Nat \ {0}
    /\ MaxInt \in Nat /\ InitNode <= MaxInt /\ InitItem <= MaxInt

(* The sum 100 + node - nnode that sizes the growth is not to overflow. *)
ASSUME NodeAssumption == NNode \in Nat /\ NRef \in Nat /\ NNode + GrowNode <= MaxInt

Node == 0..(NNode - 1)
Ref == 0..(NRef - 1)
EMPTY == -1                 \* REF_EMPTY

VARIABLES
    first,      \* node -> its first item; the domain is 0..nnode-1
    next,       \* item -> the item after it; the domain is 0..nitem-1
    ref,        \* item -> its reference
    blank       \* the first unused item

vars == <<first, next, ref, blank>>

nnode == Cardinality(DOMAIN first)
nitem == Cardinality(DOMAIN next)

chain(i, end) == IF i = end - 1 THEN EMPTY ELSE i + 1

Init ==
    /\ first = [node \in 0..(InitNode - 1) |-> EMPTY]
    /\ next = [i \in 0..(InitItem - 1) |-> chain(i, InitItem)]
    /\ ref = [i \in 0..(InitItem - 1) |-> EMPTY]
    /\ blank = 0

(* ref_adj_first: a node past the end has no items. *)
first_item(node) == IF node \in DOMAIN first THEN first[node] ELSE EMPTY

(***************************************************************************)
(* The items from start on, in the order each_ref_adj_node_item meets them *)
(* (no more than there are, should the list not end).                      *)
(***************************************************************************)
items(start) ==
    LET from[left \in 0..nitem] ==
            [item \in DOMAIN next \cup {EMPTY} |->
                IF item = EMPTY \/ left = 0 THEN <<>>
                ELSE <<item>> \o from[left - 1][next[item]]]
    IN  from[nitem][start]

(* Mutant: the new nodes are not initialized to an empty list. *)
first_for_mutant(node) ==
    LET grow == Max({GrowNode + Max({0, node - nnode}), nnode \div 2})
        end == nnode + Min({grow, MaxInt - nnode})
    IN  IF node < nnode THEN first
        ELSE [i \in 0..(end - 1) |-> IF i < nnode THEN first[i] ELSE 0]

(***************************************************************************)
(* The growth of first in ref_adj_add, up to the largest int.              *)
(***************************************************************************)
first_for(node) ==
    LET grow == Max({GrowNode + Max({0, node - nnode}), nnode \div 2})
        end == nnode + Min({grow, MaxInt - nnode})
    IN  IF node < nnode THEN first
        ELSE [i \in 0..(end - 1) |-> IF i < nnode THEN first[i] ELSE EMPTY]

(***************************************************************************)
(* The growth of the pool when it has no unused item.                      *)
(***************************************************************************)
more_items ==
    LET end == nitem + Min({Max({GrowItem, nitem \div 2}), MaxInt - nitem})
    IN  [next |-> [i \in 0..(end - 1) |->
                      IF i < nitem THEN next[i] ELSE chain(i, end)],
         ref |-> [i \in 0..(end - 1) |-> IF i < nitem THEN ref[i] ELSE EMPTY],
         blank |-> nitem]

pool == IF blank = EMPTY THEN more_items
        ELSE [next |-> next, ref |-> ref, blank |-> blank]

(* ref_adj_add: push an unused item on the list of the node. *)
Add(node, r) ==
    /\ blank = EMPTY => nitem # MaxInt
    /\ LET f == first_for(node)
           item == pool.blank
       IN  /\ blank' = pool.next[item]
           /\ ref' = [pool.ref EXCEPT ![item] = r]
           /\ next' = [pool.next EXCEPT ![item] = f[node]]
           /\ first' = [f EXCEPT ![node] = item]

(* "the number of ref_adj items is too large for int, cannot grow": only   *)
(* the nodes have grown when ref_adj_add gives up.                         *)
AddFull(node) ==
    /\ blank = EMPTY /\ nitem = MaxInt
    /\ first' = first_for(node)
    /\ UNCHANGED <<next, ref, blank>>

occurrences(node, r) ==
    LET list == items(first_item(node))
    IN  {k \in DOMAIN list : ref[list[k]] = r}

(* ref_adj_add_uniquely *)
AddUniquely(node, r) == occurrences(node, r) = {} /\ Add(node, r)

(* Mutant: the link of the item is overwritten before its parent takes it. *)
Unlink_mutant(node, item, parent) ==
    /\ first' = [first EXCEPT ![node] = IF parent = EMPTY THEN next[item] ELSE @]
    /\ next' = [i \in DOMAIN next |->
                   IF i = item THEN blank
                   ELSE IF i = parent THEN blank
                   ELSE next[i]]

(***************************************************************************)
(* Take an item out of the list of a node, behind its parent or at the     *)
(* front, and put it in front of the unused ones.                          *)
(***************************************************************************)
Unlink(node, item, parent) ==
    /\ first' = [first EXCEPT ![node] = IF parent = EMPTY THEN next[item] ELSE @]
    /\ next' = [i \in DOMAIN next |->
                   IF i = item THEN blank
                   ELSE IF i = parent THEN next[item]
                   ELSE next[i]]

(***************************************************************************)
(* ref_adj_remove: the first item of the node with this reference.  It is  *)
(* REF_INVALID, and nothing changes, when there is none.                   *)
(***************************************************************************)
Remove(node, r) ==
    /\ occurrences(node, r) # {}
    /\ LET list == items(first_item(node))
           k == Min(occurrences(node, r))
           item == list[k]
       IN  /\ Unlink(node, item, IF k = 1 THEN EMPTY ELSE list[k - 1])
           /\ ref' = [ref EXCEPT ![item] = EMPTY]
           /\ blank' = item

Next ==
    \/ \E node \in Node, r \in Ref : Add(node, r)
    \/ \E node \in Node : AddFull(node)
    \/ \E node \in Node, r \in Ref : AddUniquely(node, r)
    \/ \E node \in Node, r \in Ref : Remove(node, r)

Spec == Init /\ [][Next]_vars
-----------------------------------------------------------------------------
(***************************************************************************)
(* The members have the types of REF_ADJ_STRUCT and no size is past the    *)
(* largest int.                                                            *)
(***************************************************************************)
TypeOK ==
    /\ nnode \in 1..MaxInt /\ nitem \in 1..MaxInt
    /\ first \in [0..(nnode - 1) -> 0..(nitem - 1) \cup {EMPTY}]
    /\ next \in [0..(nitem - 1) -> 0..(nitem - 1) \cup {EMPTY}]
    /\ ref \in [0..(nitem - 1) -> Ref \cup {EMPTY}]
    /\ blank \in 0..(nitem - 1) \cup {EMPTY}

(***************************************************************************)
(* Every item is on exactly one list, of one node or of the unused items,  *)
(* the unused items are those without a reference, and all lists end.  An  *)
(* item on two lists would give one cell to two nodes; a circle would hang *)
(* every loop over the items of a node.                                    *)
(***************************************************************************)
PoolExact ==
    LET starts == [k \in 0..nnode |-> IF k = nnode THEN blank ELSE first[k]]
        on(k) == {items(starts[k])[i] : i \in DOMAIN items(starts[k])}
        ends(k) == starts[k] = EMPTY \/
                   LET list == items(starts[k]) IN next[list[Len(list)]] = EMPTY
    IN  /\ TypeOK
        /\ \A k \in 0..nnode : ends(k)
        /\ \A i \in 0..(nitem - 1) :
              Cardinality({k \in 0..nnode : i \in on(k)}) = 1
        /\ on(nnode) = {i \in 0..(nitem - 1) : ref[i] = EMPTY}

(***************************************************************************)
(* The linked pool implements a list of references per node, through all   *)
(* growth and reuse of items.                                              *)
(***************************************************************************)
refs(node) == LET list == items(first_item(node))
              IN  [k \in DOMAIN list |-> ref[list[k]]]

Lists == INSTANCE AdjLists WITH lists <- [node \in Node |-> refs(node)]

ListsSpec == Lists!Spec
=============================================================================
