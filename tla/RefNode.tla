------------------------------ MODULE RefNode ------------------------------
(***************************************************************************)
(* The vertex storage of one rank: ref_node.c.                             *)
(*                                                                         *)
(* global[l] is the global number of the vertex in slot l.  A free slot    *)
(* holds in the same word, as a negative number, the next free slot, and   *)
(* blank holds the first one; -1 ends the list and the slots are shifted   *)
(* past it.  Beside the slots an index lists the numbers in ascending      *)
(* order with their slots, and ref_node_local finds a number by bisection. *)
(* Two routines release slots without touching the index; their callers    *)
(* sweep over all slots and rebuild the index at the end.                  *)
(*                                                                         *)
(* sorted_global and sorted_local are modelled by their first n entries,   *)
(* the ones the code reads.  part is modelled on the used slots (add_core  *)
(* overwrites it) and tells this rank, Me, from any other.  Coordinates,   *)
(* metric, age and aux follow a slot the way part does.                    *)
(***************************************************************************)
EXTENDS RefSort, Sequences, FiniteSets, FiniteSetsExt, Functions, TLC

Seqs == INSTANCE SequencesExt

CONSTANTS
    InitMax,    \* the 20 of ref_node_create
    GrowMin,    \* the 5000 of ref_node_add_core
    NOld,       \* vertices of the mesh at the last synchronization
    NGlob,      \* bound: numbers below this one are used
    MaxUnused,  \* bound: unused numbers this rank has collected
    MaxMany     \* bound: entries of a list given to ref_node_add_many

ASSUME SizeAssumption == InitMax \in Nat \ {0} /\ GrowMin \in Nat \ {0}
ASSUME BoundAssumption ==
    /\ NGlob \in Nat /\ NOld \in 0..NGlob
    /\ MaxUnused \in Nat /\ MaxMany \in Nat

Glob == 0..(NGlob - 1)
EMPTY == -1                 \* REF_EMPTY, also the end of the free list
Me == 0                     \* ref_mpi_rank
Other == 1                  \* any other rank

VARIABLES
    max,            \* ref_node_max
    global,         \* slot -> global number, or the encoded next free slot
    blank,          \* the encoded first free slot
    n,              \* ref_node_n
    sorted_global,  \* 0..n-1 -> global number, ascending
    sorted_local,   \* 0..n-1 -> its slot
    part,           \* slot -> rank the vertex belongs to, EMPTY: free slot
    unused,         \* unused_global[0..n_unused-1], a stack
    new_n,          \* new_n_global
    sweep           \* slot a removal loop has come to, EMPTY: no such loop

vars == <<max, global, blank, n, sorted_global, sorted_local, part, unused,
          new_n, sweep>>
slots == <<max, global, blank, n, part>>
index == <<sorted_global, sorted_local>>

(***************************************************************************)
(* The encoding of a free list link.  It takes EMPTY to EMPTY.             *)
(***************************************************************************)
next2index(next) == - next - 2
index2next(l) == -2 - l

Slot == 0..(max - 1)
valid(l) == l \in Slot /\ global[l] >= 0
Used == {l \in Slot : valid(l)}

(***************************************************************************)
(* The free list threaded through the slots lo..max-1 in a row.            *)
(***************************************************************************)
chain(l, end) == IF l = end - 1 THEN EMPTY ELSE index2next(l + 1)

Init ==
    /\ max = InitMax
    /\ global = [l \in 0..(InitMax - 1) |-> chain(l, InitMax)]
    /\ blank = index2next(0)
    /\ n = 0
    /\ sorted_global = <<>> /\ sorted_local = <<>>
    /\ part = [l \in 0..(InitMax - 1) |-> EMPTY]
    /\ unused = <<>>
    /\ new_n = NOld
    /\ sweep = EMPTY

(***************************************************************************)
(* ref_node_local: the slot of a global number, EMPTY when it is not here. *)
(***************************************************************************)
local(g) == LET location == search_glob(n, sorted_global, g)
            IN  IF location = EMPTY THEN EMPTY ELSE sorted_local[location]

(***************************************************************************)
(* ref_node_add_core on a storage record: grow when the free list is       *)
(* empty, then take its first slot.                                        *)
(***************************************************************************)
storage == [max |-> max, global |-> global, blank |-> blank, n |-> n,
            part |-> part]

(* Mutant: the free list starts at the last used slot. *)
grow_mutant(s) ==
    LET chunk == Max({GrowMin, (3 * s.max) \div 2})
        end == s.max + chunk
    IN  [s EXCEPT !.max = end,
                  !.global = [l \in 0..(end - 1) |->
                                IF l < s.max THEN @[l] ELSE chain(l, end)],
                  !.blank = index2next(s.max - 1),
                  !.part = [l \in 0..(end - 1) |->
                                IF l < s.max THEN @[l] ELSE EMPTY]]

grow(s) ==
    LET chunk == Max({GrowMin, (3 * s.max) \div 2})
        end == s.max + chunk
    IN  [s EXCEPT !.max = end,
                  !.global = [l \in 0..(end - 1) |->
                                IF l < s.max THEN @[l] ELSE chain(l, end)],
                  !.blank = index2next(s.max),
                  !.part = [l \in 0..(end - 1) |->
                                IF l < s.max THEN @[l] ELSE EMPTY]]

add_core(s0, g) ==
    LET s == IF s0.blank = EMPTY THEN grow(s0) ELSE s0
        node == next2index(s.blank)
    IN  [s EXCEPT !.blank = s.global[node],
                  !.global[node] = g,
                  !.part[node] = Me,
                  !.n = @ + 1]

store(s) ==
    /\ max' = s.max /\ global' = s.global /\ blank' = s.blank
    /\ n' = s.n /\ part' = s.part

(***************************************************************************)
(* A loop upwards over the members of a set of integers that packs them.   *)
(***************************************************************************)
in_order(S) ==
    [i \in 1..Cardinality(S) |->
        CHOOSE l \in S : Cardinality({k \in S : k < l}) = i - 1]

(***************************************************************************)
(* ref_node_rebuild_sorted_global over a storage record: pack the used     *)
(* slots and their numbers, and heap sort.                                 *)
(***************************************************************************)
rebuild_sorted_global(s) ==
    LET pack == in_order({l \in 0..(s.max - 1) : s.global[l] >= 0})
        numbers == [i \in Index(s.n) |-> s.global[pack[i + 1]]]
        order == heap_glob(s.n, numbers)
    IN  /\ sorted_local' = [i \in Index(s.n) |-> pack[order[i] + 1]]
        /\ sorted_global' = [i \in Index(s.n) |-> numbers[order[i]]]

(***************************************************************************)
(* Where ref_node_add inserts: past the last smaller number, looked for    *)
(* from the end of the index.                                              *)
(***************************************************************************)
insert_point(g) ==
    LET below == {i \in Index(n) : sorted_global[i] < g}
    IN  IF below = {} THEN 0 ELSE Max(below) + 1

(* The shifts of the index that make room for an entry and close a gap. *)
inserted(list, at, x) ==
    [i \in 0..n |-> IF i < at THEN list[i]
                    ELSE IF i = at THEN x ELSE list[i - 1]]

deleted(list, at) ==
    [i \in 0..(n - 2) |-> IF i < at THEN list[i] ELSE list[i + 1]]

(***************************************************************************)
(* The end of every removal: the slot becomes the first of the free list.  *)
(***************************************************************************)
release(l) ==
    /\ global' = [global EXCEPT ![l] = blank]
    /\ blank' = index2next(l)
    /\ part' = [part EXCEPT ![l] = EMPTY]
    /\ n' = n - 1
    /\ UNCHANGED max

push_unused(g) == Len(unused) < MaxUnused /\ unused' = Append(unused, g)

(***************************************************************************)
(* ref_node_add, with the owner its caller stores.  A number that is here  *)
(* already is not added again.                                             *)
(***************************************************************************)
add(g, owner) ==
    IF local(g) # EMPTY THEN UNCHANGED <<slots, index>>
    ELSE LET s == add_core(storage, g)
             node == next2index(IF blank = EMPTY THEN index2next(max) ELSE blank)
         IN  /\ store([s EXCEPT !.part[node] = owner])
             /\ sorted_global' = inserted(sorted_global, insert_point(g), g)
             /\ sorted_local' = inserted(sorted_local, insert_point(g), node)

(***************************************************************************)
(* A new vertex of this rank (ref_split.c and others): ref_node_next_global *)
(* takes the number last released or the next one above the count.         *)
(***************************************************************************)
NewNode ==
    /\ sweep = EMPTY
    /\ IF unused # <<>>
       THEN /\ add(Seqs!Last(unused), Me)
            /\ unused' = Seqs!Front(unused)
            /\ UNCHANGED new_n
       ELSE /\ new_n < NGlob
            /\ add(new_n, Me)
            /\ new_n' = new_n + 1
            /\ UNCHANGED unused
    /\ UNCHANGED sweep

(***************************************************************************)
(* The numbers other ranks send: they are below the count of the last      *)
(* synchronization, and none is one this rank has released.                *)
(***************************************************************************)
Received == (0..(NOld - 1)) \ Range(unused)

(* The owner stored again with a number that is here is the same one. *)
AddGhost(g) ==
    /\ sweep = EMPTY
    /\ add(g, Other)
    /\ UNCHANGED <<unused, new_n, sweep>>

(* The entries of the list at these places, packed. *)
chosen(list, places) ==
    [i \in 1..Cardinality(places) |-> list[in_order(places)[i]]]

(* Mutant: equal entries of the list are not looked for. *)
distinct_mutant(list) == list

(***************************************************************************)
(* ref_node_add_many: leave out the numbers that are here, then all but    *)
(* one of each run of equal ones in the order of the heap sort.  The       *)
(* owners are stored by the caller, one owner per list here.               *)
(***************************************************************************)
distinct(list) ==
    LET k == Len(list)
        order == heap_glob(k, [i \in Index(k) |-> list[i + 1]])
        entry(i) == list[order[i] + 1]
        dropped == {order[i] + 1 : i \in {j \in 1..(k - 1) :
                                            entry(j) = entry(j - 1)}}
    IN  chosen(list, (1..k) \ dropped)

AddMany(list, owner) ==
    /\ sweep = EMPTY
    /\ LET absent == {i \in 1..Len(list) : local(list[i]) = EMPTY}
           new == distinct(chosen(list, absent))
           stored[i \in 0..Len(new)] ==
               IF i = 0 THEN storage ELSE add_core(stored[i - 1], new[i])
           s == stored[Len(new)]
           added == {l \in 0..(s.max - 1) : s.global[l] >= 0 /\ ~ valid(l)}
       IN  /\ store([s EXCEPT !.part = [l \in DOMAIN @ |->
                                IF l \in added THEN owner ELSE @[l]]])
           /\ rebuild_sorted_global(s)
    /\ UNCHANGED <<unused, new_n, sweep>>

(***************************************************************************)
(* The removals find the number in the index and close the gap.            *)
(***************************************************************************)
unindex(l) ==
    LET location == search_glob(n, sorted_global, global[l])
    IN  /\ sorted_global' = deleted(sorted_global, location)
        /\ sorted_local' = deleted(sorted_local, location)

(* ref_node_remove: callers release with its number a vertex they own. *)
Remove(l) ==
    /\ sweep = EMPTY /\ valid(l) /\ part[l] = Me
    /\ unindex(l)
    /\ push_unused(global[l])
    /\ release(l)
    /\ UNCHANGED <<new_n, sweep>>

(* ref_node_remove_without_global *)
RemoveWithoutGlobal(l) ==
    /\ sweep = EMPTY /\ valid(l)
    /\ unindex(l)
    /\ release(l)
    /\ UNCHANGED <<unused, new_n, sweep>>

(***************************************************************************)
(* The two removal loops, of ref_grid_drop_volume (with the numbers) and   *)
(* of ref_migrate_shufflin (ghosts, without): visit the slots upwards,     *)
(* release some used ones, and rebuild the index after the last.           *)
(***************************************************************************)
SweepBegin ==
    /\ sweep = EMPTY
    /\ sweep' = 0
    /\ UNCHANGED <<slots, index, unused, new_n>>

(* The loop reads entries of the index up to the new n only. *)
clip(list) == [i \in 0..(n - 2) |-> list[i]]

invalidate == sorted_global' = clip(sorted_global)
              /\ sorted_local' = clip(sorted_local)

SweepKeep ==
    /\ sweep # EMPTY /\ sweep < max
    /\ sweep' = sweep + 1
    /\ UNCHANGED <<slots, index, unused, new_n>>

(* ref_node_remove_invalidates_sorted *)
SweepRemove ==
    /\ sweep # EMPTY /\ valid(sweep)
    /\ push_unused(global[sweep])
    /\ release(sweep)
    /\ invalidate
    /\ sweep' = sweep + 1
    /\ UNCHANGED new_n

(* ref_node_remove_without_global_invalidates_sorted *)
SweepRemoveWithoutGlobal ==
    /\ sweep # EMPTY /\ valid(sweep) /\ part[sweep] # Me
    /\ release(sweep)
    /\ invalidate
    /\ sweep' = sweep + 1
    /\ UNCHANGED <<unused, new_n>>

(* Mutant: the index is not rebuilt. *)
SweepEnd_mutant ==
    /\ sweep = max
    /\ sweep' = EMPTY
    /\ UNCHANGED <<slots, index, unused, new_n>>

SweepEnd ==
    /\ sweep = max
    /\ rebuild_sorted_global(storage)
    /\ sweep' = EMPTY
    /\ UNCHANGED <<slots, unused, new_n>>

(* Mutant: the owners are gathered through o2n. *)
packed_part_mutant(n2o) ==
    LET o2n == AntiFunction(n2o)
    IN  [l \in Slot |-> IF l < n THEN part[IF l \in Used THEN o2n[l] ELSE l]
                                  ELSE EMPTY]

packed_part(n2o) == [l \in Slot |-> IF l < n THEN part[n2o[l]] ELSE EMPTY]

(***************************************************************************)
(* ref_node_pack: slot i receives what slot n2o[i] held and the free slots *)
(* follow.  The order comes from ref_edge_rcm or ref_node_stable_compact   *)
(* and may be any; the index keeps its numbers and translates its slots.   *)
(***************************************************************************)
Pack(n2o) ==
    /\ sweep = EMPTY
    /\ global' = [l \in Slot |-> IF l < n THEN global[n2o[l]]
                                          ELSE chain(l, max)]
    /\ blank' = IF n < max THEN index2next(n) ELSE EMPTY
    /\ part' = packed_part(n2o)
    /\ sorted_local' = [i \in Index(n) |-> AntiFunction(n2o)[sorted_local[i]]]
    /\ UNCHANGED <<max, n, sorted_global, unused, new_n, sweep>>

Next ==
    \/ NewNode
    \/ \E g \in Received : AddGhost(g)
    \/ \E k \in 0..MaxMany : \E list \in [1..k -> Received] :
          \E owner \in {Me, Other} : AddMany(list, owner)
    \/ \E l \in Slot : Remove(l)
    \/ \E l \in Slot : RemoveWithoutGlobal(l)
    \/ SweepBegin \/ SweepKeep \/ SweepRemove \/ SweepRemoveWithoutGlobal
    \/ SweepEnd
    \/ \E n2o \in Bijection(Index(n), Used) : Pack(n2o)

Spec == Init /\ [][Next]_vars
-----------------------------------------------------------------------------
(***************************************************************************)
(* The members have the types of REF_NODE_STRUCT, and n counts the used    *)
(* slots.                                                                  *)
(***************************************************************************)
TypeOK ==
    /\ max \in Nat \ {0}
    /\ global \in [Slot -> Int]
    /\ blank \in Int
    /\ n = Cardinality(Used)
    /\ sorted_global \in [Index(n) -> Glob]
    /\ sorted_local \in [Index(n) -> Slot]
    /\ part \in [Slot -> {Me, Other, EMPTY}]
    /\ unused \in Seq(Glob)
    /\ new_n \in NOld..NGlob
    /\ sweep \in 0..max \cup {EMPTY}

(***************************************************************************)
(* The free list that starts at blank visits every free slot once, no used *)
(* one, and ends.  A slot on it twice would be handed to two vertices; one *)
(* off it is lost for good.                                                *)
(***************************************************************************)
FreeListExact ==
    LET at[k \in 0..max] ==
            IF k = 0 THEN next2index(blank)
            ELSE IF at[k - 1] \in Slot THEN next2index(global[at[k - 1]])
            ELSE at[k - 1]
        free == Slot \ Used
        len == Cardinality(free)
    IN  /\ TypeOK
        /\ {at[k] : k \in 0..(len - 1)} = free /\ at[len] = EMPTY

(***************************************************************************)
(* Outside a removal loop the index lists the numbers of all used slots in *)
(* strictly ascending order, each with its slot: no operation leaves it    *)
(* unsorted, no number is held twice, and none is missing.                 *)
(***************************************************************************)
IndexExact ==
    sweep = EMPTY =>
        /\ \A i \in 1..(n - 1) : sorted_global[i - 1] < sorted_global[i]
        /\ {sorted_local[i] : i \in Index(n)} = Used
        /\ \A i \in Index(n) : global[sorted_local[i]] = sorted_global[i]

(***************************************************************************)
(* A vertex that stays keeps its owner, whatever is added, released or     *)
(* packed around it.                                                       *)
(***************************************************************************)
OwnerFollows ==
    [][\A l \in Used, k \in Used' :
          global[l] = global'[k] => part[l] = part'[k]]_vars

(***************************************************************************)
(* The storage implements the table.  Outside a removal loop the table is  *)
(* what ref_node_local answers; inside one nobody asks, and it is what the *)
(* slots hold.                                                             *)
(***************************************************************************)
table == IF sweep = EMPTY
         THEN [g \in {h \in Glob : local(h) # EMPTY} |-> local(g)]
         ELSE [g \in {global[l] : l \in Used} |->
                  CHOOSE l \in Used : global[l] = g]

Table == INSTANCE NodeTable WITH table <- table

TableSpec == Table!Spec
=============================================================================
