---------------------------- MODULE RefNodeSync ----------------------------
(***************************************************************************)
(* Allocation, release and synchronization of global vertex numbers by the *)
(* ranks of a parallel run: ref_node.c.                                    *)
(*                                                                         *)
(* Between two synchronizations every rank hands out and takes back        *)
(* numbers without talking to anybody: a released number goes on the       *)
(* rank's own unused stack, a new vertex takes the top of that stack or,   *)
(* when it is empty, the next number above the common count.  Two ranks    *)
(* therefore use the same new numbers for different vertices until         *)
(* ref_node_synchronize_globals renumbers everything: the new numbers of a *)
(* rank are shifted past those of the lower ranks, and then the unused     *)
(* numbers of all ranks are squeezed out, a slice of ranks at a time.      *)
(*                                                                         *)
(* A vertex has an identity here (a member of Vert) that the program does  *)
(* not have; the program knows a vertex by its number only.  glob[r][v] is *)
(* the number rank r stores for its copy of v.  The sorted index kept      *)
(* beside the numbers is the subject of module RefNode.                    *)
(***************************************************************************)
EXTENDS RefSort, Sequences, FiniteSets, FiniteSetsExt, Functions, TLC

CONSTANTS
    NRank,      \* ref_mpi_n
    NVert,      \* bound: vertex identities available to a behaviour
    NInit,      \* vertices of the initial mesh
    ChunkMin,   \* the 100000 of ref_node_eliminate_unused_globals
    MaxNew,     \* bound: new numbers of a rank between synchronizations
    MaxUnused,  \* bound: unused numbers of a rank
    MaxSync     \* bound: synchronizations of a behaviour

ASSUME NRankAssumption == NRank \in Nat \ {0}
ASSUME NVertAssumption == NVert \in Nat /\ NInit \in 0..NVert
ASSUME BoundAssumption ==
    ChunkMin \in Nat /\ MaxNew \in Nat /\ MaxUnused \in Nat /\ MaxSync \in Nat

Rank == 0..(NRank - 1)
Vert == 0..(NVert - 1)

EMPTY == -1                 \* REF_EMPTY

VARIABLES
    glob,       \* rank -> vertex -> the stored number, EMPTY: no copy here
    owner,      \* vertex -> the rank it is assigned to (ref_node_part)
    unused,     \* rank -> unused_global[0..n_unused-1], a stack
    oldN,       \* rank -> old_n_global
    newN,       \* rank -> new_n_global
    pc,         \* rank -> where the rank is
    epoch,      \* rank -> synchronizations it has entered
    doomed,     \* vertices every rank is about to drop
    news,       \* rank -> its operand of the allgather of new counts
    counts,     \* rank -> its operand of the allgather of unused counts
    posted,     \* rank -> its operand of the allgatherv of unused numbers
    active0     \* rank -> first rank of the slice it works on

vars == <<glob, owner, unused, oldN, newN, pc, epoch, doomed, news, counts,
          posted, active0>>

held(r) == {v \in Vert : glob[r][v] # EMPTY}
copies(v) == {r \in Rank : glob[r][v] # EMPTY}
alive == {v \in Vert : copies(v) # {}}

Steps == {"adapt", "drop", "gather", "count", "slice", "share"}

TypeOK ==
    /\ glob \in [Rank -> [Vert -> Nat \cup {EMPTY}]]
    /\ owner \in [Vert -> Rank]
    /\ unused \in [Rank -> Seq(Nat)]
    /\ oldN \in [Rank -> Nat]
    /\ newN \in [Rank -> Nat]
    /\ pc \in [Rank -> Steps]
    /\ epoch \in [Rank -> 0..MaxSync]
    /\ doomed \in SUBSET Vert
    /\ news \in [Rank -> Nat]
    /\ counts \in [Rank -> Nat]
    /\ posted \in [Rank -> Seq(Nat)]
    /\ active0 \in [Rank -> 0..NRank]

(***************************************************************************)
(* The number of new vertices on the ranks below each rank, as every rank  *)
(* accumulates it from the gathered counts.                                *)
(***************************************************************************)
PrefixSum(c) ==
    LET sum[n \in 0..NRank] == IF n = 0 THEN 0 ELSE sum[n - 1] + c[n - 1]
    IN  sum

(***************************************************************************)
(* ref_node_next_global: the top of the unused stack, or the next number   *)
(* above the count.                                                        *)
(***************************************************************************)
next_global(r) == IF unused[r] # <<>> THEN unused[r][Len(unused[r])]
                                      ELSE newN[r]

(* Mutant: n_unused is not decremented. *)
pop_unused_mutant(r) == UNCHANGED unused

pop_unused(r) == unused' = [unused EXCEPT
                               ![r] = SubSeq(@, 1, Len(@) - 1)]

push_unused(r, g) == unused' = [unused EXCEPT ![r] = Append(@, g)]

(* Mutant: the offset is subtracted. *)
shift_new_global_back_mutant(g, old_n_global, offset) ==
    IF g >= old_n_global THEN g - offset ELSE g

(* Mutant: the last old number is shifted too. *)
shift_new_global_low_mutant(g, old_n_global, offset) ==
    IF g >= old_n_global - 1 THEN g + offset ELSE g

(***************************************************************************)
(* The shift of one number, in ref_node_shift_new_globals for the vertices *)
(* and in ref_node_shift_unused for the unused numbers.                    *)
(***************************************************************************)
shift_new_global(g, old_n_global, offset) ==
    IF g >= old_n_global THEN g + offset ELSE g

(* Mutant: the first new number is not shifted. *)
shift_unused_mutant(g, equal_and_above, shift) ==
    IF g > equal_and_above THEN g + shift ELSE g

shift_unused(g, equal_and_above, shift) ==
    IF g >= equal_and_above THEN g + shift ELSE g

(* Mutant: a slice may be empty. *)
eliminate_active_parts_mutant(c, chunk, a0) ==
    Max({a \in a0..NRank :
            a = a0 \/ PrefixSum(c)[a] - PrefixSum(c)[a0] < chunk})

(***************************************************************************)
(* ref_node_eliminate_active_parts: the slice of ranks that starts at a0   *)
(* grows while its unused numbers fit the chunk; it has at least one rank. *)
(***************************************************************************)
eliminate_active_parts(c, chunk, a0) ==
    Max({a \in (a0 + 1)..NRank :
            a = a0 + 1 \/ PrefixSum(c)[a] - PrefixSum(c)[a0] <= chunk})

(* Mutant: the unused numbers are posted unsorted. *)
sort_in_place_mutant(list) == list

(* ref_sort_in_place_glob on the first n_unused entries. *)
sort_in_place(list) ==
    LET sorts == in_place_glob(Len(list), [i \in Index(Len(list)) |-> list[i + 1]])
    IN  [i \in 1..Len(list) |-> sorts[i - 1]]

(***************************************************************************)
(* The slice of ranks that starts at a0, from the gathered unused counts;  *)
(* the chunk is at least ChunkMin and at least the average.                *)
(***************************************************************************)
total_unused == PrefixSum(counts)[NRank]

chunk_size == Max({total_unused \div NRank + 1, ChunkMin})

active1(a0) == eliminate_active_parts(counts, chunk_size, a0)

slice(a0) == a0..(active1(a0) - 1)

(***************************************************************************)
(* ref_node_eliminate_unused_offset walks an ascending list of numbers and *)
(* the sorted numbers gathered from the slice once, side by side.  The     *)
(* offset of a number is the count of smaller gathered numbers, and never  *)
(* less than the offset of a number before it in the list.                 *)
(***************************************************************************)
smaller(r, g) ==
    Cardinality(UNION {{<<q, i>> : i \in {k \in DOMAIN posted[q] :
                                             posted[q][k] < g}} :
                       q \in slice(active0[r])})

eliminate_unused_offset(r, list, i) ==
    list[i] - Max({smaller(r, list[j]) : j \in 1..i})

(***************************************************************************)
(* The initial mesh: vertex v has number v, an owner, and a copy on the    *)
(* owner and on any other ranks.                                           *)
(***************************************************************************)
Init ==
    /\ owner \in [Vert -> Rank]
    /\ \A v \in Vert : v >= NInit => owner[v] = 0
    /\ \E where \in [0..(NInit - 1) -> SUBSET Rank] :
          /\ \A v \in 0..(NInit - 1) : owner[v] \in where[v]
          /\ glob = [r \in Rank |-> [v \in Vert |->
                        IF v < NInit /\ r \in where[v] THEN v ELSE EMPTY]]
    /\ unused = [r \in Rank |-> <<>>]
    /\ oldN = [r \in Rank |-> NInit]
    /\ newN = [r \in Rank |-> NInit]
    /\ pc = [r \in Rank |-> "adapt"]
    /\ epoch = [r \in Rank |-> 0]
    /\ doomed = {}
    /\ news = [r \in Rank |-> 0]
    /\ counts = [r \in Rank |-> 0]
    /\ posted = [r \in Rank |-> <<>>]
    /\ active0 = [r \in Rank |-> 0]

(***************************************************************************)
(* Local operations, between synchronizations.                             *)
(***************************************************************************)

(* A new vertex: ref_node_next_global and ref_node_add, as the edge split  *)
(* does.  No other rank has a copy of it yet.                              *)
NewNode(r) ==
    /\ pc[r] = "adapt" /\ epoch[r] < MaxSync
    /\ \E v \in Vert :
          /\ v \notin alive
          /\ \A w \in Vert : w < v => w \in alive
          /\ glob' = [glob EXCEPT ![r][v] = next_global(r)]
          /\ owner' = [owner EXCEPT ![v] = r]
    /\ \/ unused[r] # <<>> /\ pop_unused(r) /\ UNCHANGED newN
       \/ /\ unused[r] = <<>>
          /\ newN[r] - oldN[r] < MaxNew
          /\ newN' = [newN EXCEPT ![r] = @ + 1]
          /\ UNCHANGED unused
    /\ UNCHANGED <<oldN, pc, epoch, doomed, news, counts, posted, active0>>

(* Mutant: a shared vertex is removed. *)
Remove_mutant(r, v) ==
    /\ pc[r] = "adapt" /\ epoch[r] < MaxSync
    /\ glob[r][v] # EMPTY
    /\ Len(unused[r]) < MaxUnused
    /\ push_unused(r, glob[r][v])
    /\ glob' = [glob EXCEPT ![r][v] = EMPTY]
    /\ UNCHANGED <<owner, oldN, newN, pc, epoch, doomed, news, counts, posted,
                   active0>>

(* ref_node_remove by the owner, as collapse, swap, cavity replacement and *)
(* a rejected split do.  They touch a vertex only when every cell around   *)
(* it has local vertices alone, so that no other rank has a copy.          *)
Remove(r, v) ==
    /\ pc[r] = "adapt" /\ epoch[r] < MaxSync
    /\ owner[v] = r
    /\ copies(v) = {r}
    /\ Len(unused[r]) < MaxUnused
    /\ push_unused(r, glob[r][v])
    /\ glob' = [glob EXCEPT ![r][v] = EMPTY]
    /\ owner' = [owner EXCEPT ![v] = 0]
    /\ UNCHANGED <<oldN, newN, pc, epoch, doomed, news, counts, posted,
                   active0>>

(* The ranks agree on a shared vertex to drop (an edge of the subdivision  *)
(* that lost its mark, a pole vertex of the axisymmetric mesh) ...         *)
Agree ==
    /\ doomed = {}
    /\ \A r, q \in Rank : pc[r] = "adapt" /\ epoch[r] = epoch[q]
    /\ \E r \in Rank : epoch[r] < MaxSync
    /\ \E v \in alive : doomed' = {v}
    /\ pc' = [r \in Rank |-> "drop"]
    /\ UNCHANGED <<glob, owner, unused, oldN, newN, epoch, news, counts,
                   posted, active0>>

(* ... and each rank drops its copy before it synchronizes: the owner with *)
(* its number (ref_node_remove), the others without it                     *)
(* (ref_node_remove_without_global).                                       *)
DropCopy(r, v) ==
    /\ pc[r] = "drop"
    /\ v \in doomed
    /\ glob[r][v] # EMPTY
    /\ IF owner[v] = r THEN push_unused(r, glob[r][v]) ELSE UNCHANGED unused
    /\ glob' = [glob EXCEPT ![r][v] = EMPTY]
    /\ UNCHANGED <<owner, oldN, newN, pc, epoch, doomed, news, counts, posted,
                   active0>>

(***************************************************************************)
(* ref_node_shift_new_globals.                                             *)
(***************************************************************************)

(* The rank calls synchronize and posts its count of new numbers. *)
ShiftPost(r) ==
    /\ \/ pc[r] = "adapt"
       \/ pc[r] = "drop" /\ held(r) \cap doomed = {}
    /\ epoch[r] < MaxSync
    /\ pc' = [pc EXCEPT ![r] = "gather"]
    /\ epoch' = [epoch EXCEPT ![r] = @ + 1]
    /\ news' = [news EXCEPT ![r] = newN[r] - oldN[r]]
    /\ UNCHANGED <<glob, owner, unused, oldN, newN, doomed, counts, posted,
                   active0>>

(* The allgather returns once every rank has posted.  The rank shifts its  *)
(* new numbers past those of the ranks below it and moves both counts up.  *)
(* It goes on to ref_node_eliminate_unused_globals, sorts its unused       *)
(* numbers and posts how many it has: nothing another rank does comes      *)
(* between the two collectives.                                            *)
ShiftApply(r) ==
    /\ pc[r] = "gather"
    /\ \A q \in Rank : epoch[q] >= epoch[r]
    /\ LET offset == PrefixSum(news)[r]
           total  == PrefixSum(news)[NRank]
       IN  /\ glob' = [glob EXCEPT ![r] = [v \in Vert |->
                          IF v \in held(r)
                          THEN shift_new_global(glob[r][v], oldN[r], offset)
                          ELSE EMPTY]]
           /\ unused' = [unused EXCEPT ![r] = sort_in_place(
                            [i \in DOMAIN @ |->
                                shift_unused(@[i], oldN[r], offset)])]
           /\ oldN' = [oldN EXCEPT ![r] = @ + total]
           /\ newN' = [newN EXCEPT ![r] = oldN[r] + total]
    /\ counts' = [counts EXCEPT ![r] = Len(unused[r])]
    /\ active0' = [active0 EXCEPT ![r] = 0]
    /\ pc' = [pc EXCEPT ![r] = "count"]
    /\ UNCHANGED <<owner, epoch, doomed, news, posted>>

(***************************************************************************)
(* ref_node_eliminate_unused_globals.                                      *)
(***************************************************************************)

(* Rank q is past the point where it posts what rank r is waiting for. *)
CountPosted(q, r) ==
    \/ epoch[q] > epoch[r]
    \/ epoch[q] = epoch[r] /\ pc[q] # "gather"

SlicePosted(q, r) ==
    \/ epoch[q] > epoch[r]
    \/ active0[q] > active0[r]
    \/ active0[q] = active0[r] /\ pc[q] = "slice"

(* The rank posts its unused numbers to the allgatherv of its slice. *)
PostSlice(r, a0, list) ==
    posted' = IF r \in slice(a0) THEN [posted EXCEPT ![r] = list] ELSE posted

(* With everybody's count, the rank finds the first slice. *)
CountApply(r) ==
    /\ pc[r] = "count"
    /\ \A q \in Rank : CountPosted(q, r)
    /\ pc' = [pc EXCEPT ![r] = "slice"]
    /\ PostSlice(r, active0[r], unused[r])
    /\ UNCHANGED <<glob, owner, unused, oldN, newN, epoch, doomed, news, counts,
                   active0>>

(* With the numbers of the slice, the rank squeezes them out of its own    *)
(* numbers and out of the unused numbers it has yet to post, and goes to   *)
(* the next slice.  After the last one the count is the compact one.       *)
SliceApply(r) ==
    /\ pc[r] = "slice"
    /\ \A q \in slice(active0[r]) : SlicePosted(q, r)
    /\ glob' = [glob EXCEPT ![r] = [v \in Vert |->
                   IF v \in held(r) THEN glob[r][v] - smaller(r, glob[r][v])
                                    ELSE EMPTY]]
    /\ unused' = [unused EXCEPT ![r] =
                     IF r \in slice(active0[r]) THEN <<>>
                     ELSE [i \in DOMAIN @ |-> eliminate_unused_offset(r, @, i)]]
    /\ active0' = [active0 EXCEPT ![r] = active1(@)]
    /\ \/ /\ active0'[r] = NRank
          /\ pc' = [pc EXCEPT ![r] = "share"]
          /\ oldN' = [oldN EXCEPT ![r] = @ - total_unused]
          /\ newN' = [newN EXCEPT ![r] = oldN[r] - total_unused]
          /\ UNCHANGED posted
       \/ /\ active0'[r] < NRank
          /\ PostSlice(r, active0'[r], unused'[r])
          /\ UNCHANGED <<pc, oldN, newN>>
    /\ UNCHANGED <<owner, epoch, doomed, news, counts>>

(***************************************************************************)
(* Between the synchronization and the next local phase, ghost copies come *)
(* and go: the owner sends its number and the receiver stores it with      *)
(* ref_node_add; a ghost without cells is dropped without its number       *)
(* (ref_migrate_shufflin, the end of ref_subdiv_new_node).                 *)
(***************************************************************************)
Shared == \A r, q \in Rank : pc[r] = "share" /\ epoch[r] = epoch[q]

AddGhost(r, v) ==
    /\ Shared /\ epoch[r] < MaxSync
    /\ v \in alive
    /\ glob[r][v] = EMPTY
    /\ glob' = [glob EXCEPT ![r][v] = glob[owner[v]][v]]
    /\ UNCHANGED <<owner, unused, oldN, newN, pc, epoch, doomed, news, counts,
                   posted, active0>>

DropGhost(r, v) ==
    /\ Shared /\ epoch[r] < MaxSync
    /\ owner[v] # r
    /\ glob[r][v] # EMPTY
    /\ glob' = [glob EXCEPT ![r][v] = EMPTY]
    /\ UNCHANGED <<owner, unused, oldN, newN, pc, epoch, doomed, news, counts,
                   posted, active0>>

(* The exchange of ghost data that ends the phase is collective.  The      *)
(* buffers of the synchronization have been freed.                         *)
Resume ==
    /\ Shared
    /\ pc' = [r \in Rank |-> "adapt"]
    /\ doomed' = {}
    /\ news' = [r \in Rank |-> 0]
    /\ counts' = [r \in Rank |-> 0]
    /\ posted' = [r \in Rank |-> <<>>]
    /\ active0' = [r \in Rank |-> 0]
    /\ UNCHANGED <<glob, owner, unused, oldN, newN, epoch>>

(* The last synchronization of the behaviour is done. *)
Finished ==
    /\ \A r \in Rank : pc[r] = "adapt" /\ epoch[r] = MaxSync
    /\ UNCHANGED vars

RankStep(r) ==
    \/ NewNode(r)
    \/ \E v \in Vert : Remove(r, v) \/ DropCopy(r, v)
    \/ ShiftPost(r)
    \/ ShiftApply(r)
    \/ CountApply(r)
    \/ SliceApply(r)
    \/ \E v \in Vert : AddGhost(r, v) \/ DropGhost(r, v)

Next ==
    \/ \E r \in Rank : RankStep(r)
    \/ Agree
    \/ Resume
    \/ Finished

(* A rank that is in the code keeps running: it drops what it must, calls  *)
(* the collectives and returns from one when its operands are there.       *)
Fairness ==
    /\ \A r \in Rank :
          WF_vars(\/ \E v \in Vert : DropCopy(r, v)
                  \/ ShiftPost(r)
                  \/ ShiftApply(r)
                  \/ CountApply(r)
                  \/ SliceApply(r))
    /\ WF_vars(Resume)

Spec == Init /\ [][Next]_vars

FairSpec == Spec /\ Fairness

-----------------------------------------------------------------------------
(***************************************************************************)
(* Properties                                                              *)
(***************************************************************************)

(* On every rank, in the middle of a synchronization too, two vertices     *)
(* never have the same number, and a number on the unused list is there    *)
(* once and belongs to no vertex of the rank ("assert there are no unused  *)
(* in global list" in ref_node_eliminate_unused_offset).                   *)
LocalIdsUnique ==
    TypeOK /\ \A r \in Rank :
       /\ \A v, w \in held(r) : glob[r][v] = glob[r][w] => v = w
       /\ \A i, j \in DOMAIN unused[r] : unused[r][i] = unused[r][j] => i = j
       /\ \A v \in held(r), i \in DOMAIN unused[r] :
             glob[r][v] # unused[r][i]

(* Two ranks are at the same place of the renumbering. *)
Aligned(r, q) ==
    /\ epoch[r] = epoch[q]
    /\ LET stage(t) == CASE pc[t] \in {"adapt", "drop", "share"} -> "out"
                         [] pc[t] = "gather" -> "gather"
                         [] pc[t] = "count" -> "count"
                         [] OTHER -> "slices"
       IN  /\ stage(r) = stage(q)
           /\ stage(r) = "slices" => active0[r] = active0[q]

(* A ghost copy has the number of the owner's copy, whenever the two ranks *)
(* are at the same place of the renumbering.  Data is exchanged between    *)
(* copies by number, so a ghost that was shifted differently would read    *)
(* another vertex's data.                                                  *)
GhostAgrees ==
    \A r, q \in Rank : \A v \in held(r) \cap held(q) :
       Aligned(r, q) => glob[r][v] = glob[q][v]

(* Numbers below the common count mean the same vertex to all ranks        *)
(* between synchronizations, and one that is on an unused list is stored   *)
(* for no vertex on any rank and is on no other list: two ranks cannot     *)
(* hand out the same old number.                                           *)
OldIdsUnique ==
    \A r, q \in Rank :
       pc[r] = "adapt" /\ pc[q] = "adapt" /\ epoch[r] = epoch[q] =>
          /\ oldN[r] = oldN[q]
          /\ \A v \in held(r), w \in held(q) :
                glob[r][v] = glob[q][w] /\ glob[r][v] < oldN[r] => v = w
          /\ \A i \in DOMAIN unused[r] : unused[r][i] < oldN[r] =>
                /\ \A w \in held(q) : glob[q][w] # unused[r][i]
                /\ r # q => \A j \in DOMAIN unused[q] :
                               unused[q][j] # unused[r][i]

(* Synchronization compacts: once every rank is through, the numbers of    *)
(* the vertices are 0 .. n-1 without a gap or a duplicate, n is the count  *)
(* every rank stores, and no number is left unused ("set compact global    *)
(* count").                                                                *)
SyncCompacts ==
    (\A r, q \in Rank : pc[r] = "share" /\ epoch[r] = epoch[q]) =>
       /\ \A r \in Rank : /\ oldN[r] = Cardinality(alive)
                          /\ newN[r] = oldN[r]
                          /\ unused[r] = <<>>
       /\ {glob[owner[v]][v] : v \in alive} = 0..(Cardinality(alive) - 1)

(* No step reorders the numbers of the vertices a rank keeps.  The index   *)
(* (sorted_global, sorted_local) is renumbered in place by the shift and   *)
(* the elimination and never sorted again, so it depends on this.          *)
OrderKept ==
    [][\A r \in Rank : \A v, w \in held(r) :
          /\ glob'[r][v] # EMPTY /\ glob'[r][w] # EMPTY
          /\ glob[r][v] < glob[r][w]
          => glob'[r][v] < glob'[r][w]]_vars

(* A synchronization that some rank has entered completes on every rank,   *)
(* however many slices it takes.                                           *)
SyncCompletes ==
    \A r, q \in Rank :
       pc[r] = "gather" ~> pc[q] = "share"
=============================================================================
