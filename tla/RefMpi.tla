------------------------------- MODULE RefMpi -------------------------------
(***************************************************************************)
(* The exchanges refine builds on the MPI library (ref_mpi.c): blindsend,  *)
(* where no rank knows what it will receive, and balance.  items[r] is the *)
(* sequence of items of rank r, ranks from 0; a call is collective, so it  *)
(* is a function of what all ranks pass to it.                             *)
(***************************************************************************)
EXTENDS Integers, Sequences
LOCAL INSTANCE FiniteSetsExt
LOCAL INSTANCE SequencesExt

CONSTANT NProc

Proc == 0 .. NProc - 1

Count(s, x) == Cardinality({i \in DOMAIN s : s[i] = x})

(* the first place in a buffer of the part for proc p, from 0              *)
Displacement(size, p) == MapThenSumSet(LAMBDA q : size[q], 0 .. p - 1)

(* mutant: a part is packed from its last item on *)
Packed_mutant(proc, send) ==
    LET first == [p \in Proc |-> Displacement([q \in Proc |-> Count(proc, q)], p)]
        put(acc, i) == [data |-> [acc.data EXCEPT ![acc.next[proc[i]] + 1] = send[i]],
                        next |-> [acc.next EXCEPT ![proc[i]] = @ - 1]]
        last == [p \in Proc |-> first[p] + Count(proc, p) - 1]
    IN  FoldLeft(put, [data |-> send, next |-> last], [i \in DOMAIN send |-> i]).data

(* the items sorted by the proc they go to, in the order they were given   *)
Packed(proc, send) ==
    LET first == [p \in Proc |-> Displacement([q \in Proc |-> Count(proc, q)], p)]
        put(acc, i) == [data |-> [acc.data EXCEPT ![acc.next[proc[i]] + 1] = send[i]],
                        next |-> [acc.next EXCEPT ![proc[i]] = @ + 1]]
    IN  FoldLeft(put, [data |-> send, next |-> first], [i \in DOMAIN send |-> i]).data

(* ref_mpi_alltoallv: rank r receives one part of the buffer of each rank, *)
(* lowest rank first.  The native variant posts a receive and a send for   *)
(* each pair of ranks that has something, with a tag of its own, at the    *)
(* same places of the buffers                                              *)
ref_mpi_alltoallv(send, send_size) ==
    [r \in Proc |->
        FoldLeft(LAMBDA got, s :
                     LET from == Displacement(send_size[s], r)
                     IN  got \o SubSeq(send[s], from + 1, from + send_size[s][r]),
                 <<>>, [i \in 1 .. NProc |-> i - 1])]

(* ref_mpi_blindsend: proc[r][i] is the destination of item i of rank r    *)
ref_mpi_blindsend(proc, send) ==
    ref_mpi_alltoallv([r \in Proc |-> Packed(proc[r], send[r])],
                      [r \in Proc |-> [p \in Proc |-> Count(proc[r], p)]])

-----------------------------------------------------------------------------
(* what rank r is to have of total items dealt to the ranks first to last  *)
Share(total, first, last, r) ==
    LET active == last - first + 1
        share  == total \div active
        rest   == total - share * active
    IN  IF r \notin first .. last THEN 0
        ELSE IF Max({0, r - first}) < rest THEN share + 1 ELSE share

(* find_destination: the rank whose share the item gid falls in            *)
find_destination(shares, gid) ==
    LET holds == {p \in Proc : gid < Displacement(shares, p + 1)}
    IN  IF holds = {} THEN NProc - 1 ELSE Min(holds)

ref_mpi_balance(items, first, last) ==
    LET haves  == [r \in Proc |-> Len(items[r])]
        total  == Displacement(haves, NProc)
        shares == [r \in Proc |-> Share(total, first, last, r)]
        to     == [r \in Proc |-> [i \in DOMAIN items[r] |->
                      find_destination(shares, Displacement(haves, r) + i - 1)]]
    IN  ref_mpi_blindsend(to, items)
=============================================================================
