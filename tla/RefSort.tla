------------------------------ MODULE RefSort ------------------------------
(***************************************************************************)
(* The sorting and searching routines of ref_sort.c.  An array of n        *)
(* entries is a function on 0..n-1.  The int, glob and dbl variants of a   *)
(* routine run the same statements over another type, so one operator      *)
(* stands for them.                                                        *)
(***************************************************************************)
EXTENDS Integers

ABSENT == -1                \* REF_EMPTY as a position

Index(n) == 0..(n - 1)

(***************************************************************************)
(* ref_sort_insertion_int: exchange the first smallest remaining entry     *)
(* with entry i, for i = 0, 1, ...                                         *)
(***************************************************************************)
smallest(sorted, n, i) ==
    CHOOSE k \in i..(n - 1) :
        /\ \A j \in i..(n - 1) : sorted[k] <= sorted[j]
        /\ \A j \in i..(k - 1) : sorted[k] < sorted[j]

insertion_int(n, original) ==
    LET sorted[i \in 0..n] ==
            IF i = 0 THEN original
            ELSE LET s == sorted[i - 1]
                     k == smallest(s, n, i - 1)
                 IN  [s EXCEPT ![i - 1] = s[k], ![k] = s[i - 1]]
    IN  sorted[n]

(***************************************************************************)
(* The inner loop of the heap sorts: let the entry indxt sink from the     *)
(* hole i through a heap that ends at ir, towards the larger child.        *)
(***************************************************************************)
larger_child(original, index, j, ir) ==
    IF j < ir /\ original[index[j]] < original[index[j + 1]] THEN j + 1 ELSE j

Sinking(n) == [index: [Index(n) -> Index(n)], i: Index(n)]

(* Mutant: the loop stops one child short of the end of the heap. *)
sink_mutant(n, original, index0, i0, ir, indxt) ==
    LET fall[s \in Sinking(n)] ==
            LET j == larger_child(original, s.index, 2 * s.i + 1, ir)
            IN  IF 2 * s.i + 1 < ir /\ original[indxt] < original[s.index[j]]
                THEN fall[[index |-> [s.index EXCEPT ![s.i] = s.index[j]], i |-> j]]
                ELSE [s.index EXCEPT ![s.i] = indxt]
    IN  fall[[index |-> index0, i |-> i0]]

sink(n, original, index0, i0, ir, indxt) ==
    LET fall[s \in Sinking(n)] ==
            LET j == larger_child(original, s.index, 2 * s.i + 1, ir)
            IN  IF 2 * s.i + 1 <= ir /\ original[indxt] < original[s.index[j]]
                THEN fall[[index |-> [s.index EXCEPT ![s.i] = s.index[j]], i |-> j]]
                ELSE [s.index EXCEPT ![s.i] = indxt]
    IN  fall[[index |-> index0, i |-> i0]]

(***************************************************************************)
(* ref_sort_heap_int, ref_sort_heap_glob, ref_sort_heap_dbl: sorted_index, *)
(* the order in which the entries of original ascend.  While l > 1 the     *)
(* heap is being built from its last parent up; then the top retires to ir *)
(* again and again.                                                        *)
(***************************************************************************)
Heaping(n) == [index: [Index(n) -> Index(n)], l: 1..n, ir: 1..(n - 1)]

last_swap(h) == [h.index EXCEPT ![1] = h.index[0], ![0] = h.index[1]]

next_round(n, original, h) ==
    IF h.l > 1
    THEN [h EXCEPT !.index = sink(n, original, @, h.l - 2, h.ir, @[h.l - 2]),
                   !.l = @ - 1]
    ELSE LET retired == [h.index EXCEPT ![h.ir] = h.index[0]]
         IN  [h EXCEPT !.index = sink(n, original, retired, 0, h.ir - 1,
                                      h.index[h.ir]),
                       !.ir = @ - 1]

heap_glob(n, original) ==
    LET round[h \in Heaping(n)] ==
            IF h.l = 1 /\ h.ir = 1 THEN last_swap(h)
            ELSE round[next_round(n, original, h)]
        identity == [i \in Index(n) |-> i]
    IN  IF n < 2 THEN identity
        ELSE round[[index |-> identity, l |-> (n \div 2) + 1, ir |-> n - 1]]

(* ref_sort_in_place_glob *)
in_place_glob(n, sorts) ==
    LET order == heap_glob(n, sorts)
    IN  IF n < 2 THEN sorts ELSE [i \in Index(n) |-> sorts[order[i]]]

(***************************************************************************)
(* ref_sort_unique_int (n >= 1): sort, then pack the distinct entries to   *)
(* the front of the same array while reading it.                           *)
(***************************************************************************)
unique_int(n, original) ==
    LET pack[i \in 0..(n - 1)] ==
            IF i = 0 THEN [j |-> 0, unique |-> insertion_int(n, original)]
            ELSE LET p == pack[i - 1]
                     j == IF p.unique[p.j] # p.unique[i] THEN p.j + 1 ELSE p.j
                 IN  [j |-> j, unique |-> [p.unique EXCEPT ![j] = p.unique[i]]]
    IN  [nunique |-> pack[n - 1].j + 1, unique |-> pack[n - 1].unique]

(* ref_sort_same: the lists hold the same distinct entries. *)
same(n, list0, list1) ==
    LET u0 == unique_int(n, list0)
        u1 == unique_int(n, list1)
    IN  /\ u0.nunique = u1.nunique
        /\ \A i \in 0..(u0.nunique - 1) : u0.unique[i] = u1.unique[i]

(***************************************************************************)
(* ref_sort_search_int, ref_sort_search_glob: the position of target in an *)
(* ascending list, or ABSENT (with REF_NOT_FOUND).  mid starts at n >> 1,  *)
(* not between lower and upper.                                            *)
(***************************************************************************)
window(lower, upper) ==
    [lower |-> lower, upper |-> upper, mid |-> (lower + upper) \div 2]

search_glob(n, list, target) ==
    LET bisect[w \in [lower: Index(n), upper: Index(n), mid: Index(n)]] ==
            IF ~ (w.lower < w.mid /\ w.mid < w.upper) THEN ABSENT
            ELSE IF target = list[w.mid] THEN w.mid
            ELSE IF target > list[w.mid] THEN bisect[window(w.mid, w.upper)]
                                         ELSE bisect[window(w.lower, w.mid)]
    IN  IF n < 1 THEN ABSENT
        ELSE IF target < list[0] \/ target > list[n - 1] THEN ABSENT
        ELSE IF target = list[0] THEN 0
        ELSE IF target = list[n - 1] THEN n - 1
        ELSE bisect[[lower |-> 0, upper |-> n - 1, mid |-> n \div 2]]

(***************************************************************************)
(* ref_sort_search_dbl: the interval of an ascending table that holds      *)
(* target, the first or the last one when target is off the table; ABSENT  *)
(* when n < 1 (REF_NOT_FOUND) or when the bisection closes (REF_FAILURE).  *)
(***************************************************************************)
brackets(list, i, target) == list[i] <= target /\ target < list[i + 1]

search_dbl(n, list, target) ==
    LET bisect[w \in [lower: Index(n), upper: Index(n), mid: Index(n)]] ==
            IF ~ (w.lower < w.upper) THEN ABSENT
            ELSE IF brackets(list, w.lower, target) THEN w.lower
            ELSE IF brackets(list, w.upper, target) THEN w.upper
            ELSE IF brackets(list, w.mid, target) THEN w.mid
            ELSE IF target >= list[w.mid] THEN bisect[window(w.mid, w.upper)]
                                          ELSE bisect[window(w.lower, w.mid)]
    IN  IF n < 1 THEN ABSENT
        ELSE IF n = 1 THEN 0
        ELSE IF target <= list[0] THEN 0
        ELSE IF target >= list[n - 1] THEN n - 2
        ELSE IF brackets(list, (n - 2) \div 2, target) THEN (n - 2) \div 2
        ELSE bisect[window(0, n - 2)]
=============================================================================
