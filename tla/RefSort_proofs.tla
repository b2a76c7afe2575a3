--------------------------- MODULE RefSort_proofs ---------------------------
(***************************************************************************)
(* What the heap sort and the bisection of ref_sort.c return, for arrays   *)
(* of any length and entries: the sorted order is a permutation that lists *)
(* the entries in ascending order, and the search finds a target exactly   *)
(* when the list has it.                                                   *)
(***************************************************************************)
EXTENDS RefSort, RefLemmas

Ascending(n, list) == \A i, j \in Index(n) : i < j => list[i] <= list[j]

-----------------------------------------------------------------------------
(* The bisection of ref_sort_search_glob as a loop. *)
Windows(n) == [lower: Index(n), upper: Index(n), mid: Index(n)]

closed(n, list, target) ==
    {w \in Windows(n) : ~ (w.lower < w.mid /\ w.mid < w.upper) \/ target = list[w.mid]}

halved(n, list, target) ==
    [w \in Windows(n) |-> IF target > list[w.mid] THEN window(w.mid, w.upper)
                                                  ELSE window(w.lower, w.mid)]

found(n) ==
    [w \in Windows(n) |-> IF ~ (w.lower < w.mid /\ w.mid < w.upper) THEN ABSENT
                          ELSE w.mid]

bisects(n, list, target, bisect) ==
    bisect = [w \in Windows(n) |->
                IF ~ (w.lower < w.mid /\ w.mid < w.upper) THEN ABSENT
                ELSE IF target = list[w.mid] THEN w.mid
                ELSE IF target > list[w.mid] THEN bisect[window(w.mid, w.upper)]
                                             ELSE bisect[window(w.lower, w.mid)]]

(* The measure: the width of the window. *)
width(n) == [w \in Windows(n) |-> IF w.lower < w.upper THEN w.upper - w.lower ELSE 0]

(* The middle of a window is inside it. *)
LEMMA WindowFits ==
    ASSUME NEW n \in Nat, NEW lower \in Index(n), NEW upper \in Index(n), lower <= upper
    PROVE  /\ window(lower, upper) \in Windows(n)
           /\ window(lower, upper).lower = lower /\ window(lower, upper).upper = upper
           /\ lower <= window(lower, upper).mid /\ window(lower, upper).mid <= upper
           /\ lower + 1 < upper => /\ lower < window(lower, upper).mid
                                   /\ window(lower, upper).mid < upper
<1> DEFINE mid == (lower + upper) \div 2
<1>1. mid \in Int /\ lower <= mid /\ mid <= upper
      /\ (lower + 1 < upper => lower < mid /\ mid < upper)
  BY DEF Index
<1> HIDE DEF mid
<1>2. mid \in Index(n)
  BY <1>1 DEF Index
<1> QED
  BY <1>1, <1>2 DEF window, Windows, mid

(* The bisection is a loop that ends. *)
LEMMA BisectLoop ==
    ASSUME NEW n \in Nat, NEW list \in [Index(n) -> Int], NEW target \in Int
    PROVE  Loop(Windows(n), Index(n) \cup {ABSENT}, width(n),
                closed(n, list, target), halved(n, list, target), found(n))
<1> DEFINE D == Windows(n)
           step == halved(n, list, target)
<1>1. width(n) \in [D -> Nat]
  <2>1. \A w \in D : (IF w.lower < w.upper THEN w.upper - w.lower ELSE 0) \in Nat
    BY DEF Windows, Index
  <2> QED
    BY <2>1 DEF width
<1>2. \A w \in D : found(n)[w] \in Index(n) \cup {ABSENT}
  BY DEF found, Windows
<1>3. ASSUME NEW w \in D, w \notin closed(n, list, target)
      PROVE  step[w] \in D /\ width(n)[step[w]] < width(n)[w]
  <2>1. /\ w.lower \in Index(n) /\ w.upper \in Index(n) /\ w.mid \in Index(n)
        /\ w.lower < w.mid /\ w.mid < w.upper
    BY <1>3 DEF closed, Windows
  <2>2. width(n)[w] = w.upper - w.lower
    BY <2>1 DEF width, Index
  <2>3. CASE target > list[w.mid]
    <3>1. step[w] = window(w.mid, w.upper)
      BY <2>3 DEF halved
    <3>2. step[w] \in D /\ step[w].lower = w.mid /\ step[w].upper = w.upper
      BY <2>1, <3>1, WindowFits DEF Index
    <3>3. width(n)[step[w]] = w.upper - w.mid
      BY <2>1, <3>2 DEF width, Index
    <3> QED
      BY <2>1, <2>2, <3>2, <3>3 DEF Index
  <2>4. CASE ~ (target > list[w.mid])
    <3>1. step[w] = window(w.lower, w.mid)
      BY <2>4 DEF halved
    <3>2. step[w] \in D /\ step[w].lower = w.lower /\ step[w].upper = w.mid
      BY <2>1, <3>1, WindowFits DEF Index
    <3>3. width(n)[step[w]] = w.mid - w.lower
      BY <2>1, <3>2 DEF width, Index
    <3> QED
      BY <2>1, <2>2, <3>2, <3>3 DEF Index
  <2> QED
    BY <2>3, <2>4
<1> QED
  BY <1>1, <1>2, <1>3 DEF Loop

(* Where the loop may be: the target can only be between the ends, and     *)
(* only a window without a place between its ends has mid at an end.       *)
between(n, list, target) ==
    {w \in Windows(n) :
        /\ w.lower < w.upper /\ list[w.lower] < target /\ target < list[w.upper]
        /\ ~ (w.lower < w.mid /\ w.mid < w.upper) => w.upper <= w.lower + 1}

(* From any such window the bisection answers correctly. *)
LEMMA BisectFinds ==
    ASSUME NEW n \in Nat, NEW list \in [Index(n) -> Int], Ascending(n, list),
           NEW target \in Int, NEW bisect, bisects(n, list, target, bisect),
           NEW w0 \in between(n, list, target)
    PROVE  \/ bisect[w0] \in Index(n) /\ list[bisect[w0]] = target
           \/ bisect[w0] = ABSENT /\ \A i \in Index(n) : list[i] # target
<1> DEFINE D == Windows(n)
           done == closed(n, list, target)
           step == halved(n, list, target)
           Good == between(n, list, target)
<1>1. Runs(D, done, step, found(n), bisect)
  <2> SUFFICES ASSUME NEW w \in D
               PROVE  bisect[w] = IF w \in done THEN found(n)[w] ELSE bisect[step[w]]
    BY DEF Runs
  <2>1. bisect[w] = IF ~ (w.lower < w.mid /\ w.mid < w.upper) THEN ABSENT
                    ELSE IF target = list[w.mid] THEN w.mid
                    ELSE IF target > list[w.mid] THEN bisect[window(w.mid, w.upper)]
                                                 ELSE bisect[window(w.lower, w.mid)]
    BY DEF bisects
  <2>2. step[w] = IF target > list[w.mid] THEN window(w.mid, w.upper)
                                          ELSE window(w.lower, w.mid)
    BY DEF halved
  <2>3. found(n)[w] = IF ~ (w.lower < w.mid /\ w.mid < w.upper) THEN ABSENT ELSE w.mid
    BY DEF found
  <2>4. w \in done <=> (~ (w.lower < w.mid /\ w.mid < w.upper) \/ target = list[w.mid])
    BY DEF closed
  <2> HIDE DEF done, step
  <2> QED
    BY <2>1, <2>2, <2>3, <2>4
<1>2. ASSUME NEW w \in Good, w \notin done PROVE step[w] \in Good
  <2>1. /\ w \in D /\ w.lower \in Index(n) /\ w.upper \in Index(n) /\ w.mid \in Index(n)
        /\ w.lower < w.mid /\ w.mid < w.upper /\ target # list[w.mid]
        /\ list[w.lower] < target /\ target < list[w.upper]
    BY <1>2 DEF closed, between, Windows
  <2>2. list[w.mid] \in Int
    BY <2>1
  <2>3. CASE target > list[w.mid]
    <3> DEFINE v == window(w.mid, w.upper)
    <3>1. step[w] = v
      BY <2>1, <2>3 DEF halved
    <3>2. /\ v \in D /\ v.lower = w.mid /\ v.upper = w.upper
          /\ w.mid + 1 < w.upper => w.mid < v.mid /\ v.mid < w.upper
      BY <2>1, WindowFits DEF Index
    <3> HIDE DEF v
    <3>3. ~ (v.lower < v.mid /\ v.mid < v.upper) => v.upper <= v.lower + 1
      BY <2>1, <3>2 DEF Index
    <3> QED
      BY <2>1, <2>2, <2>3, <3>1, <3>2, <3>3 DEF between
  <2>4. CASE ~ (target > list[w.mid])
    <3> DEFINE v == window(w.lower, w.mid)
    <3>1. step[w] = v
      BY <2>1, <2>4 DEF halved
    <3>2. /\ v \in D /\ v.lower = w.lower /\ v.upper = w.mid
          /\ w.lower + 1 < w.mid => w.lower < v.mid /\ v.mid < w.mid
      BY SMTT(60), <2>1, WindowFits DEF Index
    <3> HIDE DEF v
    <3>3. ~ (v.lower < v.mid /\ v.mid < v.upper) => v.upper <= v.lower + 1
      BY <2>1, <3>2 DEF Index
    <3>4. target < list[w.mid]
      BY <2>1, <2>2, <2>4
    <3> QED
      BY <2>1, <3>1, <3>2, <3>3, <3>4 DEF between
  <2> QED
    BY <2>3, <2>4
<1>3. Good \in SUBSET D
  BY DEF between
<1>4. PICK w \in Good : w \in done /\ bisect[w0] = found(n)[w]
  <2>1. Loop(D, Index(n) \cup {ABSENT}, width(n), done, step, found(n))
    BY BisectLoop
  <2> HIDE DEF D, done, step, Good
  <2>2. \A x \in Good : \E y \in Good : y \in done /\ bisect[x] = found(n)[y]
    BY <1>1, <1>2, <1>3, <2>1, LoopInvariant
  <2> QED
    BY <2>2 DEF Good
<1>5. /\ w \in D /\ w.lower \in Index(n) /\ w.upper \in Index(n) /\ w.mid \in Index(n)
      /\ w.lower < w.upper /\ list[w.lower] < target /\ target < list[w.upper]
      /\ ~ (w.lower < w.mid /\ w.mid < w.upper) => w.upper <= w.lower + 1
  BY DEF between, Windows
<1>6. CASE w.lower < w.mid /\ w.mid < w.upper
  <2>1. target = list[w.mid]
    BY <1>4, <1>6 DEF closed
  <2>2. bisect[w0] = w.mid
    BY <1>4, <1>5, <1>6 DEF found
  <2> QED
    BY <1>5, <2>1, <2>2
<1>7. CASE ~ (w.lower < w.mid /\ w.mid < w.upper)
  <2>1. bisect[w0] = ABSENT
    BY <1>4, <1>5, <1>7 DEF found
  <2>2. ASSUME NEW i \in Index(n) PROVE list[i] # target
    <3>1. i <= w.lower \/ i >= w.upper
      BY <1>5, <1>7 DEF Index
    <3>2. list[i] \in Int /\ list[w.lower] \in Int /\ list[w.upper] \in Int
      BY <1>5
    <3>3. CASE i <= w.lower
      <4>1. list[i] <= list[w.lower]
        BY <1>5, <3>2, <3>3 DEF Ascending, Index
      <4> QED
        BY <1>5, <3>2, <4>1
    <3>4. CASE i >= w.upper
      <4>1. list[w.upper] <= list[i]
        BY <1>5, <3>2, <3>4 DEF Ascending, Index
      <4> QED
        BY <1>5, <3>2, <4>1
    <3> QED
      BY <3>1, <3>3, <3>4
  <2> QED
    BY <2>1, <2>2
<1> QED
  BY <1>6, <1>7

(***************************************************************************)
(* ref_sort_search_glob finds a target in an ascending list exactly when   *)
(* the list has it, for lists of any length: ref_node_local takes a miss   *)
(* for a vertex this rank does not have, and its caller adds it again.     *)
(***************************************************************************)
THEOREM SearchIsExact ==
    ASSUME NEW n \in Nat, NEW list \in [Index(n) -> Int], Ascending(n, list),
           NEW target \in Int
    PROVE  \/ /\ search_glob(n, list, target) \in Index(n)
              /\ list[search_glob(n, list, target)] = target
           \/ /\ search_glob(n, list, target) = ABSENT
              /\ \A i \in Index(n) : list[i] # target
<1> DEFINE bisect == CHOOSE f : bisects(n, list, target, f)
           w0 == [lower |-> 0, upper |-> n - 1, mid |-> n \div 2]
<1>1. search_glob(n, list, target) =
         IF n < 1 THEN ABSENT
         ELSE IF target < list[0] \/ target > list[n - 1] THEN ABSENT
         ELSE IF target = list[0] THEN 0
         ELSE IF target = list[n - 1] THEN n - 1
         ELSE bisect[w0]
  BY DEF search_glob, bisects, Windows
<1>2. bisects(n, list, target, bisect)
  <2> DEFINE D == Windows(n)
             done == closed(n, list, target)
             step == halved(n, list, target)
  <2>1. PICK h \in [D -> Index(n) \cup {ABSENT}] : Runs(D, done, step, found(n), h)
    <3>1. Loop(D, Index(n) \cup {ABSENT}, width(n), done, step, found(n))
      BY BisectLoop
    <3> HIDE DEF D, done, step
    <3> QED
      BY <3>1, LoopExists
  <2>2. ASSUME NEW w \in D
        PROVE  h[w] = IF ~ (w.lower < w.mid /\ w.mid < w.upper) THEN ABSENT
                      ELSE IF target = list[w.mid] THEN w.mid
                      ELSE IF target > list[w.mid] THEN h[window(w.mid, w.upper)]
                                                   ELSE h[window(w.lower, w.mid)]
    <3>1. h[w] = IF w \in done THEN found(n)[w] ELSE h[step[w]]
      BY <2>1 DEF Runs
    <3>2. step[w] = IF target > list[w.mid] THEN window(w.mid, w.upper)
                                            ELSE window(w.lower, w.mid)
      BY DEF halved
    <3>3. found(n)[w] = IF ~ (w.lower < w.mid /\ w.mid < w.upper) THEN ABSENT ELSE w.mid
      BY DEF found
    <3>4. w \in done <=> (~ (w.lower < w.mid /\ w.mid < w.upper) \/ target = list[w.mid])
      BY DEF closed
    <3> HIDE DEF done, step
    <3> QED
      BY <3>1, <3>2, <3>3, <3>4
  <2>3. bisects(n, list, target, h)
    BY <2>1, <2>2 DEF bisects
  <2> QED
    BY <2>3
<1> HIDE DEF bisect
<1>3. CASE n < 1
  BY <1>1, <1>3 DEF Index
<1>4. CASE ~ (n < 1)
  <2>1. 0 \in Index(n) /\ n - 1 \in Index(n)
    BY <1>4 DEF Index
  <2>2. \A i \in Index(n) : list[0] <= list[i] /\ list[i] <= list[n - 1]
    <3> TAKE i \in Index(n)
    <3>1. list[0] \in Int /\ list[i] \in Int /\ list[n - 1] \in Int
      BY <2>1
    <3>2. i = 0 \/ list[0] <= list[i]
      BY <2>1 DEF Ascending, Index
    <3>3. i = n - 1 \/ list[i] <= list[n - 1]
      BY <2>1 DEF Ascending, Index
    <3> QED
      BY <3>1, <3>2, <3>3
  <2>3. list[0] \in Int /\ list[n - 1] \in Int /\ \A i \in Index(n) : list[i] \in Int
    BY <2>1
  <2>4. CASE target < list[0] \/ target > list[n - 1]
    <3>1. \A i \in Index(n) : list[i] # target
      BY <2>2, <2>3, <2>4
    <3> QED
      BY <1>1, <1>4, <2>4, <3>1
  <2>5. CASE target = list[0]
    BY <1>1, <1>4, <2>1, <2>2, <2>3, <2>5
  <2>6. CASE target = list[n - 1]
    BY <1>1, <1>4, <2>1, <2>2, <2>3, <2>5, <2>6
  <2>7. CASE list[0] < target /\ target < list[n - 1]
    <3>1. search_glob(n, list, target) = bisect[w0]
      BY <1>1, <1>4, <2>3, <2>7
    <3>2. w0 \in between(n, list, target)
      <4>1. n # 1
        BY <2>3, <2>7
      <4>2. n \div 2 \in Index(n) /\ n \in Nat /\ n >= 2
            /\ ((0 < n \div 2 /\ n \div 2 < n - 1) \/ n = 2)
        BY <1>4, <4>1 DEF Index
      <4>3. w0 \in Windows(n) /\ w0.lower = 0 /\ w0.upper = n - 1 /\ w0.mid = n \div 2
        BY <2>1, <4>2 DEF Windows
      <4> HIDE DEF w0
      <4> QED
        BY <2>7, <4>2, <4>3 DEF between
    <3> QED
      BY <1>2, <3>1, <3>2, BisectFinds
  <2> QED
    BY <2>3, <2>4, <2>5, <2>6, <2>7
<1> QED
  BY <1>3, <1>4

-----------------------------------------------------------------------------
(* The heap sort.  An order of the entries is a permutation of 0..n-1. *)
Order(n, F) ==
    /\ F \in [Index(n) -> Index(n)]
    /\ \A a, b \in Index(n) : F[a] = F[b] => a = b
    /\ \A v \in Index(n) : \E k \in Index(n) : F[k] = v

swap(F, i, j) == [F EXCEPT ![i] = F[j], ![j] = F[i]]

(* No entry of the heap lo..ir is above its parent ... *)
HeapFrom(original, F, lo, ir) ==
    \A p \in lo..ir : \A c \in {2 * p + 1, 2 * p + 2} :
       c <= ir => original[F[c]] <= original[F[p]]

(* ... but perhaps the children of i, which are not above its parent. *)
HeapBut(original, F, lo, ir, i) ==
    /\ \A p \in lo..ir : \A c \in {2 * p + 1, 2 * p + 2} :
          c <= ir /\ p # i => original[F[c]] <= original[F[p]]
    /\ \A p \in lo..ir : i \in {2 * p + 1, 2 * p + 2} =>
          \A c \in {2 * i + 1, 2 * i + 2} :
             c <= ir => original[F[c]] <= original[F[p]]

(* The entries 0..ir are the same ones, in another order; the others stay. *)
Reordered(n, F0, F, ir) ==
    \A k \in Index(n) :
       /\ k > ir => F[k] = F0[k]
       /\ k <= ir => \E k2 \in Index(n) : k2 <= ir /\ F[k] = F0[k2]

(* Exchanging two entries leaves an order. *)
LEMMA SwapOrder ==
    ASSUME NEW n \in Nat, NEW F, Order(n, F), NEW i \in Index(n), NEW j \in Index(n)
    PROVE  /\ Order(n, swap(F, i, j))
           /\ swap(F, i, j)[i] = F[j] /\ swap(F, i, j)[j] = F[i]
           /\ \A k \in Index(n) : k # i /\ k # j => swap(F, i, j)[k] = F[k]
<1> DEFINE G == swap(F, i, j)
<1>1. F \in [Index(n) -> Index(n)]
  BY DEF Order
<1>2. /\ G \in [Index(n) -> Index(n)] /\ G[i] = F[j] /\ G[j] = F[i]
      /\ \A k \in Index(n) : k # i /\ k # j => G[k] = F[k]
  BY <1>1 DEF swap
<1> HIDE DEF G
<1>3. \A a, b \in Index(n) : G[a] = G[b] => a = b
  <2> TAKE a, b \in Index(n)
  <2> HAVE G[a] = G[b]
  <2> DEFINE to(k) == IF k = i THEN j ELSE IF k = j THEN i ELSE k
  <2>1. G[a] = F[to(a)] /\ G[b] = F[to(b)] /\ to(a) \in Index(n) /\ to(b) \in Index(n)
    BY <1>2
  <2>2. to(a) = to(b)
    BY <2>1 DEF Order
  <2> QED
    BY <2>2
<1>4. \A v \in Index(n) : \E k \in Index(n) : G[k] = v
  <2> TAKE v \in Index(n)
  <2>1. PICK k \in Index(n) : F[k] = v
    BY DEF Order
  <2>2. G[IF k = i THEN j ELSE IF k = j THEN i ELSE k] = v
    BY <1>2, <2>1
  <2> QED
    BY <2>2
<1> QED
  BY <1>2, <1>3, <1>4 DEF Order, G

(* The inner loop: s with its hole filled is the order so far. *)
filled(s, indxt) == [s.index EXCEPT ![s.i] = indxt]

child(original, ir, s) == larger_child(original, s.index, 2 * s.i + 1, ir)

rests(n, original, ir, indxt) ==
    {s \in Sinking(n) :
        ~ (2 * s.i + 1 <= ir /\ original[indxt] < original[s.index[child(original, ir, s)]])}

sinks(n, original, ir) ==
    [s \in Sinking(n) |->
        [index |-> [s.index EXCEPT ![s.i] = s.index[child(original, ir, s)]],
         i |-> child(original, ir, s)]]

settled(n, indxt) == [s \in Sinking(n) |-> filled(s, indxt)]

depth(n) == [s \in Sinking(n) |-> n - s.i]

falls(n, original, ir, indxt, fall) ==
    fall = [s \in Sinking(n) |->
               LET j == larger_child(original, s.index, 2 * s.i + 1, ir)
               IN  IF 2 * s.i + 1 <= ir /\ original[indxt] < original[s.index[j]]
                   THEN fall[[index |-> [s.index EXCEPT ![s.i] = s.index[j]], i |-> j]]
                   ELSE [s.index EXCEPT ![s.i] = indxt]]

(* The children of a parent in the heap are places of the array. *)
LEMMA ChildPlaces ==
    ASSUME NEW n \in Nat, NEW ir \in Index(n), NEW i \in Index(n), 2 * i + 1 <= ir
    PROVE  /\ 2 * i + 1 \in Index(n) /\ 2 * i + 1 \in Int /\ ir \in Int
           /\ 2 * i + 1 < ir => 2 * i + 1 + 1 \in Index(n)
           /\ i < 2 * i + 1 /\ 2 * i + 2 = 2 * i + 1 + 1
  BY DEF Index

(* A child inside the heap implies the first child is, and is not its      *)
(* parent.                                                                 *)
LEMMA ChildInside ==
    ASSUME NEW n \in Nat, NEW ir \in Index(n), NEW i \in Index(n),
           NEW c \in {2 * i + 1, 2 * i + 2}, c <= ir
    PROVE  2 * i + 1 <= ir /\ c \in Index(n) /\ c # i
  BY DEF Index

(* The larger child is a child in the heap, and no child is above it. *)
LEMMA ChildFits ==
    ASSUME NEW n \in Nat, NEW original \in [Index(n) -> Int], NEW ir \in Index(n),
           NEW s \in Sinking(n), 2 * s.i + 1 <= ir
    PROVE  LET j == child(original, ir, s)
           IN  /\ j \in {2 * s.i + 1, 2 * s.i + 2} /\ j \in Index(n) /\ j <= ir /\ s.i < j
               /\ \A c \in {2 * s.i + 1, 2 * s.i + 2} :
                     c <= ir => original[s.index[c]] <= original[s.index[j]]
<1> DEFINE k == 2 * s.i + 1
<1>1. s.i \in Index(n) /\ s.index \in [Index(n) -> Index(n)]
  BY DEF Sinking
<1>2. k \in Index(n) /\ (k < ir => k + 1 \in Index(n)) /\ s.i < k /\ 2 * s.i + 2 = k + 1
      /\ k \in Int /\ ir \in Int /\ k <= ir
  BY <1>1, ChildPlaces
<1>3. original[s.index[k]] \in Int /\ (k < ir => original[s.index[k + 1]] \in Int)
  BY <1>1, <1>2
<1>4. child(original, ir, s) =
        IF k < ir /\ original[s.index[k]] < original[s.index[k + 1]] THEN k + 1 ELSE k
  BY DEF child, larger_child
<1>5. s.i \in Int
  BY <1>1 DEF Index
<1> HIDE DEF k
<1> QED
  BY <1>2, <1>3, <1>4, <1>5 DEF k

(* Sifting an entry down is a loop that ends: i grows. *)
LEMMA FallLoop ==
    ASSUME NEW n \in Nat, NEW original \in [Index(n) -> Int], NEW ir \in Index(n),
           NEW indxt \in Index(n)
    PROVE  Loop(Sinking(n), [Index(n) -> Index(n)], depth(n),
                rests(n, original, ir, indxt), sinks(n, original, ir), settled(n, indxt))
<1> DEFINE D == Sinking(n)
           step == sinks(n, original, ir)
<1>1. depth(n) \in [D -> Nat]
  <2>1. \A s \in D : n - s.i \in Nat
    BY DEF Sinking, Index
  <2> QED
    BY <2>1 DEF depth
<1>2. \A s \in D : settled(n, indxt)[s] \in [Index(n) -> Index(n)]
  BY DEF settled, filled, Sinking
<1>3. ASSUME NEW s \in D, s \notin rests(n, original, ir, indxt)
      PROVE  step[s] \in D /\ depth(n)[step[s]] < depth(n)[s]
  <2> DEFINE j == child(original, ir, s)
  <2>1. 2 * s.i + 1 <= ir
    BY <1>3 DEF rests
  <2>2. j \in Index(n) /\ s.i < j
    BY <2>1, ChildFits
  <2>3. step[s] = [index |-> [s.index EXCEPT ![s.i] = s.index[j]], i |-> j]
    BY DEF sinks
  <2> HIDE DEF j, step
  <2>4. s.index \in [Index(n) -> Index(n)] /\ s.i \in Index(n)
    BY DEF Sinking
  <2>5. [s.index EXCEPT ![s.i] = s.index[j]] \in [Index(n) -> Index(n)]
    BY <2>2, <2>4
  <2>6. step[s] \in D /\ step[s].i = j
    BY <2>2, <2>3, <2>5 DEF Sinking
  <2>7. depth(n)[step[s]] = n - j /\ depth(n)[s] = n - s.i
    BY <2>6 DEF depth
  <2> QED
    BY <2>2, <2>4, <2>6, <2>7 DEF Index
<1>4. [Index(n) -> Index(n)] # {}
  <2>1. [k \in Index(n) |-> k] \in [Index(n) -> Index(n)]
    OBVIOUS
  <2> QED
    BY <2>1
<1> QED
  BY <1>1, <1>2, <1>3, <1>4 DEF Loop

(* What sink computes, is computed by the loop. *)
LEMMA SinkRuns ==
    ASSUME NEW n \in Nat, NEW original \in [Index(n) -> Int], NEW ir \in Index(n),
           NEW indxt \in Index(n)
    PROVE  \E fall :
              /\ Runs(Sinking(n), rests(n, original, ir, indxt), sinks(n, original, ir),
                      settled(n, indxt), fall)
              /\ \A index0, i0 : sink(n, original, index0, i0, ir, indxt)
                                  = fall[[index |-> index0, i |-> i0]]
<1> DEFINE D == Sinking(n)
           done == rests(n, original, ir, indxt)
           step == sinks(n, original, ir)
           out == settled(n, indxt)
           fall == CHOOSE f : falls(n, original, ir, indxt, f)
<1>1. \A f : \A s \in D :
         (LET j == larger_child(original, s.index, 2 * s.i + 1, ir)
          IN  IF 2 * s.i + 1 <= ir /\ original[indxt] < original[s.index[j]]
              THEN f[[index |-> [s.index EXCEPT ![s.i] = s.index[j]], i |-> j]]
              ELSE [s.index EXCEPT ![s.i] = indxt])
         = IF s \in done THEN out[s] ELSE f[step[s]]
  BY DEF rests, sinks, settled, filled, child
<1>2. PICK h \in [D -> [Index(n) -> Index(n)]] : Runs(D, done, step, out, h)
  <2>1. Loop(D, [Index(n) -> Index(n)], depth(n), done, step, out)
    BY FallLoop
  <2> HIDE DEF D, done, step, out
  <2> QED
    BY <2>1, LoopExists
<1>3. falls(n, original, ir, indxt, h)
  <2>1. \A s \in D : h[s] = IF s \in done THEN out[s] ELSE h[step[s]]
    BY <1>2 DEF Runs
  <2>2. h = [s \in D |-> h[s]]
    BY <1>2
  <2>3. h = [s \in D |-> LET j == larger_child(original, s.index, 2 * s.i + 1, ir)
                         IN  IF 2 * s.i + 1 <= ir /\ original[indxt] < original[s.index[j]]
                             THEN h[[index |-> [s.index EXCEPT ![s.i] = s.index[j]], i |-> j]]
                             ELSE [s.index EXCEPT ![s.i] = indxt]]
    <3> HIDE DEF done, step, out, D
    <3> QED
      BY <1>1, <2>1, <2>2
  <2> QED
    BY <2>3 DEF falls
<1>4. falls(n, original, ir, indxt, fall)
  BY <1>3
<1>5. \A index0, i0 : sink(n, original, index0, i0, ir, indxt)
                       = fall[[index |-> index0, i |-> i0]]
  BY DEF sink, falls
<1> HIDE DEF fall
<1>6. Runs(D, done, step, out, fall)
  <2>1. \A s \in D : fall[s] =
          LET j == larger_child(original, s.index, 2 * s.i + 1, ir)
          IN  IF 2 * s.i + 1 <= ir /\ original[indxt] < original[s.index[j]]
              THEN fall[[index |-> [s.index EXCEPT ![s.i] = s.index[j]], i |-> j]]
              ELSE [s.index EXCEPT ![s.i] = indxt]
    BY <1>4 DEF falls
  <2>2. \A s \in D : fall[s] = IF s \in done THEN out[s] ELSE fall[step[s]]
    <3> HIDE DEF done, step, out, D
    <3> QED
      BY <1>1, <2>1
  <2> QED
    BY <2>2 DEF Runs
<1> QED
  BY <1>5, <1>6

(* Where the inner loop may be. *)
sinking(n, original, F0, lo, ir, indxt) ==
    {s \in Sinking(n) :
        /\ lo <= s.i /\ s.i <= ir
        /\ Order(n, filled(s, indxt))
        /\ HeapBut(original, filled(s, indxt), lo, ir, s.i)
        /\ Reordered(n, F0, filled(s, indxt), ir)}

(* One round of the inner loop exchanges the hole with its larger child. *)
LEMMA SinkStep ==
    ASSUME NEW n \in Nat, NEW original \in [Index(n) -> Int], NEW ir \in Index(n),
           NEW indxt \in Index(n), NEW lo \in Index(n), NEW F0,
           NEW s \in sinking(n, original, F0, lo, ir, indxt),
           s \notin rests(n, original, ir, indxt)
    PROVE  sinks(n, original, ir)[s] \in sinking(n, original, F0, lo, ir, indxt)
<1> DEFINE i == s.i
           j == child(original, ir, s)
           F == filled(s, indxt)
           t == sinks(n, original, ir)[s]
           G == swap(F, i, j)
<1>1. /\ s \in Sinking(n) /\ i \in Index(n) /\ s.index \in [Index(n) -> Index(n)]
      /\ lo <= i /\ i <= ir /\ Order(n, F) /\ HeapBut(original, F, lo, ir, i)
      /\ Reordered(n, F0, F, ir)
  BY DEF sinking, Sinking
<1>2. 2 * i + 1 <= ir /\ original[indxt] < original[s.index[j]]
  BY <1>1 DEF rests
<1>3. /\ j \in {2 * i + 1, 2 * i + 2} /\ j \in Index(n) /\ j <= ir /\ i < j
      /\ \A c \in {2 * i + 1, 2 * i + 2} :
            c <= ir => original[s.index[c]] <= original[s.index[j]]
  BY <1>1, <1>2, ChildFits
<1>4. t = [index |-> [s.index EXCEPT ![i] = s.index[j]], i |-> j]
  BY <1>1 DEF sinks
<1>5. /\ F \in [Index(n) -> Index(n)] /\ F[i] = indxt
      /\ \A k \in Index(n) : k # i => F[k] = s.index[k]
  BY <1>1 DEF filled
<1> HIDE DEF j
<1>6. t \in Sinking(n) /\ t.i = j /\ t.index = [s.index EXCEPT ![i] = s.index[j]]
  <2>1. [s.index EXCEPT ![i] = s.index[j]] \in [Index(n) -> Index(n)]
    BY <1>1, <1>3
  <2> QED
    BY <1>3, <1>4, <2>1 DEF Sinking
<1> HIDE DEF t
<1>a. i \in Index(n) /\ lo <= i /\ i <= ir
  BY <1>1
<1>b. j \in {2 * i + 1, 2 * i + 2} /\ j \in Index(n) /\ j <= ir /\ i < j
  BY <1>3
<1>c. Order(n, F) /\ s.index \in [Index(n) -> Index(n)]
  BY <1>1
<1>d. HeapBut(original, F, lo, ir, i)
  BY <1>1
<1>e. Reordered(n, F0, F, ir)
  BY <1>1
<1>7. i # j /\ i \in Int /\ j \in Int /\ ir \in Int /\ lo \in Nat /\ n \in Nat /\ ir < n
  <2> HIDE DEF i
  <2> QED
    BY <1>a, <1>b DEF Index
<1>8. filled(t, indxt) = G
  <2>1. filled(t, indxt) = [[s.index EXCEPT ![i] = s.index[j]] EXCEPT ![j] = indxt]
    BY <1>6 DEF filled
  <2>2. F[j] = s.index[j] /\ F[i] = indxt
    BY <1>3, <1>5, <1>7
  <2>3. G = [[[s.index EXCEPT ![i] = indxt] EXCEPT ![i] = s.index[j]] EXCEPT ![j] = indxt]
    BY <2>2 DEF swap, filled
  <2>4. [[s.index EXCEPT ![i] = indxt] EXCEPT ![i] = s.index[j]]
        = [s.index EXCEPT ![i] = s.index[j]]
    BY <1>1
  <2> QED
    BY <2>1, <2>3, <2>4
<1>9. /\ Order(n, G) /\ G[i] = F[j] /\ G[j] = F[i]
      /\ \A k \in Index(n) : k # i /\ k # j => G[k] = F[k]
  <2> HIDE DEF F, i
  <2> QED
    BY <1>a, <1>b, <1>c, SwapOrder
<1>10. /\ original[F[i]] < original[F[j]]
       /\ \A c \in {2 * i + 1, 2 * i + 2} : c <= ir => original[F[c]] <= original[F[j]]
  <2>1. F[j] = s.index[j]
    BY <1>3, <1>5, <1>7
  <2>2. ASSUME NEW c \in {2 * i + 1, 2 * i + 2}, c <= ir
        PROVE  original[F[c]] <= original[F[j]]
    <3>1. c \in Index(n) /\ c # i
      <4> HIDE DEF i
      <4> QED
        BY <1>a, <1>7, <2>2 DEF Index
    <3> QED
      BY <1>3, <1>5, <2>1, <2>2, <3>1
  <2> QED
    BY <1>2, <1>5, <2>1, <2>2
<1>11. \A k \in Index(n) : original[F[k]] \in Int
  BY <1>5
<1> HIDE DEF F, G, i
<1>12. HeapBut(original, G, lo, ir, j)
  <2>1. ASSUME NEW p \in lo..ir, NEW c \in {2 * p + 1, 2 * p + 2}, c <= ir, p # j
        PROVE  original[G[c]] <= original[G[p]]
    <3>1. p \in Index(n) /\ c \in Index(n) /\ p # c
      BY <1>7, <2>1 DEF Index
    <3>2. CASE p = i
      <4>1. G[p] = F[j] /\ (c = j => G[c] = F[i]) /\ (c # j => G[c] = F[c])
        BY <1>9, <3>1, <3>2
      <4>2. original[F[c]] <= original[F[j]]
        BY <1>10, <2>1, <3>2
      <4>3. original[F[i]] <= original[F[j]]
        BY <1>a, <1>b, <1>10, <1>11
      <4> QED
        BY <4>1, <4>2, <4>3
    <3>3. CASE p # i /\ c = i
      <4>1. G[p] = F[p] /\ G[c] = F[j]
        BY <1>9, <2>1, <3>1, <3>3
      <4>2. original[F[j]] <= original[F[p]]
        BY <1>d, <1>b, <2>1, <3>3 DEF HeapBut
      <4> QED
        BY <4>1, <4>2
    <3>4. CASE p # i /\ c # i
      <4>1. c # j
        BY <1>b, <1>7, <2>1, <3>4
      <4>2. G[p] = F[p] /\ G[c] = F[c]
        BY <1>9, <2>1, <3>1, <3>4, <4>1
      <4>3. original[F[c]] <= original[F[p]]
        BY <1>d, <2>1, <3>4 DEF HeapBut
      <4> QED
        BY <4>2, <4>3
    <3> QED
      BY <3>2, <3>3, <3>4
  <2>2. ASSUME NEW p \in lo..ir, j \in {2 * p + 1, 2 * p + 2},
               NEW c \in {2 * j + 1, 2 * j + 2}, c <= ir
        PROVE  original[G[c]] <= original[G[p]]
    <3>1. p = i
      BY <1>b, <1>7, <2>2
    <3>2. c \in Index(n) /\ c # i /\ c # j /\ j \in lo..ir
      BY <1>a, <1>b, <1>7, <2>2 DEF Index
    <3>3. G[c] = F[c] /\ G[p] = F[j]
      BY <1>9, <3>1, <3>2
    <3>4. original[F[c]] <= original[F[j]]
      BY <1>d, <1>7, <2>2, <3>2 DEF HeapBut
    <3> QED
      BY <3>3, <3>4
  <2> QED
    BY <2>1, <2>2 DEF HeapBut
<1>13. Reordered(n, F0, G, ir)
  <2> SUFFICES ASSUME NEW k \in Index(n)
               PROVE  /\ k > ir => G[k] = F0[k]
                      /\ k <= ir => \E k2 \in Index(n) : k2 <= ir /\ G[k] = F0[k2]
    BY DEF Reordered
  <2>1. /\ \A m \in Index(n) : m > ir => F[m] = F0[m]
        /\ \A m \in Index(n) : m <= ir => \E k2 \in Index(n) : k2 <= ir /\ F[m] = F0[k2]
    BY <1>e DEF Reordered
  <2>2. k > ir => k # i /\ k # j
    BY <1>a, <1>b, <1>7 DEF Index
  <2>3. \E m \in Index(n) : (k <= ir => m <= ir) /\ G[k] = F[m]
    BY <1>a, <1>b, <1>9
  <2> QED
    BY <1>9, <2>1, <2>2, <2>3
<1>14. lo <= j
  BY <1>a, <1>b, <1>7
<1> QED
  BY <1>b, <1>6, <1>8, <1>9, <1>12, <1>13, <1>14 DEF sinking, t

(***************************************************************************)
(* The inner loop makes a heap of lo..ir when lo + 1..ir is one.           *)
(***************************************************************************)
LEMMA SinkHeaps ==
    ASSUME NEW n \in Nat, NEW original \in [Index(n) -> Int], NEW ir \in Index(n),
           NEW indxt \in Index(n), NEW lo \in Index(n), lo <= ir,
           NEW index0 \in [Index(n) -> Index(n)],
           NEW F0, F0 = [index0 EXCEPT ![lo] = indxt], Order(n, F0),
           HeapFrom(original, F0, lo + 1, ir)
    PROVE  LET F == sink(n, original, index0, lo, ir, indxt)
           IN  /\ Order(n, F) /\ HeapFrom(original, F, lo, ir)
               /\ Reordered(n, F0, F, ir)
<1> DEFINE s0 == [index |-> index0, i |-> lo]
           D == Sinking(n)
           done == rests(n, original, ir, indxt)
           step == sinks(n, original, ir)
           out == settled(n, indxt)
           Good == sinking(n, original, F0, lo, ir, indxt)
<1>1. PICK fall : /\ Runs(D, done, step, out, fall)
                  /\ sink(n, original, index0, lo, ir, indxt) = fall[s0]
  <2>1. PICK fall :
           /\ Runs(D, done, step, out, fall)
           /\ \A index1, i1 : sink(n, original, index1, i1, ir, indxt)
                               = fall[[index |-> index1, i |-> i1]]
    BY SinkRuns
  <2>2. sink(n, original, index0, lo, ir, indxt) = fall[s0]
    BY <2>1
  <2> HIDE DEF D, done, step, out, s0
  <2> QED
    BY <2>1, <2>2
<1>2. s0 \in Good
  <2>1. s0 \in D /\ s0.i = lo /\ filled(s0, indxt) = F0
    BY DEF Sinking, filled
  <2>2. HeapBut(original, F0, lo, ir, lo)
    <3>1. lo \in Nat /\ ir \in Nat
      BY DEF Index
    <3>2. \A p \in lo..ir : p # lo => p \in (lo + 1)..ir
      BY <3>1
    <3>3. \A p \in lo..ir : lo \notin {2 * p + 1, 2 * p + 2}
      BY <3>1
    <3> QED
      BY <3>2, <3>3 DEF HeapBut, HeapFrom
  <2>3. Reordered(n, F0, F0, ir)
    BY DEF Reordered
  <2>4. lo <= lo
    BY DEF Index
  <2> HIDE DEF s0
  <2> QED
    BY <2>1, <2>2, <2>3, <2>4 DEF sinking
<1>3. PICK s \in Good : s \in done /\ fall[s0] = out[s]
  <2>1. Loop(D, [Index(n) -> Index(n)], depth(n), done, step, out)
    BY FallLoop
  <2>2. Good \in SUBSET D
    BY DEF sinking
  <2>3. \A x \in Good : x \notin done => step[x] \in Good
    BY SinkStep
  <2> HIDE DEF D, done, step, out, Good, s0
  <2>4. \A x \in Good : \E y \in Good : y \in done /\ fall[x] = out[y]
    BY <1>1, <2>1, <2>2, <2>3, LoopInvariant
  <2> QED
    BY <1>2, <2>4
<1> DEFINE i == s.i
           F == filled(s, indxt)
           j == child(original, ir, s)
<1>4. /\ s \in D /\ i \in Index(n) /\ s.index \in [Index(n) -> Index(n)]
      /\ lo <= i /\ i <= ir /\ Order(n, F)
      /\ HeapBut(original, F, lo, ir, i) /\ Reordered(n, F0, F, ir)
  BY DEF sinking, Sinking
<1>5. sink(n, original, index0, lo, ir, indxt) = F
  BY <1>1, <1>3, <1>4 DEF settled
<1>6. ~ (2 * i + 1 <= ir /\ original[indxt] < original[s.index[j]])
  BY <1>3 DEF rests
<1>7. /\ F \in [Index(n) -> Index(n)] /\ F[i] = indxt
      /\ \A k \in Index(n) : k # i => F[k] = s.index[k]
  BY <1>4 DEF filled
<1>8. HeapFrom(original, F, lo, ir)
  <2> SUFFICES ASSUME NEW p \in lo..ir, NEW c \in {2 * p + 1, 2 * p + 2}, c <= ir
               PROVE  original[F[c]] <= original[F[p]]
    BY DEF HeapFrom
  <2>1. CASE p # i
    BY <1>4, <2>1 DEF HeapBut
  <2>2. CASE p = i
    <3>1. 2 * i + 1 <= ir /\ c \in Index(n) /\ c # i
      <4>1. i \in Index(n)
        BY <1>4
      <4> HIDE DEF i
      <4> QED
        BY <2>2, <4>1, ChildInside
    <3>2. j \in Index(n) /\ original[s.index[c]] <= original[s.index[j]]
      BY <1>4, <2>2, <3>1, ChildFits
    <3>3. original[s.index[j]] \in Int /\ original[s.index[c]] \in Int /\ original[indxt] \in Int
      BY <1>4, <3>1, <3>2
    <3>4. original[s.index[c]] <= original[indxt]
      BY <1>6, <3>1, <3>2, <3>3
    <3> QED
      BY <1>7, <2>2, <3>1, <3>4
  <2> QED
    BY <2>1, <2>2
<1> HIDE DEF F
<1> QED
  BY <1>4, <1>5, <1>8

-----------------------------------------------------------------------------
(* No entry of a heap is above its top. *)
LEMMA TopIsLargest ==
    ASSUME NEW n \in Nat, NEW original \in [Index(n) -> Int], NEW ir \in Index(n),
           NEW F \in [Index(n) -> Index(n)], HeapFrom(original, F, 0, ir)
    PROVE  \A k \in 0..ir : original[F[k]] <= original[F[0]]
<1>1. ir \in Nat /\ 0..ir \subseteq Index(n)
  BY DEF Index
<1>2. \A k \in 0..ir : original[F[k]] \in Int
  BY <1>1
<1> DEFINE T == {k \in 0..ir : ~ (original[F[k]] <= original[F[0]])}
<1> SUFFICES ASSUME T # {} PROVE FALSE
  OBVIOUS
<1>3. PICK k \in T : \A m \in T : k <= m
  <2>1. T \in SUBSET Nat
    BY <1>1
  <2> HIDE DEF T
  <2> QED
    BY <2>1, LeastNatural
<1>4. k \in 0..ir /\ ~ (original[F[k]] <= original[F[0]])
  BY <1>3
<1>5. 0 \in 0..ir
  BY <1>1
<1>6. k # 0
  BY <1>2, <1>4, <1>5
<1>7. PICK p \in 0..ir : p < k /\ k \in {2 * p + 1, 2 * p + 2}
  <2> DEFINE q == (k - 1) \div 2
  <2>1. q \in 0..ir /\ q < k /\ (k = 2 * q + 1 \/ k = 2 * q + 2)
    BY <1>1, <1>4, <1>6
  <2> HIDE DEF q
  <2> QED
    BY <2>1
<1>8. original[F[k]] <= original[F[p]]
  BY <1>1, <1>4, <1>7 DEF HeapFrom
<1>9. p \notin T
  BY <1>1, <1>3, <1>7
<1>10. original[F[p]] <= original[F[0]]
  BY <1>7, <1>9
<1> QED
  BY <1>2, <1>4, <1>5, <1>7, <1>8, <1>10

(* The rounds of ref_sort_heap_glob as a loop. *)
lastRound(n) == {h \in Heaping(n) : h.l = 1 /\ h.ir = 1}

rounds(n, original) == [h \in Heaping(n) |-> next_round(n, original, h)]

swaps(n) == [h \in Heaping(n) |-> last_swap(h)]

left(n) == [h \in Heaping(n) |-> h.l + h.ir]

(***************************************************************************)
(* Where that loop may be: l - 1..ir is a heap, and what has retired       *)
(* behind it is in order and not below anything in front of it.            *)
(***************************************************************************)
heaping(n, original) ==
    {h \in Heaping(n) :
        /\ Order(n, h.index)
        /\ h.l > 1 => h.ir = n - 1
        /\ HeapFrom(original, h.index, h.l - 1, h.ir)
        /\ \A a, b \in Index(n) :
              a < b /\ h.ir < b => original[h.index[a]] <= original[h.index[b]]}

(* The inner loop returns entries of the array whatever it is given. *)
LEMMA SinkType ==
    ASSUME NEW n \in Nat, NEW original \in [Index(n) -> Int], NEW ir \in Index(n),
           NEW indxt \in Index(n), NEW i0 \in Index(n),
           NEW index0 \in [Index(n) -> Index(n)]
    PROVE  sink(n, original, index0, i0, ir, indxt) \in [Index(n) -> Index(n)]
<1> DEFINE s0 == [index |-> index0, i |-> i0]
           D == Sinking(n)
           done == rests(n, original, ir, indxt)
           step == sinks(n, original, ir)
           out == settled(n, indxt)
<1>1. PICK fall : /\ Runs(D, done, step, out, fall)
                  /\ \A index1, i1 : sink(n, original, index1, i1, ir, indxt)
                                      = fall[[index |-> index1, i |-> i1]]
  BY SinkRuns
<1>2. sink(n, original, index0, i0, ir, indxt) = fall[s0]
  BY <1>1
<1>3. s0 \in D
  BY DEF Sinking
<1>4. Loop(D, [Index(n) -> Index(n)], depth(n), done, step, out)
  BY FallLoop
<1>5. PICK s \in D : s \in done /\ fall[s0] = out[s]
  <2> HIDE DEF D, done, step, out, s0
  <2>1. D \in SUBSET D /\ \A x \in D : x \notin done => step[x] \in D
    BY <1>4 DEF Loop
  <2>2. Runs(D, done, step, out, fall)
    BY <1>1
  <2>3. \A x \in D : \E y \in D : y \in done /\ fall[x] = out[y]
    BY <1>4, <2>1, <2>2, LoopInvariant
  <2> QED
    BY <1>3, <2>3
<1>6. out[s] \in [Index(n) -> Index(n)]
  <2> HIDE DEF D, done, step, out, s0
  <2> QED
    BY <1>4, <1>5 DEF Loop
<1> QED
  BY <1>2, <1>5, <1>6

(* What a round does to the record of the loop. *)
LEMMA RoundForm ==
    ASSUME NEW n \in Nat, NEW original \in [Index(n) -> Int], NEW h \in Heaping(n),
           ~ (h.l = 1 /\ h.ir = 1)
    PROVE  /\ next_round(n, original, h) \in Heaping(n)
           /\ h.l > 1 =>
                 /\ next_round(n, original, h).index =
                       sink(n, original, h.index, h.l - 2, h.ir, h.index[h.l - 2])
                 /\ next_round(n, original, h).l = h.l - 1
                 /\ next_round(n, original, h).ir = h.ir
           /\ ~ (h.l > 1) =>
                 /\ next_round(n, original, h).index =
                       sink(n, original, [h.index EXCEPT ![h.ir] = h.index[0]], 0,
                            h.ir - 1, h.index[h.ir])
                 /\ next_round(n, original, h).l = 1
                 /\ next_round(n, original, h).ir = h.ir - 1
<1> DEFINE F == h.index
           l == h.l
           ir == h.ir
           t == next_round(n, original, h)
<1>1. /\ F \in [Index(n) -> Index(n)] /\ l \in 1..n /\ ir \in 1..(n - 1)
      /\ h = [index |-> F, l |-> l, ir |-> ir]
  BY DEF Heaping
<1>2. CASE l > 1
  <2> DEFINE G == sink(n, original, F, l - 2, ir, F[l - 2])
  <2>1. t = [h EXCEPT !.index = G, !.l = l - 1]
    BY <1>2 DEF next_round
  <2>2. l - 2 \in Index(n) /\ ir \in Index(n) /\ l - 1 \in 1..n
    <3> HIDE DEF l, ir
    <3> QED
      BY <1>1, <1>2 DEF Index
  <2>3. G \in [Index(n) -> Index(n)]
    <3>1. F[l - 2] \in Index(n)
      BY <1>1, <2>2
    <3> HIDE DEF F, l, ir
    <3> QED
      BY <1>1, <2>2, <3>1, SinkType
  <2> HIDE DEF G
  <2>4. t = [index |-> G, l |-> l - 1, ir |-> ir]
    BY <1>1, <2>1
  <2> QED
    BY <1>1, <1>2, <2>2, <2>3, <2>4 DEF Heaping, G
<1>3. CASE ~ (l > 1)
  <2> DEFINE R == [F EXCEPT ![ir] = F[0]]
             G == sink(n, original, R, 0, ir - 1, F[ir])
  <2>1. t = [h EXCEPT !.index = G, !.ir = ir - 1]
    BY <1>3 DEF next_round
  <2>2. /\ l = 1 /\ ir # 1 /\ 0 \in Index(n) /\ ir \in Index(n) /\ ir - 1 \in Index(n)
        /\ ir - 1 \in 1..(n - 1)
    <3> HIDE DEF l, ir
    <3> QED
      BY <1>1, <1>3 DEF Index, l, ir
  <2>3. G \in [Index(n) -> Index(n)]
    <3>1. F[ir] \in Index(n) /\ F[0] \in Index(n) /\ R \in [Index(n) -> Index(n)]
      BY <1>1, <2>2
    <3> HIDE DEF F, l, ir, R
    <3> QED
      BY <1>1, <2>2, <3>1, SinkType
  <2> HIDE DEF G
  <2>4. t = [index |-> G, l |-> l, ir |-> ir - 1]
    BY <1>1, <2>1
  <2> QED
    BY <1>1, <1>3, <2>2, <2>3, <2>4 DEF Heaping, G
<1> QED
  BY <1>2, <1>3

(* The rounds of the heap sort are a loop that ends: l shrinks, then ir    *)
(* does.                                                                   *)
LEMMA RoundLoop ==
    ASSUME NEW n \in Nat, NEW original \in [Index(n) -> Int]
    PROVE  Loop(Heaping(n), [Index(n) -> Index(n)], left(n), lastRound(n),
                rounds(n, original), swaps(n))
<1> DEFINE D == Heaping(n)
<1>1. left(n) \in [D -> Nat]
  <2>1. \A h \in D : h.l + h.ir \in Nat
    BY DEF Heaping
  <2> QED
    BY <2>1 DEF left
<1>2. ASSUME NEW h \in D PROVE swaps(n)[h] \in [Index(n) -> Index(n)]
  <2>1. h.index \in [Index(n) -> Index(n)] /\ h.ir \in 1..(n - 1)
    BY DEF Heaping
  <2>2. 0 \in Index(n) /\ 1 \in Index(n)
    BY <2>1 DEF Index
  <2> QED
    BY <2>1, <2>2 DEF swaps, last_swap
<1>3. ASSUME NEW h \in D, h \notin lastRound(n)
      PROVE  rounds(n, original)[h] \in D /\ left(n)[rounds(n, original)[h]] < left(n)[h]
  <2> DEFINE t == next_round(n, original, h)
  <2>1. ~ (h.l = 1 /\ h.ir = 1)
    BY <1>3 DEF lastRound
  <2>2. /\ t \in D
        /\ h.l > 1 => t.l = h.l - 1 /\ t.ir = h.ir
        /\ ~ (h.l > 1) => t.l = 1 /\ t.ir = h.ir - 1
    BY <2>1, RoundForm
  <2>3. rounds(n, original)[h] = t
    BY DEF rounds
  <2> HIDE DEF t
  <2>4. left(n)[t] = t.l + t.ir /\ left(n)[h] = h.l + h.ir
    BY <2>2 DEF left
  <2>5. h.l \in 1..n /\ h.ir \in 1..(n - 1)
    BY DEF Heaping
  <2> QED
    BY <2>2, <2>3, <2>4, <2>5
<1>4. [Index(n) -> Index(n)] # {}
  <2>1. [k \in Index(n) |-> k] \in [Index(n) -> Index(n)]
    OBVIOUS
  <2> QED
    BY <2>1
<1> QED
  BY <1>1, <1>2, <1>3, <1>4 DEF Loop

(* A round keeps the heap and what has retired in order. *)
LEMMA BuildStep ==
    ASSUME NEW n \in Nat, NEW original \in [Index(n) -> Int],
           NEW h \in heaping(n, original), h.l > 1
    PROVE  next_round(n, original, h) \in heaping(n, original)
<1> DEFINE F == h.index
           l == h.l
           ir == h.ir
           t == next_round(n, original, h)
<1>1. /\ h \in Heaping(n) /\ F \in [Index(n) -> Index(n)] /\ l \in 1..n /\ ir = n - 1
      /\ l > 1
  BY DEF heaping, Heaping
<1>2. Order(n, F)
  BY DEF heaping
<1>3. HeapFrom(original, F, l - 1, ir)
  BY DEF heaping
<1>4. ~ (h.l = 1 /\ h.ir = 1)
  BY <1>1
<1>5. /\ t \in Heaping(n) /\ t.index = sink(n, original, F, l - 2, ir, F[l - 2])
      /\ t.l = l - 1 /\ t.ir = ir
  BY <1>1, <1>4, RoundForm
<1> HIDE DEF F, l, ir, t
<1> DEFINE lo == l - 2
<1>6. lo \in Index(n) /\ ir \in Index(n) /\ lo <= ir /\ l - 1 = lo + 1 /\ l - 1 - 1 = lo
  BY <1>1 DEF Index
<1> HIDE DEF lo
<1>7. F[lo] \in Index(n) /\ F = [F EXCEPT ![lo] = F[lo]]
  BY <1>1, <1>6
<1>8. HeapFrom(original, F, lo + 1, ir)
  BY <1>3, <1>6
<1> DEFINE G == sink(n, original, F, lo, ir, F[lo])
<1>9. Order(n, G) /\ HeapFrom(original, G, lo, ir)
  BY <1>1, <1>2, <1>6, <1>7, <1>8, SinkHeaps
<1>10. t.index = G
  BY <1>5 DEF lo
<1> HIDE DEF G
<1>11. \A b \in Index(n) : ~ (ir < b)
  BY <1>1 DEF Index
<1>12. HeapFrom(original, t.index, t.l - 1, t.ir)
  BY <1>5, <1>6, <1>9, <1>10
<1> QED
  BY <1>1, <1>5, <1>9, <1>10, <1>11, <1>12 DEF heaping, t

(* A round that retires the root: the largest of the heap goes to its end, *)
(* behind which everything is larger, and the rest is a heap again.        *)
LEMMA RetireStep ==
    ASSUME NEW n \in Nat, NEW original \in [Index(n) -> Int],
           NEW h \in heaping(n, original), ~ (h.l > 1), h.ir # 1
    PROVE  next_round(n, original, h) \in heaping(n, original)
<1> DEFINE F == h.index
           ir == h.ir
           t == next_round(n, original, h)
           R == [F EXCEPT ![ir] = F[0]]
           F0 == swap(F, 0, ir)
<1>1. h \in Heaping(n) /\ F \in [Index(n) -> Index(n)] /\ h.l = 1 /\ ir \in 1..(n - 1) /\ ir # 1
  BY DEF heaping, Heaping
<1>2. Order(n, F)
  BY DEF heaping
<1>3. HeapFrom(original, F, 0, ir)
  BY <1>1 DEF heaping
<1>4. \A a, b \in Index(n) : a < b /\ ir < b => original[F[a]] <= original[F[b]]
  BY DEF heaping
<1>5. /\ t \in Heaping(n) /\ t.index = sink(n, original, R, 0, ir - 1, F[ir])
      /\ t.l = 1 /\ t.ir = ir - 1
  BY <1>1, RoundForm
<1> HIDE DEF F, ir, t
<1>6. 0 \in Index(n) /\ ir \in Index(n) /\ ir - 1 \in Index(n) /\ 0 <= ir - 1 /\ ir # 0
      /\ ir \in Nat /\ ir - 1 \in Nat /\ n \in Nat /\ ir < n
  BY <1>1 DEF Index
<1>7. /\ Order(n, F0) /\ F0[0] = F[ir] /\ F0[ir] = F[0]
      /\ \A k \in Index(n) : k # 0 /\ k # ir => F0[k] = F[k]
  BY <1>2, <1>6, SwapOrder
<1>8. R \in [Index(n) -> Index(n)] /\ F[ir] \in Index(n)
  BY <1>1, <1>6
<1>9. F0 = [R EXCEPT ![0] = F[ir]]
  <2>1. F0 \in [Index(n) -> Index(n)]
    BY <1>7 DEF Order
  <2> DEFINE Q == [R EXCEPT ![0] = F[ir]]
  <2>2. /\ Q \in [Index(n) -> Index(n)] /\ Q[0] = F[ir] /\ Q[ir] = F[0]
        /\ \A k \in Index(n) : k # 0 /\ k # ir => Q[k] = F[k]
    BY <1>1, <1>6, <1>8
  <2> HIDE DEF Q, F0
  <2>3. \A k \in Index(n) : F0[k] = Q[k]
    BY <1>7, <2>2
  <2>4. F0 = Q
    BY <2>1, <2>2, <2>3
  <2> QED
    BY <2>4 DEF Q
<1> HIDE DEF F0, R
<1>10. HeapFrom(original, F0, 0 + 1, ir - 1)
  <2> SUFFICES ASSUME NEW p \in (0 + 1)..(ir - 1), NEW c \in {2 * p + 1, 2 * p + 2},
                      c <= ir - 1
               PROVE  original[F0[c]] <= original[F0[p]]
    BY DEF HeapFrom
  <2>1. /\ p \in Index(n) /\ c \in Index(n) /\ p # 0 /\ p # ir /\ c # 0 /\ c # ir
        /\ p \in 0..ir /\ c <= ir
    BY <1>6 DEF Index
  <2>2. F0[p] = F[p] /\ F0[c] = F[c]
    BY <1>7, <2>1
  <2>3. original[F[c]] <= original[F[p]]
    BY <1>3, <2>1 DEF HeapFrom
  <2> QED
    BY <2>2, <2>3
<1> DEFINE G == sink(n, original, R, 0, ir - 1, F[ir])
<1>11. Order(n, G) /\ HeapFrom(original, G, 0, ir - 1) /\ Reordered(n, F0, G, ir - 1)
  BY <1>6, <1>7, <1>8, <1>9, <1>10, SinkHeaps
<1>12. t.index = G
  BY <1>5
<1> HIDE DEF G
<1>13. \A k \in 0..ir : original[F[k]] <= original[F[0]]
  BY <1>1, <1>3, <1>6, TopIsLargest
(* every entry comes from the heap or has not moved *)
<1>14. \A a \in Index(n) : \E m \in Index(n) : G[a] = F[m] /\ (m = a \/ (m <= ir /\ a <= ir))
  <2> TAKE a \in Index(n)
  <2>1. \E k2 \in Index(n) : G[a] = F0[k2] /\ (k2 = a \/ (k2 <= ir /\ a <= ir))
    <3>1. CASE a > ir - 1
      BY <1>11, <3>1 DEF Reordered
    <3>2. CASE ~ (a > ir - 1)
      <4>1. a <= ir - 1 /\ a <= ir
        BY <1>6, <3>2 DEF Index
      <4>2. PICK k2 \in Index(n) : k2 <= ir - 1 /\ G[a] = F0[k2]
        BY <1>11, <4>1 DEF Reordered
      <4>3. k2 <= ir
        BY <1>6, <4>2 DEF Index
      <4> QED
        BY <4>1, <4>2, <4>3
    <3> QED
      BY <3>1, <3>2
  <2>2. PICK k2 \in Index(n) : G[a] = F0[k2] /\ (k2 = a \/ (k2 <= ir /\ a <= ir))
    BY <2>1
  <2>3. \E m \in Index(n) : F0[k2] = F[m] /\ (m = k2 \/ (m <= ir /\ k2 <= ir))
    <3>1. CASE k2 # 0 /\ k2 # ir
      BY <1>7, <3>1
    <3>2. CASE k2 = 0 \/ k2 = ir
      <4>1. 0 <= ir /\ ir <= ir
        BY <1>6
      <4> QED
        BY <1>6, <1>7, <3>2, <4>1
    <3> QED
      BY <3>1, <3>2
  <2> QED
    BY <2>2, <2>3
<1>15. ASSUME NEW a \in Index(n), NEW b \in Index(n), a < b, ir - 1 < b
       PROVE  original[G[a]] <= original[G[b]]
  <2>1. PICK m \in Index(n) : G[a] = F[m] /\ (m = a \/ (m <= ir /\ a <= ir))
    BY <1>14
  <2>2. G[b] = F0[b]
    BY <1>11, <1>15 DEF Reordered, Index
  <2>3. CASE b = ir
    <3>1. m \in 0..ir
      BY <1>6, <1>15, <2>1, <2>3 DEF Index
    <3> QED
      BY <1>7, <1>13, <2>1, <2>2, <2>3, <3>1
  <2>4. CASE b # ir
    <3>1. ir < b /\ b # 0 /\ m < b
      BY <1>6, <1>15, <2>1, <2>4 DEF Index
    <3>2. G[b] = F[b]
      BY <1>7, <2>2, <2>4, <3>1
    <3> QED
      BY <1>4, <2>1, <3>1, <3>2
  <2> QED
    BY <2>3, <2>4
<1>16. HeapFrom(original, t.index, t.l - 1, t.ir)
  <2>1. t.l - 1 = 0
    BY <1>5
  <2> QED
    BY <1>5, <1>11, <1>12, <2>1
<1>17. ~ (t.l > 1)
  BY <1>5
<1>18. \A a, b \in Index(n) : a < b /\ t.ir < b => original[t.index[a]] <= original[t.index[b]]
  BY <1>5, <1>12, <1>15
<1>19. Order(n, t.index)
  BY <1>11, <1>12
<1> QED
  BY <1>5, <1>16, <1>17, <1>18, <1>19 DEF heaping, t

(***************************************************************************)
(* ref_sort_heap_glob returns a permutation that lists the entries in      *)
(* ascending order, for every length and every pattern of equal entries.   *)
(***************************************************************************)
THEOREM HeapSorts ==
    ASSUME NEW n \in Nat, NEW original \in [Index(n) -> Int]
    PROVE  /\ Order(n, heap_glob(n, original))
           /\ \A a, b \in Index(n) :
                 a < b => original[heap_glob(n, original)[a]]
                           <= original[heap_glob(n, original)[b]]
<1> DEFINE identity == [i \in Index(n) |-> i]
           h0 == [index |-> identity, l |-> (n \div 2) + 1, ir |-> n - 1]
           D == Heaping(n)
           done == lastRound(n)
           step == rounds(n, original)
           out == swaps(n)
           Good == heaping(n, original)
           turns(f) == f = [h \in D |-> IF h.l = 1 /\ h.ir = 1 THEN last_swap(h)
                                        ELSE f[next_round(n, original, h)]]
           round == CHOOSE f : turns(f)
<1>1. heap_glob(n, original) = IF n < 2 THEN identity ELSE round[h0]
  BY DEF heap_glob
<1>2. Order(n, identity)
  BY DEF Order
<1>3. CASE n < 2
  <2>1. \A a, b \in Index(n) : ~ (a < b)
    BY <1>3 DEF Index
  <2> QED
    BY <1>1, <1>2, <1>3, <2>1
<1>4. CASE ~ (n < 2)
  <2>1. Loop(D, [Index(n) -> Index(n)], left(n), done, step, out)
    BY RoundLoop
  <2>2. \A f : turns(f) <=> f = [h \in D |-> IF h \in done THEN out[h] ELSE f[step[h]]]
    <3> TAKE f
    <3>1. \A h \in D : (IF h.l = 1 /\ h.ir = 1 THEN last_swap(h)
                        ELSE f[next_round(n, original, h)])
                       = IF h \in done THEN out[h] ELSE f[step[h]]
      BY DEF lastRound, swaps, rounds
    <3> HIDE DEF D, done, step, out
    <3> QED
      BY <3>1
  <2> HIDE DEF turns
  <2>3. \E f : turns(f)
    <3> HIDE DEF D, done, step, out
    <3>1. PICK f \in [D -> [Index(n) -> Index(n)]] : Runs(D, done, step, out, f)
      BY <2>1, LoopExists
    <3>2. f = [h \in D |-> IF h \in done THEN out[h] ELSE f[step[h]]]
      BY <3>1 DEF Runs
    <3> QED
      BY <2>2, <3>2
  <2>4. turns(round)
    BY <2>3
  <2> HIDE DEF round
  <2>5. Runs(D, done, step, out, round)
    <3>1. round = [h \in D |-> IF h \in done THEN out[h] ELSE round[step[h]]]
      BY <2>2, <2>4
    <3> HIDE DEF D, done, step, out
    <3> QED
      BY <3>1 DEF Runs
  <2>6. h0 \in Good
    <3> DEFINE half == n \div 2
    <3>1. /\ half \in Nat /\ half + 1 \in 1..n /\ n - 1 \in 1..(n - 1)
          /\ n <= 2 * half + 1
      BY <1>4
    <3>2. h0 \in D /\ h0.index = identity /\ h0.l = half + 1 /\ h0.ir = n - 1
      <4>1. identity \in [Index(n) -> Index(n)]
        OBVIOUS
      <4> HIDE DEF identity, half
      <4> QED
        BY <3>1, <4>1 DEF Heaping, half
    <3> HIDE DEF half, h0, identity
    <3>3. h0.l - 1 = half
      BY <3>1, <3>2
    <3>4. HeapFrom(original, identity, half, n - 1)
      <4>1. ASSUME NEW p \in half..(n - 1), NEW c \in {2 * p + 1, 2 * p + 2}
            PROVE  ~ (c <= n - 1)
        BY <3>1, <4>1
      <4> QED
        BY <4>1 DEF HeapFrom
    <3>5. \A b \in Index(n) : ~ (n - 1 < b)
      BY DEF Index
    <3> QED
      BY <1>2, <3>2, <3>3, <3>4, <3>5 DEF heaping
  <2>7. Good \in SUBSET D
    BY DEF heaping
  <2>8. ASSUME NEW h \in Good, h \notin done PROVE step[h] \in Good
    <3>1. h \in D /\ step[h] = next_round(n, original, h) /\ ~ (h.l = 1 /\ h.ir = 1)
          /\ h.l \in 1..n
      BY <2>7, <2>8 DEF rounds, lastRound, Heaping
    <3>2. CASE h.l > 1
      BY <3>1, <3>2, BuildStep
    <3>3. CASE ~ (h.l > 1)
      <4>1. h.ir # 1
        BY <3>1, <3>3
      <4> QED
        BY <3>1, <3>3, <4>1, RetireStep
    <3> QED
      BY <3>2, <3>3
  <2>9. PICK h \in Good : h \in done /\ round[h0] = out[h]
    <3> HIDE DEF D, done, step, out, Good, h0
    <3>1. \A x \in Good : \E y \in Good : y \in done /\ round[x] = out[y]
      BY <2>1, <2>5, <2>7, <2>8, LoopInvariant
    <3> QED
      BY <2>6, <3>1
  <2> DEFINE F == h.index
             G == swap(F, 0, 1)
  <2>10. h.l = 1 /\ h.ir = 1 /\ h \in D /\ F \in [Index(n) -> Index(n)]
    BY <2>7, <2>9 DEF lastRound, Heaping
  <2>11. Order(n, F) /\ HeapFrom(original, F, 0, 1)
    BY <2>10 DEF heaping
  <2>12. \A a, b \in Index(n) : a < b /\ 1 < b => original[F[a]] <= original[F[b]]
    BY <2>10 DEF heaping
  <2>13. 0 \in Index(n) /\ 1 \in Index(n)
    BY <1>4 DEF Index
  <2>14. /\ Order(n, G) /\ G[0] = F[1] /\ G[1] = F[0]
         /\ \A k \in Index(n) : k # 0 /\ k # 1 => G[k] = F[k]
    <3> HIDE DEF F
    <3> QED
      BY <2>11, <2>13, SwapOrder
  <2>15. out[h] = G
    <3> DEFINE Q == last_swap(h)
    <3>1. /\ Q \in [Index(n) -> Index(n)] /\ Q[0] = F[1] /\ Q[1] = F[0]
          /\ \A k \in Index(n) : k # 0 /\ k # 1 => Q[k] = F[k]
      BY <2>10, <2>13 DEF last_swap
    <3>2. G \in [Index(n) -> Index(n)]
      BY <2>14 DEF Order
    <3>3. out[h] = Q
      BY <2>10 DEF swaps
    <3> HIDE DEF F, G, Q, out
    <3>4. \A k \in Index(n) : Q[k] = G[k]
      BY <2>14, <3>1
    <3>5. Q = G
      BY <3>1, <3>2, <3>4
    <3> QED
      BY <3>3, <3>5
  <2>16. heap_glob(n, original) = G
    BY <1>1, <1>4, <2>9, <2>15
  <2> HIDE DEF F, G
  <2>17. original[F[1]] <= original[F[0]]
    BY <2>11 DEF HeapFrom
  <2>18. ASSUME NEW a \in Index(n), NEW b \in Index(n), a < b
         PROVE  original[G[a]] <= original[G[b]]
    <3>1. CASE b = 1
      <4>1. a = 0
        BY <2>18, <3>1 DEF Index
      <4> QED
        BY <2>14, <2>17, <3>1, <4>1
    <3>2. CASE b # 1
      <4>1. 1 < b /\ b # 0 /\ 0 < b
        BY <2>18, <3>2 DEF Index
      <4>2. G[b] = F[b]
        BY <2>14, <3>2, <4>1
      <4>3. \E m \in Index(n) : G[a] = F[m] /\ m < b
        BY <2>13, <2>14, <2>18, <4>1
      <4> QED
        BY <2>12, <4>1, <4>2, <4>3
    <3> QED
      BY <3>1, <3>2
  <2> QED
    BY <2>14, <2>16, <2>18
<1> QED
  BY <1>3, <1>4
=============================================================================
