------------------------------ MODULE RefSearch ------------------------------
(***************************************************************************)
(* The tree of balls (ref_search.c) the searches of ref_interp, the        *)
(* distance to the wall and others start from.  A tree is a record         *)
(*                                                                         *)
(*   ball : the sequence of balls inserted, each a record with pos and     *)
(*          radius; what lies in the ball is the caller's                  *)
(*   left, right : for each ball the numbers of its children, 0 for none   *)
(*   children_ball : how far its descendants reach                         *)
(*                                                                         *)
(* Places are whole numbers on a line, so distances are exact; the tests   *)
(* use nothing of a distance but the triangle inequality.                  *)
(***************************************************************************)
EXTENDS Integers, Sequences
LOCAL INSTANCE FiniteSetsExt

distance(p, q) == IF p < q THEN q - p ELSE p - q

ref_search_create ==
    [ball |-> <<>>, left |-> <<>>, right |-> <<>>, children_ball |-> <<>>]

(* mutant: the reach of the descendants does not count their radius *)
reach_mutant(t, child, parent) ==
    Max({t.children_ball[parent], distance(t.ball[child].pos, t.ball[parent].pos)})

reach(t, child, parent) ==
    Max({t.children_ball[parent],
         distance(t.ball[child].pos, t.ball[parent].pos) + t.ball[child].radius})

(* ref_search_home: the child goes down to the first free place, to the    *)
(* nearer of two children                                                  *)
RECURSIVE ref_search_home(_, _, _)
ref_search_home(t, child, parent) ==
    LET s == [t EXCEPT !.children_ball[parent] = reach(t, child, parent)]
        to(c) == distance(t.ball[child].pos, t.ball[c].pos)
        left  == t.left[parent]
        right == t.right[parent]
    IN  CASE child = parent -> t
          [] child # parent /\ left = 0 -> [s EXCEPT !.left[parent] = child]
          [] child # parent /\ left # 0 /\ right = 0 -> [s EXCEPT !.right[parent] = child]
          [] OTHER -> ref_search_home(s, child, IF to(left) < to(right) THEN left ELSE right)

ref_search_insert(t, ball) ==
    LET s == [ball  |-> Append(t.ball, ball),
              left  |-> Append(t.left, 0),
              right |-> Append(t.right, 0),
              children_ball |-> Append(t.children_ball, 0)]
    IN  ref_search_home(s, Len(s.ball), 1)

(* ref_search_gather: the balls met that touch the ball asked for          *)
RECURSIVE ref_search_gather(_, _, _, _)
ref_search_gather(t, parent, position, radius) ==
    IF parent = 0 \/ t.ball = <<>> THEN <<>>
    ELSE LET d == distance(position, t.ball[parent].pos)
             me == IF d <= t.ball[parent].radius + radius THEN <<parent>> ELSE <<>>
             below(c) == ref_search_gather(t, c, position, radius)
         IN  IF d - radius <= t.children_ball[parent]
             THEN me \o below(t.left[parent]) \o below(t.right[parent])
             ELSE me

ref_search_touching(t, position, radius) == ref_search_gather(t, 1, position, radius)

(* ref_search_trim: the distance within which something must be            *)
RECURSIVE ref_search_trim(_, _, _, _)
ref_search_trim(t, parent, position, trim) ==
    IF parent = 0 \/ t.ball = <<>> THEN trim
    ELSE LET d == distance(position, t.ball[parent].pos)
             closer == Min({trim, d + t.ball[parent].radius})
         IN  IF closer > d - t.children_ball[parent]
             THEN ref_search_trim(t, t.right[parent], position,
                      ref_search_trim(t, t.left[parent], position, closer))
             ELSE closer

ref_search_nearest_candidates_closer_than(t, position, within) ==
    ref_search_touching(t, position, ref_search_trim(t, 1, position, within))

(* ref_search_gather_seg and _tri: the distance to the nearest element,    *)
(* where element[i] is the distance to the one in ball i                   *)
RECURSIVE gather_element(_, _, _, _, _)
gather_element(t, parent, position, best, element) ==
    IF parent = 0 \/ t.ball = <<>> THEN best
    ELSE LET d == distance(position, t.ball[parent].pos)
             mine == IF d - t.ball[parent].radius <= best
                     THEN Min({best, element[parent]}) ELSE best
         IN  IF mine >= d - t.children_ball[parent]
             THEN gather_element(t, t.right[parent], position,
                      gather_element(t, t.left[parent], position, mine, element), element)
             ELSE mine

ref_search_nearest_element(t, position, best, element) ==
    gather_element(t, 1, position, best, element)
=============================================================================
