-------------------------- MODULE MCRefAlgorithms --------------------------
(***************************************************************************)
(* The sequential algorithms against what they are meant to compute, one   *)
(* input per state.  A behaviour takes up a job and builds an input of it  *)
(* step by step:                                                           *)
(*   "sort"       an array of at most MaxLen entries (RefSort);            *)
(*   "shard"      an order of the global numbers of the nodes of a cell    *)
(*                and, for a hex numbered in order, marked face diagonals  *)
(*                (RefShard);                                              *)
(*   "subdivide"  a set of marked edges of a cell (RefSubdivSplit);        *)
(*   "tree"       balls with an element in each (RefSearch);               *)
(*   "exchange"   items with the ranks they come from and go to (RefMpi);  *)
(*   "file"       the cells of a mesh file, in any order (RefPart,         *)
(*                RefGather), which is then read and migrated.             *)
(***************************************************************************)
EXTENDS RefSort, RefShard, RefSubdivSplit, FiniteSetsExt
LOCAL INSTANCE SequencesExt

CONSTANTS
    MaxLen, MaxEntry,                        \* the arrays to sort
    MaxBall, Place, Radius,                  \* the balls
    MaxItem, NProc,                          \* the items to exchange
    MaxCell, FileVertices, FileRanks, FileChunks

File(NRank) == INSTANCE RefGather
Tree == INSTANCE RefSearch
Mpi == INSTANCE RefMpi

VARIABLES
    job,
    kind,      \* the kind of the cell
    given,     \* the entries of the array, the numbers of the nodes, or the cells
    marked,    \* the marked diagonals, or the marked edges
    run        \* the reading, or a later migration, of the file

vars == <<job, kind, given, marked, run>>

NotOpen == [todo |-> <<>>]

Init == /\ \/ job = "sort" /\ kind = "none"
           \/ job = "shard" /\ kind \in {"qua", "pyr", "pri", "hex"}
           \/ job = "subdivide" /\ kind \in {"tet", "pyr", "pri"}
           \/ job \in {"tree", "exchange", "file"} /\ kind = "none"
        /\ given = <<>>
        /\ marked = {}
        /\ run = NotOpen

Enter == /\ job = "sort" /\ Len(given) < MaxLen
         /\ \E e \in 1 .. MaxEntry : given' = Append(given, e)
         /\ UNCHANGED <<job, kind, marked, run>>

Number == /\ job = "shard" /\ Len(given) < NodePer(kind)
          /\ \E g \in (0 .. NodePer(kind) - 1) \ {given[i] : i \in DOMAIN given} :
               given' = Append(given, g)
          /\ UNCHANGED <<job, kind, marked, run>>

array(s) == [i \in Index(Len(s)) |-> s[i + 1]]
nodes == array(given)
Numbered == job = "shard" /\ Len(given) = NodePer(kind)
InOrder == Numbered /\ kind = "hex" /\ \A i \in DOMAIN nodes : nodes[i] = i

FaceWith(d) == CHOOSE f \in {F2N("hex")[i] : i \in DOMAIN F2N("hex")} :
                 d \in {{f[1], f[3]}, {f[2], f[4]}}

(* ref_shard_mark_to_split fails when the face has its other diagonal marked *)
MarkDiagonal == /\ InOrder
                /\ \E d \in UNION HexPairs \ marked :
                     /\ \A other \in marked : FaceWith(other) # FaceWith(d)
                     /\ marked' = marked \cup {d}
                /\ UNCHANGED <<job, kind, given, run>>

MarkEdge == /\ job = "subdivide"
            /\ \E edge \in EdgeNumbers(kind) \ marked : marked' = marked \cup {edge}
            /\ UNCHANGED <<job, kind, given, run>>

(* the element of a ball lies at one of its ends *)
Insert == /\ job = "tree" /\ Len(given) < MaxBall
          /\ \E p \in Place, r \in Radius : \E at \in {p - r, p + r} :
               given' = Append(given, [pos |-> p, radius |-> r, at |-> at])
          /\ UNCHANGED <<job, kind, marked, run>>

Pack == /\ job = "exchange" /\ Len(given) < MaxItem
        /\ \E from, to \in Mpi!Proc :
             given' = Append(given, [item |-> Len(given), from |-> from, to |-> to])
        /\ UNCHANGED <<job, kind, marked, run>>

(* cells of a file; one tri lies on the pyramid, seen from outside *)
FileCell == {[kind |-> "pyr", nodes |-> <<1, 2, 3, 4, 5>>, id |-> 0],
             [kind |-> "tri", nodes |-> <<4, 5, 3>>, id |-> 1],
             [kind |-> "tri", nodes |-> <<5, 1, 3>>, id |-> 1],
             [kind |-> "tri", nodes |-> <<2, 5, 1>>, id |-> 2],
             [kind |-> "edg", nodes |-> <<5, 1>>, id |-> 1]}

AddCell == /\ job = "file" /\ run = NotOpen /\ Len(given) < MaxCell
           /\ \E c \in FileCell \ {given[i] : i \in DOMAIN given} :
                given' = Append(given, c)
           /\ UNCHANGED <<job, kind, marked, run>>

(* the file with total vertices, CAD records for its tri and edg *)
file(total) ==
  LET cells == {given[i] : i \in DOMAIN given}
      record(type, c, n) == [node |-> n, type |-> type, id |-> c.id, param |-> 10 * n + c.id]
      on(type, k) == UNION {{record(type, c, c.nodes[i]) : i \in DOMAIN c.nodes} :
                              c \in {d \in cells : d.kind = k}}
  IN [vertex |-> [n \in 1 .. total |-> 100 + n],
      cell   |-> given,
      geom   |-> on("face", "tri") \cup on("edge", "edg")]

Implicit(total, ranks) ==
  [n \in 0 .. total - 1 |-> File(ranks)!ref_part_implicit(total, ranks, n)]

Open == /\ job = "file" /\ run = NotOpen
        /\ \E total \in FileVertices, ranks \in FileRanks, chunk \in FileChunks :
             run' = [total |-> total, ranks |-> ranks, chunk |-> chunk,
                     part |-> Implicit(total, ranks),
                     grid |-> <<>>, todo |-> File(ranks)!ref_part_meshb]
        /\ UNCHANGED <<job, kind, given, marked>>

Advance == /\ run.todo # <<>>
           /\ LET g == File(run.ranks)!Stage(Head(run.todo), run.grid, file(run.total),
                                              run.chunk, run.part)
              IN run' = [run EXCEPT !.grid = g, !.todo = Tail(@)]
           /\ UNCHANGED <<job, kind, given, marked>>

(* back to the implicit parts, all on the last rank, or dealt out in turn from the end *)
Partitions(total, ranks) ==
  {Implicit(total, ranks),
   [n \in 0 .. total - 1 |-> ranks - 1],
   [n \in 0 .. total - 1 |-> (total - 1 - n) % ranks]}

Migrate == /\ run # NotOpen /\ run.todo = <<>>
           /\ \E p \in Partitions(run.total, run.ranks) \ {run.part} :
                run' = [run EXCEPT !.part = p, !.todo = File(run.ranks)!ref_migrate_to_balance]
           /\ UNCHANGED <<job, kind, given, marked>>

Next == Enter \/ Number \/ MarkDiagonal \/ MarkEdge
        \/ Insert \/ Pack \/ AddCell \/ Open \/ Advance \/ Migrate

Spec == Init /\ [][Next]_vars

------------------------------------------------------------------------------
(* Geometry of the reference cells *)

ParentFaces == {F2N(kind)[i] : i \in DOMAIN F2N(kind)}

(* corners of the cell, in units that make every average a whole number *)
Coordinate ==
  CASE kind = "tet" -> <<<<0,0,0>>, <<12,0,0>>, <<0,12,0>>, <<0,0,12>>>>
    [] kind = "pyr" -> <<<<0,0,0>>, <<0,12,0>>, <<4,4,12>>, <<12,0,0>>, <<12,12,0>>>>
    [] kind = "pri" -> <<<<0,0,0>>, <<12,0,0>>, <<0,12,0>>,
                         <<0,0,12>>, <<12,0,12>>, <<0,12,12>>>>
    [] kind = "hex" -> <<<<0,0,0>>, <<12,0,0>>, <<12,12,0>>, <<0,12,0>>,
                         <<0,0,12>>, <<12,0,12>>, <<12,12,12>>, <<0,12,12>>>>

(* the middle of a set of corners *)
Middle(v) == [x \in 1 .. 3 |->
  MapThenSumSet(LAMBDA i : Coordinate[i + 1][x], v) \div Cardinality(v)]

(* six times the volume of the tet with these corners *)
Volume(a, b, c, d) ==
  LET u == [x \in 1 .. 3 |-> b[x] - a[x]]
      v == [x \in 1 .. 3 |-> c[x] - a[x]]
      w == [x \in 1 .. 3 |-> d[x] - a[x]]
  IN u[1] * (v[2] * w[3] - v[3] * w[2]) - u[2] * (v[1] * w[3] - v[3] * w[1])
     + u[3] * (v[1] * w[2] - v[2] * w[1])

(* the corner tets of an element, positive when it is not folded *)
CornerTets(k) ==
  CASE k = "tet" -> {<<0,1,2,3>>}
    [] k = "pyr" -> {<<0,3,1,2>>, <<3,4,0,2>>, <<4,1,3,2>>, <<1,0,4,2>>}
    [] k = "pri" -> {<<0,1,2,3>>, <<1,2,0,4>>, <<2,0,1,5>>,
                     <<3,5,4,0>>, <<4,3,5,1>>, <<5,4,3,2>>}
    [] k = "hex" -> {<<0,1,3,4>>, <<1,2,0,5>>, <<2,3,1,6>>, <<3,0,2,7>>,
                     <<4,7,5,0>>, <<5,4,6,1>>, <<6,5,7,2>>, <<7,6,4,3>>}

(* at(v) is the place of a node v *)
Positive(cell, at(_)) ==
  LET place == [i \in DOMAIN cell.nodes |-> at(cell.nodes[i])]
  IN \A t \in CornerTets(cell.kind) :
       Volume(place[t[1]], place[t[2]], place[t[3]], place[t[4]]) > 0

------------------------------------------------------------------------------
(* Sort *)

N == Len(given)
values == array(given)
Target == 0 .. MaxEntry + 1     \* one below and one above the entries too
entries(n, a) == {a[i] : i \in Index(n)}

(* a permutation in ascending order; the distinct entries, once each; the   *)
(* same entries in two lists                                                *)
HeapOrders ==
    LET order == heap_glob(N, values)
        sorted == in_place_glob(N, values)
        u == unique_int(N, values)
        half == N \div 2
        left == array(SubSeq(given, 1, half))
        right == array(SubSeq(given, half + 1, 2 * half))
    IN  /\ entries(N, order) = Index(N)
        /\ \A i \in Index(N) : sorted[i] = values[order[i]]
        /\ \A i \in 1..(N - 1) : sorted[i - 1] <= sorted[i]
        /\ N >= 1 =>
            /\ entries(u.nunique, u.unique) = entries(N, values)
            /\ \A i \in 1..(u.nunique - 1) : u.unique[i - 1] < u.unique[i]
        /\ half >= 1 =>
            same(half, left, right) = (entries(half, left) = entries(half, right))

(* a place of the target if there is one; the interval of the table that    *)
(* holds the target, an end interval when it is off the table               *)
SearchFinds ==
    LET list == in_place_glob(N, values)
    IN  \A t \in Target :
            LET position == search_glob(N, list, t)
                i == search_dbl(N, list, t)
            IN  /\ IF t \in entries(N, list)
                   THEN position \in Index(N) /\ list[position] = t
                   ELSE position = -1
                /\ N >= 2 =>
                      /\ i \in 0..(N - 2)
                      /\ t < list[0] => i = 0
                      /\ t > list[N - 1] => i = N - 2
                      /\ t \in list[0]..list[N - 1] =>
                             list[i] <= t /\ t <= list[i + 1]

(***************************************************************************)
(* The heap sorts return a permutation that lists the entries in ascending *)
(* order, for every pattern of equal entries: ref_node_add_many and        *)
(* ref_node_rebuild_sorted_global rely on both.  On top of them the        *)
(* distinct entries are counted and listed, and two lists are the same     *)
(* exactly when they hold the same entries: the cell and face matches of   *)
(* ref_cell.c and ref_validation.c rest on it.  The search in the sorted   *)
(* list finds a target if and only if the list has it: ref_node_local      *)
(* reads a miss as a vertex this rank does not have, and adds it again.    *)
(* The table search never fails on a table of at least two entries.        *)
(***************************************************************************)
SortSearch == job = "sort" => HeapOrders /\ SearchFinds

------------------------------------------------------------------------------
(* Shard *)

Cut == CASE kind = "qua" -> ref_shard_add_qua_as_tri(nodes)
         [] kind = "pyr" -> ref_shard_add_pyr_as_tet(nodes)
         [] kind = "pri" -> ref_shard_add_pri_as_tet(nodes)
         [] kind = "hex" -> ref_shard_add_hex_as_tet(nodes)

(* a face of the uncut cell, as a surface element with global numbers *)
FaceNumbers(face) == [i \in 0 .. Len(face) - 1 |-> nodes[face[i + 1]]]
CutFace(face) == IF Len(face) = 3 THEN {Cell("tri", FaceNumbers(face))}
                                  ELSE ref_shard_add_qua_as_tri(FaceNumbers(face))

NumberedAt(n) == Middle({(CHOOSE j \in DOMAIN given : given[j] = n) - 1})

(***************************************************************************)
(* Whatever the global numbers of the nodes, the tets a cell is cut into   *)
(* fit together and leave on each of its quads the two triangles that      *)
(* ref_shard_add_qua_as_tri makes of that quad by itself: the cell on the  *)
(* other side, of whatever kind and on whatever rank, and the boundary     *)
(* element get the same diagonal without any of them looking at another.   *)
(* No tet is cut inside out: the volume test is switched off where hexes   *)
(* are cut, so an inverted tet would go unnoticed.                         *)
(*                                                                         *)
(* Likewise where diagonals are marked: once ref_shard_mark_relax has      *)
(* paired the marks of a hex, and as long as they cross it in one          *)
(* direction (the only kind ref_shard_mark_cell_edge_split makes), the     *)
(* prisms of ref_shard_split leave on each face what the quad there is     *)
(* split into from its own mark, so a quad cannot be split on one side     *)
(* only.                                                                   *)
(***************************************************************************)
CutConforms ==
  LET relaxed == ref_shard_mark_relax(nodes, marked)
      prisms  == SplitMarkedHex(nodes, relaxed)
  IN /\ Numbered =>
          /\ OneCellPerSide(Cut)
          /\ kind # "qua" => \A tet \in Cut : Positive(tet, NumberedAt)
          /\ (IF kind = "qua" THEN AllFaces(Cut) ELSE Boundary(Cut))
               = UNION {AllFaces(CutFace(face)) : face \in ParentFaces}
     /\ InOrder /\ (\E pair \in HexPairs : relaxed \subseteq pair) =>
          /\ OneCellPerSide(prisms)
          /\ Boundary(prisms) = UNION {AllFaces(SplitMarkedQua(FaceNumbers(face), relaxed)) :
                                       face \in ParentFaces}

------------------------------------------------------------------------------
(* Subdivide *)

Implemented == \/ kind = "tet" /\ marked \in TetMaps
               \/ kind = "pyr" /\ marked \in PyrMaps
               \/ kind = "pri" /\ marked \in PriMaps

Children == CASE kind = "tet" -> SplitTet(Corners(kind), marked)
              [] kind = "pyr" -> SplitPyr(Corners(kind), marked)
              [] kind = "pri" -> SplitPri(Corners(kind), marked)

MarkedBetween(i, j) ==
  \E edge \in marked : {EdgeNode(kind, 0, edge), EdgeNode(kind, 1, edge)} = {i, j}

(* the sides of a face that are marked, numbered as split_tri and split_qua do *)
FaceMap(face) ==
  {i \in 0 .. Len(face) - 1 :
     MarkedBetween(face[i + 1], face[((i + 1) % Len(face)) + 1])}

FaceNodes(face) == [i \in 0 .. Len(face) - 1 |-> {face[i + 1]}]

SurfaceSplit(face) == IF Len(face) = 3 THEN SplitTri(FaceNodes(face), FaceMap(face))
                                       ELSE SplitQua(FaceNodes(face), FaceMap(face))

(***************************************************************************)
(* For every pattern of marks a template exists for, the cells it makes    *)
(* fit together inside the parent, and what they leave on each face of the *)
(* parent is what split_tri or split_qua makes of that face from its own   *)
(* marks.  The neighbour across the face and the boundary element on it    *)
(* see the same marks, so they are cut the same way: no hanging node and   *)
(* no hole, although each kind of cell is split by its own function.  No   *)
(* child is inside out when the parent is not.  The same holds of the four *)
(* hexes ref_subdiv_to_hex makes of a tet and the three quads it makes of  *)
(* a triangle.                                                             *)
(***************************************************************************)
SplitConforms ==
  LET fits(children, surface(_)) ==
        /\ OneCellPerSide(children)
        /\ \A child \in children : Positive(child, Middle)
        /\ Boundary(children) = UNION {AllFaces(surface(face)) : face \in ParentFaces}
      toQua(face) == TriToQua(FaceNodes(face))
  IN job = "subdivide" =>
       /\ Implemented =>
            /\ \A face \in ParentFaces : Len(face) = 4 => FaceMap(face) \in QuaMaps
            /\ fits(Children, SurfaceSplit)
       /\ kind = "tet" => fits(TetToHex(Corners("tet")), toQua)

------------------------------------------------------------------------------
(* Tree *)

Far == 1000     \* REF_DBL_MAX
AskAt == (Min(Place) - 1) .. (Max(Place) + 1)

(***************************************************************************)
(* Whatever the order in which balls were inserted, and so whatever the    *)
(* shape of the tree, no branch is left out wrongly: touching lists each   *)
(* ball that touches the one asked for, once; trimming finds the smallest  *)
(* distance within which an element must be; the candidates hold the       *)
(* nearest element, wherever in its ball it lies; and the nearest element  *)
(* is at the distance found.  A receptor whose donor is left out is        *)
(* reported as not found, or interpolated from the wrong element.          *)
(***************************************************************************)
TreeFinds ==
  LET t == FoldLeft(Tree!ref_search_insert, Tree!ref_search_create, given)
      d(p, i) == Tree!distance(p, given[i].pos)
      element(p, i) == Tree!distance(p, given[i].at)
      once(list, set) == ToSet(list) = set /\ Len(list) = Cardinality(set)
  IN job = "tree" =>
       \A p \in AskAt :
         /\ \A r \in {0} \cup Radius :
              once(Tree!ref_search_touching(t, p, r),
                   {i \in DOMAIN given : d(p, i) <= given[i].radius + r})
         /\ \A within \in {2, Far} :
              LET reach == Min({within} \cup {d(p, i) + given[i].radius : i \in DOMAIN given})
                  nearest == Min({within} \cup {element(p, i) : i \in DOMAIN given})
                  candidates == Tree!ref_search_nearest_candidates_closer_than(t, p, within)
                  at == [i \in DOMAIN given |-> element(p, i)]
              IN /\ Tree!ref_search_trim(t, 1, p, within) = reach
                 /\ \A i \in DOMAIN given : element(p, i) = nearest => i \in ToSet(candidates)
                 /\ Tree!ref_search_nearest_element(t, p, within, at) = nearest

------------------------------------------------------------------------------
(* Exchange *)

(* the items of all ranks one after the other *)
Concat(items) == FoldLeft(LAMBDA all, r : all \o items[r], <<>>, [i \in 1 .. NProc |-> i - 1])

(***************************************************************************)
(* A blind send delivers to every rank the items sent to it and no others, *)
(* ordered by sender and then as they were sent: ref_agents_migrate and    *)
(* ref_interp send the parts of one record in several blind sends and put  *)
(* them together again by position.  Balancing keeps the items of all      *)
(* ranks in their order, gives the ranks first to last shares that differ  *)
(* by at most one and the others nothing, for any numbers of items, fewer  *)
(* than ranks too.                                                         *)
(***************************************************************************)
ExchangeDelivers ==
  LET of(r) == SelectSeq(given, LAMBDA x : x.from = r)
      items == [r \in Mpi!Proc |-> of(r)]
      to    == [r \in Mpi!Proc |-> [i \in DOMAIN of(r) |-> of(r)[i].to]]
      got   == Mpi!ref_mpi_blindsend(to, items)
  IN job = "exchange" =>
       /\ \A r \in Mpi!Proc : got[r] = SelectSeq(Concat(items), LAMBDA x : x.to = r)
       /\ \A first \in Mpi!Proc : \A last \in first .. NProc - 1 :
            LET balanced == Mpi!ref_mpi_balance(items, first, last)
            IN /\ Concat(balanced) = Concat(items)
               /\ \A r, q \in first .. last : Len(balanced[r]) <= Len(balanced[q]) + 1
               /\ \A r \in Mpi!Proc \ (first .. last) : balanced[r] = <<>>

------------------------------------------------------------------------------
(* File *)



(* the mesh a single rank has after reading the file *)
Mesh(f) ==
  File(1)!ref_grid_inward_boundary_orientation(
    [cell |-> {File(1)!FromFile(f.cell[i]) : i \in DOMAIN f.cell}]).cell

(* each rank has its vertices, every cell on one of them and the vertices  *)
(* of these cells, with the data of the file                               *)
Distributed(f) ==
  \A r \in 0 .. run.ranks - 1 :
    LET own  == {n \in DOMAIN run.part : run.part[n] = r}
        near == {c \in Mesh(f) : File(1)!NodesOf(c) \cap own # {}}
        node == run.grid[r].node
    IN /\ run.grid[r].cell = near
       /\ DOMAIN node = own \cup UNION {File(1)!NodesOf(c) : c \in near}
       /\ \A n \in DOMAIN node : node[n] = [part |-> run.part[n], real |-> f.vertex[n + 1]]

(* the vertices in their order, and each cell and CAD record once *)
Written(f) ==
  LET once(pairs, all) == /\ {p[2] : p \in pairs} = all
                          /\ Cardinality(pairs) = Cardinality(all)
  IN /\ File(run.ranks)!NodesUsedOnce(run.grid, run.total)
     /\ File(run.ranks)!ref_gather_node(run.grid, run.total, run.chunk) = f.vertex
     /\ once(File(run.ranks)!ref_gather_cell(run.grid), {File(1)!ToFile(c) : c \in Mesh(f)})
     /\ once(File(run.ranks)!ref_gather_geom(run.grid), f.geom)

(***************************************************************************)
(* A mesh file read by any number of ranks, in sections of any size, is    *)
(* the same mesh: the implicit partition gives a vertex to the rank that   *)
(* was sent it, so every dealt cell finds its vertices; each rank ends up  *)
(* with all cells on its own vertices, turned the same way on every rank;  *)
(* and what the ranks then write, each deciding for itself which cells and *)
(* CAD records are its to write, is the file again, with nothing missing   *)
(* and nothing twice.  This holds after migrations to other ranks too.     *)
(***************************************************************************)
FileRoundTrip ==
  run # NotOpen =>
    IF run.todo # <<>>
    THEN File(run.ranks)!StageSucceeds(Head(run.todo), run.grid, file(run.total))
    ELSE Distributed(file(run.total)) /\ Written(file(run.total))
=============================================================================
