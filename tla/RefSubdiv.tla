------------------------------ MODULE RefSubdiv ------------------------------
(***************************************************************************)
(* ref_subdiv_split of ref_subdiv.c, run by all ranks of a partitioned     *)
(* mesh of tets, pyramids and prisms: agree on the edges to split, create  *)
(* the nodes on them, and replace the cells.                               *)
(*                                                                         *)
(* A rank holds the cells that touch a node it owns, so an edge between    *)
(* two parts is held, and marked, by several ranks; the rank that owns the *)
(* lower-numbered node owns the edge.  A sweep changes the marks of one    *)
(* rank, with the cells in the order it stores them; the exchanges of      *)
(* ref_edge.c then make the marks agree.  Between two exchanges a rank     *)
(* sees only its own marks, so sweeps of different ranks interleave.       *)
(*                                                                         *)
(* Marks are sets of edges and an edge is the set of its two nodes.  The   *)
(* geometry enters as the splits that would invert a tet (a node created   *)
(* on a curved edge may be off the chord) and the edges that need support. *)
(***************************************************************************)
EXTENDS RefSubdivSplit, SequencesExt

CONSTANTS
  Rank,         \* MPI ranks
  Mesh,         \* the cells of the mesh, with global numbers as nodes
  Part,         \* the rank that owns each node
  Orders,       \* the orders in which a rank may store its cells
  Asked,        \* the sets of edges a rank may ask for
  Inversions,   \* sets of pairs of a tet and the marks that would invert it
  Supports,     \* sets of edges the geometry may claim
  SweepLimit    \* sweeps after which an unmark loop gives up

ASSUME MeshAssumption ==
  /\ IsFiniteSet(Mesh)
  /\ \A c \in Mesh : /\ c.kind \in {"tet", "pyr", "pri"}
                     /\ DOMAIN c.nodes = 0 .. NodePer(c.kind) - 1
                     /\ \A i \in DOMAIN c.nodes : c.nodes[i] \in DOMAIN Part \cap Nat
                     /\ IsInjective(c.nodes)
  /\ \A n \in DOMAIN Part : Part[n] \in Rank
  /\ Orders \subseteq Seq(Mesh)
ASSUME SweepLimitAssumption == SweepLimit \in Nat \ {0}

VARIABLES
  mark,       \* the edges each rank has marked, ref_subdiv->mark
  node,       \* the edges each rank has a new node for, ref_subdiv->node
  cells,      \* the cells each rank holds
  phase,      \* where in ref_subdiv_split the ranks are
  swept,      \* ranks that have finished the current sweep
  again,      \* ranks whose current sweep changed something
  nsweeps,    \* sweeps of the current unmark_relax
  rounds,     \* rounds of unmark_neg_tet_relax
  input       \* what does not change: options, storage order, geometry

vars == <<mark, node, cells, phase, swept, again, nsweeps, rounds, input>>

------------------------------------------------------------------------------
(* The mesh *)

NodesOf(c) == {c.nodes[i] : i \in DOMAIN c.nodes}
Held(r) == {c \in Mesh : \E n \in NodesOf(c) : Part[n] = r}

(* ref_subdiv_c2e, and the edges of the cell with the given numbers *)
c2e(c, k) == {c.nodes[EdgeNode(c.kind, 0, k)], c.nodes[EdgeNode(c.kind, 1, k)]}
EdgesOf(c, set) == {c2e(c, k) : k \in set}
CellEdges(c) == EdgesOf(c, EdgeNumbers(c.kind))

(* ref_edge_create: the edges of the cells a rank holds, each once *)
ref_edge_create(r) == UNION {CellEdges(c) : c \in Held(r)}
Edges == UNION {CellEdges(c) : c \in Mesh}
HeldEdges == [r \in Rank |-> ref_edge_create(r)]

Low(e) == CHOOSE n \in e : \A m \in e : n <= m
High(e) == CHOOSE n \in e : \A m \in e : n >= m
ref_edge_part(e) == Part[Low(e)]

(* a cell of the mesh with vertices for nodes *)
Parent(c) == Cell(c.kind, [i \in DOMAIN c.nodes |-> {c.nodes[i]}])

(* the part of a vertex of the split mesh: of a node, or of an edge's node *)
VertexPart(v) == Part[Low(v)]

(* ref_subdiv_map: the numbers of the marked edges of a cell *)
ref_subdiv_map(c, m) == {k \in EdgeNumbers(c.kind) : c2e(c, k) \in m}

------------------------------------------------------------------------------
(* The exchanges of ref_edge.c *)

(* every holder takes the owner's value *)
ref_edge_ghost_int(m) ==
  [r \in Rank |-> {e \in HeldEdges[r] : e \in m[ref_edge_part(e)]}]

(* every holder takes the least value of all holders *)
ref_edge_ghost_min_int(m) ==
  [r \in Rank |-> {e \in HeldEdges[r] : \A s \in Rank : e \in HeldEdges[s] => e \in m[s]}]

------------------------------------------------------------------------------
(* A loop over a list that changes the marks: F[x][m] is what entry x makes *)
(* of the marks m                                                           *)

InTurn(F, m, list) ==
  LET after[k \in 0 .. Len(list)] ==
        IF k = 0 THEN m ELSE F[list[k]][after[k - 1]]
  IN after[Len(list)]

------------------------------------------------------------------------------
(* ref_subdiv_mark_relax: a rule names some edges of a cell and how many of *)
(* them must be marked for all of them to become marked (edge_or is 1 of 2, *)
(* promote_2_3 is 2 of 3, promote_2_all is 2 of 6).  The last one tests     *)
(* edge numbers where it means marks; no two edges of a tet are edge 0, so  *)
(* its test always holds.                                                   *)

Rules(kind) ==
  CASE kind = "tet" -> << <<2, {3,4,5}>>, <<2, {1,2,5}>>, <<2, {0,2,4}>>,
                          <<2, {0,1,3}>>, <<2, 0 .. 5>> >>
    [] kind = "pyr" -> << <<1, {0,7}>>, <<1, {2,4}>> >>
    [] kind = "pri" -> << <<1, {0,6}>>, <<1, {3,8}>>, <<1, {1,7}>>,
                          <<2, {0,1,3}>>, <<2, {6,7,8}>> >>

Promoted(m, c, rule) ==
  IF Cardinality(EdgesOf(c, rule[2]) \cap m) = rule[1]
  THEN m \cup EdgesOf(c, rule[2]) ELSE m

PromoteCell(m, c) ==
  InTurn([rule \in ToSet(Rules(c.kind)) |->
            [acc \in SUBSET Edges |-> Promoted(acc, c, rule)]],
         m, Rules(c.kind))

PromoteSweep(r, m) ==
  InTurn([c \in Mesh |-> [acc \in SUBSET Edges |-> PromoteCell(acc, c)]],
         m, input.order[r])

------------------------------------------------------------------------------
(* ref_subdiv_unmark_one_of_two: of two edges the one with the larger       *)
(* global numbers loses its mark                                            *)

Before(e, f) == \/ Low(e) < Low(f)
                \/ Low(e) = Low(f) /\ High(e) < High(f)

(* mutant: only the lower numbers are compared *)
UnmarkOneOfTwo_mutant(m, e, f) == m \ {IF Low(e) < Low(f) THEN f ELSE e}

UnmarkOneOfTwo(m, e, f) == m \ {IF Before(e, f) THEN f ELSE e}

(* a face with two marks loses one *)
ref_subdiv_unmark_tet_face(m, t, face) ==
  LET two == EdgesOf(t, face) \cap m
  IN IF Cardinality(two) # 2 THEN m
     ELSE LET e == CHOOSE e \in two : TRUE
              f == CHOOSE f \in two : f # e
          IN UnmarkOneOfTwo(m, e, f)

ref_subdiv_unmark_tet_opp_edge(m, t, pair) ==
  IF EdgesOf(t, {pair[1], pair[2]}) \subseteq m
  THEN UnmarkOneOfTwo(m, c2e(t, pair[1]), c2e(t, pair[2])) ELSE m

TetFaces == << {3,4,5}, {1,2,5}, {0,4,2}, {0,1,3} >>
TetOpposites == << <<0,5>>, <<1,4>>, <<2,3>> >>

UnmarkFaces(m, t) ==
  InTurn([face \in ToSet(TetFaces) |->
            [acc \in SUBSET Edges |-> ref_subdiv_unmark_tet_face(acc, t, face)]],
         m, TetFaces)

UnmarkOpposites(m, t) ==
  InTurn([pair \in ToSet(TetOpposites) |->
            [acc \in SUBSET Edges |-> ref_subdiv_unmark_tet_opp_edge(acc, t, pair)]],
         m, TetOpposites)

ref_subdiv_unmark_tet(m, t) ==
  LET faced == UnmarkFaces(m, t)
  IN IF Cardinality(CellEdges(t) \cap faced) = 2 THEN UnmarkOpposites(faced, t) ELSE faced

(* pyramids and prisms are passed over *)
UnmarkCell(m, c) == IF c.kind = "tet" THEN ref_subdiv_unmark_tet(m, c) ELSE m

UnmarkSweep(r, m) ==
  InTurn([c \in Mesh |-> [acc \in SUBSET Edges |-> UnmarkCell(acc, c)]],
         m, input.order[r])

(* ref_subdiv_unmark_neg_tet_geom_support: a tet whose split has a negative *)
(* volume loses all its marks; patterns without a template are passed over *)
UnmarkNegTet(m, t) ==
  LET map == ref_subdiv_map(t, m)
  IN IF t.kind = "tet" /\ map \in TetMaps /\ <<t, map>> \in input.inverted
     THEN m \ CellEdges(t) ELSE m

UnmarkNegSweep(r, m) ==
  InTurn([c \in Mesh |-> [acc \in SUBSET Edges |-> UnmarkNegTet(acc, c)]],
         m, input.order[r])

------------------------------------------------------------------------------
(* Phases.  allow_geometry is set by ref_subdiv_create and new_mark_allowed *)
(* is cleared by ref_split_pass.                                            *)

AfterStart == IF ~input.allow_geometry THEN "geom"
              ELSE IF input.new_mark_allowed THEN "relax" ELSE "new_node"

Init ==
  /\ input \in [allow_geometry : BOOLEAN, new_mark_allowed : BOOLEAN,
                order : [Rank -> Orders], inverted : Inversions,
                support : Supports, asked : [Rank -> Asked]]
  /\ \A r \in Rank : /\ input.asked[r] \subseteq HeldEdges[r]
                     /\ ToSet(input.order[r]) = Held(r)
  /\ mark = input.asked
  /\ node = [r \in Rank |-> {}]
  /\ cells = [r \in Rank |-> {Parent(c) : c \in Held(r)}]
  /\ phase = "start"
  /\ swept = {} /\ again = {} /\ nsweeps = 0 /\ rounds = 0

(* mutant: a sweep that changes nothing asks for another *)
Sweep_mutant(r, new) ==
  /\ r \notin swept
  /\ mark' = [mark EXCEPT ![r] = new]
  /\ swept' = swept \cup {r}
  /\ again' = again \cup {r}
  /\ UNCHANGED <<node, cells, phase, nsweeps, rounds, input>>

(* a sweep of rank r that turns its marks into new *)
Sweep(r, new) ==
  /\ r \notin swept
  /\ mark' = [mark EXCEPT ![r] = new]
  /\ swept' = swept \cup {r}
  /\ again' = IF new # mark[r] THEN again \cup {r} ELSE again
  /\ UNCHANGED <<node, cells, phase, nsweeps, rounds, input>>

(* ref_mpi_all_or closes a sweep: go round, or on to the next phase *)
CloseSweep(next) ==
  /\ swept' = {} /\ again' = {}
  /\ phase' = IF again # {} THEN phase ELSE next

Begin ==
  /\ phase = "start"
  /\ phase' = AfterStart
  /\ mark' = IF AfterStart = "new_node" THEN mark ELSE ref_edge_ghost_int(mark)
  /\ UNCHANGED <<node, cells, swept, again, nsweeps, rounds, input>>

MarkRelaxSweep(r) == phase = "relax" /\ Sweep(r, PromoteSweep(r, mark[r]))

(* mutant: the ghosts keep what they promoted *)
MarkRelaxExchange_mutant ==
  /\ phase = "relax" /\ swept = Rank
  /\ mark' = mark
  /\ CloseSweep(IF input.allow_geometry THEN "possible" ELSE "geom_again")
  /\ UNCHANGED <<node, cells, nsweeps, rounds, input>>

MarkRelaxExchange ==
  /\ phase = "relax" /\ swept = Rank
  /\ mark' = ref_edge_ghost_int(mark)
  /\ CloseSweep(IF input.allow_geometry THEN "possible" ELSE "geom_again")
  /\ UNCHANGED <<node, cells, nsweeps, rounds, input>>

(* ref_subdiv_unmark_geom_support, before and after new marks are made; the *)
(* next loop starts with an exchange of its own                             *)
UnmarkGeomSupport ==
  /\ phase \in {"geom", "geom_again"}
  /\ LET kept == [r \in Rank |-> ref_edge_ghost_int(mark)[r] \ input.support]
     IN mark' = ref_edge_ghost_int(kept)
  /\ phase' = IF phase = "geom" /\ input.new_mark_allowed THEN "relax"
              ELSE IF phase = "geom" THEN "geom_again" ELSE "unmark"
  /\ UNCHANGED <<node, cells, swept, again, nsweeps, rounds, input>>

(* ref_subdiv_test_impossible_marks: a rank that holds a prism with marks   *)
(* no template is for returns an error; tets and pyramids are not looked at *)
Possible(r) == \A c \in Held(r) : c.kind = "pri" => ref_subdiv_map(c, mark[r]) \in PriMaps

TestImpossibleMarks ==
  /\ phase \in {"possible", "possible_again"}
  /\ phase' = IF \E r \in Rank : ~Possible(r) THEN "failed"
              ELSE IF phase = "possible" THEN "new_node" ELSE "new_node_again"
  /\ UNCHANGED <<mark, node, cells, swept, again, nsweeps, rounds, input>>

(* mutant: the nodes of unmarked edges stay *)
NewNode_mutant ==
  /\ phase \in {"new_node", "new_node_again"}
  /\ node' = [r \in Rank |-> node[r] \cup
                             {e \in HeldEdges[r] : e \in mark[ref_edge_part(e)]}]
  /\ phase' = IF phase = "new_node" THEN "unmark" ELSE "split"
  /\ mark' = IF phase = "new_node" THEN ref_edge_ghost_int(mark) ELSE mark
  /\ UNCHANGED <<cells, swept, again, nsweeps, rounds, input>>

(* ref_subdiv_new_node: drop the nodes of unmarked edges, let the owner     *)
(* make a node for every marked edge, and tell the other holders            *)
NewNode ==
  /\ phase \in {"new_node", "new_node_again"}
  /\ node' = [r \in Rank |-> (node[r] \cap mark[r]) \cup
                             {e \in HeldEdges[r] : e \in mark[ref_edge_part(e)]}]
  /\ phase' = IF phase = "new_node" THEN "unmark" ELSE "split"
  /\ mark' = IF phase = "new_node" THEN ref_edge_ghost_int(mark) ELSE mark
  /\ UNCHANGED <<cells, swept, again, nsweeps, rounds, input>>

UnmarkRelaxSweep(r) == phase = "unmark" /\ Sweep(r, UnmarkSweep(r, mark[r]))

UnmarkRelaxExchange ==
  /\ phase = "unmark" /\ swept = Rank
  /\ mark' = ref_edge_ghost_min_int(mark)
  /\ nsweeps' = IF again = {} THEN 0 ELSE nsweeps + 1
  /\ IF nsweeps + 1 = SweepLimit
     THEN phase' = "failed" /\ UNCHANGED <<swept, again>>
     ELSE CloseSweep(IF input.allow_geometry THEN "neg" ELSE "possible_again")
  /\ UNCHANGED <<node, cells, rounds, input>>

UnmarkNegSweepOf(r) == phase = "neg" /\ Sweep(r, UnmarkNegSweep(r, mark[r]))

(* the closing exchange of unmark_neg_tet_relax, or the first of the next   *)
(* unmark_relax, follows: both give the owner's marks to every holder       *)
UnmarkNegExchange ==
  /\ phase = "neg" /\ swept = Rank
  /\ mark' = ref_edge_ghost_int(ref_edge_ghost_min_int(mark))
  /\ rounds' = rounds + 1
  /\ swept' = {} /\ again' = {}
  /\ phase' = IF rounds + 1 = SweepLimit THEN "failed"
              ELSE IF again # {} THEN "unmark" ELSE "possible_again"
  /\ UNCHANGED <<node, cells, nsweeps, input>>

(* ref_subdiv_split_tet, _pri and _pyr on one rank, which add the children  *)
(* it shares with ref_subdiv_add_local_cell, and the check that no node of  *)
(* the rank is left without a cell.  A pattern without a template, or a     *)
(* marked edge without a node, is a failure.                                *)
Maps(kind) == CASE kind = "tet" -> TetMaps [] kind = "pri" -> PriMaps
                [] kind = "pyr" -> PyrMaps

ChildrenOf(c, m) ==
  LET map == ref_subdiv_map(c, m)
      n   == Parent(c).nodes
  IN CASE c.kind = "tet" -> SplitTet(n, map)
       [] c.kind = "pri" -> SplitPri(n, map)
       [] c.kind = "pyr" -> SplitPyr(n, map)

ref_subdiv_add_local_cell(r, cell) ==
  \E i \in DOMAIN cell.nodes : VertexPart(cell.nodes[i]) = r

Splittable(r) == /\ mark[r] \subseteq node[r]
                 /\ \A c \in Held(r) : ref_subdiv_map(c, mark[r]) \in Maps(c.kind)

(* mutant: children the rank has no part in are kept *)
LeftOver_mutant(r) == UNION {ChildrenOf(c, mark[r]) : c \in Held(r)}

LeftOver(r) ==
  UNION {{child \in ChildrenOf(c, mark[r]) :
            ref_subdiv_map(c, mark[r]) = {} \/ ref_subdiv_add_local_cell(r, child)} :
         c \in Held(r)}

NodeUnused(r) ==
  \E v \in {{n} : n \in UNION {NodesOf(c) : c \in Held(r)}} \cup node[r] :
    /\ VertexPart(v) = r
    /\ \A c \in LeftOver(r) : \A i \in DOMAIN c.nodes : c.nodes[i] # v

SplitCells(r) ==
  /\ phase = "split" /\ r \notin swept
  /\ IF Splittable(r) /\ ~NodeUnused(r)
     THEN /\ cells' = [cells EXCEPT ![r] = LeftOver(r)]
          /\ phase' = IF swept \cup {r} = Rank THEN "done" ELSE phase
     ELSE cells' = cells /\ phase' = "failed"
  /\ swept' = swept \cup {r}
  /\ UNCHANGED <<mark, node, again, nsweeps, rounds, input>>

Next == \/ Begin \/ MarkRelaxExchange \/ UnmarkGeomSupport \/ NewNode
        \/ UnmarkRelaxExchange \/ UnmarkNegExchange \/ TestImpossibleMarks
        \/ \E r \in Rank : \/ MarkRelaxSweep(r) \/ UnmarkRelaxSweep(r)
                           \/ UnmarkNegSweepOf(r) \/ SplitCells(r)

Spec == Init /\ [][Next]_vars /\ WF_vars(Next)

------------------------------------------------------------------------------
(* Reference notions *)

(* no rule extends the marks *)
Closed(m) ==
  \A c \in Mesh : \A rule \in ToSet(Rules(c.kind)) :
    Cardinality(EdgesOf(c, rule[2]) \cap m) = rule[1] => EdgesOf(c, rule[2]) \subseteq m

(* a caller may mark an edge it does not own; only the owner's mark counts *)
Requested == {e \in Edges : e \in input.asked[ref_edge_part(e)]}

Agreed == UNION {mark[r] : r \in Rank}

------------------------------------------------------------------------------
(***************************************************************************)
(* What ref_subdiv_mark_relax hands on depends on the owners' requests     *)
(* only, not on the partition, the order of the cells or the interleaving: *)
(* every rank ends with the least closed set of marks, as far as it holds  *)
(* the edges, although each exchange takes back what a rank promoted on    *)
(* edges it does not own.                                                  *)
(***************************************************************************)
RelaxLeastClosure ==
  input.new_mark_allowed /\ phase \in {"possible", "geom_again"} =>
    LET asked == IF input.allow_geometry THEN Requested ELSE Requested \ input.support
    IN /\ asked \subseteq Agreed /\ Closed(Agreed)
       /\ \A m \in SUBSET Edges : asked \subseteq m /\ Closed(m) => Agreed \subseteq m
       /\ \A r \in Rank : mark[r] = Agreed \cap HeldEdges[r]

(***************************************************************************)
(* Whenever nodes on marked edges are looked up (the volume test of        *)
(* unmark_neg_tet and the templates) every marked edge has its node, and   *)
(* when the cells are split all ranks agree on the marks, have nodes for   *)
(* just those edges, and every tet has a pattern a template exists for.    *)
(***************************************************************************)
SplitReady ==
  /\ phase = "neg" => \A r \in Rank : mark[r] \subseteq node[r]
  /\ phase = "split" =>
       \A r \in Rank : /\ node[r] = mark[r]
                       /\ mark[r] = Agreed \cap HeldEdges[r]
                       /\ \A c \in Held(r) :
                            c.kind = "tet" => ref_subdiv_map(c, mark[r]) \in TetMaps

(***************************************************************************)
(* After the split each rank holds exactly the cells of the split mesh     *)
(* that touch a vertex it owns: the children are made independently from   *)
(* the parents each rank holds, and no rank is ever told of a child.       *)
(***************************************************************************)
HaloComplete ==
  phase = "done" =>
    \A r \in Rank :
      cells[r] = {child \in UNION {ChildrenOf(c, Agreed) : c \in Mesh} :
                    \E i \in DOMAIN child.nodes : VertexPart(child.nodes[i]) = r}

(***************************************************************************)
(* A mesh of tets with fewer edges than the limit on sweeps is always      *)
(* split: every sweep but the last takes a mark away, so neither limit is  *)
(* hit, no pattern is without a template and no node is left unused.  And  *)
(* of any mesh some edge is split: taking marks away to reach possible     *)
(* patterns never takes them all away.  Without new marks and without      *)
(* trouble from the geometry the requested edge with the least global      *)
(* numbers is split, so a caller that repeats its request makes progress.  *)
(* (The comment at ref_subdiv.c:438 says "unmark the edge with the         *)
(* smallest edge globals"; the code below it, 447-459, unmarks the other   *)
(* one, and the smallest is what stays.)                                   *)
(***************************************************************************)
SplitProgress ==
  /\ (\A c \in Mesh : c.kind = "tet") /\ Cardinality(Edges) + 1 < SweepLimit
     => phase # "failed"
  /\ /\ phase = "split" /\ ~input.new_mark_allowed
     /\ input.inverted = {} /\ input.support = {} /\ Requested # {}
     => (CHOOSE e \in Requested : \A f \in Requested : e = f \/ Before(e, f)) \in Agreed

(***************************************************************************)
(* Every relaxation comes to an end, whatever the geometry refuses: all    *)
(* ranks return, with the split made or with an error (for a mesh of tets  *)
(* SplitProgress excludes the error).                                      *)
(***************************************************************************)
Terminates == <>(phase \in {"done", "failed"})
=============================================================================
