------------------------------- MODULE RefAdapt -------------------------------
(***************************************************************************)
(* Parallel adaptation of a surface grid (ref_adapt_pass with              *)
(* ref_grid_surf): between two migrations every rank splits, collapses and *)
(* swaps edges and moves nodes of its own share without a word to the      *)
(* others, and relies on ownership tests alone to keep the copies other    *)
(* ranks hold true.  Then the grid is migrated to a new partition          *)
(* (RefMigrate).                                                           *)
(*                                                                         *)
(* The choice of edges and the tests on lengths, quality, normals and      *)
(* chord heights are left open: an operation may happen or not wherever    *)
(* the topology, the CAD records and the ownership allow it, in any order  *)
(* (ref_adapt_pass calls each operator several times).  A new node takes   *)
(* the smallest free number.  The cavity operators, tried when the quality *)
(* tests refuse a split or a collapse, are left out.                       *)
(***************************************************************************)
EXTENDS RefMigrate

CONSTANTS
    InitCell,      \* the cells of the starting grid
    InitGeom,      \* its CAD records, a set of <<node, type, id>>
    MaxNode,       \* largest node number: bounds the splits
    MaxOp,         \* operations in a behaviour
    MaxMove        \* nodes a migration gives to another rank

VARIABLES
    grid,          \* rank -> its share of the grid
    phase,         \* "adapt", or the next stage of the migration under way
    ops,           \* operations done so far
    failed         \* some rank returned an error

vars == <<grid, phase, ops, failed>>

InitNode == UNION {NodesOf(c) : c \in InitCell}

ASSUME GridAssumption ==
    /\ NRank \in Nat \ {0} /\ MaxNode \in Nat /\ MaxOp \in Nat
    /\ \A c \in InitCell :
         /\ c.kind \in {"tri", "edg"}
         /\ c.nodes \in [1 .. (IF c.kind = "tri" THEN 3 ELSE 2) -> Nat]
         /\ IsInjective(c.nodes)
    /\ \A c, d \in InitCell : c.kind = d.kind /\ NodesOf(c) = NodesOf(d) => c = d
    /\ ConformingDisk(InitCell, InitNode)
    /\ InitNode \subseteq 1 .. MaxNode
    /\ \A k \in InitGeom : k[1] \in InitNode /\ k[2] \in {"node", "edge", "face"}

(* the share of rank r of a grid whose nodes are owned as p says: the      *)
(* cells with an owned node, and their nodes                               *)
Share(r, p) ==
    LET cells == {c \in InitCell : \E n \in NodesOf(c) : p[n] = r}
        nodes == UNION {NodesOf(c) : c \in cells}
    IN  [node |-> [n \in nodes |-> [part |-> p[n], real |-> 0]],
         cell |-> cells,
         geom |-> [k \in {k \in InitGeom : k[1] \in nodes} |-> 0]]

Init ==
    /\ \E p \in [InitNode -> Rank] : grid = [r \in Rank |-> Share(r, p)]
    /\ phase = "adapt"
    /\ ops = 0
    /\ failed = FALSE

LiveNodes == UNION {Held(grid[r]) : r \in Rank}

(* an operation of rank r, which leaves it the share g                     *)
Commit(r, g) ==
    /\ grid' = [grid EXCEPT ![r] = g]
    /\ ops' = ops + 1
    /\ UNCHANGED <<phase, failed>>

(* an error status: the program ends                                       *)
Fail ==
    /\ failed' = TRUE
    /\ UNCHANGED <<grid, phase, ops>>

(* a collective of the migration that leaves the grid g                    *)
Stage(succeeds, g, next) ==
    IF succeeds
    THEN grid' = g /\ phase' = next /\ UNCHANGED <<ops, failed>>
    ELSE Fail

-----------------------------------------------------------------------------
(* Split                                                                   *)

(* mutant: only the ends of the edge are tested *)
ref_cell_local_gem_mutant(g, r, n0, n1) ==
    ref_node_owned(g, r, n0) /\ ref_node_owned(g, r, n1)

(* ref_cell_local_gem: every tri on the edge has only owned nodes          *)
ref_cell_local_gem(g, r, n0, n1) ==
    AllOwned(g, r, ref_cell_list_with2(g, "tri", n0, n1))

(* ref_split_edge on the tri and edg cells                                 *)
ref_split_edge(g, n0, n1, new) ==
    LET gem == UNION {ref_cell_list_with2(g, kind, n0, n1) : kind \in {"tri", "edg"}}
    IN  (g.cell \ gem) \cup {ref_cell_replace_node(c, n0, new) : c \in gem}
                       \cup {ref_cell_replace_node(c, n1, new) : c \in gem}

(* ref_split_pass on one edge: the new node and its CAD records are made   *)
(* first, and taken away again when the gem is not local                   *)
Split(r, n0, n1) ==
    LET g   == grid[r]
        new == Min((1 .. MaxNode + 1) \ LiveNodes)
        rec == {<<new>> \o k : k \in ref_geom_add_between(g, n0, n1)}
    IN  /\ ref_cell_list_with2(g, "tri", n0, n1) # {}
        /\ ref_node_owned(g, r, n0) \/ ref_node_owned(g, r, n1)
        /\ new <= MaxNode
        /\ IF ~GeomBetweenSucceeds(g, n0, n1) THEN Fail
           ELSE /\ ref_cell_local_gem(g, r, n0, n1)
                /\ Commit(r,
                     [node |-> [n \in Held(g) \cup {new} |->
                                   IF n = new THEN [part |-> r, real |-> 0]
                                              ELSE g.node[n]],
                      cell |-> ref_split_edge(g, n0, n1, new),
                      geom |-> [k \in DOMAIN g.geom \cup rec |->
                                   IF k \in rec THEN 0 ELSE g.geom[k]]])

-----------------------------------------------------------------------------
(* Collapse: node n1 goes, n0 takes its place                              *)

(* mutant: a node leaves its CAD edge *)
ref_collapse_edge_geometry_mutant(g, n0, n1) == ~ref_geom_is_a(g, n1, "node")

(* ref_collapse_edge_geometry: a CAD node stays; a node on a CAD edge      *)
(* moves along that edge only, and one on a CAD face within that face      *)
ref_collapse_edge_geometry(g, n0, n1) ==
    /\ ~ref_geom_is_a(g, n1, "node")
    /\ IF ref_geom_is_a(g, n1, "edge")
       THEN ref_cell_list_with2(g, "edg", n0, n1) # {}
       ELSE LET ids == ref_cell_id_list_around(g, "tri", n1)
                tri == ref_cell_list_with2(g, "tri", n0, n1)
            IN  \/ ids = {}
                \/ Cardinality(ids) = 1 /\ tri # {}
                \/ /\ Cardinality(ids) = 2
                   /\ Cardinality(tri) = 2
                   /\ {t.id : t \in tri} = ids

(* the cells of a kind that only exchange n1 for n0 make no second cell on *)
(* the same nodes                                                          *)
NoDuplicate(g, kind, n0, n1) ==
    \A c \in Having(g, kind, n1) \ Having(g, kind, n0) :
        ref_cell_with(g, kind, (NodesOf(c) \ {n1}) \cup {n0}) = {}

(* the nodes of the tri that vanish                                        *)
SafeNodes(g, n0, n1) ==
    UNION {NodesOf(c) : c \in ref_cell_list_with2(g, "tri", n0, n1)}

(* no other node is next to both n0 and n1                                 *)
NoNewNeighbours(g, n0, n1) ==
    ref_cell_node_list_around(g, "tri", n0) \cap ref_cell_node_list_around(g, "tri", n1)
        \subseteq SafeNodes(g, n0, n1)

(* mutant: the edg cells are not looked at *)
ref_collapse_edge_manifold_mutant(g, n0, n1) ==
    /\ NoDuplicate(g, "tri", n0, n1)
    /\ NoNewNeighbours(g, n0, n1)

(* ref_collapse_edge_manifold: the collapse makes no connection a second   *)
(* time                                                                    *)
ref_collapse_edge_manifold(g, n0, n1) ==
    /\ NoDuplicate(g, "tri", n0, n1)
    /\ NoNewNeighbours(g, n0, n1)
    /\ NoDuplicate(g, "edg", n0, n1)

(* ref_collapse_edge_local_cell                                            *)
ref_collapse_edge_local_cell(g, r, n0, n1) ==
    AllOwned(g, r, Having(g, "tri", n0) \cup Having(g, "tri", n1))

(* ref_collapse_edge                                                       *)
ref_collapse_edge(g, n0, n1) ==
    {c \in g.cell : n1 \notin NodesOf(c)} \cup
    {ref_cell_replace_node(c, n1, n0) :
        c \in {d \in g.cell : n1 \in NodesOf(d) /\ n0 \notin NodesOf(d)}}

(* ref_collapse_to_remove_node1 with one candidate n0                      *)
Collapse(r, n0, n1) ==
    LET g == grid[r]
    IN  /\ n0 \in ref_cell_node_list_around(g, "tri", n1)
        /\ ref_collapse_edge_geometry(g, n0, n1)
        /\ IF NoDuplicate(g, "tri", n0, n1)
              /\ Cardinality(SafeNodes(g, n0, n1)) \notin {3, 4} THEN Fail
           ELSE /\ ref_collapse_edge_manifold(g, n0, n1)
                /\ ref_collapse_edge_local_cell(g, r, n0, n1)
                /\ Commit(r,
                     [node |-> [n \in Held(g) \ {n1} |-> g.node[n]],
                      cell |-> ref_collapse_edge(g, n0, n1),
                      geom |-> [k \in DOMAIN g.geom \ GeomAt(g, n1) |->
                                   g.geom[k]]])

-----------------------------------------------------------------------------
(* Swap                                                                    *)

(* ref_swap_node23: the node across the tri that runs from n0 to n1        *)
ref_swap_node23(g, n0, n1) ==
    {n \in Held(g) : \E t \in ref_cell_list_with2(g, "tri", n0, n1) :
        t.nodes = Cell("tri", <<n0, n1, n>>, t.id).nodes}

(* ref_swap_manifold: neither the new tri nor the new side exist           *)
ref_swap_manifold(g, n0, n1, n2, n3) ==
    /\ ref_cell_with(g, "tri", {n0, n2, n3}) = {}
    /\ ref_cell_with(g, "tri", {n1, n2, n3}) = {}
    /\ ref_cell_list_with2(g, "tri", n2, n3) = {}

(* ref_swap_same_faceid                                                    *)
SameFace(tri) == Cardinality({t.id : t \in tri}) = 1

(* the assertions on the way: two tri, and within a face a node on either  *)
(* side                                                                    *)
SwapSucceeds(g, n0, n1) ==
    LET tri == ref_cell_list_with2(g, "tri", n0, n1)
    IN  /\ Cardinality(tri) = 2
        /\ SameFace(tri) => /\ ref_swap_node23(g, n0, n1) # {}
                            /\ ref_swap_node23(g, n1, n0) # {}

(* ref_swap_local_cell                                                     *)
ref_swap_local_cell(g, r, n0, n1) ==
    AllOwned(g, r, ref_cell_list_with2(g, "tri", n0, n1))

(* ref_swap_tri_edge                                                       *)
SwapCells(g, n0, n1, n2, n3) ==
    LET tri == ref_cell_list_with2(g, "tri", n0, n1)
    IN  (g.cell \ tri) \cup
        UNION {{Cell("tri", <<n0, n3, n2>>, t.id), Cell("tri", <<n1, n2, n3>>, t.id)}
                   : t \in tri}

(* ref_swap_tri_pass on one edge.  The tests left open may refuse any of   *)
(* these swaps: quality, normals, and ref_swap_geom_topo, which refuses to *)
(* join two nodes on a jump of the parameters (no record of a model jumps) *)
Swap(r, n0, n1) ==
    LET g   == grid[r]
        tri == ref_cell_list_with2(g, "tri", n0, n1)
    IN  /\ ref_cell_list_with2(g, "edg", n0, n1) = {}
        /\ tri # {}
        /\ ref_node_owned(g, r, n0) \/ ref_node_owned(g, r, n1)
        /\ IF ~SwapSucceeds(g, n0, n1) THEN Fail
           ELSE /\ SameFace(tri)
                /\ ref_swap_local_cell(g, r, n0, n1)
                /\ \E n2 \in ref_swap_node23(g, n0, n1),
                      n3 \in ref_swap_node23(g, n1, n0) :
                     /\ ref_swap_manifold(g, n0, n1, n2, n3)
                     /\ Commit(r, [g EXCEPT !.cell = SwapCells(g, n0, n1, n2, n3)])

-----------------------------------------------------------------------------
(* ref_smooth_local_cell_about                                             *)
ref_smooth_local_cell_about(g, r, n) == AllOwned(g, r, Having(g, "tri", n))

(* its loops over the CAD records: along a CAD edge, except its ends, and  *)
(* along a CAD face, except its edges                                      *)
SmoothGeom(g, n) ==
    \/ ref_geom_is_a(g, n, "edge") /\ ~ref_geom_is_a(g, n, "node")
    \/ ref_geom_is_a(g, n, "face") /\ ~ref_geom_is_a(g, n, "edge")

(* and over the nodes without a record on an edg, and on tri alone.  While *)
(* TopoVerified holds there are none                                       *)
SmoothFree(g, n) ==
    \/ Having(g, "edg", n) # {} /\ ~ref_geom_is_a(g, n, "edge")
    \/ /\ Having(g, "edg", n) = {} /\ Having(g, "tri", n) # {}
       /\ ~ref_geom_is_a(g, n, "face")

(* ref_smooth_pass on one node, not next to a ghost: the node moves, and   *)
(* with it the parameters it has in the CAD records                        *)
Smooth(r, n) ==
    LET g == grid[r]
    IN  /\ SmoothGeom(g, n) \/ SmoothFree(g, n)
        /\ ref_smooth_local_cell_about(g, r, n)
        /\ Commit(r,
             [node |-> [m \in Held(g) |->
                           [part |-> g.node[m].part,
                            real |-> IF m = n THEN 1 - g.node[m].real ELSE g.node[m].real]],
              cell |-> g.cell,
              geom |-> [k \in DOMAIN g.geom |->
                           IF k[1] = n /\ SmoothGeom(g, n) THEN 1 - g.geom[k]
                                                           ELSE g.geom[k]]])

(* ref_migrate_to_balance: any new partition that gives at most MaxMove    *)
(* nodes to another rank.  The synchronization of global numbers it starts *)
(* with is RefNodeSync; no ref_interp is attached to the grid, so          *)
(* ref_interp_from_part, which moves the donor grid along, is not called   *)
Moved(p) ==
    {n \in LiveNodes : \E r \in Rank : n \in Held(grid[r]) /\ grid[r].node[n].part # p[n]}

Balance ==
    /\ phase = "adapt" /\ ~failed
    /\ \E p \in [LiveNodes -> Rank] :
         /\ Cardinality(Moved(p)) \in 1 .. MaxMove
         /\ Stage(OwnersKnow(grid), ref_migrate_new_part(grid, p), "node")

(* the stages of ref_migrate_shufflin                                      *)
SendNodes ==
    phase = "node" /\ Stage(TRUE, ref_migrate_shufflin_node(grid), "geom")
SendGeom ==
    phase = "geom" /\ Stage(GeomsArrive(grid), ref_migrate_shufflin_geom(grid), "edg")
SendEdg ==
    phase = "edg" /\ Stage(CellsArrive(grid, "edg"), ref_migrate_shufflin_cell(grid, "edg"), "tri")
SendTri ==
    phase = "tri" /\ Stage(CellsArrive(grid, "tri"), ref_migrate_shufflin_cell(grid, "tri"), "tidy")
Tidy ==
    phase = "tidy" /\ Stage(TRUE, RemoveUnused(grid), "real")
FillReal ==
    phase = "real" /\ Stage(OwnersKnow(grid), ref_node_ghost_real(grid), "fill")
FillGeom ==
    phase = "fill" /\ Stage(OwnersKnow(grid), ref_geom_ghost(grid), "adapt")

(* ref_adapt_pass: any operator, on any rank, until the next migration     *)
Adapting == phase = "adapt" /\ ~failed /\ ops < MaxOp

Sides(r) == {e \in Held(grid[r]) \X Held(grid[r]) : e[1] < e[2]}

Next ==
    \/ \E r \in Rank :
         /\ Adapting
         /\ \/ \E n \in Held(grid[r]) : Smooth(r, n)
            \/ \E e \in Sides(r) : Split(r, e[1], e[2])
            \/ \E e \in Sides(r) : Swap(r, e[1], e[2])
            \/ \E n0 \in Held(grid[r]), n1 \in Held(grid[r]) : Collapse(r, n0, n1)
    \/ Balance
    \/ SendNodes \/ SendGeom \/ SendEdg \/ SendTri
    \/ Tidy \/ FillReal \/ FillGeom

Spec == Init /\ [][Next]_vars

-----------------------------------------------------------------------------
TypeOK ==
    /\ ops \in 0 .. MaxOp
    /\ failed \in BOOLEAN
    /\ phase \in {"adapt", "node", "geom", "edg", "tri", "tidy", "real", "fill"}
    /\ \A r \in Rank :
         /\ Held(grid[r]) \subseteq 1 .. MaxNode
         /\ \A n \in Held(grid[r]) : grid[r].node[n] \in [part : Rank, real : {0, 1, NoReal}]
         /\ \A c \in grid[r].cell : NodesOf(c) \subseteq Held(grid[r])
         /\ \A k \in DOMAIN grid[r].geom : grid[r].geom[k] \in {0, 1}

(* the whole grid: what the owners hold                                    *)
Mesh == UNION {grid[r].cell : r \in Rank}
OwnedNodes(r) == {n \in Held(grid[r]) : ref_node_owned(grid[r], r, n)}

(* Whatever the ranks do to their shares in between, in any order, every   *)
(* node has one owner, and every rank holds exactly the cells of the whole *)
(* grid that touch a node it owns, and the nodes of those cells, with the  *)
(* owner everybody agrees on: the ownership tests of the operators         *)
(* (ref_cell_local_gem, ref_collapse_edge_local_cell, ref_swap_local_cell) *)
(* keep the halo true and the migration rebuilds it.                       *)
HaloExact ==
    /\ TypeOK
    /\ phase = "adapt" =>
       /\ \A n \in LiveNodes : Cardinality({r \in Rank : n \in OwnedNodes(r)}) = 1
       /\ \A r \in Rank :
            /\ grid[r].cell =
                 {c \in Mesh : NodesOf(c) \cap OwnedNodes(r) # {}}
            /\ Held(grid[r]) = UNION {NodesOf(c) : c \in grid[r].cell}
            /\ \A n \in Held(grid[r]) : n \in OwnedNodes(grid[r].node[n].part)

(* A ghost is never stale: its coordinates and metric and its CAD records  *)
(* with their parameters are the owner's, between operators as well as     *)
(* after a migration.  ref_migrate_shufflin_node overwrites the owner's    *)
(* data with what any former holder of the node sends: only this makes     *)
(* that harmless.                                                          *)
GhostsFresh == phase = "adapt" =>
    \A r \in Rank : \A n \in Held(grid[r]) :
        LET o == grid[grid[r].node[n].part]
        IN  /\ n \in Held(o) /\ o.node[n].real = grid[r].node[n].real
            /\ GeomAt(o, n) = GeomAt(grid[r], n)
            /\ \A k \in GeomAt(o, n) : o.geom[k] = grid[r].geom[k]

(* the check of ref_geom_verify_topo on one share                          *)
ref_geom_verify_topo(g, r) ==
    /\ \A k \in DOMAIN g.geom : k[1] \in Held(g)
    /\ \A n \in Held(g) :
         LET no_edge == Having(g, "edg", n) = {}
             no_face == Having(g, "tri", n) = {}
             count(type) == Cardinality({k \in GeomAt(g, n) : k[2] = type})
         IN  /\ ref_node_owned(g, r, n) =>
                  /\ ref_geom_is_a(g, n, "node") => ~no_edge /\ ~no_face
                  /\ ref_geom_is_a(g, n, "edge") => ~no_edge /\ ~no_face
                  /\ ref_geom_is_a(g, n, "face") => ~no_face
             /\ ~no_edge => ref_geom_is_a(g, n, "edge")
             /\ ~no_face => ref_geom_is_a(g, n, "face")
             /\ ref_geom_is_a(g, n, "edge") /\ ~ref_geom_is_a(g, n, "node") => count("edge") = 1
             /\ ref_geom_is_a(g, n, "face") /\ ~ref_geom_is_a(g, n, "edge") => count("face") = 1
    /\ \A c \in g.cell : c.kind = "edg" =>
           Cardinality(ref_cell_with(g, "edg", NodesOf(c))) = 1

(* ref_geom_tri_supported asks one node of a tri, the first it is stored   *)
(* with, whether the tri lies on a CAD face: any other would say the same  *)
SupportAgrees(g) ==
    \A t \in g.cell : t.kind = "tri" =>
        \A n, m \in NodesOf(t) :
            <<n, "face", t.id>> \in DOMAIN g.geom <=> <<m, "face", t.id>> \in DOMAIN g.geom

(* The pre- and postflight check ref_adapt_pass makes of the grid and its  *)
(* CAD records, ref_geom_verify_topo, passes on every rank at any time,    *)
(* the nodes of a tri agree on the CAD face they give it, and no assertion *)
(* of the operators or of the migration ever fails.                        *)
TopoVerified ==
    /\ ~failed
    /\ phase = "adapt" =>
         \A r \in Rank : ref_geom_verify_topo(grid[r], r) /\ SupportAgrees(grid[r])

(* The whole grid stays a conforming disk of CAD faces (ConformingDisk):   *)
(* no operator on a share, with the part of the grid it can see, opens a   *)
(* seam, joins two sheets, loses a CAD edge or changes the topology.       *)
MeshConforms == phase = "adapt" => ConformingDisk(Mesh, LiveNodes)
=============================================================================
