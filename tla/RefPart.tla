------------------------------- MODULE RefPart -------------------------------
(***************************************************************************)
(* Reading a mesh file in parallel (ref_part.c): rank 0 reads the file in  *)
(* sections and deals its vertices and cells to the ranks by the implicit  *)
(* partition, arithmetic on numbers that every rank does for itself.       *)
(*                                                                         *)
(* A file is a record                                                      *)
(*   vertex : the sequence of vertex data                                  *)
(*   cell   : the sequence of cells [kind, nodes, id], vertices from 1     *)
(*   geom   : a set of CAD records [node, type, id, param]                 *)
(* and the result a grid as in RefMigrate, with nodes numbered from 0.     *)
(* Messages between two ranks arrive in the order they are sent, so what a *)
(* rank receives is a function of the file.                                *)
(***************************************************************************)
EXTENDS RefMigrate
LOCAL INSTANCE SequencesExt
LOCAL Shape == INSTANCE RefCellShape

-----------------------------------------------------------------------------
(* The implicit partition (ref_part.h)                                     *)

large_part_size(total, parts) == (total + parts - 1) \div parts
small_part_size(total, parts) == (total - 1) \div parts
n_large_part(total, parts) == total - parts * small_part_size(total, parts)
total_large(total, parts) == n_large_part(total, parts) * large_part_size(total, parts)

ref_part_first(total, parts, part) ==
    IF part < n_large_part(total, parts)
    THEN part * large_part_size(total, parts)
    ELSE (part - n_large_part(total, parts)) * small_part_size(total, parts)
         + total_large(total, parts)

(* mutant: all parts are taken to be large *)
ref_part_implicit_mutant(total, parts, thing) == thing \div large_part_size(total, parts)

ref_part_implicit(total, parts, thing) ==
    IF thing \div large_part_size(total, parts) < n_large_part(total, parts)
    THEN thing \div large_part_size(total, parts)
    ELSE (thing - total_large(total, parts)) \div small_part_size(total, parts)
         + n_large_part(total, parts)

Part(file, n) == ref_part_implicit(Len(file.vertex), NRank, n)

-----------------------------------------------------------------------------
(* the sequence cut into sections of at most chunk entries                 *)
Sections(s, chunk) ==
    [i \in 1 .. (Len(s) + chunk - 1) \div chunk |->
        SubSeq(s, (i - 1) * chunk + 1, Min({i * chunk, Len(s)}))]

(* ref_part_node: rank 0 keeps the first vertices of the file and sends    *)
(* each worker as many as it has from the next on                          *)
ref_part_node(file) ==
    LET total == Len(file.vertex)
        first(r) == ref_part_first(total, NRank, r)
    IN  [r \in Rank |->
            [node |-> [n \in first(r) .. first(r + 1) - 1 |->
                          [part |-> r, real |-> file.vertex[n + 1]]],
             cell |-> {},
             geom |-> [k \in {} |-> 0]]]

(* the nodes of a cell as the file has them, from 0 and for a pyramid in   *)
(* the order of ref_cell                                                   *)
FromFile(c) ==
    LET n == [i \in DOMAIN c.nodes |-> c.nodes[i] - 1]
    IN  [c EXCEPT !.nodes = IF c.kind = "pyr" THEN <<n[1], n[4], n[5], n[2], n[3]>> ELSE n]

(* ref_cell_add_many_global: nodes of other parts are added, the parts     *)
(* written, and a cell is added unless there is one on the same nodes      *)
add_many_global(g, r, cells, part) ==
    LET named == UNION {NodesOf(c) : c \in ToSet(cells)}
        new   == {n \in named : part[n] # r}
        add(have, c) == IF \E d \in have : d.kind = c.kind /\ NodesOf(d) = NodesOf(c)
                        THEN have ELSE have \cup {c}
    IN  [g EXCEPT
            !.node = [n \in Held(g) \cup new |->
                         [part |-> IF n \in named THEN part[n] ELSE @[n].part,
                          real |-> IF n \in Held(g) THEN @[n].real ELSE NoReal]],
            !.cell = FoldLeft(add, @, cells)]

(* ref_part_meshb_cell: each section is dealt by the first node of a cell  *)
Dealt(file, section, r) == SelectSeq(section, LAMBDA c : Part(file, c.nodes[1]) = r)

CellsOf(file, kind) ==
    LET raw == SelectSeq(file.cell, LAMBDA c : c.kind = kind)
    IN  [i \in DOMAIN raw |-> FromFile(raw[i])]

DealCells(grid, file, chunk, kind) ==
    LET part == [n \in 0 .. Len(file.vertex) - 1 |-> Part(file, n)]
    IN  [r \in Rank |->
            FoldLeft(LAMBDA g, section : add_many_global(g, r, Dealt(file, section, r), part),
                     grid[r], Sections(CellsOf(file, kind), chunk))]

(* a rank that is dealt a cell has the nodes that are its own              *)
DealSucceeds(grid, file, kind) ==
    \A i \in DOMAIN CellsOf(file, kind) :
        LET c == CellsOf(file, kind)[i]
            r == Part(file, c.nodes[1])
        IN  r \in Rank /\ \A m \in NodesOf(c) : Part(file, m) = r => m \in Held(grid[r])

(* ref_part_meshb_geom_bcast: every rank sees every record and keeps those *)
(* of nodes it holds                                                       *)
ref_part_meshb_geom_bcast(grid, file) ==
    [r \in Rank |->
        LET key(k) == <<k.node - 1, k.type, k.id>>
            held == {k \in file.geom : k.node - 1 \in Held(grid[r])}
        IN  [grid[r] EXCEPT !.geom =
                [x \in {key(k) : k \in held} |-> (CHOOSE k \in held : key(k) = x).param]]]

(* ref_grid_inward_boundary_orientation: a tri on a face of a pyramid the   *)
(* rank holds, seen from its other side, is turned around.  The pyramid is *)
(* the one kind of volume cell here, so a tri cannot be turned by cells of *)
(* two kinds ("flip set twice").                                           *)
FacesOf(c) == {[i \in DOMAIN f |-> c.nodes[f[i] + 1]] : f \in ToSet(Shape!F2N(c.kind))}

ref_grid_inward_boundary_orientation(g) ==
    LET outward(t) == \E c \in g.cell :
                         /\ c.kind = "pyr"
                         /\ \E f \in FacesOf(c) :
                               Shape!Polygon(f) = Shape!Reversed(Arrows(t))
        turned(c) == IF c.kind = "tri" /\ outward(c)
                     THEN [c EXCEPT !.nodes = Reverse(@)] ELSE c
    IN  [g EXCEPT !.cell = {turned(c) : c \in @}]

(* ref_cell_with_face: no tri has a volume cell on both sides ("boundary   *)
(* triangle with two cells")                                               *)
InwardSucceeds(g) ==
    \A t \in g.cell : t.kind = "tri" =>
        \A c, d \in {e \in g.cell : /\ e.kind = "pyr"
                                   /\ \E f \in FacesOf(e) : Range(f) = NodesOf(t)} :
            c = d

Inward(grid) == [r \in Rank |-> ref_grid_inward_boundary_orientation(grid[r])]

-----------------------------------------------------------------------------
(* ref_part_meshb as the stages the ranks go through together: the nodes,  *)
(* each kind of cell in turn (ref_part_meshb_cell ends in                  *)
(* ref_migrate_shufflin_cell, which brings the cells to all their owners), *)
(* the CAD records, then the ghosts are filled and the boundary is turned  *)
(* inward                                                                  *)
ref_part_meshb ==
    << <<"part_node">>,
       <<"part_cell", "edg">>, <<"shufflin_cell", "edg">>,
       <<"part_cell", "tri">>, <<"shufflin_cell", "tri">>,
       <<"part_cell", "pyr">>, <<"shufflin_cell", "pyr">>,
       <<"part_geom">>, <<"geom_ghost">>, <<"ghost_real">>, <<"inward">> >>

(* and ref_migrate_to_balance to the parts p                               *)
ref_migrate_to_balance ==
    << <<"new_part">>, <<"shufflin_node">>, <<"shufflin_geom">>,
       <<"shufflin_cell", "edg">>, <<"shufflin_cell", "tri">>, <<"shufflin_cell", "pyr">>,
       <<"remove_unused">>, <<"ghost_real">>, <<"geom_ghost">> >>

Stage(stage, grid, file, chunk, p) ==
    CASE stage[1] = "part_node"     -> ref_part_node(file)
      [] stage[1] = "part_cell"     -> DealCells(grid, file, chunk, stage[2])
      [] stage[1] = "shufflin_cell" -> ref_migrate_shufflin_cell(grid, stage[2])
      [] stage[1] = "part_geom"     -> ref_part_meshb_geom_bcast(grid, file)
      [] stage[1] = "geom_ghost"    -> ref_geom_ghost(grid)
      [] stage[1] = "ghost_real"    -> ref_node_ghost_real(grid)
      [] stage[1] = "inward"        -> Inward(grid)
      [] stage[1] = "new_part"      -> ref_migrate_new_part(grid, p)
      [] stage[1] = "shufflin_node" -> ref_migrate_shufflin_node(grid)
      [] stage[1] = "shufflin_geom" -> ref_migrate_shufflin_geom(grid)
      [] stage[1] = "remove_unused" -> RemoveUnused(grid)

StageSucceeds(stage, grid, file) ==
    CASE stage[1] = "part_cell"     -> DealSucceeds(grid, file, stage[2])
      [] stage[1] = "shufflin_cell" -> CellsArrive(grid, stage[2])
      [] stage[1] = "shufflin_geom" -> GeomsArrive(grid)
      [] stage[1] = "inward"        -> \A r \in Rank : InwardSucceeds(grid[r])
      [] stage[1] \in {"geom_ghost", "ghost_real", "new_part"} -> OwnersKnow(grid)
      [] OTHER -> TRUE
=============================================================================
