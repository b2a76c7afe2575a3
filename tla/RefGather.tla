------------------------------ MODULE RefGather ------------------------------
(***************************************************************************)
(* Writing a distributed mesh to one file (ref_gather.c): rank 0 writes    *)
(* the vertices in the order of their numbers, then for each kind of cell  *)
(* and CAD record its own and what the workers send, one after the other.  *)
(* What a rank sends is up to that rank alone.                             *)
(***************************************************************************)
EXTENDS RefPart
LOCAL INSTANCE SequencesExt

Owners(grid, n) == {r \in Rank : n \in Held(grid[r]) /\ ref_node_owned(grid[r], r, n)}

(* ref_gather_node: section by section the owners' data are summed over    *)
(* the ranks, and so is the number of owners                               *)
ref_gather_node(grid, total, limit) ==
    LET chunk == Min({total \div NRank + 1, limit})
        sum(n) == MapThenSumSet(LAMBDA r : grid[r].node[n].real, Owners(grid, n))
        write(out, section) == out \o [i \in DOMAIN section |-> sum(section[i])]
    IN  FoldLeft(write, <<>>, Sections([i \in 1 .. total |-> i - 1], chunk))

(* "node used more or less than once"                                      *)
NodesUsedOnce(grid, total) == \A n \in 0 .. total - 1 : Cardinality(Owners(grid, n)) = 1

(* ref_cell_part: the part of the node with the smallest global number     *)
ref_cell_part(g, c) == g.node[Min(NodesOf(c))].part

(* the cell as the file has it                                             *)
ToFile(c) ==
    LET n == [i \in DOMAIN c.nodes |-> c.nodes[i] + 1]
    IN  [c EXCEPT !.nodes = IF c.kind = "pyr" THEN <<n[1], n[4], n[5], n[2], n[3]>> ELSE n]

(* ref_gather_cell: what each rank has written, as pairs of rank and cell  *)
ref_gather_cell(grid) ==
    UNION {{<<r, ToFile(c)>> : c \in {d \in grid[r].cell : ref_cell_part(grid[r], d) = r}} :
           r \in Rank}

(* ref_gather_geom: likewise, the records of the nodes a rank owns         *)
ref_gather_geom(grid) ==
    UNION {{<<r, [node |-> k[1] + 1, type |-> k[2], id |-> k[3], param |-> grid[r].geom[k]]>> :
               k \in {k \in DOMAIN grid[r].geom : ref_node_owned(grid[r], r, k[1])}} :
           r \in Rank}
=============================================================================
