------------------------------ MODULE RefMigrate ------------------------------
(***************************************************************************)
(* Migration of a distributed surface grid to a new partition              *)
(* (ref_migrate.c).  Every stage is a collective: each rank packs what it  *)
(* holds, one exchange follows, each rank unpacks what it received.  Ranks *)
(* share nothing else, so a stage is a function from the grid before it to *)
(* the grid after it, and the migration is their composition.              *)
(*                                                                         *)
(* A grid maps every rank to its share (RefGrid).  A stage that can fail   *)
(* (a global number a rank is told of but does not hold) has a predicate   *)
(* beside it that says when it succeeds on every rank.                     *)
(***************************************************************************)
EXTENDS RefGrid, FiniteSetsExt

CONSTANT NRank

Rank == 0 .. NRank - 1

(* what ref_node_add leaves in a node it has just made: data of no node    *)
NoReal == -1

Others(r) == Rank \ {r}

(* the ranks that hold node n and were told it belongs to r, r excepted    *)
Senders(g, r, n) ==
    {s \in Others(r) : n \in Held(g[s]) /\ g[s].node[n].part = r}

(* the nodes some other rank sends to r                                    *)
Incoming(g, r) ==
    {n \in UNION {Held(g[s]) : s \in Others(r)} : Senders(g, r, n) # {}}

(* ref_migrate_new_part chooses a part for every owned node, here any;     *)
(* ref_node_ghost_int asks the owner of each ghost for its choice, and     *)
(* ref_migrate_to_balance writes the result over every part               *)
ref_migrate_new_part(g, p) ==
    [r \in Rank |->
        [g[r] EXCEPT !.node = [n \in Held(g[r]) |-> [@[n] EXCEPT !.part = p[n]]]]]

(* every ghost is held by the rank that is said to own it                  *)
OwnersKnow(g) ==
    \A r \in Rank : \A n \in Held(g[r]) : n \in Held(g[g[r].node[n].part])

(* ref_migrate_shufflin_node: each rank sends every node it does not own   *)
(* to the owner, which adds it and takes over the data; when several ranks *)
(* send the same node the highest rank is unpacked last                    *)
ref_migrate_shufflin_node(g) ==
    [r \in Rank |->
        LET in == Incoming(g, r)
        IN  [g[r] EXCEPT !.node =
                [n \in Held(g[r]) \cup in |->
                    IF n \in in
                    THEN [part |-> r,
                          real |-> g[Max(Senders(g, r, n))].node[n].real]
                    ELSE g[r].node[n]]]]

(* ref_migrate_shufflin_geom: and its CAD parameters                       *)
ref_migrate_shufflin_geom(g) ==
    [r \in Rank |->
        LET from(k) == {s \in Senders(g, r, k[1]) : k \in DOMAIN g[s].geom}
            in == UNION {{k \in DOMAIN g[s].geom : r = g[s].node[k[1]].part}
                            : s \in Others(r)}
        IN  [g[r] EXCEPT !.geom =
                [k \in DOMAIN g[r].geom \cup in |->
                    IF k \in in THEN g[Max(from(k))].geom[k] ELSE g[r].geom[k]]]]

(* the owner of every CAD record sent holds its node                       *)
GeomsArrive(g) ==
    \A s \in Rank : \A k \in DOMAIN g[s].geom :
        /\ k[1] \in Held(g[s])
        /\ k[1] \in Held(g[g[s].node[k[1]].part])

(* mutant: a cell goes to the owner of its first node only *)
Delivered_mutant(g, kind, s, r) ==
    {c \in g[s].cell : c.kind = kind /\ ref_node_owned(g[s], r, c.nodes[1])}

(* the cells of a kind other ranks send to r, because r owns one of their  *)
(* nodes                                                                   *)
Delivered(g, kind, s, r) ==
    {c \in g[s].cell : c.kind = kind /\ \E n \in NodesOf(c) : ref_node_owned(g[s], r, n)}

(* ref_migrate_shufflin_cell: cells go to every owner of their nodes.      *)
(* ref_cell_add_many_global makes the nodes r does not own, writes the     *)
(* parts it was told and adds a cell it does not have; then r drops its    *)
(* cells without an owned node                                             *)
ref_migrate_shufflin_cell(g, kind) ==
    [r \in Rank |->
        LET sent == [s \in Others(r) |-> Delivered(g, kind, s, r)]
            nodes(s) == UNION {NodesOf(c) : c \in sent[s]}
            new == UNION {nodes(s) : s \in Others(r)}
            told(n) == {s \in Others(r) : n \in nodes(s)}
            node == [n \in Held(g[r]) \cup new |->
                        [part |-> IF n \in new
                                  THEN g[Max(told(n))].node[n].part
                                  ELSE g[r].node[n].part,
                         real |-> IF n \in Held(g[r]) THEN g[r].node[n].real
                                                      ELSE NoReal]]
            add == {c \in UNION {sent[s] : s \in Others(r)} :
                        ref_cell_with(g[r], kind, NodesOf(c)) = {}}
            keep(c) == c.kind = kind => \E n \in NodesOf(c) : node[n].part = r
        IN  [node |-> node,
             cell |-> {c \in g[r].cell \cup add : keep(c)},
             geom |-> g[r].geom]]

(* ref_cell_add_many_global does not make the nodes the receiver owns:     *)
(* they must have come with ref_migrate_shufflin_node                      *)
CellsArrive(g, kind) ==
    \A r \in Rank : \A s \in Others(r) : \A c \in Delivered(g, kind, s, r) :
        \A n \in NodesOf(c) : ref_node_owned(g[s], r, n) => n \in Held(g[r])

(* the end of ref_migrate_shufflin: ghosts without a cell go, with their   *)
(* CAD records; of the others, owned or not, ref_geom_remove_without_cell  *)
(* drops the edge records without an edg and the face records without a    *)
(* tri                                                                     *)
HasCell(g, k) ==
    /\ k[2] = "edge" => Having(g, "edg", k[1]) # {}
    /\ k[2] = "face" => Having(g, "tri", k[1]) # {}

RemoveUnused(g) ==
    [r \in Rank |->
        LET kept == {n \in Held(g[r]) :
                        \/ ref_node_owned(g[r], r, n)
                        \/ \E c \in g[r].cell : n \in NodesOf(c)}
            used == {k \in DOMAIN g[r].geom : k[1] \in kept /\ HasCell(g[r], k)}
        IN  [node |-> [n \in kept |-> g[r].node[n]],
             cell |-> g[r].cell,
             geom |-> [k \in used |-> g[r].geom[k]]]]

(* mutant: the ghosts a migration made keep what ref_node_add left *)
ref_node_ghost_real_mutant(g) == g

(* ref_node_ghost_real: ghosts take the owner's data                       *)
ref_node_ghost_real(g) ==
    [r \in Rank |->
        [g[r] EXCEPT !.node =
            [n \in Held(g[r]) |->
                [@[n] EXCEPT !.real = g[g[r].node[n].part].node[n].real]]]]

(* mutant: no CAD records for new ghosts *)
ref_geom_ghost_mutant(g) == g

(* ref_geom_ghost: and the owner's CAD records                             *)
ref_geom_ghost(g) ==
    [r \in Rank |->
        LET owner(n) == g[r].node[n].part
            ghosts == {n \in Held(g[r]) : owner(n) # r}
            in == UNION {GeomAt(g[owner(n)], n) : n \in ghosts}
        IN  [g[r] EXCEPT !.geom =
                [k \in DOMAIN @ \cup in |->
                    IF k \in in THEN g[owner(k[1])].geom[k] ELSE @[k]]]]
=============================================================================
