------------------------------- MODULE RefGrid -------------------------------
(***************************************************************************)
(* The share of a distributed surface grid one rank holds, and the queries *)
(* the operators of refine make of it.  A share is a record                *)
(*                                                                         *)
(*   node : held node -> [part, real]   the owner and the version of the   *)
(*          coordinates and metric (REF_NODE, ref_node.h)                  *)
(*   cell : a set of tri and edg cells  (REF_CELL tri and edg)             *)
(*   geom : <<node, type, id>> -> the version of the CAD parameters        *)
(*          (REF_GEOM)                                                     *)
(*                                                                         *)
(* A node is its global number: the local numbering and its lookup are the *)
(* subject of RefNode, the numbers given to new nodes of RefNodeSync.      *)
(***************************************************************************)
EXTENDS Integers, FiniteSets, Sequences

(* a cell, with its nodes rotated so that the smallest comes first: only   *)
(* their cyclic order means anything                                       *)
Cell(kind, nodes, id) ==
    LET k == CHOOSE i \in DOMAIN nodes :
                 \A j \in DOMAIN nodes : nodes[i] <= nodes[j]
        n == Len(nodes)
    IN  [kind  |-> kind,
         nodes |-> [i \in 1 .. n |-> nodes[((k + i - 2) % n) + 1]],
         id    |-> id]

NodesOf(c) == {c.nodes[i] : i \in DOMAIN c.nodes}

\* the cells of a kind around a node
Having(g, kind, n) == {c \in g.cell : c.kind = kind /\ n \in NodesOf(c)}

\* ref_cell_list_with2, and ref_cell_has_side: two nodes of a tri or of an
\* edg are always a side
ref_cell_list_with2(g, kind, n0, n1) == Having(g, kind, n0) \cap Having(g, kind, n1)

\* ref_cell_with: a cell with the same nodes, whatever their order and id
ref_cell_with(g, kind, nodes) == {c \in g.cell : c.kind = kind /\ NodesOf(c) = nodes}

\* ref_cell_node_list_around, ref_cell_id_list_around
ref_cell_node_list_around(g, kind, n) ==
    (UNION {NodesOf(c) : c \in Having(g, kind, n)}) \ {n}
ref_cell_id_list_around(g, kind, n) == {c.id : c \in Having(g, kind, n)}

\* ref_cell_replace_node
ref_cell_replace_node(c, old, new) ==
    Cell(c.kind, [i \in DOMAIN c.nodes |->
                      IF c.nodes[i] = old THEN new ELSE c.nodes[i]], c.id)

Held(g) == DOMAIN g.node

\* ref_node_owned
ref_node_owned(g, r, n) == g.node[n].part = r

AllOwned(g, r, cells) ==
    \A c \in cells : \A n \in NodesOf(c) : ref_node_owned(g, r, n)

GeomAt(g, n) == {k \in DOMAIN g.geom : k[1] = n}

\* ref_geom_is_a
ref_geom_is_a(g, n, type) == \E k \in GeomAt(g, n) : k[2] = type

\* ref_geom_add_between: the new node lies on the CAD edge of the edg
\* between n0 and n1, if there is one, and on the faces of the tri there.
\* ref_geom_tri_supported asks the node a tri is stored first with, here the
\* smallest: they agree (SupportAgrees of RefAdapt, and CavityConforms).  The
\* demand for two tri on every edge of a closed body (ref_geom_manifold) and
\* the jumps of the parameters along a seam are left out: the surfaces are open
ref_geom_add_between(g, n0, n1) ==
    IF GeomAt(g, n0) = {} \/ GeomAt(g, n1) = {} THEN {}
    ELSE {<<"edge", c.id>> : c \in ref_cell_list_with2(g, "edg", n0, n1)} \cup
         {<<"face", c.id>> : c \in {t \in ref_cell_list_with2(g, "tri", n0, n1) :
              <<t.nodes[1], "face", t.id>> \in DOMAIN g.geom}}

\* its lookups: both ends have the records the new node is given
GeomBetweenSucceeds(g, n0, n1) ==
    /\ Cardinality(ref_cell_list_with2(g, "tri", n0, n1)) <= 2
    /\ \A k \in ref_geom_add_between(g, n0, n1) : \A n \in {n0, n1} :
           <<n>> \o k \in DOMAIN g.geom

-----------------------------------------------------------------------------
(* The reference notion the properties use: a conforming disk, split into  *)
(* CAD faces along CAD edges.  Every side of a tri is met by exactly one   *)
(* other tri, in the opposite direction, or lies on the boundary; the tri  *)
(* on the two sides of an edge have the same face id exactly if no edg     *)
(* lies on it; every edg is a side; and nodes - sides + tris is 1.         *)
Arrows(t) == {<<t.nodes[i], t.nodes[(i % 3) + 1]>> : i \in 1 .. 3}

ConformingDisk(cells, nodes) ==
    LET tris     == {c \in cells : c.kind = "tri"}
        arrows   == UNION {Arrows(t) : t \in tris}
        on(a)    == {t \in tris : a \in Arrows(t)}
        sides    == {{a[1], a[2]} : a \in arrows}
        edgOn(s) == {c \in cells : c.kind = "edg" /\ NodesOf(c) = s}
    IN  /\ \A a \in arrows :
             /\ Cardinality(on(a)) = 1
             /\ Cardinality(edgOn({a[1], a[2]})) <= 1
             /\ edgOn({a[1], a[2]}) = {} <=>
                  {t.id : t \in on(<<a[2], a[1]>>)} = {t.id : t \in on(a)}
        /\ \A c \in cells : c.kind = "edg" => NodesOf(c) \in sides
        /\ Cardinality(nodes) - Cardinality(sides) + Cardinality(tris) = 1
=============================================================================
