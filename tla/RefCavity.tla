------------------------------ MODULE RefCavity ------------------------------
(***************************************************************************)
(* The surface cavity of ref_cavity.c on one rank of a surface grid: a set *)
(* of tri to be removed and the segs that bound it, grown until every seg  *)
(* sees the cavity's node, then replaced by the tri that join the segs to  *)
(* the node.  It is formed by ref_split_pass around a new node on an edge, *)
(* and by the two surface passes of ref_cavity_pass around a node of a     *)
(* CAD edge and around a node inside a face.                               *)
(*                                                                         *)
(* The share is that of RefGrid with the place of a node as its real; the  *)
(* CAD faces are plane, so the area in the parameters of the CAD face is   *)
(* the area.  Of the tests of ref_cavity_conforming the one on the area is *)
(* made here and the one on the normal is left open, as are the tests on   *)
(* ratio and quality that decide whether a finished cavity is used.  Segs  *)
(* and cells are looked at in any order.  A new node is put in the middle  *)
(* of its edge; the moves of nodes, ref_smooth_post_edge_split among them, *)
(* are part of RefAdapt.                                                   *)
(***************************************************************************)
EXTENDS RefGrid, FiniteSetsExt

CONSTANTS
    Place,         \* node -> its place <<x, y>> in the starting grid
    InitCell,      \* the cells of the share
    InitGeom,      \* its CAD records, a set of <<node, type, id>>
    Ghost,         \* the nodes another rank owns
    MaxNode,       \* largest node number: bounds the splits
    MaxOp          \* replacements in a behaviour

VARIABLES
    g,             \* the share
    cavity,        \* the cavity being grown
    rest,          \* tri the pass over a CAD edge has yet to visit, and
                   \* whether one of them was removed since they were listed
    ops,           \* replacements so far
    failed         \* an error status ended the program

vars == <<g, cavity, rest, ops, failed>>

Me == "me"
NoNode == 0

ASSUME CavityAssumption ==
    /\ DOMAIN Place = UNION {NodesOf(c) : c \in InitCell}
    /\ DOMAIN Place \subseteq 1 .. MaxNode
    /\ Ghost \subseteq DOMAIN Place

Empty == [state |-> "none", node |-> NoNode, seg |-> {}, tri |-> {}, split |-> {}]
Nothing == [node |-> NoNode, tri |-> {}, stale |-> FALSE]

Init ==
    /\ g = [node |-> [n \in DOMAIN Place |->
                          [part |-> IF n \in Ghost THEN "other" ELSE Me, real |-> Place[n]]],
            cell |-> InitCell,
            geom |-> [k \in InitGeom |-> 0]]
    /\ cavity = Empty
    /\ rest = Nothing
    /\ ops = 0
    /\ failed = FALSE

Mine(n) == ref_node_owned(g, Me, n)

(* twice the area of the triangle, negative when it is turned over         *)
Area(node, a, b, c) ==
    LET p(n, i) == node[n].real[i]
    IN  (p(b,1) - p(a,1)) * (p(c,2) - p(a,2)) - (p(b,2) - p(a,2)) * (p(c,1) - p(a,1))

-----------------------------------------------------------------------------
(* Segs are <<from, to, face id>>                                          *)

SegsOf(t) == {a \o <<t.id>> : a \in Arrows(t)}
Sides(s) == {s[1], s[2]}
Attached(c, s) == c.node \in Sides(s)

(* ref_cavity_find_seg *)
find_seg_mutant(c, s) == {t \in c.seg : t[1] = s[1] /\ t[2] = s[2]}
find_seg(c, s) == {t \in c.seg : Sides(t) = Sides(s)}

(* mutant: segs of different faces cancel *)
insert_seg_mutant(c, s) ==
    LET found == find_seg(c, s)
    IN  CASE c.state = "error" -> c
          [] found = {} -> [c EXCEPT !.seg = @ \cup {s}]
          [] \E t \in found : t[1] = s[1] -> [c EXCEPT !.state = "error"]
          [] OTHER -> [c EXCEPT !.seg = @ \ found]

(* ref_cavity_insert_seg: a seg and its reverse cancel within a face       *)
insert_seg(c, s) ==
    LET found == find_seg(c, s)
    IN  CASE c.state = "error" -> c
          [] found = {} -> [c EXCEPT !.seg = @ \cup {s}]
          [] \E t \in found : t[1] = s[1] -> [c EXCEPT !.state = "error"]
          [] \E t \in found : t[1] # s[1] /\ t[3] # s[3] ->
                 [c EXCEPT !.state = "boundary_constrained"]
          [] OTHER -> [c EXCEPT !.seg = @ \ found]

insert_segs(c, segs) == FoldSet(LAMBDA s, acc : insert_seg(acc, s), c, segs)

(* ref_cavity_verify_seg_manifold: every seg is followed by just one other *)
verify_seg_manifold(c) ==
    LET after(s) == {t \in c.seg : t[1] = s[2]}
    IN  CASE c.state \in {"error", "inconsistent"} -> c
          [] \E s \in c.seg : after(s) = {} -> [c EXCEPT !.state = "error"]
          [] \E s \in c.seg : Cardinality(after(s)) > 1 -> [c EXCEPT !.state = "inconsistent"]
          [] OTHER -> c

(* ref_cavity_add_tri; the list of tri is looked up before                 *)
add_tri(c, t) ==
    IF ~AllOwned(g, Me, {t}) THEN [c EXCEPT !.state = "partition_constrained"]
    ELSE insert_segs([c EXCEPT !.tri = @ \cup {t}], SegsOf(t))

(* ref_cavity_manifold: no tri is made that stands already outside         *)
manifold(c) ==
    \A s \in c.seg : Attached(c, s) \/
        ref_cell_with(g, "tri", Sides(s) \cup {c.node}) \subseteq c.tri

-----------------------------------------------------------------------------
(* Forming a cavity                                                        *)

form_empty(n) == [Empty EXCEPT !.state = "unknown", !.node = n]

(* ref_cavity_form_ball: all tri around a node                             *)
form_ball(n) ==
    LET ball == Having(g, "tri", n)
        c    == [form_empty(n) EXCEPT !.tri = ball]
    IN  IF ~Mine(n) \/ ~AllOwned(g, Me, ball) THEN [c EXCEPT !.state = "partition_constrained"]
        ELSE verify_seg_manifold(
                 insert_segs(c, {s \in UNION {SegsOf(t) : t \in ball} : n \notin Sides(s)}))

(* ref_cavity_form_edge_split: the tri on the edge; when there is only     *)
(* one, the halves of the edge close the ring of segs                      *)
form_edge_split(n0, n1, new) ==
    LET gem   == ref_cell_list_with2(g, "tri", n0, n1)
        segs  == UNION {SegsOf(t) : t \in gem}
        edge  == {s \in segs : Sides(s) = {n0, n1}}
        halves == UNION {{<<s[1], new, s[3]>>, <<new, s[2], s[3]>>} : s \in edge}
        c     == [form_empty(new) EXCEPT !.tri = gem, !.split = {n0, n1}]
    IN  CASE ~Mine(n0) \/ ~Mine(n1) \/ ~AllOwned(g, Me, gem) ->
                 [c EXCEPT !.state = "partition_constrained"]
          [] Cardinality(gem) \notin {1, 2} -> [c EXCEPT !.state = "error"]
          [] OTHER -> verify_seg_manifold(
                 insert_segs(c, (segs \ edge) \cup
                                (IF Cardinality(gem) = 1 THEN halves ELSE {})))

Form(c) == IF c.state = "error" THEN failed' = TRUE /\ UNCHANGED cavity
                                ELSE cavity' = c /\ UNCHANGED failed

Idle == cavity = Empty /\ ~failed /\ ops < MaxOp

Middle(a, b) == [i \in {1, 2} |-> (g.node[a].real[i] + g.node[b].real[i]) \div 2]

(* ref_split_pass: the new node and its CAD records come first             *)
SplitForm(n0, n1) ==
    LET new  == Min((1 .. MaxNode + 1) \ Held(g))
        recs == {<<new>> \o k : k \in ref_geom_add_between(g, n0, n1)}
    IN  /\ Idle /\ rest = Nothing
        /\ n0 < n1 /\ ref_cell_list_with2(g, "tri", n0, n1) # {}
        /\ Mine(n0) \/ Mine(n1)
        /\ new <= MaxNode
        /\ g' = [g EXCEPT
               !.node = [n \in Held(g) \cup {new} |->
                   IF n = new THEN [part |-> Me, real |-> Middle(n0, n1)] ELSE @[n]],
               !.geom = [k \in DOMAIN @ \cup recs |-> IF k \in recs THEN 0 ELSE @[k]]]
        /\ IF GeomBetweenSucceeds(g, n0, n1) THEN Form(form_edge_split(n0, n1, new))
                                             ELSE failed' = TRUE /\ UNCHANGED cavity
        /\ UNCHANGED <<rest, ops>>

(* ref_cavity_surf_geom_face_pass on one tri with first node n             *)
BallForm(n) ==
    /\ Idle /\ rest = Nothing
    /\ Mine(n) /\ ~ref_geom_is_a(g, n, "edge")
    /\ Form(form_ball(n))
    /\ UNCHANGED <<g, rest, ops>>

(* ref_cavity_surf_geom_edge_pass on one edg: the tri on it are listed     *)
(* before the first of them is replaced                                    *)
EdgeForm(c, n) ==
    LET tris == UNION {ref_cell_list_with2(g, "tri", n, m) : m \in NodesOf(c) \ {n}}
    IN  /\ Idle /\ rest = Nothing
        /\ c.kind = "edg" /\ n \in NodesOf(c) /\ Mine(n)
        /\ \E t \in tris : /\ Form(add_tri(form_empty(n), t))
                           /\ rest' = [node |-> n, tri |-> tris \ {t}, stale |-> FALSE]
        /\ UNCHANGED <<g, ops>>

(* the next tri of the list, which the tests on the normal may skip; the   *)
(* list holds cell numbers, so a listed tri that was removed is an invalid *)
(* cell though a tri on its nodes was made since                           *)
EdgeNext ==
    /\ Idle /\ rest # Nothing
    /\ rest' = Nothing
    /\ UNCHANGED <<g, ops>>
    /\ IF ~rest.stale
       THEN \/ UNCHANGED <<cavity, failed>>
            \/ \E t \in rest.tri : Form(add_tri(form_empty(rest.node), t))
       ELSE failed' = TRUE /\ UNCHANGED cavity

-----------------------------------------------------------------------------
(* Growing and replacing it                                                *)

(* ref_cavity_enlarge_seg: the tri on the other side joins; the list has   *)
(* room for two                                                            *)
enlarge_seg(c, s) ==
    LET tris == ref_cell_list_with2(g, "tri", s[1], s[2])
    IN  CASE Cardinality(tris) > 2 -> [c EXCEPT !.state = "error"]
          [] Cardinality(tris) # 2 -> [c EXCEPT !.state = "boundary_constrained"]
          [] Cardinality(tris \cap c.tri) # 1 -> [c EXCEPT !.state = "error"]
          [] OTHER -> add_tri(c, CHOOSE t \in tris : t \notin c.tri)

Growing == cavity.state = "unknown" /\ ~failed

(* the loop of ref_cavity_enlarge_conforming takes a seg that does not     *)
(* conform; ref_split_pass drops the cavity on an error, the passes fail   *)
Enlarge ==
    /\ Growing
    /\ \E s \in cavity.seg :
         /\ ~Attached(cavity, s)
         /\ LET c == enlarge_seg(cavity, s)
            IN  IF c.state = "error" /\ cavity.split # {}
                THEN cavity' = [c EXCEPT !.state = "inconsistent"] /\ UNCHANGED failed
                ELSE Form(c)
    /\ UNCHANGED <<g, rest, ops>>

(* and ends when all segs conform                                          *)
AllConform ==
    \A s \in cavity.seg : Attached(cavity, s) \/ Area(g.node, s[1], s[2], cavity.node) > 0

Finish ==
    /\ Growing /\ AllConform
    /\ IF manifold(cavity)
       THEN Form(verify_seg_manifold([cavity EXCEPT !.state = "visible"]))
       ELSE cavity' = [cavity EXCEPT !.state = "manifold_constrained"] /\ UNCHANGED failed
    /\ UNCHANGED <<g, rest, ops>>

(* the share without nodes that have lost their last tri                   *)
Without(share, gone) ==
    [share EXCEPT !.node = [n \in Held(share) \ gone |-> @[n]],
                  !.geom = [k \in {k \in DOMAIN @ : k[1] \notin gone} |-> @[k]]]

NewTris(c) == {Cell("tri", <<s[1], s[2], c.node>>, s[3]) :
                  s \in {s \in c.seg : ~Attached(c, s)}}

(* ref_cavity_replace: the tri on the segs come, those of the cavity go,   *)
(* with their nodes if nothing is left there; the edg that is split        *)
replace(c) ==
    LET edg   == IF c.split = {} THEN {} ELSE ref_cell_with(g, "edg", c.split)
        cells == (((g.cell \ c.tri) \cup NewTris(c)) \ edg) \cup
                 {Cell("edg", <<n, c.node>>, e.id) : n \in c.split, e \in edg}
        gone  == {n \in UNION {NodesOf(t) : t \in c.tri} :
                      \A t \in cells : t.kind = "tri" => n \notin NodesOf(t)}
    IN  Without([g EXCEPT !.cell = cells], gone)

(* its assertions on the nodes of the tri that come                        *)
replace_succeeds(c) ==
    \A t \in NewTris(c) : NodesOf(t) \subseteq Held(g) /\ AllOwned(g, Me, {t})

(* what only touched the normals of a face is no improvement; the tri made *)
(* are numbered before those of the cavity are removed                     *)
Replace ==
    /\ cavity.state = "visible" /\ ~failed
    /\ cavity.split = {} => NewTris(cavity) # cavity.tri
    /\ IF replace_succeeds(cavity)
       THEN g' = replace(cavity) /\ cavity' = Empty /\ UNCHANGED failed
       ELSE failed' = TRUE /\ UNCHANGED <<g, cavity>>
    /\ ops' = ops + 1
    /\ rest' = [rest EXCEPT !.stale = @ \/ rest.tri \cap cavity.tri # {}]

(* a cavity that is constrained, or not wanted, is dropped, and the node   *)
(* made for it                                                             *)
Drop ==
    /\ cavity.state \notin {"none", "unknown"} /\ ~failed
    /\ g' = IF cavity.split = {} THEN g ELSE Without(g, {cavity.node})
    /\ cavity' = Empty
    /\ UNCHANGED <<rest, ops, failed>>

Next ==
    \/ \E n0, n1 \in Held(g) : SplitForm(n0, n1)
    \/ \E n \in Held(g) : BallForm(n)
    \/ \E c \in g.cell : \E n \in NodesOf(c) : EdgeForm(c, n)
    \/ EdgeNext \/ Enlarge \/ Finish \/ Replace \/ Drop

Spec == Init /\ [][Next]_vars

-----------------------------------------------------------------------------
Tris(cells, id) == {c \in cells : c.kind = "tri" /\ c.id = id}
FaceArea(share, id) ==
    MapThenSumSet(LAMBDA t : Area(share.node, t.nodes[1], t.nodes[2], t.nodes[3]),
                  Tris(share.cell, id))
InitNode == [n \in DOMAIN Place |-> [real |-> Place[n]]]

(***************************************************************************)
(* Whatever cavities are formed, grown, dropped and replaced, one after    *)
(* the other, no assertion fails, and between them the surface is whole:   *)
(* a conforming disk of the same CAD faces, no tri turned over, each face  *)
(* as large as it was, every node with the CAD records of its cells and no *)
(* others, every CAD node still there, and every cell another rank holds a *)
(* copy of as it was.                                                      *)
(***************************************************************************)
CavityConforms ==
    /\ ~failed
    /\ cavity = Empty =>
        /\ ConformingDisk(g.cell, Held(g))
        /\ Held(g) = UNION {NodesOf(c) : c \in g.cell}
        /\ \A c \in g.cell : c.kind = "tri" =>
               Area(g.node, c.nodes[1], c.nodes[2], c.nodes[3]) > 0
        /\ \A id \in {c.id : c \in {c \in InitCell : c.kind = "tri"}} :
               FaceArea(g, id) = FaceArea([node |-> InitNode, cell |-> InitCell], id)
        /\ {k \in DOMAIN g.geom : k[2] = "node"} = {k \in InitGeom : k[2] = "node"}
        /\ \A n \in Held(g) :
             /\ {k[3] : k \in {k \in GeomAt(g, n) : k[2] = "face"}} = ref_cell_id_list_around(g, "tri", n)
             /\ {k[3] : k \in {k \in GeomAt(g, n) : k[2] = "edge"}} = ref_cell_id_list_around(g, "edg", n)
        /\ {c \in g.cell : NodesOf(c) \cap Ghost # {}} =
           {c \in InitCell : NodesOf(c) \cap Ghost # {}}

(***************************************************************************)
(* The segs, which insert_seg adds and cancels one at a time, are the      *)
(* boundary of the tri in the cavity: the sides of those tri that no other *)
(* of them has in the opposite direction, apart from an edge being split.  *)
(***************************************************************************)
SegsBound ==
    cavity.state \in {"unknown", "visible"} =>
        LET sides == UNION {Arrows(t) : t \in cavity.tri}
        IN  {<<s[1], s[2]>> : s \in {s \in cavity.seg : ~Attached(cavity, s)}}
              = {a \in sides : /\ <<a[2], a[1]>> \notin sides
                               /\ {a[1], a[2]} # cavity.split
                               /\ cavity.node \notin {a[1], a[2]}}
=============================================================================
