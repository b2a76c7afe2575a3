--------------------------- MODULE RefInterpLocate --------------------------
(***************************************************************************)
(* The parallel search of ref_interp.c that finds, for every node of one   *)
(* grid, the cell of another grid that encloses it, with the agents of     *)
(* ref_agents.c.                                                           *)
(*                                                                         *)
(* An agent works for one node of the receiving grid.  It walks through    *)
(* the cells of the donor grid towards the node, hops to another rank when *)
(* the walk leaves the cells of this one, and returns to its home rank     *)
(* with the enclosing cell or with a failure.  A node that is located      *)
(* hires agents for its neighbours, which start at its cell; a neighbour   *)
(* that another rank owns is only suggested to that rank.  ref_interp_     *)
(* process_agents sweeps until no agent is left on any rank.               *)
(*                                                                         *)
(* Where a walk ends depends on the geometry and is left open, within what *)
(* the code can do: an enclosing cell is one of those that Donor lists,    *)
(* and the cells visited are counted against Limit.  The migration of the  *)
(* agents and the sum that ends a sweep are collectives in which every     *)
(* rank waits for every other one, so one variable tells the phase of all  *)
(* ranks; within a phase the ranks are interleaved.                        *)
(***************************************************************************)
EXTENDS Integers, FiniteSets

CONSTANTS
    Rank,       \* the ranks
    Node,       \* the nodes of the receiving grid
    Owner,      \* node -> the rank that owns it
    Around,     \* node -> its neighbours
    Donor,      \* node -> the ranks with a donor cell that encloses it
    Limit,      \* the 215 steps of ref_interp_walk_agent
    MaxTries,   \* the 12 tries of ref_interp_locate
    EMPTY,      \* REF_EMPTY
    GUESS       \* some node of the donor grid

ASSUME OwnerAssumption == Owner \in [Node -> Rank]
ASSUME AroundAssumption == Around \in [Node -> SUBSET Node]
ASSUME DonorAssumption == Donor \in [Node -> SUBSET Rank]
ASSUME LimitAssumption == Limit \in Nat \ {0} /\ MaxTries \in Nat \ {0}
ASSUME EmptyAssumption == EMPTY \notin Node \cup Rank
ASSUME GuessAssumption == GUESS \notin Node \cup {EMPTY}

VARIABLES
    cell,       \* node -> the rank of its donor cell, EMPTY: not located
    agent_hired,\* node -> an agent works for it
    agents,     \* the agents of all ranks; the field at is the rank
    phase,      \* where the ranks are
    how,        \* the variant of the search, by where it starts
    todo,       \* the nodes to start from that are still to be processed
    tries,      \* tree searches so far
    gaveup      \* auxiliary: nodes that were looked for without success

vars == <<cell, agent_hired, agents, phase, how, todo, tries, gaveup>>

(***************************************************************************)
(* REF_AGENT_STRUCT.  from is the located node whose cell the agent starts *)
(* at: it stands for the seed.                                             *)
(***************************************************************************)
Modes == {"WALKING", "AT_BOUNDARY", "HOP_PART", "SUGGESTION", "ENCLOSING",
          "TERMINATED"}

Agent == [mode : Modes, home : Rank, node : Node \cup {EMPTY}, part : Rank,
          global : Node \cup {EMPTY, GUESS}, step : 0..Limit, from : Node,
          at : Rank]

TypeOK ==
    /\ cell \in [Node -> Rank \cup {EMPTY}]
    /\ agent_hired \in [Node -> BOOLEAN]
    /\ agents \subseteq Agent
    /\ phase \in {"seed", "sum", "walk", "handle", "tree", "near", "done",
                  "failed"}
    /\ how \in {"geom", "warm", "subset", "nearest"}
    /\ todo \subseteq Node
    /\ tries \in 0..MaxTries
    /\ gaveup \subseteq Node

(***************************************************************************)
(* ref_interp_locate starts from the geometry nodes it matches, ref_interp *)
(* _locate_warm from the nodes that have a cell already, whichever it is   *)
(* (a tree search may have settled for one that does not enclose them),    *)
(* and ref_interp_locate_subset and ref_interp_locate_nearest from a       *)
(* sample of the nodes that a tree search has looked up.                   *)
(***************************************************************************)
Init ==
    /\ how \in {"geom", "warm", "subset", "nearest"}
    /\ todo \in SUBSET Node
    /\ how = "geom" => \A n \in todo : Donor[n] # {}
    /\ cell \in [Node -> Rank \cup {EMPTY}]
    /\ \A n \in Node : how = "warm" /\ n \in todo <=> cell[n] # EMPTY
    /\ agent_hired = [n \in Node |-> FALSE]
    /\ agents = {}
    /\ phase = "seed"
    /\ tries = 0
    /\ gaveup = {}

(* Mutant: the hired mark is not looked at. *)
to_hire_mutant(node, c, hired) ==
    {o \in Around[node] : Owner[o] = Owner[node] /\ c[o] = EMPTY}

(***************************************************************************)
(* ref_interp_push_onto_queue(node) on the rank that owns node.  An owned  *)
(* neighbour without a cell and without an agent gets one; for a ghost a   *)
(* suggestion is addressed to its owner.                                   *)
(***************************************************************************)
to_hire(node, c, hired) ==
    {o \in Around[node] : /\ Owner[o] = Owner[node]
                          /\ c[o] = EMPTY
                          /\ ~hired[o]}

(* Mutant: ghosts are skipped. *)
to_suggest_mutant(node) == {}

to_suggest(node) == {o \in Around[node] : Owner[o] # Owner[node]}

walker(other, node, c) ==
    [mode |-> "WALKING", home |-> Owner[node], node |-> other,
     part |-> c[node], global |-> EMPTY, step |-> 0, from |-> node,
     at |-> Owner[node]]

suggestion(other, node, c) ==
    [mode |-> "SUGGESTION", home |-> Owner[other], node |-> EMPTY,
     part |-> c[node], global |-> other, step |-> 0, from |-> node,
     at |-> Owner[node]]

push_onto_queue(node, c, hired, rest) ==
    /\ agent_hired' = [n \in Node |-> hired[n] \/ n \in to_hire(node, c, hired)]
    /\ agents' = rest \cup {walker(o, node, c) : o \in to_hire(node, c, hired)}
                      \cup {suggestion(o, node, c) : o \in to_suggest(node)}

(* Mutant: the queued walker is kept. *)
others_mutant(n) == agents

(***************************************************************************)
(* An agent that an earlier start node hired for n is dequeued             *)
(* (ref_agents_delete, which sees the agents of this rank only).           *)
(***************************************************************************)
others(n) == IF agent_hired[n]
             THEN {a \in agents : ~(a.at = Owner[n] /\ a.node = n)}
             ELSE agents

unhired(n) == [agent_hired EXCEPT ![n] = FALSE]

(* ref_interp_geom_nodes, one match that is received: the node is located  *)
(* and its neighbours are pushed.                                          *)
Matched(n) ==
    /\ phase = "seed" /\ how = "geom" /\ n \in todo
    /\ \E p \in Donor[n] : cell' = [cell EXCEPT ![n] = p]
    /\ push_onto_queue(n, cell', unhired(n), others(n))
    /\ todo' = todo \ {n}
    /\ UNCHANGED <<phase, how, tries, gaveup>>

(* ref_interp_seed_tree, one answer that is received: the best candidate,  *)
(* which need not enclose the node, or none; in both cases an agent that   *)
(* was hired for the node is gone.                                         *)
SeedTree(n) ==
    /\ phase = "seed" /\ how \in {"subset", "nearest"} /\ n \in todo
    /\ \/ /\ \E p \in Rank : cell' = [cell EXCEPT ![n] = p]
          /\ push_onto_queue(n, cell', unhired(n), others(n))
          /\ UNCHANGED gaveup
       \/ /\ agent_hired' = unhired(n)
          /\ agents' = others(n)
          /\ gaveup' = gaveup \cup {n}
          /\ UNCHANGED cell
    /\ todo' = todo \ {n}
    /\ UNCHANGED <<phase, how, tries>>

(* ref_interp_locate_warm, one node that has a cell. *)
WarmPush(n) ==
    /\ phase = "seed" /\ how = "warm" /\ n \in todo
    /\ push_onto_queue(n, cell, agent_hired, agents)
    /\ todo' = todo \ {n}
    /\ UNCHANGED <<cell, phase, how, tries, gaveup>>

Seeded ==
    /\ phase = "seed" /\ todo = {}
    /\ phase' = "sum"
    /\ UNCHANGED <<cell, agent_hired, agents, how, todo, tries, gaveup>>

(* The sum over the ranks at the head of the sweep loop. *)
SumAgents ==
    /\ phase = "sum"
    /\ phase' = IF agents = {} THEN "tree" ELSE "walk"
    /\ UNCHANGED <<cell, agent_hired, agents, how, todo, tries, gaveup>>

(***************************************************************************)
(* ref_interp_walk_agent.  The loop counts a step after it has chosen the  *)
(* next cell and looks at the mode only at the head of the next round, so  *)
(* a walk that leaves the grid or the rank in the last round the limit     *)
(* allows is terminated all the same.                                      *)
(***************************************************************************)
walkable(r) == {a \in agents : a.at = r /\ a.mode = "WALKING" /\ a.part = r}

(* Mutant: a hop does not count as a step. *)
left_mutant(a, s, q) ==
    [a EXCEPT !.mode = "HOP_PART", !.part = q, !.global = GUESS]

left(a, s, q) ==
    [a EXCEPT !.mode = IF s + 1 < Limit THEN "HOP_PART" ELSE "TERMINATED",
              !.part = q, !.global = GUESS, !.step = s + 1]

(* Mutant: the last step is counted twice. *)
stopped_mutant(a, s) ==
    [a EXCEPT !.mode = "AT_BOUNDARY", !.step = s + 2]

stopped(a, s) ==
    [a EXCEPT !.mode = IF s + 1 < Limit THEN "AT_BOUNDARY" ELSE "TERMINATED",
              !.step = s + 1]

ended(a, s) ==
    {b \in {[a EXCEPT !.mode = "ENCLOSING", !.step = s]} :
        a.part \in Donor[a.node]}
    \cup {stopped(a, s)}
    \cup {left(a, s, q) : q \in Rank \ {a.part}}

walked(a) ==
    {[a EXCEPT !.mode = "TERMINATED", !.step = Limit]}
    \cup UNION {ended(a, s) : s \in a.step..(Limit - 1)}

Walk(r) ==
    /\ phase = "walk"
    /\ \E a \in walkable(r) : \E b \in walked(a) :
          agents' = (agents \ {a}) \cup {b}
    /\ UNCHANGED <<cell, agent_hired, phase, how, todo, tries, gaveup>>

(* Mutant: a terminated agent stays where it ended. *)
dest_mutant(a) ==
    IF a.mode \in {"WALKING", "HOP_PART", "TERMINATED"} THEN a.part ELSE a.home

(***************************************************************************)
(* ref_agents_migrate: every agent goes where its mode sends it.           *)
(***************************************************************************)
dest(a) == IF a.mode \in {"WALKING", "HOP_PART"} THEN a.part ELSE a.home

Migrate ==
    /\ phase = "walk"
    /\ \A r \in Rank : walkable(r) = {}
    /\ agents' = {[a EXCEPT !.at = dest(a)] : a \in agents}
    /\ phase' = "handle"
    /\ UNCHANGED <<cell, agent_hired, how, todo, tries, gaveup>>

(***************************************************************************)
(* The four loops after the migration, in their order.                     *)
(***************************************************************************)
hopped(r) == {a \in agents : a.at = r /\ a.mode = "HOP_PART" /\ a.part = r}

suggested(r) == {a \in agents : a.at = r /\ a.mode = "SUGGESTION" /\ a.home = r}

lost(r) == {a \in agents : /\ a.at = r /\ a.home = r
                           /\ a.mode \in {"AT_BOUNDARY", "TERMINATED"}}

enclosing(r) == {a \in agents : a.at = r /\ a.mode = "ENCLOSING" /\ a.home = r}

(* The agent goes on walking from the first cell around the guess. *)
Hop(r) ==
    /\ phase = "handle"
    /\ \E a \in hopped(r) :
          agents' = (agents \ {a}) \cup {[a EXCEPT !.mode = "WALKING"]}
    /\ UNCHANGED <<cell, agent_hired, phase, how, todo, tries, gaveup>>

(* A suggestion is dropped when its node has a cell or an agent, and       *)
(* becomes the walker of that node otherwise.                              *)
Suggest(r) ==
    /\ phase = "handle" /\ hopped(r) = {}
    /\ \E a \in suggested(r) :
          \/ /\ cell[a.global] # EMPTY \/ agent_hired[a.global]
             /\ agents' = agents \ {a}
             /\ UNCHANGED agent_hired
          \/ /\ cell[a.global] = EMPTY /\ ~agent_hired[a.global]
             /\ agents' = (agents \ {a}) \cup
                   {[a EXCEPT !.mode = "WALKING", !.node = a.global,
                              !.global = EMPTY]}
             /\ agent_hired' = [agent_hired EXCEPT ![a.global] = TRUE]
    /\ UNCHANGED <<cell, phase, how, todo, tries, gaveup>>

(* Mutant: the hired mark is not cleared. *)
Dismiss_mutant(r) ==
    /\ phase = "handle" /\ hopped(r) = {} /\ suggested(r) = {}
    /\ \E a \in lost(r) :
          /\ agents' = agents \ {a}
          /\ gaveup' = gaveup \cup {a.node}
    /\ UNCHANGED <<agent_hired, cell, phase, how, todo, tries>>

(* An agent that came home without a cell is dismissed. *)
Dismiss(r) ==
    /\ phase = "handle" /\ hopped(r) = {} /\ suggested(r) = {}
    /\ \E a \in lost(r) :
          /\ agents' = agents \ {a}
          /\ agent_hired' = [agent_hired EXCEPT ![a.node] = FALSE]
          /\ gaveup' = gaveup \cup {a.node}
    /\ UNCHANGED <<cell, phase, how, todo, tries>>

(* Mutant: the home rank is recorded for the cell's rank. *)
Enclose_mutant(r) ==
    /\ phase = "handle"
    /\ hopped(r) = {} /\ suggested(r) = {} /\ lost(r) = {}
    /\ \E a \in enclosing(r) :
          /\ cell' = [cell EXCEPT ![a.node] = a.home]
          /\ push_onto_queue(a.node, cell',
                             [agent_hired EXCEPT ![a.node] = FALSE],
                             agents \ {a})
    /\ UNCHANGED <<phase, how, todo, tries, gaveup>>

(* An agent that came home with a cell hands it over, is dismissed, and    *)
(* the neighbours of its node are pushed.                                  *)
Enclose(r) ==
    /\ phase = "handle"
    /\ hopped(r) = {} /\ suggested(r) = {} /\ lost(r) = {}
    /\ \E a \in enclosing(r) :
          /\ cell' = [cell EXCEPT ![a.node] = a.part]
          /\ push_onto_queue(a.node, cell',
                             [agent_hired EXCEPT ![a.node] = FALSE],
                             agents \ {a})
    /\ UNCHANGED <<phase, how, todo, tries, gaveup>>

Handled ==
    /\ phase = "handle"
    /\ \A r \in Rank :
          hopped(r) \cup suggested(r) \cup lost(r) \cup enclosing(r) = {}
    /\ phase' = "sum"
    /\ UNCHANGED <<cell, agent_hired, agents, how, todo, tries, gaveup>>

(***************************************************************************)
(* ref_interp_tree: a collective search for the nodes that have no cell    *)
(* yet.  Each of them gets the best candidate of all ranks or stays        *)
(* without one, and then the search is repeated with a larger fuzz, up to  *)
(* MaxTries times.                                                         *)
(***************************************************************************)
missing == {n \in Node : cell[n] = EMPTY}

best_cell(best) ==
    /\ cell' = [n \in Node |-> IF n \in missing THEN best[n] ELSE cell[n]]
    /\ agents' = {a \in agents : a.node \notin missing}
    /\ agent_hired' = [n \in Node |-> agent_hired[n] /\ n \notin missing]

Tree ==
    /\ phase = "tree"
    /\ \E best \in [missing -> Rank \cup {EMPTY}] :
          /\ best_cell(best)
          /\ \/ /\ \A n \in missing : best[n] # EMPTY
                /\ phase' = "done"
             \/ /\ \E n \in missing : best[n] = EMPTY
                /\ phase' = CASE how = "nearest" -> "near"
                              [] how # "nearest" /\ tries + 1 < MaxTries -> "tree"
                              [] OTHER -> "failed"
    /\ tries' = tries + 1
    /\ UNCHANGED <<how, todo, gaveup>>

(* ref_interp_nearest_tet_via_tri_in_tree, which ref_interp_locate_nearest *)
(* turns to after one tree search: the cell behind the nearest triangle,   *)
(* of all ranks, and an error when a node has none.                        *)
Nearest ==
    /\ phase = "near"
    /\ \E best \in [missing -> Rank \cup {EMPTY}] :
          /\ best_cell(best)
          /\ \/ (\A n \in missing : best[n] # EMPTY) /\ phase' = "done"
             \/ (\E n \in missing : best[n] = EMPTY) /\ phase' = "failed"
    /\ UNCHANGED <<how, todo, tries, gaveup>>

(* Returned, with all nodes located or with the error that some are not. *)
Returned == phase \in {"done", "failed"} /\ UNCHANGED vars

RankStep(r) ==
    Walk(r) \/ Hop(r) \/ Suggest(r) \/ Dismiss(r) \/ Enclose(r)

Collective == Seeded \/ SumAgents \/ Migrate \/ Handled \/ Tree \/ Nearest

Next ==
    \/ \E n \in Node : Matched(n) \/ SeedTree(n) \/ WarmPush(n)
    \/ \E r \in Rank : RankStep(r)
    \/ Collective
    \/ Returned

Spec == Init /\ [][Next]_vars

(* Every rank keeps executing its part of the sweep and a collective       *)
(* returns once every rank is in it.                                       *)
Fairness ==
    /\ WF_vars(\E n \in Node : Matched(n) \/ SeedTree(n) \/ WarmPush(n))
    /\ \A r \in Rank : WF_vars(RankStep(r))
    /\ WF_vars(Collective)

FairSpec == Spec /\ Fairness

-----------------------------------------------------------------------------
(***************************************************************************)
(* Properties                                                              *)
(***************************************************************************)

(* agent_hired tells the truth about the agents of all ranks, wherever     *)
(* they are: it is set for exactly the nodes that one agent works for,     *)
(* that agent returns to the owner of its node, and the node has no cell.  *)
(* It is what push_onto_queue and the answer to a suggestion decide on.    *)
OneAgentPerNode ==
    /\ \A a \in agents : a.mode # "SUGGESTION" =>
          /\ a.node \in Node
          /\ a.home = Owner[a.node]
          /\ agent_hired[a.node]
    /\ \A a, b \in agents :
          a.mode # "SUGGESTION" /\ b.mode # "SUGGESTION" /\ a.node = b.node
          => a = b
    /\ \A n \in Node : agent_hired[n] =>
          /\ cell[n] = EMPTY
          /\ \E a \in agents : a.mode # "SUGGESTION" /\ a.node = n

(* The assertions of the two loops that take back an agent: its node is    *)
(* owned by this rank ("ghost, not owned"), has no cell yet ("already      *)
(* found?") and is marked as hired ("should have an agent").               *)
HandlerAsserts ==
    \A r \in Rank : \A a \in lost(r) \cup enclosing(r) :
       /\ a.node \in Node /\ Owner[a.node] = r
       /\ cell[a.node] = EMPTY
       /\ agent_hired[a.node]

(* "should be done": once the sweeps are over no node is left marked as    *)
(* hired, although no agent exists that could clear the mark.              *)
AllDismissed ==
    phase \in {"tree", "near", "done", "failed"} =>
       \A n \in Node : ~agent_hired[n]

(* A sweep deals with every agent that the migration delivered: what is    *)
(* left at its end is a suggestion that the next migration takes to the    *)
(* owner of its node, or a walker that has steps left and a place to start *)
(* from: either it stands on the rank that knows its guess, or the next    *)
(* migration takes it to the rank of the cell that is recorded for the     *)
(* neighbour it was hired by.                                              *)
NoneStranded ==
    phase = "sum" =>
       \A a \in agents :
          \/ /\ a.mode = "WALKING" /\ a.step < Limit
             /\ IF a.global = GUESS THEN a.at = a.part
                                    ELSE a.part = cell[a.from]
          \/ a.mode = "SUGGESTION" /\ a.home # a.at /\ a.home = Owner[a.global]

(* What the sweeps record for a node is a cell that encloses that node: no *)
(* agent delivers to a node what it found for another, and none delivers   *)
(* the cell it started from.  (The tree searches settle for the best       *)
(* candidate, and a warm start takes the cells as they are.)               *)
LocatedByDonor ==
    [][phase = "handle" =>
         \A n \in Node : cell'[n] # cell[n] => cell'[n] \in Donor[n]]_vars

(* No neighbour is forgotten: when the sweeps are over, every neighbour of *)
(* a located node has a cell too, unless it was looked for and not found,  *)
(* by an agent that came home without a cell or by ref_interp_seed_tree.   *)
(* A suggestion that is dropped because its node has an agent relies on    *)
(* that agent.                                                             *)
FloodComplete ==
    phase = "tree" /\ tries = 0 =>
       \A m \in Node : cell[m] # EMPTY =>
          \A n \in Around[m] : cell[n] # EMPTY \/ n \in gaveup

(* A node that is located is never located again: no late agent, match or  *)
(* tree search overwrites a cell.                                          *)
WriteOnce ==
    [][\A n \in Node : cell[n] # EMPTY => cell'[n] = cell[n]]_vars

(* What the invariants above need to be inductive: a suggestion names its  *)
(* node by global and is addressed to the owner; while the start nodes are *)
(* processed no agent has left its rank, a match has no cell yet and a     *)
(* warm node has one; the tree search meets no agent.                      *)
ProtocolShape ==
    /\ \A a \in agents : a.mode = "SUGGESTION" =>
          /\ a.node = EMPTY
          /\ a.global \in Node
          /\ a.home = Owner[a.global]
    /\ phase = "seed" =>
          /\ \A a \in agents : a.mode = "WALKING" => a.at = a.home
          /\ \A a \in agents : a.mode \in {"WALKING", "SUGGESTION"}
          /\ \A n \in todo : how = "warm" <=> cell[n] # EMPTY
    /\ phase \in {"tree", "near", "done", "failed"} => agents = {}
    /\ phase = "tree" => tries < MaxTries
    /\ phase \in {"seed", "sum", "walk", "handle"} => tries = 0

IndInv == TypeOK /\ OneAgentPerNode /\ ProtocolShape

(* What NoneStranded needs: the steps left to an agent that is to walk on, *)
(* where it starts from, and that the migration has brought every agent to *)
(* the rank whose loop takes it.                                           *)
SweepShape ==
    /\ \A a \in agents : a.mode \in {"WALKING", "HOP_PART", "SUGGESTION"} =>
          /\ a.step < Limit
          /\ a.global # GUESS => cell[a.from] # EMPTY /\ a.part = cell[a.from]
    /\ \A a \in agents :
          /\ a.mode = "HOP_PART" => a.global = GUESS
          /\ a.mode = "WALKING" /\ a.global = GUESS => a.at = a.part
    /\ phase \in {"seed", "sum"} => \A a \in agents :
          /\ a.mode \in {"WALKING", "SUGGESTION"}
          /\ a.mode = "SUGGESTION" => a.home # a.at
    /\ phase = "handle" => \A a \in agents :
          /\ a.mode = "HOP_PART" => a.at = a.part
          /\ a.mode \in {"AT_BOUNDARY", "TERMINATED", "ENCLOSING"} => a.at = a.home

(* What LocatedByDonor needs: an agent that reports an enclosing cell      *)
(* found it on a rank that has one for its own node.                       *)
DonorShape ==
    \A a \in agents : a.mode = "ENCLOSING" => a.part \in Donor[a.node]

(* What FloodComplete needs: while the sweeps go on, every neighbour of a  *)
(* node that was located and pushed has a cell, was given up, has an agent *)
(* or is named by a suggestion on its way.                                 *)
pushed == {m \in Node : /\ cell[m] # EMPTY
                        /\ phase = "seed" => m \notin todo}

accounted(n) ==
    \/ cell[n] # EMPTY
    \/ n \in gaveup
    \/ agent_hired[n]
    \/ \E a \in agents : a.mode = "SUGGESTION" /\ a.global = n

FloodShape ==
    phase \in {"seed", "sum", "walk", "handle"} \/ (phase = "tree" /\ tries = 0) =>
       \A m \in pushed : \A n \in Around[m] : accounted(n)

(* The sweeps end and the search returns, whatever the walks do: the step  *)
(* limit stops an agent that hops from rank to rank.                       *)
Returns == <>(phase \in {"done", "failed"})
=============================================================================
