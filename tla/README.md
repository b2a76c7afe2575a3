# A TLA+ model of refine

`refine` adapts unstructured meshes, in parallel, with MPI: each rank holds the
vertices and cells of a part of the mesh and copies ("ghosts") of the vertices
around it. This directory models the parts of the code whose correctness is a
matter of order, interleaving and bookkeeping, checks them with TLC on small
instances, and proves some of the results with TLAPS for all sizes. Most of the
program is floating-point geometry (quality, metrics, intersections); where the
modelled code depends on such a result, the model leaves it open.

All source paths are relative to `src/src/` of the repository.

## 1. Inventory

### Components, their state and operations

| component | state | operations that change it |
|---|---|---|
| `ref_mpi` | rank, size | collectives, `blindsend`, `balance`, all-to-all |
| `ref_node` | slots `global[]`, `part[]`, `age[]`, `real[]`; free list `blank`; index `sorted_global`/`sorted_local`; stack `unused_global`; `old_n_global`, `new_n_global` | add, add_many, four removes, rebuild, pack, next_global, push/pop/shift unused, synchronize_globals, ghost exchanges |
| `ref_adj` | `first[]`, `item[]`, `blank` | add, remove, add_uniquely |
| `ref_cell` | `c2n[]` with a free list, one `ref_adj` | add, add_many_global, remove, replace_node, replace_whole, pack |
| `ref_geom` | geometry records with a free list, one `ref_adj` | add, remove, pack, ghost, add_between |
| `ref_edge` | `e2n[]`, `part[]`, one `ref_adj` | create, ghost exchanges, rcm |
| `ref_agents` | pool of agents, `last`, `blank` | push, pop, remove, delete, restart, migrate |
| `ref_interp` | `cell[]`, `part[]`, `bary[]`, `agent_hired[]`, the agents, a ball tree | locate, locate_warm, locate_subset, locate_nearest, locate_node, locate_between, from_part, pack |
| `ref_subdiv` | `mark[]`, `node[]` per edge | mark, mark_relax, unmark, new_node, split |
| `ref_cavity` | faces, segments, tets of a cavity, its state | form, enlarge, shrink, replace |
| `ref_split`, `ref_collapse`, `ref_swap`, `ref_smooth` | none of their own | passes over edges or vertices |
| `ref_migrate` | none of its own | new parts, shufflin of nodes, geometry and cells, replicate |
| `ref_part`, `ref_gather`, `ref_import`, `ref_export` | none of their own | files to distributed mesh and back |
| `ref_adapt` | limits of the pass | the sequence of passes |
| `ref_sort`, `ref_list`, `ref_dict`, `ref_search`, `ref_face`, `ref_oct` | containers | see the modules or the plan |

### Interactions

`ref_adapt_pass` runs the local operators (collapse, swap, cavity, split, smooth)
on each rank over cells all of whose vertices that rank owns, so ranks create and
remove vertices without communication. Afterwards
`ref_node_synchronize_globals` renumbers, `ref_migrate_to_balance` moves vertices
and cells, and `ref_grid_pack` reorders the local storage; cells, geometry and
interpolation store local indices and are packed along. When a background grid is
attached, `ref_interp` finds a donor cell for each vertex, at first for all of
them with migrating agents, then one at a time as vertices are created.

### What is hard

 * **Renumbering without a coordinator.** Ranks hand out the same new numbers
   until they synchronize, and squeeze out unused numbers slice by slice while
   each rank's own unused list still waits to be processed.
 * **Agents and hired marks.** A node's hired mark is on its owner, its agent is
   anywhere; suggestions arrive late and are dropped if somebody is hired.
 * **Termination.** The sweeps end only if no agent circulates for ever.
 * **One word, two meanings.** A slot of `global[]` is a number or a free-list
   link; two removals leave the index wrong until it is rebuilt.
 * **Decisions made alone that must agree.** Each rank splits, cuts, turns or
   writes the cells it holds by itself; a neighbour that decides otherwise about
   its copy leaves a hole or a double cell. The same holds of arithmetic done on
   every rank (implicit parts, shares).
 * **Changing a share without telling anyone.** Between migrations the local
   operators work on parts of the mesh that other ranks hold copies of; only their
   ownership tests keep the copies true.
 * **Many small steps before one big one.** A cavity grows seg by seg and is then
   swapped in at once; marks are relaxed to a fixpoint over several sweeps.
 * **Boundary cases** of bisection, heap sort, growth, pruning of a search tree.

There is no recovery from a crash (a failed rank aborts the job), no retry and
no lossy transport; MPI delivers. Nothing of that kind is modelled. The list of
hazards with their lines is in `PROJECT.json`.

### What makes each component correct

| component | properties |
|---|---|
| node, global numbers | numbers unique on a rank at all times; ghosts agree with owners; old numbers mean one vertex; a synchronization ends, compact, in the same order |
| node, storage | free list exact; index exact; a vertex keeps slot and owner; implements a table |
| interp and agents | one agent per node; no handler asserts; no cell overwritten; nobody forgotten; the search returns |
| sort | sorted permutation; a present number is found |
| adj | every item on one list, all lists end; implements a list per node |
| subdiv | marks reach the least fixpoint, the same on all ranks; a template for what is left; children fit and each rank has its own; the relaxation ends |
| shard | both sides of a quad get the same diagonal |
| migrate, local operators, geom | halo exact and ghosts fresh at all times; the pass's own check of the CAD records holds; the surface stays conforming |
| cavity | a replaced cavity leaves a conforming surface; the segs are its boundary |
| part, gather | a file read by any number of ranks, and migrated, is written back the same |
| mpi | a blind send delivers in order; balance keeps the order |
| search | no branch of the tree is left out wrongly |

## 2. Modules

| module | models | composed of |
|---|---|---|
| `RefNodeSync` | global numbers on all ranks | `RefSort` |
| `RefNodeSync_proofs` | theorems about them | `RefNodeSync`, `RefSort_proofs` |
| `RefNode` | vertex storage of one rank | `RefSort`; implements `NodeTable` |
| `NodeTable` | what the storage promises (abstract) | - |
| `RefNode_proofs` | theorems about the storage | `RefNode`, `RefSort_proofs` |
| `RefSort` | sorts and searches as operators | - |
| `RefSort_proofs` | theorems about the heap sort and the bisection | `RefSort`, `RefLemmas` |
| `RefLemmas` | induction, recursion, loops and counting for the proofs | - |
| `RefAdj` | adjacency lists in a linked pool | implements `AdjLists` |
| `AdjLists` | what they promise (abstract) | - |
| `RefAdj_proofs` | theorems about the lists | `RefAdj`, `RefLemmas` |
| `RefInterpLocate` | the parallel search and its agents | - |
| `RefInterpLocate_proofs` | theorems about it | `RefInterpLocate` |
| `RefCellShape` | edges and faces of the element types; fitting together | - |
| `RefSubdivSplit` | the templates that split a cell | `RefCellShape` |
| `RefSubdiv` | marking, relaxation and split on all ranks | `RefSubdivSplit` |
| `RefSubdiv_proofs` | theorems about it | `RefSubdiv`, `RefLemmas` |
| `RefShard` | cutting cells into simplices and prisms | `RefCellShape` |
| `RefGrid` | a rank's share of a surface grid and its queries | - |
| `RefMigrate` | the stages of a migration | `RefGrid` |
| `RefAdapt` | split, swap, collapse, smooth and migration of all ranks | `RefMigrate` |
| `RefAdapt_proofs` | theorems about the mesh and its shares | `RefAdapt`, `RefLemmas` |
| `RefCavity` | the surface cavity on one rank | `RefGrid` |
| `RefPart` | reading a mesh file in parallel | `RefMigrate`, `RefCellShape` |
| `RefGather` | writing it | `RefPart` |
| `RefMpi` | blind send and balance | - |
| `RefSearch` | the tree of balls | - |
| `MC*` | instances for TLC; `MCRefAlgorithms` for all modules of operators | |

### RefNodeSync

A vertex has an identity in `Vert` that the program does not have; `glob[r][v]`
is the number rank r stores for it. `unused`, `oldN` and `newN` are
`unused_global`, `old_n_global`, `new_n_global`. `pc` is the place of each rank:
`adapt` (local operations), `drop` (before a synchronization every copy of a
doomed shared vertex is removed, by its owner with the number and by the others
without), `gather`, `count` and `slice` (the three collectives), `share`
(afterwards: ghosts are added and dropped). A collective is two steps, posting the
operand and applying the result once all operands are there, so that ranks can be
in different places, as in MPI.

`NewNode` is `next_global` and `add`; `Remove` is `ref_node_remove`; `DropCopy`
the removal in `ref_subdiv_new_node`; `Agree` stands for the decision of the
ranks to remove a shared vertex, which they reach from the same marks; `ShiftPost`,
`ShiftApply`, `CountApply`, `SliceApply` are the two halves of
`ref_node_synchronize_globals`; `Resume` returns to `adapt`.
The slice is bounded by `ChunkMin`, the 100000 of the source. The unused numbers are
sorted by the heap sort of `RefSort`.

### RefNode and NodeTable

The variables are the members of `REF_NODE_STRUCT`. `sorted_global` and
`sorted_local` are their first n entries; `part` distinguishes this rank from the
others and stands for all data that rides with a slot. `sweep` is the loop
variable of the two loops (`ref_grid_drop_volume`, `ref_migrate_shufflin`) that
release slots without maintaining the index; while one runs nothing else does.
`add` and `AddMany` take slots through `add_core`, which grows the storage by
`max(GrowMin, 1.5 max)` when the free list is empty. `Pack` takes any order,
which covers `ref_edge_rcm` and `ref_node_stable_compact`. Numbers that arrive
from other ranks are below the last synchronized count and not among those this
rank has released: that is what `RefNodeSync` establishes (`OldIdsUnique`).

`NodeTable` has one variable, a table from numbers to local indices, and says
that insertions give unused indices and move nobody, deletions remove one entry,
and packs produce `0..n-1`. The refinement maps the table to **what
`ref_node_local` answers** for each number, so that it covers the index and the
bisection; inside a removal loop, where nobody asks, to what the slots hold.

### RefSort

Arrays are functions on `0..n-1`; loops are recursive functions. The heap sort
keeps the source's l, ir, i and j (j = 2i+1 is its `j++; j<<=1; j--`). The int,
glob and dbl variants are one operator because their statements are the same.

### RefAdj and AdjLists

`first`, `next`, `ref` and `blank` are the members of `REF_ADJ_STRUCT`; nnode and
nitem are the sizes of the arrays. `Add` and `AddFull` are the two outcomes of
`ref_adj_add`, `Remove` is `ref_adj_remove` (front and middle of the list are the
cases of `Unlink`). `AdjLists` is a sequence of references per node. `MaxInt` is
`REF_INT_MAX`, small enough that the pool reaches it. The model assumes that a
node is at least `GrowNode` below `MaxInt`, since `ref_adj_add` sizes its growth as
`100 + node - nnode` before it applies the limit.

### RefInterpLocate

Variables `cell` (reduced to the rank that has the donor cell), `agent_hired`,
`agents` (a set of records with the members of `REF_AGENT_STRUCT`; `at` is the
rank that stores the agent, `from` stands for the seed), `phase`, and the
variant `how` of the search. Phases: `seed` (start nodes: matched geometry
nodes, already located nodes, or a sample looked up in the tree), then sweeps of
`sum` (allsum of the agents), `walk` (each rank walks its agents, then all
migrate) and `handle` (the four loops over hopped, suggested, lost and enclosing
agents, in that order on each rank), then `tree` or `near` for the nodes that are
left, `done` or `failed`. Where a walk ends is geometry: it may end at any of the
places the code can leave it, within the step limit, and encloses a node only in a
cell that `Donor` lists. `Around` is the list
`ref_grid_node_list_around` returns; the code accepts that it is cut off at 200
entries, so the model takes any relation, symmetric or not.

The members of the pool (`blank`, `last`, `previous`, `next`) are abstracted to
a set; order within a pool is not observable, since each loop is over slots and
the handlers of different nodes commute or are interleaved here in all orders.

### RefCellShape, RefSubdivSplit, RefShard

`RefCellShape` has the tables `e2n` and `f2n` of `ref_cell_initialize` and the
reference notion of a fit: a face is the set of its directed sides, faces seen from
both sides cancel, and what is left is the boundary. `RefSubdivSplit` has the
templates of `ref_subdiv_split_*`: a vertex of a child is the set of the parent's
corners it is the middle of, so that two cells that make the same vertex name it
alike. `RefShard` has the cuts by smallest global number and the split of hexes
along marked diagonals.

### RefSubdiv

`mark[r]` and `node[r]` are the sets of marked edges and of edges with a node on
rank r (`mark[]`, `node[]` of `REF_SUBDIV_STRUCT`); `phase` is the place in
`ref_subdiv_split`. A sweep of a relaxation is each rank's pass over its cells in its own
order (`Orders`), the exchange `ref_edge_ghost_int` or `_min_int` and the
`all_or` of "again". `InTurn` is such a loop over a list: each entry is a function of
the marks, applied to what the entries before it left. `SweepLimit` is the 200 of the code. What a metric asks for
(`Asked`), the edges that would invert a tet and those without CAD support enter as
inputs. `phase = "failed"` is a `RSS` of some rank: a limit on sweeps or rounds, a prism
refused by `TestImpossibleMarks` (`ref_subdiv_test_impossible_marks`, which looks at prisms
only), or a pattern without a template in `SplitCells`.

### RefGrid, RefMigrate, RefAdapt

A share is a record of nodes (owner and a version of the data), cells (edg and
tri) and CAD records. A node is its global number here: local numbers are the
subject of `RefNode`, unused ones of `RefNodeSync`. `RefMigrate` has one operator per
collective of `ref_migrate_shufflin`, and beside it a predicate for "no lookup
fails on any rank". `RefAdapt` interleaves the operators of all ranks: `Smooth`,
`Split`, `Swap` and `Collapse` have every combinatorial test of the code in its
order (locality, CAD, manifold, mixed elements) and leave open what geometry decides
(lengths, quality, normals). `Smooth` has the loops over CAD records (`SmoothGeom`) and those
over nodes without any (`SmoothFree`; in the runs every node has the records its cells call
for, which is `TopoVerified`, so these find none). `Balance` and the stages after it are the
migration to any partition. A failed assertion sets `failed`.

Left out, in the direction of more behaviour or of grids the model does not have:
`ref_swap_geom_topo`, which refuses swaps at a jump of the CAD parameters, so that the model
swaps more than the code; the demand of `ref_geom_add_between` for two tri on every edge of a
closed body (`ref_geom_manifold`) and its jump records, since the surfaces are open; and the
branch of `ref_migrate_to_balance` for an attached `ref_interp`, which moves the donor grid as
well. `ref_geom_tri_supported` asks the node a tri is stored first with; the model, where cells
start with their smallest node, asks that one. `TopoVerified` (by `SupportAgrees`) and
`CavityConforms` show that all nodes of a tri give the same answer.

### RefCavity

`cavity` is `REF_CAVITY_STRUCT` for surfaces: the tri to be replaced, the directed segs
with their face id, the node to connect them to, the state. `SplitForm`,
`BallForm` and `EdgeForm` start one as `ref_split_pass` and the two passes of
`ref_cavity_surf_geom_*` do, `Enlarge` adds the tri behind a seg the geometry
rejects, in any order, `Finish` gives the verdict, `Replace` swaps in the new tri and
`Drop` undoes the split. `Ghost` nodes belong to another rank and stop the growth. The pass
along a CAD edge lists the cell numbers of both tri and visits them in turn; a replacement
that removes a listed tri makes `rest` stale, and the next visit then fails, whether or not a tri
was made on the same nodes.

### RefPart, RefGather, RefMpi, RefSearch

Operators. The parallel reader and a migration are lists of stages that all ranks go
through together (`ref_part_meshb`, `ref_migrate_to_balance`); messages between two
ranks arrive in order, so each stage is a function of the grid before it. Cells are
edg, tri and pyr, which have the special cases (CAD records, inward orientation, the
other node order in the file); the rest take the same path. A tri between two pyramids fails
the stage that turns the boundary inward (`InwardSucceeds`); with one kind of volume cell a
tri cannot be turned twice. `RefGather` is what each
rank contributes to the file. `RefMpi` packs and unpacks buffers by
displacements as the code does. `RefSearch` has places on a line, where distances
are exact; an element may lie at either end of its ball.

## 3. Runs

| run | instance | shows |
|---|---|---|
| `sync_three_ranks` | 3 ranks, 3 vertices, chunk 1 | several slices, one of which spans ranks; all interleavings of one synchronization |
| `sync_twice` | 2 ranks, 2 new numbers each, 2 synchronizations | released numbers are reused and squeezed out again, ghosts come and go in between; no rank is left in a collective (liveness) |
| `locate_fan` | 3 ranks, 4 nodes in two triangles, a node with no donor and one with two | agents of three ranks, conflicts between suggestions and hires |
| `locate_strip` | 2 ranks, 4 nodes dealt in turn | every neighbour is a ghost: the flood lives on suggestions; the search returns (liveness) |
| `node_storage` | 1 slot at first, 4 numbers | the storage grows twice (1, 2, 5 slots), with all free-list orders that result |
| `adj_pool` | 3 nodes, 2 references, int up to 5 | the pool grows 1, 2, 3, 4, 5 and is full; items are reused across nodes |
| `algorithms` | see below | every module of operators against reference definitions |
| `subdiv_tets` | tets on 2 ranks, several orders of cells, any request | the relaxed marks are the least closed set, all ranks agree, every edge that keeps its mark is split |
| `subdiv_mixed` | two tets, a prism and a pyramid on 2 ranks | each rank has exactly its children; the relaxations end (liveness) |
| `adapt_two_ops` | 2 ranks, two CAD faces, any two operators and migrations | halo, CAD records and conformity |
| `adapt_three_ranks` | 3 ranks, one operator and migrations between any partitions | halo and fresh ghosts with a rank that is told of a node by two others |
| `cavity_surface` | two CAD faces, a node inside, a ghost corner, two cavities | replaced cavities leave a valid surface |

`algorithms` takes up one job and builds its input step by step: all arrays of up to
6 of 6 values; all orders of the global numbers of a quad, pyramid, prism and hex and
all sets of marked diagonals; all sets of marked edges of a tet, pyramid and prism;
trees of up to 4 balls at 4 places with two radii; up to 4 items between 3 ranks; files
of up to 3 of 5 cells in any order on 5 to 7 vertices, read by 1, 2, 3, 4 and 6
ranks in sections of 1 and 2, then migrated between three partitions.

The properties, each described where it is defined:

 * `RefNodeSync`: `LocalIdsUnique`, `GhostAgrees`, `OldIdsUnique`, `SyncCompacts`,
   `OrderKept` (the shift and the elimination never reorder numbers, which is why
   the index needs no sort), `SyncCompletes`;
 * `RefInterpLocate`: `TypeOK`, `OneAgentPerNode`, `HandlerAsserts` (the assertions of the
   handlers), `AllDismissed`, `NoneStranded` (no agent is left over by a sweep, and a walker
   is on the rank that knows where it starts), `LocatedByDonor` (what a sweep records
   encloses the node; the cells a warm search starts from may be anywhere), `FloodComplete`,
   `WriteOnce`, `Returns`;
 * `RefNode`: `FreeListExact`, `IndexExact`, `OwnerFollows`, `TableSpec` (the
   refinement); `RefAdj`: `PoolExact`, `ListsSpec` (the refinement);
 * `RefSubdiv`: `RelaxLeastClosure` (against the least closed set defined without
   rounds, ranks or orders), `SplitReady`, `SplitProgress`, `HaloComplete`,
   `Terminates`;
 * `RefAdapt`: `HaloExact`, `GhostsFresh`, `TopoVerified` (`ref_geom_verify_topo` and
   every assertion modelled), `MeshConforms`;
 * `RefCavity`: `CavityConforms`, `SegsBound`;
 * `MCRefAlgorithms`: `SortSearch`, `CutConforms`, `SplitConforms`, `TreeFinds`,
   `ExchangeDelivers`, `FileRoundTrip`.

Type invariants of the other modules are conjuncts of their first property. Each
property is paired in `PROJECT.json` with a mutant, a plausible slip in the code
that TLC must find it violated by. Mutants are the definitions named `*_mutant`.

### Bounds

`NVert`, `MaxNew`, `MaxUnused`, `MaxSync`, `NGlob`, `NNode`, `NRef`, `MaxMany`, `MaxLen`,
`MaxEntry`, `MaxOp`, `MaxMove`, `MaxNode`, `MaxBall`, `MaxItem`, `MaxCell` bound the instances in
guards; `ChunkMin`, `InitMax`, `GrowMin`, `InitNode`, `InitItem`, `GrowNode`,
`GrowItem`, `MaxInt`, `Limit`, `MaxTries` are constants of the code (100000, 20,
5000, 10, 20, 100, 100, 2147483647, 215, 12) made small; `SweepLimit` keeps its value. Three
ranks are what it takes for a slice boundary inside the ranks to leave a rank on
either side; two new numbers and two released ones per rank are what it takes for a
number to be reused and for two orders of an unused list; `Limit = 3` allows a hop, a
walk and a hop back before the limit strikes, and `MaxTries = 2` a failed tree search
before a successful one. Growth happens twice so that a second chunk is linked
behind a used first one. Six entries give a heap three levels deep with a last
parent of one child, and a bisection of three rounds. Two operators are what it takes
for one to work on what another left, with a migration before, between or after; a
third rank is what it takes for two ranks to tell a third of the same node. Four
balls fill the root, both children and one place below. Six ranks and five
vertices leave a rank without any; one rank to four cover parts that are all
large, of mixed size, and a last one that is small. The proofs below need none of these
bounds.

Deadlock is checked in the runs of `RefNodeSync`, `RefInterpLocate`, `RefNode`,
`RefAdj` and `RefAdapt`: the first four have an explicit step for a finished run where
the system may stop, and in `RefAdapt` another
balance is always possible unless a step ended the program with an error, so that
deadlock there would be such an error. The runs of `MCRefAlgorithms`, `RefSubdiv` and `RefCavity` end: with
a complete input, a finished split, or when the bound on operators is reached.

### Fairness

`FairSpec` in `RefNodeSync`: weak fairness of each rank's synchronization steps and
of `Resume`. The code has no way to stay out of a collective once some rank is in
it: every rank runs the same `ref_adapt` and `ref_subdiv` sequence. No fairness is
assumed for creating or removing vertices. In `RefInterpLocate`: weak fairness of
the seeds, of each rank's step within a phase and of the collectives. Nothing is
assumed about where walks end; termination comes from the step count, which
survives hops. In `RefSubdiv`: weak fairness of the next step, since a rank in a
sweep does nothing else; which edges the geometry refuses is open.

## 4. Findings

No run expects a violation. Noted while modelling:

 * The comment at `ref_agents.h:57` says the member `global` is "empty otherwise" than
   in modes HOP_PART and SUGGESTION; `ref_interp_process_agents`
   (`ref_interp.c:884`) turns a hopped agent into a walking one and leaves the guess in
   place. No code reads it in the other modes.
 * The comment at `ref_subdiv.c:438` says "unmark the edge with the smallest edge globals";
   the code below it unmarks the one with the larger globals. `SplitProgress` states
   what the code does: the least requested edge survives.
 * With prisms and pyramids, `ref_subdiv` can be asked for marks no template
   exists for and stops with REF_IMPLEMENT; with tets it never does (`SplitProgress`).
 * A second cell of a kind on the same nodes is dropped without a message by the
   parallel reader (`ref_cell.c:764`) and kept by the serial one.
 * A cavity knows a CAD edge by the face ids on its two sides (`ref_cavity.c:1768`):
   where they are the same only the normals and parameter areas keep it from growing
   across. The modelled surfaces have different faces there.
 * `ref_grid_drop_volume` releases the numbers of ghosts on every rank that has a copy,
   which would squeeze a number out twice; its only caller is a serial test
   program. `ref_shard` removes vertices without their numbers, which leaves gaps in the
   numbering.

## 5. Proofs

Every theorem holds for all values of the constants that satisfy the named
assumptions of its module; the bounds of the runs play no part.

### The parallel search (`RefInterpLocate_proofs`)

For any finite or infinite `Rank` and `Node`, any `Owner`, `Around`, `Donor`,
`Limit` and `MaxTries`:

 * `Inductive`: `Spec => []IndInv` with
   `IndInv == TypeOK /\ OneAgentPerNode /\ ProtocolShape`;
 * `TypeCorrect`, `OneAgent`, `HandlersNeverAssert`, `EverybodyDismissed`: the
   invariants of the same content;
 * `CellsWrittenOnce`: the action property `WriteOnce`;
 * `SweepsStrandNobody` (`NoneStranded`), `WalksDeliverDonors`
   (`LocatedByDonor`), `FloodForgetsNobody` (`FloodComplete`), each with a further
   invariant on top of `IndInv`.

`OneAgentPerNode` alone is not inductive. A suggestion becomes an agent at the
owner of its node, which keeps the hired mark truthful only if suggestions are
addressed to the owner; a match may delete a queued walker only if that walker
has not left the rank; a tree search may write a cell only if no agent
works for the node. `ProtocolShape` states these three and the phase facts they
rest on. `Consistent` and `Addressed` are the two parts of the invariant as
predicates of values, so that lemmas can be stated once about what the code does
to the data: `PushKeeps` (hiring for neighbours), `ReplaceKeeps` (an agent
changes place or mode), `DismissKeeps` (an agent and its mark go together),
`LocateKeeps`. Each action has its lemma (`WalkInd`, `HopInd`, ...), `NextInd`
joins them. For `NoneStranded` the invariant says which modes are still possible in
each of the four loops of a handler and, of every walker, that it is on the rank that holds its
guess or starts from the cell recorded for the neighbour that hired it (which no step changes,
`CellsKept`), for `LocatedByDonor` that an enclosing agent
carries a donor of its own node, and for `FloodComplete` that in every state a
neighbour of a located node is located, given up, hired, or suggested by somebody
on the way to its owner.

### The adjacency (`RefAdj_proofs`)

 * `PoolStaysExact`: `Spec => []PoolExact`;
 * `ImplementsLists`: `Spec => ListsSpec`, the refinement of `AdjLists`.

The invariant is that there are lists `L`, one per node and one of the unused items,
that the pointers thread (`Threads`): each list is the chain from its head, every item
is in exactly one place of one list, and an item has no reference exactly when it is
unused. `PoolExact` talks about what is reached by following links, which no single
step determines; with the lists each operation is a push, a removal of one place or
an append of new items, and what the recursive walk `items` returns is the list
(`Contents`). The growth steps are composed by `PoolThreads` before the push.

### Sorting and searching (`RefSort_proofs`)

 * `SearchIsExact`: on an ascending list `search_glob` returns a position of the target
   if the list has it and `ABSENT` otherwise;
 * `HeapSorts`: `heap_glob` returns a permutation along which the entries ascend.

Both are loops, written as recursive functions. For the bisection the invariant is
that the target can only be strictly between the ends, and that a window whose
middle is an end has no place between them (the first `mid` is `n >> 1`, not the
middle of the window). For the heap sort it is the heap condition from `l - 1` on up to
`ir`, the order of what has retired behind `ir`, and that nothing in the heap is
larger than what has retired; inside `sink` the heap condition holds except at the hole,
around which the parent's parent still dominates.

### The vertex storage (`RefNode_proofs`)

 * `FreeListStaysExact`: `Spec => []FreeListExact`;
 * `IndexStaysExact`: `Spec => []IndexExact`;
 * `OwnersFollow`: `Spec => OwnerFollows`;
 * `ImplementsTable`: `Spec => TableSpec`, the refinement of `NodeTable` with the table
   that `ref_node_local` answers.

The invariant has a sequence of slots, the free list, behind the negative words
(`FreeList`), words that are distinct numbers elsewhere (`Words`), the count, and, when no
removal loop is under way, an index that lists exactly the used slots by ascending
number (`Indexed`). Neither half is enough by itself: `ref_node_remove` finds its place
in the index by bisection, which needs the order, and the order of the index
after an insertion needs that the number was not there, which `ref_node_local` decides
by the same bisection (`SearchIsExact`). `ref_node_add_many` and the end of a removal loop rest on
`HeapSorts`. Every action is shown to grow, shrink or repack the storage (`Stepped`); the
refinement and `OwnerFollows` follow from that and the exact index before and after.

### The global numbers (`RefNodeSync_proofs`)

For any `NRank` > 0, `NVert`, `NInit`, `ChunkMin` and bounds:

 * `NumbersStayApart`, `GhostsFollow`, `OldNumbersStayUnique`, `SynchronizationCompacts`:
   the invariants `LocalIdsUnique` (which includes the types), `GhostAgrees`,
   `OldIdsUnique` and `SyncCompacts`;
 * `OrderIsKept`: the action property `OrderKept`.

None of them is inductive: what a slice subtracts is right only if every rank of the slice
posted what it still had, after the same earlier slices, and what a number turns into
depends on what all ranks hold. The invariant (`IndInv`) has two forms.

`Working(N, e)` holds from the end of one synchronization to the first shift of the next.
Numbers below the common count `N` belong to one vertex or one place of one unused list;
those from `N` on do so on their own rank, and their vertices have no other copy; no
number up to the counts is lost. The one exception is a vertex that all ranks are
dropping: the owner may have listed its number while others still hold their copies.

When the last rank has entered, all numbers are determined (`AllGathered`): there is a
number `H[v]` for each vertex and a set `U[q]` of unused numbers of each rank that
partition `0..M-1`. That the shifted new numbers of the ranks lie side by side is
`ShiftsPartition`, from the monotone prefix sums. `Renumbering(H, U, N, M, e)` then says of
each rank separately where it is: it has yet to shift, or it stores
`squeeze(E, H[v])`, where `E` are the unused numbers of the ranks before its `active0` and
`squeeze(E, x)` is x less the number of members of `E` below it. What it posted for its own
slice is, ascending or not, the squeezed `U[q]`. Ranks may be slices apart. The
arithmetic is in four lemmas: squeezing keeps the order and merges nothing
(`SqueezeOrder`); squeezing out a slice given by its already squeezed numbers is
squeezing both at once (`SqueezeTwice`); the walk of `eliminate_unused_offset`, with its
running maximum, computes that (`WalkSqueezes`); and what is left of `0..M-1` is `0..n-1`
(`SqueezeCompact`). `SlicesFollow` shows that a rank is in one slice only, so that its
posted operand is not overwritten. The ascending list comes from `HeapSorts`.

### Subdivision (`RefSubdiv_proofs`)

For any finite mesh of tets, pyramids and prisms, any owners of its nodes, any storage
orders, requests, CAD support and inversions, and any `SweepLimit` > 0:

 * `RelaxIsLeastClosure`, `SplitIsReady`, `SplitIsComplete`, `SplitMakesProgress`: the
   invariants `RelaxLeastClosure`, `SplitReady`, `HaloComplete` and `SplitProgress`;
 * `SubdivInductive`: `Spec => []IInv`, which they follow from.

The constants' assumption (`MeshAssumption`) says that the nodes of a cell are distinct,
have an owner, and that the mesh is finite.

A sweep is a loop over cells and, within a cell, over rules or faces, so what it does is
first shown for `InTurn`: a loop keeps what its entries keep, and a loop of entries that
only add (or only remove) marks and that ends where it began changed nothing on the way
(`InTurnKeeps`, `InTurnGrows`, `InTurnShrinks`). The second half is why a sweep without
"again" shows every cell to be at rest, and not only the sweep as a whole.

`IInv` relates the ranks to the marks `A` all of them had when the round began.

 * Promotion: `A` is on every rank, and what a rank has is below every closed set above
   the request. That a rule keeps below a closed set is immediate where it marks all of
   its edges at one mark of two; "two of three" and "two of six" are not monotone: a
   closed set may have three marks of a face where the rank has two. It then has all
   three, and for the six edges of a tet the face rules that came before in the same
   cell leave only an opposite pair, above which a closed set has all six (`PairClosesTet`,
   `ClosedTet`, `PromoteTetBelow`). The exchange takes back what a rank promoted on edges it does not
   own; nothing is lost, because the owner of an edge holds every cell around it
   (`OwnerHolds`) and the round without a change is the one that counts.
 * Removal: each rank has some of `A`, less of it exactly if it asked for another
   sweep. The minimum over the holders is then a smaller set (`CommonIsLess`), so sweeps
   and rounds together with the marks left are never more than the edges
   (`Counted`): neither limit is met in a mesh with fewer. A mark that a rank removes had
   a marked neighbour that comes before it (`Unmarking`), so the least of the
   marks stays on all ranks at once (`LeastStays`).
 * Split: every rank has the marks `A` on what it holds, a node for each and no other,
   so that cells on two ranks are given the same pattern (`MapIsLocal`) and the same
   children (`ChildrenLocal`). What remains is about the templates: the vertices of a
   child are vertices of its parent or between two of them (`ChildVertices`), so the owner of a
   child's vertex holds the parent, and every vertex of a tet is used by a child
   (`TetUsesAll`), so that no node is left over.

### Adaptation on all ranks (`RefAdapt_proofs`)

For any mesh of edg and tri that is a conforming disk whose CAD faces differ across every
CAD edge inside it (closed bodies and seams within one face are outside), any number of ranks, any
partition, any geometry records, and any `MaxNode` and `MaxOp`:

 * `HaloIsExact`, `GhostsAreFresh`, `MeshStaysConforming`: the invariants `HaloExact`,
   `GhostsFresh` and `MeshConforms`;
 * `AdaptInductive`: `Spec => []AdaptInv`, which they follow from.

The constants' assumption (`GridAssumption`) says that the program starts with such a mesh:
the nodes of a cell are distinct, no two cells of a kind have the same nodes, a record
belongs to a node, and `ConformingDisk`.

None of the three invariants is inductive: each speaks of the grid between two
migrations and says nothing of the stages in between, and an operation of a rank is right
for the whole mesh only because all three hold. `AdaptInv` says that there is one
mesh `M`, with owners `q`, data `V` and records `G`, such that every rank holds exactly its
`Piece` of it; during a migration to the owners `p` it says for each stage which nodes,
data, cells and records every rank has (`AtNode`, `AtGeom`, `AtCell`, `AtReal`,
`AtFill`). It quantifies over all meshes, so TLC does not evaluate it; the runs check its
consequences. The argument has three parts.

 * The mesh. `ConformingDisk` counts; the proofs use the equivalent `Sound` (distinct cells,
   no two tri along a side in the same direction, a neighbour of the same face or an edg
   on each side, an edg only where faces end or differ) and `Euler`
   (`SoundIsDisk`, `DiskIsSound`). A collapse that passes
   `ref_collapse_edge_manifold` keeps both (`MergedSound`, `MergedEuler`): no merged cell is
   already there, and a node next to both ends is across a tri on the edge, so that
   as many pairs of sides fall together as tri vanish. A split needs only a free number
   (`HalvedSound`, `HalvedEuler`); a swap needs the same face on both sides and
   that the new side is not there yet (`SwapSound`, `SwapEuler`).
 * The shares. A rank tests what it holds. When the cells an operation touches are all
   its own (`ref_collapse_edge_local_cell`, `ref_cell_local_gem`, `ref_swap_local_cell`,
   `ref_smooth_local_cell_about`) its share has all cells of the mesh there, so the tests
   hold for the mesh (`LocalCell`, `GemLocal`, `CollapseAllowed`, `SwapPair`), no other rank
   holds a cell that goes or comes (`LocalTo`, `OthersKeep`), and the new share is its
   piece of the new mesh (`LocalStep`). The edg around a node need no test of
   their own: each is the side of a tri (`AllAround`).
 * The migration. `NewPart`, `NodesSent`, `GeomsSent`, `CellsSent`, `Tidied`, `RealFilled` and
   `GeomFilled` take the shares from one stage to the next. The exchanges work because
   the old owner of a node holds all cells around it and knows their new owners, so that
   every cell a rank is to hold is there already or sent by another (`SentMeans`). A
   record without a cell of its kind is dropped by owners and ghosts alike, and the last
   exchange gives a ghost what its owner kept (`Partial`).

### Induction over data (`RefLemmas`)

The library's induction theorems take an operator as a parameter, which the provers cannot
instantiate. `RefLemmas` therefore states induction for sets: a nonempty set of naturals
has a least element (`LeastNatural`, from the well-foundedness of `<`). From it follow
the existence of a function that solves a recursion over a measure (`RecursionExists`), the
invariant rule for a loop that decreases a measure (`LoopInvariant`), and counting the
members of a set below a bound (`CountingExists`).

### Only model-checked

`TopoVerified` of `RefAdapt` (that no assertion fails and every node has the records its
cells call for), which besides `AdaptInv` needs that the tri around a node are one fan, a
statement about paths; `RefCavity`; the operators that
`MCRefAlgorithms` checks apart from the heap sort and the bisection; liveness
(`Returns`, `SyncCompletes`, `Terminates`), which is out of the prover's reach; the tree of
`RefSearch`, which is a RECURSIVE operator.

## 6. Not modelled

The status of every component with the reason is in `PROJECT.json`. The repository
has some 123 000 lines of C. About half are earlier programs (`one`, `mesherx`) that
the current one does not use, unit tests apart. Of the rest most is floating-point
computation whose correctness is numerical (metrics, reconstruction, matrices,
flow physics, geometry evaluation, quality and intersection tests of the
operators), readers and writers of file formats, command-line drivers, and
interfaces to external libraries (EGADS, MeshLink, ParMETIS, Zoltan). A model of
those that leaves the numbers out has no control left to check. What remains, the
parallel and combinatorial core, is what this project covers, with the exceptions
of the plan.

## 7. Plan

 1. Proofs: that the implicit partition inverts `ref_part_first`; the fan of tri around
    a node, and with it `TopoVerified`.
 2. The volume cavity (faces instead of segs) and the collapse and swap cavities.
 3. `ref_cell` and `ref_geom` storage over `RefAdj`, the pool of `ref_agents` and its
    two lists, `ref_list` and `ref_dict`.
 4. `locate_node`, `locate_between` and `from_part` of `ref_interp`; implicit
    numbers of `ref_node`; the octree of `ref_oct`.
