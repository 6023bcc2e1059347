# A TLA+ model of scalepnr's place and route

scalepnr is an FPGA place-and-route program written in C++ (`src/src/`). It is
single-threaded: its hard behaviour is not parallelism but many operations that
edit one shared structure, the leased routing fabric, in an order decided by
heuristics, timeouts and failures. The modules here model the parts of it whose
correctness depends on that order.

## The system

| component | state | operations |
|---|---|---|
| Route fragments and leases (`fpga/Wire.cpp`, `fpga/Tile.cpp`) | per binding a vector of `Wire` fragments; per tile a lease bit for each node and an index of the bindings that touch it | commit, continue, fork from a sibling, cut a hole, repair it, step back, discard, detach a moved sink, unroute a source tree |
| Incremental place and route (`pnr/pnr.cpp`) | runs, `pnr_pending`, `pnr_completed`, `outline.fixed`, bunch references, two borrowed modes | plan, then admit, place, route, validate, freeze each run |
| Router stages (`pnr/route/RouteDesign.cpp`, `RoutePassState.h`) | task queues, pass counters, deadlines, preemption blockers | Clock, Const, Basic, Moving sources, Fanouts, Moving destinations; retry, preempt, give up |
| Docking (`pnr/route/Docking.cpp`) | endpoint bridges | choose the node pair that joins a search to an endpoint |
| Moving recovery (`pnr/route/Moving*.h`) | caches, blacklists, candidate queues | relocate the cell of a connection that cannot be finished |
| Clock and constant routing (`RouteClocks.cpp`, `RouteVCC.cpp`) | dedicated resources, local constant sources | assign them before general routing |
| Net bindings (`rtl/Net.h`) | `net.routes` and two lazily rebuilt lookups | find, retarget, erase a binding |
| Fabric (`fpga/Crossbar.cpp`, `fpga/Device.cpp`) | masks and arcs of every tile type | decode nodes, follow a jump |
| Packing (`pnr/place/PlaceDesign.cpp`) | tile element slots | pack a cell or a bunch |
| Placement refinement (`PlaceSorting`, `PlaceSwapping`, `PlaceTiming`) | sites of unfixed cells | move and swap |
| Estimate and outline (`EstimateDesign.cpp`, `OutlineDesign.cpp`) | bunches, floating-point positions | group and spread |
| Clocks and timing (`clocks/`) | paths, slacks | enumerate and analyse |
| RTL model, technology, database, Tcl, visualizer | netlist, tables, files | load, save, print, command dispatch |

How they interact: the Tcl commands call `Tech`, which calls the placement and
routing engines one after the other; `Pnr::run` calls both per run and validates
what they did. The router's engines share the fabric through leases. A search
reads leases and owners (through the index of each tile), commits fragments,
and may cut a hole into another binding's route, which is then queued again.
Placement and routing share the sites of cells: the router moves cells whose
connections cannot be finished, together with the routes it proved first.

What is hard:

* one physical trunk is described by several replicas, and only flags on the
  fragments say which replica owns the lease of each node, so that every
  removal has to hand over before it releases;
* a route may have holes for a long time while others are edited around it;
* owner queries see a binding only through the index of the node's tile;
* a later run may take fabric and cells from an earlier, validated one;
* exceptions leave a run at any point, with borrowed modes and shadow bunches
  to be given back.

What makes each component correct: no node is used by two sources and none is
used unleased, no lease is left without an owner and the indexes are exact
(leases); later runs are untouched and earlier ones whole at each boundary,
whatever ends the call (runs); each cell in one run and nothing split that must
be packed together (plan); every connection is finished or given up in bounded
time and a preempted one is never forgotten (stages); the lookups agree with
`net.routes` (bindings); no element is occupied twice (packing).

## Modules

| module | models |
|---|---|
| `RouteFragments` | fabric, fragments, and the pure functions of `Wire.cpp` that read a route |
| `RouteLeases` | the operations that edit routes, leases and tile indexes |
| `RouteInvariants` | the inductive invariant of `RouteLeases`, in named parts, and the conditions under which it holds |
| `MCRouteLeases` | a fabric of 19 (or 17) nodes with three bindings of two sources |
| `RouteLeasesProofs` | fragments of the fabric only, exact tile indexes |
| `RouteTreeProofs` | unbroken routes, ownership of leases, what may change its source |
| `PnrPlan` | `Pnr::plan`: union-find grouping, ordering and packing into runs |
| `MCPnrPlan` | eight cells, two bunches, two clock domains, a carry chain |
| `PnrPlanProofs` | the forest of the plan, its joins, the partition of the cells, size and order of runs |
| `PnrRuns` | `Pnr::run`: admission, the engines' effects, validation, freezing, every failure |
| `MCPnrRuns` | three runs over four cells and five connections |
| `PnrRunsProofs` | the invariants and action properties of the run loop |
| `NetRoutes` | what the bindings of a net promise: a query is a search of `net.routes` |
| `NetRouteIndex` | the two lookups of `rtl::Net`, the binding ids on tiles, the owner index of a search |
| `MCNetRouteIndex` | two nets, colliding hashes, addresses that return |
| `NetRouteIndexProofs` | exactness of every index, and that they implement `NetRoutes` |
| `RouteStages` | the pass loop of `routeDesign`: task queues, stages, focus, audit |
| `MCRouteStages` | three small netlists: two ports, a driver with two ports, a sink with two pins |
| `RouteStagesProofs` | types, and one pass of Moving sources, for every design |
| `RouteStarProofs` | no lost task, complete returns, the trunk barrier, for every star |
| `InductionLemmas` | induction over the naturals, iterated steps, enumerations: what proofs about recursive functions need |

### RouteFragments and RouteLeases

A fragment is a record: `out` (the takeoff, a crossbar with `pos` 0), `hop`,
`ground` (the last crossbar, without a jump), `pin`, or `gap` (`WIRE_GAP`).
`shared`, `ownsDst` and `ownsLanding` are the three flags of `Wire`. Nodes are
the leasable resources: SRC, DST and the sink's LOCAL pin. JOINT nodes follow
the SRC of their fragment in every rule and are folded into it; the source's
output pin is never leased by this router and only names the source.

`route`, `leased` and `reg` are the vectors of fragments, all lease masks, and
all `routed_bindings` indexes. Operations that call one another are operators on
the record of the three (`Promote`, `Withdraw`, `Truncate`, `Unroute`, ...), and
an action installs the result of a whole handler. The actions are:

* `RouteStep(b)`: one bounded search from the source, the binding's own end, or
  a DST of a complete sibling; the suffix is leased and registered whole;
* `Preempt(b)`: the same when nodes are held by foreign transit: the victims are
  checked, all are cut in one transaction, and the suffix is committed;
* `RepairGap(b)`: closes the first hole and patches every replica that has it;
* `StepBack(b)`, `Discard(b)`, `UnrouteSourceTree(s)`, `MoveSinks(S)`: the
  removals, with promotion of surviving siblings where the code has it.

The bounded search of the code is any path of at most `MaxHops` SRCs.

### PnrPlan and PnrRuns

`PnrPlan` takes the steps of `plan()`: the joins for bunches in cell
order, those for chains in one order that is not tied to the cells' (the groups
of a union-find are the same in every order of its joins), the joins of clock cones in any order
(the code walks a hash table), the sort, and the packing of one group after another.

`PnrRuns` reduces an engine to what it may do to a cell or a connection.
Placement packs or moves cells that are neither pending nor completed (nor
fixed, for refinement). Routing completes a connection of admitted cells, cuts
any connection, relocates any movable admitted cell and reopens it. Every throw
is an action: placement without a legal site, a routing failure, validation, an
unplaced cell in the middle of freezing, the `run_completed` callback.

`doc/pnr.md` says two things of a completed cell. Lines 52-57 let routing recovery
move it ("`outline.fixed` is a placement restriction, not a routing relocation ban")
and reopen its completion; lines 131-133 want that "routing-driven movement must not
change" the coordinates of a frozen cell. The code does the former
(`RouteDesign.cpp:15263`), and so do `Relocate` and `CompletedKept`, the property that
a completed cell moves only by a relocation that reopens it.

### NetRoutes and NetRouteIndex

`NetRoutes` holds the vectors only; a query returns the first position of a key
with the number of its bindings, the position of an id, or all bindings that own
a resource on a tile. `NetRouteIndex` has the same edits as the code performs
them: `route_lookup` keeps a position and a count per hash and is trusted while
size and address of the vector agree, `route_id_lookup` likewise, appending
updates both, erasing and clearing drop both, retargeting invalidates them, tiles
keep the ids registered on them, and `RouteOwnerQueries` keeps owners of at most
`CacheLimit` tiles while `route_mutation_revision` stands. A vector's address is
any member of `Addresses` after a reallocation, so an old address can return.

### RouteStages

A connection is one sink pin of one output port; its binding is unbound, partial
(a prefix), cut (a gap), or done. A queue maps each connection to the role of its
task, generic or fanout; `todo`, `parked`, `deferred` and `pending` are
`route_todo`, `fanout_route_todo`, `moving_deferred_todo` and
`pending_route_todo`. An execution of `routeTaskBatch` is one step per task
(`CompleteTask`, `ParkTask`, `FailTask`, `RecoverTask`), a call of
`perform_moving_relocation` is the visit of each queued source (`EnterSources` to
`LeaveSources`) or one step for destinations (`PickDeferred`, `NothingToMove`,
`FocusStuck`, `RepairFrozen`, `WireSink`, `ShiftSink`), and `EndPass` is
everything between a batch and the next pass: filing the pending tasks, the end
of a focus, the hand-over of a stage, the start of Fanouts or of Moving
destinations and the audit of the bindings. A search may complete its connection
and cut routes of other ports where the stage allows preemption; a relocation
tears or reroutes every binding at the cell. A connection that was never
attempted has none, and is not seen, except as the input of a moved source,
which the code collects from the netlist. A preempted route keeps a gap, for which
`routeNeedsFanoutRepair` (`RouteDesign.cpp:9211`) makes its task a branch, so that the
role of a cut task is always fanout.

Left out: the order inside a queue, retry counters, cooldowns, slices of a focus
and its yielding (`defer_exhausted_moving_focus`), pass limits, task limits of a
batch, the repair of stale shared prefixes, constants and clocks (they have
queues of their own). `moving_destination_todo` is filled and emptied within one
hand-over, `moving_source_retry_todo` is never filled, and the branch of the Fanouts hand-off for demoted seeds
(`seed_tasks`) needs a task that is not a branch in the Fanouts stage; none of them is
modelled. A deadline in Moving and a move that finds no candidate end the
routing (`Abandon`).

Operators named `Mut*` are the seeded errors the properties are tried against;
the model does not use them.

## Runs

| run | shows | bounds |
|---|---|---|
| `leases` | the conditions of the code's own congestion audit (`auditTileCongestionImpl`), continuity of every route, repairable holes; and that without moves no back-step takes what a sibling depends on (`StepsBackAlone`, the hypothesis of the ownership theorems) | 3 bindings, 2 sources, one contended DST, a detour for each trunk; `MaxHops` 2 makes the longest route take several steps, every binding may step back, no sink moves |
| `moved_sinks` | the inductive invariant (`LeasesSound`: owners, exact leases, and routes that stay unbroken through every detachment) when sinks move, one at a time; what may change its source in a step | a 17-node fabric; the pin of `b1` lies on the contended tile, so that one direction of preemption is forbidden; only `b1`, which has no replica, steps back |
| `backstep_promoted` | the first finding | one replica may step back and sinks move |
| `co_moved_sinks` | the second finding | both sinks of source A move as one instance |
| `pnr_plan` | what a plan guarantees | all rankings with deficits 0 and 1, run sizes 0 to 4 (groups have 1 to 5 cells) |
| `pnr_runs` | what the run loop guarantees | 3 runs, 4 cells, 5 sites, 5 connections in both directions across runs, one of them direct |
| `net_route_index` | the indexes are exact whenever they are trusted, and every answer is that of a search (`NetRoutes`) | 2 nets, 2 ids each, 2 of 3 keys collide, 2 addresses, an owner index of one tile, 3 publications |
| `route_stages` | no unfinished connection leaves the queues, a normal return is complete, the trunk barrier, one pass of Moving sources, progress | 2 ports with 2 sinks each on cells of their own; driver and one sink of the second frozen; any set of connections routed by an earlier run; `FanoutPasses` 2 for `max(32, 8 * limit)` |
| `parked_at_handoff` | the third finding | the same netlist, nothing frozen |
| `two_ports` | the fourth finding | one driver with two ports, one of its inputs routed by a third |
| `two_pins` | the fifth finding | one port, four sinks, two of them pins of one cell |
| `only_branches` | the sixth finding | the same netlist |

`route_stages` is a star: no cell both drives and receives, one port per driver
cell, one pin per sink cell. In other designs two of its properties fail, by the
fourth and fifth finding; and where a cell drives and receives, a focus that moves
twice in a row clears the active queue (`RouteDesign.cpp:22112`) with the tasks of
other cells that were preempted around it, which only the last audit, by their
bindings, finds again, so that `NothingLost` fails while the return is complete.
The netlist is large enough for every action: a branch that waits for a trunk lost to the other
port, a focus with a foreign victim, a frozen sink repaired in place.

The fabrics are the smallest with each interesting case: a trunk shared by two
sinks, a fork behind a contended node, a grounding next to a hole, an alternative
that allows a repair elsewhere than along the cut. `pnr_runs` has one free site
more than cells, so that cells can move.

Deadlock is checked in the fabric runs (there is always something left to
route or remove). `plan()` and `run()` return, so their runs do not check it.

### Fairness

`Returns` of `pnr_runs` assumes that the straight line steps of `run()` are
taken, that placement ends by returning or throwing, and that routing, which has
a deadline and a pass limit per stage, eventually stops. No fairness is assumed
of packing, connecting, cutting or relocating.

`Progress` of `route_stages` assumes only that the one thread which runs the loop
takes steps (`WF_vars(Next)`). No choice among the steps is assumed, neither
that searches succeed nor that a deadline strikes, and so the property grants
the loop to go on as long as completed routes keep being cut; without a cut it
must end.

## Findings

1. **`backstep_promoted`.** `unrouteLastRouteStep` (`src/src/fpga/Wire.cpp:4476`)
   refuses a tail fragment only when it is `shared`. Its comment
   (`src/src/fpga/Wire.h:408`) says "Release one unique route tail step".
   After the owner of a shared hop moved, ownership was promoted to an incomplete
   replica; when the moved sink is routed again over that hop, its fragment is
   the shared one, and stepping the other back releases a landing that a
   complete route uses. Where a source has three replicas no move is needed:
   the owner is discarded, the flags pass to an incomplete replica, and that one
   steps back under the third.
2. **`co_moved_sinks`.** `invalidateMovedSinkRoutes` (`src/src/fpga/Wire.cpp:4636`)
   keeps the retained prefix of a complete route, shared fragments included,
   while the co-moved owner of these fragments may be cut back to a shorter
   proven prefix. The comment (`src/src/fpga/Wire.h:374`) says that co-moved
   sinks "cannot preserve each other's obsolete shared prefixes"; the unit test
   covers the case without proofs.

3. **`parked_at_handoff`.** When Fanouts is blocked, its hand-off
   (`RouteDesign.cpp:23900-23960`) gives `route_todo` to Moving destinations. A
   branch that lost its trunk during the same pass lies in `fanout_route_todo`
   (19843), which nothing in Moving reads; the run ends in "scheduler exited with
   deferred routing work". Of the hand-off on a timeout `RoutePassState.h:936`
   says that "none may remain parked in the inactive Fanout queue".
4. **`two_ports`.** A batch of source moves skips the other tasks of a cell it
   has moved (`RouteDesign.cpp:21726`), and the move returns outputs by their bindings. The
   trunk of another port that was never attempted is then in no queue.
   `RoutePassState.h:486`: a stop "conserves its unfinished tasks for the later
   recovery stages".
5. **`two_pins`.** A new focus erases the tasks at its cell from the deferred
   pool as stale copies (`RoutePassState.h:827`). A task without a binding has no
   other copy, as the comment beside the call knows for active tasks
   (`RouteDesign.cpp:22075`), and the last audit reads bindings as well, so
   `routeDesign` returns normally with the connection unrouted.
6. **`only_branches`.** A later run whose new connections are all branches of
   routed ports fills `fanout_route_todo` only (`RouteDesign.cpp:20924`); the
   pass loop needs active work (22536), is not entered, and the exit check fails.
   The test `tests/fpga/fanout_numeric_seed.cpp:69` avoids the situation
   knowingly.

One more stop is reached in `route_stages` and no document judges it: tasks that
a repair preempted join the active queue even around a focus they do not touch
(`RouteDesign.cpp:22185`), and the next relocation ends the routing with "current
unfinished task cannot relocate" (21939).

`leases` excludes moves, and `moved_sinks` excludes joint moves and the back-steps
of bindings with replicas, for these two reasons and only for them. They are the
hypotheses of the theorems on ownership, too.

## Proofs

`PnrRunsProofs` proves, for every design and every plan that partitions its cells
(`PlanAssumption`, `DesignAssumption`), the type invariant and all safety and
action properties of `pnr_runs`. `RunsSettled` speaks of the states between runs
only and is not inductive. The invariant `IInv` has one part for each place
the call can be in: `Untouched` before the first change, `AtLoop` between runs
(where `RunsSettled` is re-established by validation and freezing), `InRun`
inside one (the accounting that placement and routing cannot disturb),
`AfterReturn`, and `Shadowed` for the bunches. That a routing failure is possible
only with `preserve_routes`, and that the earlier routes survive the entry of
`routeDesign`, both rest on `mode.preserve` being part of `AtLoop` and `InRun`.

`PnrPlanProofs` proves all properties of `pnr_plan` for every netlist, every
ranking and every size of a run. The invariant has three parts.
`JInv`: the parents form a forest, which is stated by its witnesses, a numbering
in which every parent comes after its children and the root each cell leads to
(`Tree`), because both survive path halving and a union in a line of proof while
a path would not; and every join the code has asked for so far has been made, so
that two cells which were ever joined have one root for good. `IInv`: packing moves
whole groups, the cells of one root, from the order into runs, so that runs and
waiting groups partition the cells. `RInv`: the waiting groups are in order of
criticality, and no packed run is less critical than a waiting group. Hence
`Forest`, `NothingSplit`, `ClocksAnchored`, `CoveredOnce`, which `PnrRuns`
assumes of a plan, `RunsSized` and `CriticalFirst`.

The folds over cells are recursive functions. Induction over data is out of the
provers' reach where a library theorem takes an operator; `InductionLemmas` states
what is needed for a *set* of numbers (`Induct`, from the well-foundedness of `<`)
and for a function that iterates a step, and the proofs use these.

`RouteLeasesProofs` and `RouteTreeProofs` prove for every fabric, every set of
bindings and every bound what holds of a route tree, in two layers.

* `Regular`: every fragment is one the fabric has (`Shape`), and a tile's index holds
  exactly the bindings whose route touches it. A removal rebuilds the nets of what
  it removed only; that this is enough (`RebuildExact`) rests on what was removed and
  what is kept covering the old route's tiles, which is shown for a truncation, a
  hole and a promotion each. `TypeOK` and `RegistrationExact` follow, and so does
  that owner queries, which go through an index, see every owner.
* `Lines`: a route runs from its source without a break and ends at a landing
  from which it can go on or at its pin; a hole stands where the cut fragments were
  and leads to what follows them. Every cut is therefore after a jump: of a proof,
  because retained fabric holds no ground; of a live shared prefix, because a sibling
  has it too. The last needs `SeparateTerminals`: two sinks of one source do not end on
  the same DST. `RoutesAreContinuous` has it as a hypothesis for designs in which
  sinks move, and the runs' fabrics satisfy it.

Without it `Continuous` fails, and the code can be in that situation:
`attachSharedDestinationLocalFanout` (`RouteDesign.cpp:7943`) enters a second pin from the
terminal DST of a complete sibling. If the first sink moves, the detachment keeps the
crossbar in front of the pin as a live shared prefix (`Wire.cpp:4566`), and
`continuePartialRoute` goes on from the last jump, behind a terminal crossbar.

Ownership is the third layer (`RouteInvariants`, `RouteTreeProofs`). The audited
conditions speak of nodes and flags and are not inductive: a step may cut the
replica whose flag says that it owns a node, and whether the node stays leased
then depends on whom the promotion finds. `LeasesSound` therefore says *where* an
owner is. `Held`: for each node that a fragment of a route needs and no earlier
fragment accounts for (the SRC and the landing of a jump, the pin, the incoming
DST behind a hole), some replica of the same source owns it and is the same fabric
as the route from the source up to that fragment. A promotion hands over along the
common prefix of two routes, so an owner that is cut meets every replica that
depends on it there, and one of them takes over. `Sound` adds that the leases are exactly what
the routes use and that no node serves two sources (`Single`), which is how a commit
or a repair that takes unleased nodes cannot meet a stranger. `StatesAreSound`
shows that every action keeps it, for every fabric, set of bindings and bound;
`UsedAreLeased`, `LeasesAreOwned`, `DriversAreSingle`, `SharedHopsHaveOwners`,
`HolesKeepTheirEnds` and, for a step, `OnlyTransitIsTaken` (`ExchangeIsTransit`: a
node changes its source in a preemption only, only as foreign transit of an
unprotected net away from the loser's endpoints, and the loser keeps its takeoff
and its end) follow. The theorems have two hypotheses.

* `MovesApart`: an instance that moves has no two sinks of one source, and no two
  sinks of a source end on one DST where sinks move at all.
* `StepsBackAlone`: no binding steps back over a hop that a sibling depends on. The
  code does not look. It is a hypothesis on the run and not on the constants,
  because a lack of moves does not imply it: with three replicas, discarding a
  complete owner can leave the flags as in the first finding. With two replicas
  it holds, as TLC shows in `leases`. `LeasesAreSound` has hypotheses on the constants only: there
  the bindings that step back have no siblings, as in `moved_sinks`.

Without the first the second finding is a counterexample, without the second the
first one.

`NetRouteIndexProofs` proves for every hash function, every number of nets, keys,
tiles and addresses that the indexes are exact when trusted, and that
`NetRouteIndex` implements `NetRoutes` (`SearchImplemented`). The inductive
invariant is the conjunction of the four checked invariants and `CacheScoped`:
an owner index that outlives its search is of an older revision. It is needed
because erasing a binding publishes nothing; what keeps a search from seeing
shifted positions is that no edit but a publication happens while it runs.

`RouteStagesProofs` proves for every design that the state has its type and that
Moving sources runs once. The invariant adds to `SourcesOnce` that a closed Basic
stage has no active task (so it has nothing to hand to Moving sources a second
time), and that the flags of a relocation and of a recovery are set in Moving
only. The first part is why a trunk lost during seed repair cannot return to
Basic.

`RouteStarProofs` assumes `Star`, the shape of the netlist of `route_stages`
stated for any number of ports, sinks and frozen cells, and proves the other
three safety properties of that run. It is an assumption on the design and
not on the loop: without it the findings above are counterexamples. The
invariant `SInv` says, while the loop runs, that

* every unfinished connection is active, parked, deferred or pending, and a batch
  visits all active tasks;
* in Basic and Moving sources a port has at most one active task, and exactly one
  if it has no trunk, complete or cut; nothing pending is a trunk. This is what
  makes the barrier hold: a cut trunk is a gap, and a gap can be mended before
  Fanouts begins;
* a focus exists in Moving destinations only, and the active tasks are all at the
  focus or all elsewhere, so that moving the focus again, which clears the active
  queue, forgets nothing;
* what a relocation has not visited belongs to cells that have not moved.

Only model-checked: `Progress` of `route_stages` and `Returns` of `pnr_runs`, which
are liveness under fairness and need ENABLED; `StepsBackAlone` of `leases`, which
depends on there being two replicas. Every other property of a passing run is
a theorem, those of `leases` and `moved_sinks` under the hypotheses above and those
of `route_stages` in a star.

## Not modelled

Costs, geometry and timing estimates of placement and routing; file formats;
Tcl argument parsing; output. Within the modelled components: source-driven
repair (`repairFromSource`), retargeting of bindings to replacement cells as
`RouteLeases` sees it, `unrouteNetBranch`, the adoption of router-made helper
cells into a bunch, a second call of `run()` in one session, and what the
section on `RouteStages` leaves out. The search for a path is nowhere modelled
as an algorithm: it is any path within its bound, or any outcome it can have.

Not modelled at all: packing and placement engines (their decisions are
floating-point costs), docking, clock and constant routing, timing analysis, RTL
and technology tables, the database formats, Tcl commands, the visualizer. The
repository also vendors Tcl, SQLite and other libraries under `src/libs`, by far
the larger part of its lines; they are not scalepnr and are not modelled.

## Plan

Done: fragments and leases, plan and runs, the net indexes with their
refinement, the stages. What is left, in order:

1. `PreparedCommit`: the transaction of prepared routes and cuts, refining an
   atomic exchange.
2. Retry counters, cooldowns and the yielding of a focus in `RouteStages`, with
   termination within the pass limits.
3. `PnrFlow`: `PnrPlan` composed with `PnrRuns`, the assumption discharged.
4. Packing of elements in a tile, constants and clocks, the order of Tcl
   commands.
5. Proofs: the stages for designs with chains of cells, with the audit as the
   argument for complete returns; `StepsBackAlone` for sources with at most two
   replicas and no moves.
