------------------------------ MODULE PnrRuns ------------------------------
(***************************************************************************)
(* The run loop of src/src/pnr/pnr.cpp: Pnr::run admits the planned runs one   *)
(* after the other, places, routes and validates each, freezes it, and     *)
(* stops at the first failure.  The placement and routing engines are      *)
(* reduced to what they may do to a cell or a connection: placement packs  *)
(* admitted cells that are not completed; routing completes eligible       *)
(* connections, cuts any of them by preemption, and may relocate a cell of *)
(* any earlier run, which reopens it.                                      *)
(*                                                                         *)
(* Operators named Mut* are not part of the model: each is the operator    *)
(* after it with a plausible bug, and a property must notice the exchange. *)
(***************************************************************************)
EXTENDS Integers, Sequences, FiniteSets

CONSTANTS
    Cells,          \* the blackbox instances collect() returns
    Placeable,      \* those isPlaceableElement accepts; the others are bound by I/O
    Movable,        \* those routing-driven recovery may relocate
    Orphans,        \* cells outside the estimate forest: no bunch
    Plan,           \* the runs Pnr::plan built, each a set of cells
    Conns,          \* input connections driven by a blackbox, not global
    DriverOf, SinkOf,
    Direct,         \* connections whose designator is void: no fabric needed
    Sites,          \* element positions of the device
    NoSite          \* tile.peer = nullptr

\* What Pnr::plan guarantees: every cell in exactly one run.
ASSUME PlanAssumption ==
    /\ Plan \in Seq(SUBSET Cells)
    /\ UNION {Plan[i] : i \in DOMAIN Plan} = Cells
    /\ \A i, j \in DOMAIN Plan : i # j => Plan[i] \cap Plan[j] = {}

ASSUME DesignAssumption ==
    /\ Placeable \subseteq Cells /\ Movable \subseteq Cells /\ Orphans \subseteq Cells
    /\ DriverOf \in [Conns -> Cells] /\ SinkOf \in [Conns -> Cells]
    /\ Direct \subseteq Conns
    /\ NoSite \notin Sites

VARIABLES
    stage,          \* where run() is: "called", "loop", "placing", "routing", "returned", "refused"
    number,         \* the run being worked on
    failed,         \* failure is not empty
    succeeded,      \* the runs with success = true
    counted,        \* completed_cells, as the cells it counts
    pending,        \* cells with pnr_pending
    completed,      \* cells with pnr_completed
    fixed,          \* cells with outline.fixed
    site,           \* the position of every cell
    routed,         \* connections with a complete route binding
    bunch,          \* what bunch_ref of a cell refers to
    mode,           \* route.preserve_routes and place.routing.enabled
    saved           \* their values when run() was called

vars == <<stage, number, failed, succeeded, counted, pending, completed, fixed,
          site, routed, bunch, mode, saved>>

Admitted   == Cells \ pending
Eligible   == {k \in Conns : DriverOf[k] \in Admitted /\ SinkOf[k] \in Admitted}
Deferred   == Conns \ Eligible
Incident(c) == {k \in Conns : DriverOf[k] = c \/ SinkOf[k] = c}
Free       == Sites \ {site[c] : c \in Cells}
RunsBefore(n) == UNION {Plan[i] : i \in 1..(n - 1)}

\* The cells recursivePackBunch may pack: neither pending nor completed.
MutPackable == Placeable \ completed
Packable == Placeable \ (pending \cup completed)

\* Admitted work the fabric must carry and does not (validateConnections).
MutUnrouted == {k \in Eligible : SinkOf[k] \in Plan[number]} \ (Direct \cup routed)
Unrouted == Eligible \ (Direct \cup routed)

\* The loop over runs: whether another one is left, and the step to it.
MutMoreRuns == number < Len(Plan)
MoreRuns == number <= Len(Plan)
MutNextNumberSkips == number + 2
MutNextNumberStays == number
NextNumber == number + 1

\* preserve_routes is set for the whole call; both modes return at its end.
MutPreservedMode == mode
PreservedMode == [mode EXCEPT !.preserve = TRUE]
MutReturnedMode == [saved EXCEPT !.preserve = mode.preserve]
ReturnedMode == saved

-----------------------------------------------------------------------------
\* run() is called on whatever a session left: I/O cells may be bound and
\* others placed by an earlier place_design, and routes may exist.
Init ==
    /\ stage = "called" /\ number = 1
    /\ failed = FALSE /\ succeeded = {} /\ counted = {}
    /\ pending = {} /\ completed = {} /\ fixed = {}
    /\ \E bound \in {{}, Cells \ Placeable, Cells} : \E at \in [bound -> Sites] :
          /\ \A c, d \in bound : c # d => at[c] # at[d]
          /\ site = [c \in Cells |-> IF c \in bound THEN at[c] ELSE NoSite]
    /\ routed \in {{}, Conns}
    /\ bunch = [c \in Cells |-> IF c \in Orphans THEN "none" ELSE "free"]
    /\ mode \in [preserve : BOOLEAN, aware : BOOLEAN]
    /\ saved = mode

\* run() up to its loop.  Existing routes are refused before any cell changes.
Refuse ==
    /\ stage = "called" /\ routed # {}
    /\ stage' = "refused" /\ failed' = TRUE
    /\ UNCHANGED <<number, succeeded, counted, pending, completed, fixed,
                   site, routed, bunch, mode, saved>>

Start ==
    /\ stage = "called" /\ routed = {}
    /\ stage' = "loop"
    /\ pending' = Cells
    /\ mode' = PreservedMode
    /\ UNCHANGED <<number, failed, succeeded, counted, completed, fixed,
                   site, routed, bunch, saved>>

\* The head of the loop: the next run's cells are admitted and given shadow
\* bunches, and placement becomes routing-aware behind a completed run.
Admit ==
    /\ stage = "loop" /\ MoreRuns
    /\ stage' = "placing"
    /\ pending' = pending \ Plan[number]
    /\ bunch' = [c \in Cells |-> IF c \in Plan[number] THEN "shadow" ELSE bunch[c]]
    /\ mode' = [mode EXCEPT !.aware = counted # {}]
    /\ UNCHANGED <<number, failed, succeeded, counted, completed, fixed,
                   site, routed, saved>>

\* restore_bunches, which runs however the iteration ends: the shadows die
\* and every cell is back in its own bunch, fixed if the run succeeded.
RestoredBunches(ok) ==
    [c \in Cells |-> IF c \in Plan[number] THEN (IF ok THEN "fixed" ELSE "free") ELSE bunch[c]]

MutAbort(frozen) ==                \* cells are counted as they are frozen
    /\ stage' = "returned" /\ failed' = TRUE
    /\ completed' = completed \cup frozen /\ fixed' = fixed \cup frozen
    /\ counted' = counted \cup frozen
    /\ bunch' = RestoredBunches(FALSE)
    /\ mode' = ReturnedMode
    /\ UNCHANGED <<number, succeeded, pending, site, routed, saved>>

\* Any exception between admission and the end of the iteration.
Abort(frozen) ==
    /\ stage' = "returned" /\ failed' = TRUE
    /\ completed' = completed \cup frozen /\ fixed' = fixed \cup frozen
    /\ bunch' = RestoredBunches(FALSE)
    /\ mode' = ReturnedMode
    /\ UNCHANGED <<number, succeeded, counted, pending, site, routed, saved>>

-----------------------------------------------------------------------------
(* Placement                                                               *)

\* recursivePackBunch: pending and completed cells are left alone.
Pack(c) ==
    /\ stage = "placing"
    /\ c \in Packable
    /\ site[c] = NoSite
    /\ \E s \in Free : site' = [site EXCEPT ![c] = s]
    /\ UNCHANGED <<stage, number, failed, succeeded, counted, pending, completed, fixed,
                   routed, bunch, mode, saved>>

\* Timing refinement, sorting and swapping move what is not fixed.
Refine(c) ==
    /\ stage = "placing"
    /\ c \in Packable \ fixed
    /\ site[c] # NoSite
    /\ \E s \in Free : site' = [site EXCEPT ![c] = s]
    /\ UNCHANGED <<stage, number, failed, succeeded, counted, pending, completed, fixed,
                   routed, bunch, mode, saved>>

\* No legal placement, or placement returned and left a cell unplaced.
PlacementFails ==
    /\ stage = "placing"
    /\ \E c \in Placeable \cap Plan[number] : site[c] = NoSite
    /\ Abort({})

\* Placement returned and every placeable cell of the run is placed;
\* routeDesign begins and keeps the existing routes in this mode only.
BeginRouting ==
    /\ stage = "placing"
    /\ \A c \in Placeable \cap Plan[number] : site[c] # NoSite
    /\ stage' = "routing"
    /\ mode' = [mode EXCEPT !.aware = saved.aware]
    /\ routed' = IF mode.preserve THEN routed ELSE {}
    /\ UNCHANGED <<number, failed, succeeded, counted, pending, completed, fixed,
                   site, bunch, saved>>

-----------------------------------------------------------------------------
(* Routing                                                                 *)

\* collectRouteTasks queues connections with both endpoints admitted only.
Connect(k) ==
    /\ stage = "routing"
    /\ k \in Eligible \ (Direct \cup routed)
    /\ site[DriverOf[k]] # NoSite /\ site[SinkOf[k]] # NoSite
    /\ routed' = routed \cup {k}
    /\ UNCHANGED <<stage, number, failed, succeeded, counted, pending, completed, fixed,
                   site, bunch, mode, saved>>

\* Preemption cuts a route of any run; pnr_preserved does not protect it.
Cut(k) ==
    /\ stage = "routing"
    /\ k \in routed
    /\ routed' = routed \ {k}
    /\ UNCHANGED <<stage, number, failed, succeeded, counted, pending, completed, fixed,
                   site, bunch, mode, saved>>

\* Moving: a cell whose connection cannot finish is relocated together with
\* the routes proven at the new site; its other routes are withdrawn.
Relocate(c) ==
    /\ stage = "routing"
    /\ c \in Movable \cap Admitted /\ site[c] # NoSite
    /\ \E s \in Free : site' = [site EXCEPT ![c] = s]
    /\ \E proven \in SUBSET ((Incident(c) \cap Eligible) \ Direct) :
          /\ proven # {}
          /\ routed' = (routed \ Incident(c)) \cup proven
    /\ completed' = completed \ {c}
    /\ UNCHANGED <<stage, number, failed, succeeded, counted, pending, fixed,
                   bunch, mode, saved>>

\* failRouting: a stage ran out of passes or time, or gave a task up.
RoutingFails ==
    /\ stage = "routing" /\ mode.preserve
    /\ Abort({})

-----------------------------------------------------------------------------
(* Validation and freezing                                                 *)

\* validateConnections, over every admitted sink of every run.
ValidationFails ==
    /\ stage = "routing" /\ Unrouted # {}
    /\ Abort({})

\* The freezing loop checks each cell as it freezes it: one without a tile
\* stops it behind the cells it has already marked.
FreezeFails ==
    /\ stage = "routing" /\ Unrouted = {}
    /\ \E c \in Admitted : site[c] = NoSite
    /\ \E frozen \in SUBSET {c \in Admitted : site[c] # NoSite} : Abort(frozen)

Frozen ==
    /\ stage = "routing" /\ Unrouted = {}
    /\ \A c \in Admitted : site[c] # NoSite
    /\ completed' = Admitted /\ fixed' = fixed \cup Admitted
    /\ counted' = counted \cup Plan[number]
    /\ succeeded' = succeeded \cup {number}
    /\ bunch' = RestoredBunches(TRUE)

Complete ==
    /\ Frozen
    /\ number' = NextNumber
    /\ stage' = "loop"
    /\ UNCHANGED <<failed, pending, site, routed, mode, saved>>

\* The run_completed callback throws: the run counts and the call fails.
CallbackFails ==
    /\ Frozen
    /\ stage' = "returned" /\ failed' = TRUE
    /\ mode' = ReturnedMode
    /\ UNCHANGED <<number, pending, site, routed, saved>>

Return ==
    /\ stage = "loop" /\ ~MoreRuns
    /\ stage' = "returned"
    /\ mode' = ReturnedMode
    /\ UNCHANGED <<number, failed, succeeded, counted, pending, completed, fixed,
                   site, routed, bunch, saved>>

Placing == PlacementFails \/ BeginRouting \/ \E c \in Cells : Pack(c) \/ Refine(c)
Routing == \/ RoutingFails
           \/ \E k \in Conns : Connect(k) \/ Cut(k)
           \/ \E c \in Cells : Relocate(c)
Closing == ValidationFails \/ FreezeFails \/ Complete \/ CallbackFails

Next == Refuse \/ Start \/ Admit \/ Placing \/ Routing \/ Closing \/ Return

\* The engines are bounded: placement ends by returning or throwing, a
\* routing stage by its deadline and pass limit.
Fairness ==
    /\ WF_vars(Refuse \/ Start \/ Admit \/ Return)
    /\ WF_vars(PlacementFails \/ BeginRouting)
    /\ WF_vars(RoutingFails)

Spec == Init /\ [][Next]_vars /\ Fairness

-----------------------------------------------------------------------------
TypeOK ==
    /\ stage \in {"called", "loop", "placing", "routing", "returned", "refused"}
    /\ number \in 1..(Len(Plan) + 1)
    /\ failed \in BOOLEAN
    /\ succeeded \subseteq DOMAIN Plan
    /\ counted \subseteq Cells
    /\ pending \subseteq Cells /\ completed \subseteq Cells /\ fixed \subseteq Cells
    /\ site \in [Cells -> Sites \cup {NoSite}]
    /\ routed \subseteq Conns
    /\ bunch \in [Cells -> {"none", "free", "fixed", "shadow"}]
    /\ mode \in [preserve : BOOLEAN, aware : BOOLEAN]
    /\ saved \in [preserve : BOOLEAN, aware : BOOLEAN]

\* Runs are admitted in order, and none behind a failed one: whatever stopped
\* run `number`, all later cells are still pending and the earlier runs are
\* the successful ones.
LaterRunsPending ==
    stage \in {"placing", "routing"} \/ (stage = "returned" /\ failed) =>
        /\ pending = Cells \ RunsBefore(number + 1)
        /\ succeeded \in {1..(number - 1), 1..number}
        /\ counted = UNION {Plan[i] : i \in succeeded}

\* Behind a finished run the promise of every run so far holds again: its
\* cells are placed, fixed and completed, and each connection between two of
\* them is routed, whatever the last run preempted and relocated.
RunsSettled ==
    stage = "loop" =>
        /\ Admitted = RunsBefore(number) /\ counted = Admitted
        /\ completed = Admitted /\ Admitted \subseteq fixed
        /\ \A c \in Admitted : site[c] # NoSite
        /\ Eligible \subseteq Direct \cup routed

\* run() returns true only with nothing deferred: every cell is placed and
\* every connection of the design is direct or routed.
FinalComplete ==
    stage = "returned" /\ ~failed =>
        /\ succeeded = DOMAIN Plan /\ completed = Cells
        /\ \A c \in Cells : site[c] # NoSite
        /\ Conns \subseteq Direct \cup routed

\* However run() ends, the modes it borrowed are given back, and no cell is
\* left in a shadow bunch: those die with their iteration.
Restored ==
    /\ stage \in {"returned", "refused"} => mode = saved
    /\ stage \notin {"placing", "routing"} => \A c \in Cells : bunch[c] # "shadow"

\* A pending cell is neither placed nor moved, and none of its connections
\* becomes routed, by any stage of an earlier run.
PendingUntouched ==
    [][/\ \A c \in pending : site'[c] = site[c]
       /\ \A k \in routed' \ routed : DriverOf[k] \notin pending /\ SinkOf[k] \notin pending]_vars

\* Only the router gives up finished work: between two routing stages
\* completed cells keep their sites and every route survives; while routing,
\* a completed cell that moves is open again.
CompletedKept ==
    [][/\ stage # "routing" => routed' = routed /\ \A c \in completed : site'[c] = site[c]
       /\ \A c \in completed : site'[c] # site[c] => c \notin completed']_vars

\* The call ends: every run finishes or fails.
Returns == <>(stage \in {"returned", "refused"})
=============================================================================
