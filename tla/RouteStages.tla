---------------------------- MODULE RouteStages ----------------------------
(***************************************************************************)
(* The pass loop of RouteDesign::routeDesign                               *)
(* (src/src/pnr/route/RouteDesign.cpp, with the predicates of RoutePassState.h): *)
(* one connection per sink of an output port, the queues a connection's    *)
(* task travels through, and the stages Basic, Moving sources, Fanouts     *)
(* (with its seed repair) and Moving destinations.  The searches are       *)
(* reduced to what a task may do to the routes: complete its connection,   *)
(* cut routes of other ports, tear its own source tree, move a cell, fail. *)
(*                                                                         *)
(* A queue is a function from connections to the role of their task: the   *)
(* order inside a queue is left open, duplicates are merged as             *)
(* deduplicateRouteTasks does.  Constants and clocks, whose tasks never    *)
(* enter these queues, the repair of stale shared prefixes, the bounds on  *)
(* passes, retries and cooldowns, and the yielding of a focus are not      *)
(* modelled.                                                               *)
(*                                                                         *)
(* Operators named Mut* are not part of the model: each is the operator    *)
(* after it with a plausible bug, and a property must notice the exchange. *)
(***************************************************************************)
EXTENDS Integers

CONSTANTS
    Conns,          \* connections: one sink pin of one output port
    Ports, Cells,
    From, Owner,    \* the output port of a connection, the cell of a port
    To,             \* the cell of a connection's sink
    Fixed,          \* cells whose placement is frozen (outline.fixed, pnr_completed)
    NoCell,         \* moving_focus_inst = nullptr
    FanoutPasses    \* max(32, limit * 8): passes before a stuck Fanout stage hands off

ASSUME DesignAssumption ==
    /\ From \in [Conns -> Ports] /\ Owner \in [Ports -> Cells] /\ To \in [Conns -> Cells]
    /\ \A c \in Conns : Owner[From[c]] # To[c]
    /\ Fixed \subseteq Cells /\ NoCell \notin Cells
    /\ FanoutPasses \in Nat \ {0}

VARIABLES
    route,          \* binding of a connection: "unbound", "partial", "gap" (cut), "done"
    sched,          \* the scheduler's queues, stage and flags
    pending,        \* pending_route_todo
    phase,          \* "head" of the pass loop, "relocating" a source batch, "batch"
    left,           \* tasks the batch or the relocation has not visited
    batch           \* its counters, and the cells a relocation has moved

vars == <<route, sched, pending, phase, left, batch>>

---------------------------------------------------------------------------
(* Connections and queues *)

Driver(c)   == Owner[From[c]]
Incident(k) == {c \in Conns : k \in {Driver(c), To[c]}}
Siblings(c) == {d \in Conns \ {c} : From[d] = From[c]}
Done(r)     == {c \in Conns : r[c] = "done"}
Bound(r)    == {c \in Conns : r[c] # "unbound"}

\* The port of c has a complete trunk to branch from.
HasExit(r, c) == \E d \in Done(r) : From[d] = From[c]

Empty       == [c \in Conns |-> "no"]
In(q)       == {c \in Conns : q[c] # "no"}
Of(S, role) == [c \in Conns |-> IF c \in S THEN role ELSE "no"]
Only(q, S)  == [c \in Conns |-> IF c \in S THEN q[c] ELSE "no"]

\* A connection queued twice stays one task, and a Generic task stays Generic.
Merge(q1, q2) ==
    [c \in Conns |-> IF "generic" \in {q1[c], q2[c]} THEN "generic"
                     ELSE IF q1[c] = "no" THEN q2[c] ELSE q1[c]]

\* Tasks rebuilt from bindings: a branch if the port has a trunk, else a trunk.
Rebuilt(r, S) == [c \in Conns |-> IF c \notin S THEN "no"
                                  ELSE IF HasExit(r, c) THEN "fanout" ELSE "generic"]

Unfinished(r, q) == In(q) \ Done(r)

---------------------------------------------------------------------------
(* The scheduler *)

Moving(s) == s.stage \in {"sources", "destinations"}

HasWork(s) == \/ In(s.todo) # {}
              \/ Moving(s) /\ In(s.deferred) # {}

NeedsRelocation(s) ==
    Moving(s) /\ (s.relocate \/ (s.focus = NoCell /\ In(s.todo) = {}))

\* A pass of Fanouts makes low progress with at most this many completions;
\* the model does not count beyond.
LowProgress == 2

NoBatch == [completed |-> 0, failed |-> FALSE, moved |-> {}]

AtHead == phase = "head" /\ sched.outcome = "running" /\ HasWork(sched)

\* The trunks a pass may start with, seen after a relocation: one task per queued
\* port that has no exit; Moving prefers a task that is Generic already.
Leaders(s) ==
    IF s.stage = "fanouts" THEN {{}}
    ELSE LET open == {c \in In(s.todo) : ~HasExit(route', c)}
         IN {G \in SUBSET open :
               /\ \A c \in open : \E d \in G : G \cap (Siblings(c) \cup {c}) = {d}
               /\ Moving(s) => \A c \in G : \A d \in Siblings(c) :
                                  s.todo[c] = "fanout" => s.todo[d] # "generic"}

\* Everything else in the queue becomes a branch; only Moving destinations
\* keeps the branches active.
Normalized(s, G) ==
    LET branches == Of(In(s.todo) \ G, "fanout")
    IN CASE s.stage = "fanouts" -> s
         [] s.stage = "destinations" -> [s EXCEPT !.todo = Merge(Of(G, "generic"), branches)]
         [] OTHER -> [s EXCEPT !.todo = Of(G, "generic"), !.parked = Merge(@, branches)]

\* stage_pass is never reset, so it leaves its range.
MutBeginBatch(s) ==
    \E G \in Leaders(s) :
        LET n == Normalized(s, G)
        IN /\ sched' = IF n.stage = "fanouts" THEN [n EXCEPT !.passes = @ + 1] ELSE n
           /\ left' = In(n.todo) /\ phase' = "batch" /\ batch' = NoBatch

BeginBatch(s) ==
    \E G \in Leaders(s) :
        LET n == Normalized(s, G)
        IN /\ sched' = IF n.stage = "fanouts" /\ n.passes < FanoutPasses
                       THEN [n EXCEPT !.passes = @ + 1] ELSE n
           /\ left' = In(n.todo)
           /\ phase' = "batch"
           /\ batch' = NoBatch

\* After a relocation the loop relocates again, or runs a batch first.
Resume(s) ==
    IF s.relocate /\ pending' = Empty /\ HasWork(s)
    THEN sched' = s /\ phase' = "head" /\ left' = {} /\ batch' = NoBatch
    ELSE BeginBatch([s EXCEPT !.relocate = FALSE])

Stop(why) ==
    /\ sched' = [sched EXCEPT !.outcome = why]
    /\ UNCHANGED <<route, pending, phase, left, batch>>

---------------------------------------------------------------------------
(* What a task does to the routes *)

Cuttable(c) == {d \in Conns : From[d] # From[c] /\ route[d] \in {"done", "gap"}}

\* Routes a successful search may cut; Moving destinations searches with
\* preemption only around a focus or as a last resort of relocation.
Cuts(c) == IF route[c] = "done" \/ (sched.stage = "destinations" /\ sched.focus = NoCell
                                    /\ phase = "batch")
           THEN {{}} ELSE SUBSET Cuttable(c)

\* Moving tears a source tree without a trunk before rebuilding it, when a
\* sibling still holds fabric (a partial binding may or may not).
Resets(c) ==
    LET held(st) == {d \in Siblings(c) : route[d] \in st}
    IN IF ~Moving(sched) \/ HasExit(route, c) \/ route[c] = "gap" THEN {{}}
       ELSE IF held({"gap"}) # {} THEN {held({"gap", "partial"})}
       ELSE {{}, held({"partial"})}

\* A cut route loses everything beyond the cut. It keeps a gap, and a route with
\* a gap is a branch for routeNeedsFanoutRepair, so a cut task is a fanout task.
MutRouted(c, torn, cut) ==
    [d \in Conns |-> IF d = c THEN "done" ELSE IF d \in torn \cup cut THEN "partial" ELSE route[d]]

Routed(c, torn, cut) ==
    [d \in Conns |-> IF d = c THEN "done" ELSE IF d \in cut THEN "gap"
                     ELSE IF d \in torn THEN "partial" ELSE route[d]]

\* moveUnfinishedSource: the driver of c moves and c is complete.  Its other
\* outputs are torn, which are found by their bindings: one that was never
\* attempted is not among them.  The inputs are collected from the netlist and
\* routed at once, or the search budget runs out and they are queued ("late";
\* those "begun" have a binding by then).
Outputs(c) == {d \in Bound(route) \ {c} : Driver(d) = Driver(c)}
Inputs(c)  == {d \in Conns : To[d] = Driver(c)}

MovedSource(c, late, begun, cut) ==
    LET torn == Outputs(c) \cup begun \cup (late \cap Bound(route))
        r == [d \in Conns |-> IF d \in Inputs(c) \ late THEN "done" ELSE Routed(c, torn, cut)[d]]
    IN [route  |-> r,
        parked |-> Of(Outputs(c) \cap Siblings(c), "fanout"),
        moved  |-> Merge(Of(Outputs(c) \ Siblings(c), "generic"), Rebuilt(r, late)),
        cut    |-> Of(cut, "fanout")]

SourceMoves(c) ==
    IF Driver(c) \in Fixed THEN {}
    ELSE UNION {{MovedSource(c, late, begun, cut) :
                    begun \in SUBSET late, cut \in SUBSET (Cuttable(c) \ (Outputs(c) \cup Inputs(c)))} :
                late \in SUBSET Inputs(c)}

\* moveUnfinishedCell: the sink of c moves and c is complete; every other
\* binding at the cell is torn and returned, with c, as a task.  Here a
\* connection without a binding is not seen on either side.
AtSink(c) == (Bound(route) \cap Incident(To[c])) \ {c}

MovedSink(c, cut) ==
    LET r == Routed(c, AtSink(c), cut)
    IN [route |-> r, moved |-> Rebuilt(r, AtSink(c) \cup {c}), cut |-> Of(cut, "fanout")]

SinkMoves(c) ==
    IF To[c] \in Fixed THEN {}
    ELSE {MovedSink(c, cut) : cut \in SUBSET (Cuttable(c) \ AtSink(c))}

---------------------------------------------------------------------------
(* One batch (routeTaskBatch): the tasks one after the other, until one fails *)

\* collectRouteTasks: an earlier run may have completed connections.  Every new
\* one is queued: as a trunk if it is the first of a port without one.
Init ==
    \E old \in SUBSET Conns : \E seeds \in SUBSET (Conns \ old) :
        LET trunk == [c \in Conns |-> IF c \in old THEN "done" ELSE "unbound"]
        IN /\ \A c \in seeds : Siblings(c) \cap seeds = {}
           /\ \A c \in Conns : HasExit(trunk, c) \/ c \in seeds \/ Siblings(c) \cap seeds # {}
           /\ route = trunk
           /\ sched = [todo |-> Of(seeds, "generic"),
                       parked |-> Of(Conns \ (old \cup seeds), "fanout"),
                       deferred |-> Empty, stage |-> "basic", sourcesDone |-> FALSE,
                       relocate |-> FALSE, recovery |-> FALSE, focus |-> NoCell,
                       passes |-> 0, outcome |-> "running"]
           /\ pending = Empty /\ phase = "head" /\ left = {} /\ batch = NoBatch

StartPass == AtHead /\ ~NeedsRelocation(sched) /\ UNCHANGED <<route, pending>>
             /\ BeginBatch(sched)

\* A Fanout task whose port lost its trunk, unless it only has a gap to mend.
Waits(c) == /\ sched.stage = "fanouts" /\ ~HasExit(route, c) /\ route[c] # "gap"

\* In Moving a branch waits for the trunk of its port in the same batch.
Ready(c) ==
    /\ phase = "batch" /\ sched.outcome = "running" /\ ~batch.failed /\ c \in left
    /\ Moving(sched) /\ sched.todo[c] = "fanout"
          => \A d \in left \cap Siblings(c) : sched.todo[d] # "generic"

Visited(c) ==
    /\ left' = left \ {c}
    /\ batch' = IF batch.completed <= LowProgress THEN [batch EXCEPT !.completed = @ + 1] ELSE batch
    /\ UNCHANGED phase

CompleteTask(c) ==
    /\ Ready(c) /\ ~Waits(c)
    /\ \E torn \in Resets(c), cut \in Cuts(c) :
          /\ route' = Routed(c, torn, cut)
          /\ pending' = Merge(pending, Of(torn \cup cut, "fanout"))
    /\ sched' = [sched EXCEPT !.todo[c] = "no"]
    /\ Visited(c)

ParkTask(c) ==
    /\ Ready(c) /\ Waits(c)
    /\ sched' = [sched EXCEPT !.todo[c] = "no", !.parked[c] = "fanout"]
    /\ left' = left \ {c}
    /\ UNCHANGED <<route, pending, phase, batch>>

\* Basic, Fanouts and seed repair stop at the first failure.  A failed trunk
\* may have torn its source tree, a failed branch only its own suffix.
FailTask(c) ==
    /\ Ready(c) /\ ~Waits(c) /\ ~Moving(sched) /\ route[c] # "done"
    /\ \E own \in {route[c], "partial"},
          torn \in {{}} \cup (IF sched.stage = "fanouts" THEN {}
                              ELSE {Siblings(c) \cap Bound(route)}) :
          /\ route' = [Routed(c, torn, {}) EXCEPT ![c] = own]
          /\ pending' = Merge(pending, Of(torn, "fanout"))
    /\ batch' = [batch EXCEPT !.failed = TRUE]
    /\ UNCHANGED <<sched, phase, left>>

\* A Moving task that fails moves its source (Moving sources, or a frozen
\* sink) or the focused sink; what the move returns becomes pending.
RecoverTask(c) ==
    /\ Ready(c) /\ Moving(sched) /\ route[c] # "done"
    /\ \/ /\ \/ sched.stage = "sources"
             \/ To[c] \in Fixed /\ sched.focus \in {NoCell, Driver(c)}
          /\ \E m \in SourceMoves(c) :
                /\ route' = m.route
                /\ pending' = Merge(pending, Merge(m.moved, m.cut))
                /\ sched' = [sched EXCEPT !.todo[c] = "no", !.parked = Merge(@, m.parked)]
       \/ /\ sched.focus = To[c]
          /\ \E m \in SinkMoves(c) :
                /\ route' = m.route
                /\ pending' = Merge(pending, Merge(m.moved, m.cut))
                /\ sched' = [sched EXCEPT !.todo[c] = "no"]
    /\ Visited(c)

\* Otherwise, or at a deadline, a failure in Moving ends the routing.
Abandon ==
    /\ Moving(sched) /\ sched.outcome = "running"
    /\ left # {} \/ (phase = "head" /\ HasWork(sched))
    /\ Stop("stopped")

---------------------------------------------------------------------------
(* The relocation of Moving sources: one visit per queued trunk *)

EnterSources ==
    /\ AtHead /\ sched.stage = "sources" /\ NeedsRelocation(sched)
    /\ sched' = [sched EXCEPT !.todo = Empty, !.relocate = FALSE]
    /\ left' = In(sched.todo) /\ phase' = "relocating" /\ batch' = NoBatch
    /\ UNCHANGED <<route, pending>>

Relocating(c) == phase = "relocating" /\ sched.outcome = "running" /\ c \in left

\* Dropped: a finished task, and the tasks of a cell this batch has moved.
NeedsSource(c) == route[c] # "done" /\ Driver(c) \notin batch.moved

\* Such a task leaves the queue; beyond the limit of a batch, the others are
\* kept for the next one.
PassSource(c) ==
    /\ Relocating(c) /\ (NeedsSource(c) => batch.completed > 0)
    /\ sched' = IF NeedsSource(c)
                THEN [sched EXCEPT !.todo = Merge(@, Of({c}, "generic"))] ELSE sched
    /\ left' = left \ {c}
    /\ UNCHANGED <<route, pending, phase, batch>>

WireSource(c) ==
    /\ Relocating(c) /\ NeedsSource(c)
    /\ \E cut \in Cuts(c) : /\ route' = Routed(c, {}, cut)
                            /\ pending' = Merge(pending, Of(cut, "fanout"))
    /\ Visited(c)
    /\ UNCHANGED sched

ShiftSource(c) ==
    /\ Relocating(c) /\ NeedsSource(c)
    /\ \E m \in SourceMoves(c) :
          /\ route' = m.route
          /\ pending' = Merge(pending, m.cut)
          /\ sched' = [sched EXCEPT !.todo = Merge(@, m.moved), !.parked = Merge(@, m.parked)]
    /\ left' = left \ {c}
    /\ batch' = [batch EXCEPT !.completed = 1, !.moved = @ \cup {Driver(c)}]
    /\ UNCHANGED phase

\* A Generic recovery pass is due when work is pending, or enough has moved.
LeaveSources ==
    /\ phase = "relocating" /\ sched.outcome = "running" /\ left = {}
    /\ IF batch.completed = 0 THEN Stop("no movable endpoint")
       ELSE /\ UNCHANGED <<route, pending>>
            /\ \E due \in BOOLEAN :
                  LET recovery == sched.recovery \/ due
                  IN /\ pending # Empty => due
                     /\ Resume([sched EXCEPT !.recovery = recovery, !.relocate = ~recovery])

---------------------------------------------------------------------------
(* The relocation of Moving destinations *)

Destinations == AtHead /\ sched.stage = "destinations" /\ NeedsRelocation(sched)

\* The focus is finished: its tasks return to the pool, completed ones leave it.
Restored(s, r) ==
    [s EXCEPT !.deferred = Only(Merge(@, s.todo), Conns \ Done(r)), !.todo = Empty,
              !.focus = NoCell, !.relocate = TRUE]

\* Without an active task the pool supplies one, and the relocation goes on.
PickDeferred ==
    /\ Destinations /\ sched.focus = NoCell /\ In(sched.todo) = {}
    /\ UNCHANGED <<route, pending>>
    /\ LET open == Only(sched.deferred, Conns \ Done(route))
       IN IF open = Empty THEN Resume([sched EXCEPT !.deferred = Empty, !.relocate = FALSE])
          ELSE /\ \E c \in In(open) :
                     sched' = [sched EXCEPT !.todo = Only(open, {c}), !.relocate = TRUE,
                                            !.deferred = Only(open, Conns \ {c})]
               /\ UNCHANGED <<phase, left, batch>>

\* Nothing to relocate among the active tasks.
NothingToMove ==
    /\ Destinations /\ (In(sched.todo) # {} \/ sched.focus # NoCell)
    /\ Unfinished(route, sched.todo) = {}
    /\ UNCHANGED <<route, pending>>
    /\ Resume(IF sched.focus = NoCell THEN [sched EXCEPT !.relocate = FALSE]
              ELSE Restored(sched, route))

\* A preempted task that does not touch the focus has no cell to move.
FocusStuck ==
    /\ Destinations /\ sched.focus # NoCell
    /\ \E c \in Unfinished(route, sched.todo) \ Incident(sched.focus) :
          To[c] \notin Fixed
    /\ Stop("task cannot relocate")

\* A frozen sink is repaired in place, or its driver moves.
RepairFrozen(c) ==
    /\ Destinations /\ c \in Unfinished(route, sched.todo) /\ To[c] \in Fixed
    /\ \/ \E cut \in Cuts(c) :
             /\ route' = Routed(c, {}, cut)
             /\ pending' = Merge(pending, Of(cut, "fanout"))
             /\ Resume([sched EXCEPT !.relocate = TRUE])
       \/ \E m \in SourceMoves(c) :
             /\ route' = m.route
             /\ pending' = Merge(pending, Merge(m.moved, m.cut))
             /\ Resume([sched EXCEPT !.relocate = TRUE, !.parked = Merge(@, m.parked)])

MovesHere(c) ==
    /\ Destinations /\ c \in Unfinished(route, sched.todo) /\ To[c] \notin Fixed
    /\ sched.focus # NoCell => c \in Incident(sched.focus)

\* The connection completes where it is; what it cut is queued at once.
WireSink(c) ==
    /\ MovesHere(c)
    /\ \E cut \in Cuts(c) :
          LET r == Routed(c, {}, cut)
              open == Only(Merge(Merge(sched.todo, pending), Of(cut, "fanout")), Conns \ Done(r))
          IN /\ route' = r
             /\ pending' = Empty
             /\ Resume([sched EXCEPT !.todo = open,
                            !.relocate = open # Empty \/ In(sched.deferred) # {}])

\* A new focus forgets the tasks of the old one.
MutUnfocused(s, k) == IF s.focus = k THEN s.deferred ELSE Only(s.deferred, Conns \ Incident(k))

\* The sink moves and becomes the focus.  Its own tasks are rebuilt from the
\* bindings, or kept if they are active; other active tasks join the pool only
\* when the focus changes.
Unfocused(s, k) ==
    IF s.focus = k THEN s.deferred
    ELSE Only(Merge(s.deferred, s.todo), Conns \ Incident(k))

ShiftSink(c) ==
    /\ MovesHere(c)
    /\ \E m \in SinkMoves(c) :
          LET near == Incident(To[c])
              tasks == Merge(m.moved, Only(sched.todo, near))
          IN /\ route' = m.route
             /\ pending' = Empty
             /\ Resume([sched EXCEPT
                   !.deferred = Merge(Unfocused(sched, To[c]), Only(tasks, Conns \ near)),
                   !.todo = Merge(Only(tasks, near), Merge(pending, m.cut)),
                   !.focus = To[c], !.relocate = FALSE])

---------------------------------------------------------------------------
(* The end of a pass: the pending tasks are filed, then the stage decides *)

\* A cut branch is parked outside Fanouts and destinations; around a focus,
\* tasks that do not touch it join the pool.
Absorbed(s) ==
    LET branches == {c \in In(pending) : pending[c] = "fanout"}
        shelved == IF s.stage \in {"basic", "seeds", "sources"} THEN branches ELSE {}
        away == IF s.focus = NoCell THEN {} ELSE In(pending) \ Incident(s.focus)
        filed == [s EXCEPT !.parked = Merge(@, Only(pending, shelved)),
                           !.deferred = Merge(@, Only(pending, away)),
                           !.todo = Merge(@, Only(pending, Conns \ (shelved \cup away)))]
    IN IF filed.stage = "sources" /\ filed.recovery
       THEN [filed EXCEPT !.recovery = FALSE, !.relocate = (In(filed.todo) # {})] ELSE filed

\* The audit takes complete bindings too.
MutUnmended == Bound(route)

\* Connections known to be unfinished because they have a binding.
Unmended == Bound(route) \ Done(route)

FocusUnfinished(s) == /\ s.focus # NoCell /\ In(s.todo) = {}
                      /\ Unmended \cap Incident(s.focus) # {}

\* A finished focus is left; Moving sources ends when it has no trunk.
Settled(s) ==
    LET free == IF s.focus # NoCell /\ In(s.todo) = {} THEN Restored(s, route) ELSE s
    IN IF free.stage = "sources" /\ In(free.todo) = {}
       THEN [free EXCEPT !.sourcesDone = TRUE, !.stage = "basic", !.relocate = FALSE] ELSE free

\* The Basic stage hands its trunks to Moving sources, once; Fanouts and seed
\* repair hand everything, the parked branches too, to Moving destinations.
HandedOver(s, broken) ==
    CASE s.stage = "basic" /\ (In(s.todo) = {} /\ ~s.sourcesDone) ->
            [s EXCEPT !.sourcesDone = TRUE]
      [] s.stage = "basic" /\ In(s.todo) # {} /\ broken ->
            [s EXCEPT !.todo = Of(In(s.todo), "generic"), !.stage = "sources",
                      !.relocate = TRUE, !.recovery = FALSE,
                      !.outcome = IF s.sourcesDone THEN "sources restarted" ELSE @]
      [] s.stage \in {"fanouts", "seeds"} /\ broken ->
            [s EXCEPT !.todo = Merge(@, s.parked), !.parked = Empty]
      [] OTHER -> s

\* The repair of seeds is not marked as a stage of its own.
MutFanoutStarts(s) ==
    LET parked == In(s.parked)
        waiting == {c \in parked : ~HasExit(route, c) /\ route[c] # "gap"}
        mends == {G \in SUBSET {c \in parked : route[c] = "gap"} :
                    /\ \A c \in G : Siblings(c) \cap G = {} /\ Siblings(c) \cap waiting # {}
                    /\ \A c \in waiting : Siblings(c) \cap G # {}}
    IN IF Moving(s) \/ In(s.todo) # {} \/ parked = {} THEN {s}
       ELSE CASE waiting = {} -> {[s EXCEPT !.todo = s.parked, !.parked = Empty,
                                            !.stage = "fanouts", !.passes = 0]}
              [] OTHER -> {[s EXCEPT !.todo = Of(G, "generic"), !.parked = Only(@, Conns \ G)] :
                               G \in mends}

\* Fanouts begins with the parked branches.  Ports without a trunk get one
\* first, from a cut route that only has a gap to mend.
FanoutStarts(s) ==
    LET parked == In(s.parked)
        waiting == {c \in parked : ~HasExit(route, c) /\ route[c] # "gap"}
        mends == {G \in SUBSET {c \in parked : route[c] = "gap"} :
                    /\ \A c \in G : Siblings(c) \cap G = {} /\ Siblings(c) \cap waiting # {}
                    /\ \A c \in waiting : Siblings(c) \cap G # {}}
    IN IF Moving(s) \/ In(s.todo) # {} \/ parked = {} THEN {s}
       ELSE CASE waiting = {} -> {[s EXCEPT !.todo = s.parked, !.parked = Empty,
                                            !.stage = "fanouts", !.passes = 0]}
              [] waiting # {} /\ mends = {} -> {[s EXCEPT !.outcome = "missing trunk"]}
              [] OTHER -> {[s EXCEPT !.todo = Of(G, "generic"), !.parked = Only(@, Conns \ G),
                                     !.stage = "seeds"] : G \in mends}

\* Fanouts that keep working without finishing also end in Moving destinations.
Stuck(s) == /\ s.stage = "fanouts" /\ s.passes = FanoutPasses
            /\ batch.completed <= LowProgress /\ In(s.todo) # {}

MovingStarts(s) ==
    IF Moving(s) THEN [s EXCEPT !.relocate = TRUE]
    ELSE [s EXCEPT !.todo = Only(Merge(@, s.deferred), Conns \ Done(route)), !.deferred = Empty,
                   !.stage = "destinations", !.relocate = TRUE, !.passes = 0]

\* The last look, once every queue is empty: the bindings are audited.
Audited(s) ==
    IF /\ In(s.todo) \cup In(s.parked) \cup In(s.deferred) = {} /\ s.focus = NoCell
       /\ Unmended # {} /\ s.outcome = "running"
    THEN [s EXCEPT !.todo = Rebuilt(route, Unmended), !.stage = "destinations",
                   !.relocate = FALSE]
    ELSE s

\* again: Moving gave up its batch and relocates, with work left.
PassEnds(s, expired, again) ==
    LET broken == batch.failed \/ expired
        handed == HandedOver(Settled(s), broken)
        moves == \/ s.stage \in {"fanouts", "seeds"} /\ broken
                 \/ Stuck(s)
                 \/ again /\ Moving(handed) /\ In(handed.todo) # {}
    IN {Audited(IF moves THEN MovingStarts(f) ELSE f) : f \in FanoutStarts(handed)}

EndPass ==
    /\ phase = "batch" /\ sched.outcome = "running"
    /\ \E expired, again \in BOOLEAN :
          /\ expired => ~Moving(sched)
          /\ again => Moving(sched)
          /\ left = {} \/ batch.failed \/ expired
          /\ LET s == Absorbed(sched)
             IN IF FocusUnfinished(s)
                THEN sched' = [s EXCEPT !.relocate = again,
                                 !.todo = Rebuilt(route, Unmended \cap Incident(s.focus))]
                ELSE sched' \in PassEnds(s, expired, again)
    /\ pending' = Empty /\ phase' = "head" /\ left' = {} /\ batch' = NoBatch
    /\ UNCHANGED route

\* The parked branches are not looked at when the loop is left.
MutFinish ==
    /\ phase = "head" /\ sched.outcome = "running" /\ ~HasWork(sched)
    /\ Stop(IF In(sched.deferred) \cup In(pending) = {} THEN "returned" ELSE "deferred work")

\* The loop is left when nothing is active; any other queue is then an error.
Finish ==
    /\ phase = "head" /\ sched.outcome = "running" /\ ~HasWork(sched)
    /\ Stop(IF In(sched.parked) \cup In(sched.deferred) \cup In(pending) = {}
            THEN "returned" ELSE "deferred work")

Next ==
    \/ StartPass \/ EndPass \/ Finish \/ Abandon
    \/ \E c \in Conns : CompleteTask(c) \/ ParkTask(c) \/ FailTask(c) \/ RecoverTask(c)
    \/ EnterSources \/ LeaveSources
    \/ \E c \in Conns : PassSource(c) \/ WireSource(c) \/ ShiftSource(c)
    \/ PickDeferred \/ NothingToMove \/ FocusStuck
    \/ \E c \in Conns : RepairFrozen(c) \/ WireSink(c) \/ ShiftSink(c)

\* One thread runs the loop to its end.
Spec == Init /\ [][Next]_vars /\ WF_vars(Next)

---------------------------------------------------------------------------
(* Properties *)

Roles == {"no", "generic", "fanout"}

\* The state has its type.
TypeOK ==
    /\ route \in [Conns -> {"unbound", "partial", "gap", "done"}]
    /\ sched \in [todo : [Conns -> Roles], parked : [Conns -> Roles], deferred : [Conns -> Roles],
                  stage : {"basic", "sources", "fanouts", "seeds", "destinations"},
                  sourcesDone : BOOLEAN, relocate : BOOLEAN, recovery : BOOLEAN,
                  focus : Cells \cup {NoCell}, passes : 0..FanoutPasses,
                  outcome : {"running", "returned", "deferred work", "missing trunk", "stopped",
                             "sources restarted", "no movable endpoint", "task cannot relocate"}]
    /\ pending \in [Conns -> Roles]
    /\ phase \in {"head", "relocating", "batch"}
    /\ left \subseteq Conns
    /\ batch \in [completed : 0..(LowProgress + 1), failed : BOOLEAN, moved : SUBSET Cells]

\* routeDesign returns normally only when every connection is routed: no cut,
\* tear or hand-over on the way may have dropped a task.
ReturnedComplete == sched.outcome = "returned" => Done(route) = Conns

\* Between two passes every unfinished connection is in one of the queues.
NothingLost ==
    phase = "head" /\ sched.outcome = "running"
        => Conns \ Done(route) \subseteq In(sched.todo) \cup In(sched.parked) \cup In(sched.deferred)

\* The barrier before Fanouts: from then until a failure every port has a
\* trunk, complete or cut, however the stages preempt each other's trunks.
TrunkBarrier ==
    /\ sched.outcome # "missing trunk"
    /\ sched.stage \in {"fanouts", "seeds"} /\ ~batch.failed
          => \A c \in Conns : \E d \in Siblings(c) \cup {c} : route[d] \in {"done", "gap"}

\* Moving sources runs at most once ("Moving sources restarted after reaching
\* zero trunks" is asserted never to happen), and nothing of it is left behind.
SourcesOnce ==
    /\ sched.outcome # "sources restarted"
    /\ sched.sourcesDone => sched.stage # "sources" /\ ~sched.recovery

Lost == \E c \in Conns : route[c] = "done" /\ route'[c] # "done"

\* The loop ends, unless connections keep losing the routes they had: no
\* queue, flag or focus makes it turn without routing anything.
Progress == <>(sched.outcome # "running") \/ []<><<Lost>>_vars

\* Once Moving destinations has the work, no branch is left in the queue of the
\* inactive Fanouts stage, from which nothing in Moving takes it again.
NoneParked == sched.stage = "destinations" => sched.parked = Empty

\* A later run that only adds branches to routed ports routes them: the loop
\* does not exit with work in a queue of a stage it never entered.
NoDeferredExit == sched.outcome # "deferred work"
=============================================================================
