------------------------- MODULE RouteStagesProofs -------------------------
(***************************************************************************)
(* Proofs about RouteStages: for every design the state keeps its type and *)
(* Moving sources runs at most once.                                       *)
(***************************************************************************)
EXTENDS RouteStages, TLAPS

Queues == [Conns -> Roles]
Routes == [Conns -> {"unbound", "partial", "gap", "done"}]
Passes == 0..FanoutPasses
Scheds == [todo : Queues, parked : Queues, deferred : Queues,
           stage : {"basic", "sources", "fanouts", "seeds", "destinations"},
           sourcesDone : BOOLEAN, relocate : BOOLEAN, recovery : BOOLEAN,
           focus : Cells \cup {NoCell}, passes : Passes,
           outcome : {"running", "returned", "deferred work", "missing trunk", "stopped",
                      "sources restarted", "no movable endpoint", "task cannot relocate"}]
Batches == [completed : 0..(LowProgress + 1), failed : BOOLEAN, moved : SUBSET Cells]

\* Nothing in t of what SourcesOnce depends on differs from s.
SameStage(s, t) ==
    /\ t.stage = s.stage /\ t.sourcesDone = s.sourcesDone
    /\ t.recovery = s.recovery /\ t.outcome = s.outcome

\* A scheduler that may not start Moving sources again.
Once(s) ==
    /\ s.outcome # "sources restarted"
    /\ s.recovery => s.stage = "sources"
    /\ s.sourcesDone => s.stage # "sources"

\* The Basic stage after Moving sources has no work of its own, so that no
\* pass begins that could hand trunks to Moving sources again.
Closed(s) == s.sourcesDone /\ s.stage = "basic" => In(s.todo) = {}

IInv ==
    /\ TypeOK
    /\ Once(sched) /\ Closed(sched)
    /\ phase = "relocating" => sched.stage = "sources"
    /\ sched.sourcesDone /\ sched.stage = "basic" => phase = "head"

---------------------------------------------------------------------------
(* Types of the operators *)

\* The type invariant, variable by variable.
LEMMA Typed ==
    TypeOK <=> /\ route \in Routes /\ sched \in Scheds /\ pending \in Queues
               /\ phase \in {"head", "relocating", "batch"} /\ left \subseteq Conns
               /\ batch \in Batches
  BY DEF TypeOK, Routes, Scheds, Queues, Batches, Passes

\* The operators on queues return queues.
LEMMA EmptyType == Empty \in Queues
  BY DEF Empty, Queues, Roles

\* A set of connections in one role is a queue,
LEMMA OfType == ASSUME NEW S, NEW role \in Roles PROVE Of(S, role) \in Queues
  BY DEF Of, Queues, Roles

\* so is a part of one,
LEMMA OnlyType == ASSUME NEW q \in Queues, NEW S PROVE Only(q, S) \in Queues
  BY DEF Only, Queues, Roles

\* and two of them merged.
LEMMA MergeType == ASSUME NEW q1 \in Queues, NEW q2 \in Queues PROVE Merge(q1, q2) \in Queues
  <1> SUFFICES ASSUME NEW c \in Conns
               PROVE (IF "generic" \in {q1[c], q2[c]} THEN "generic"
                      ELSE IF q1[c] = "no" THEN q2[c] ELSE q1[c]) \in Roles
    BY DEF Merge, Queues
  <1> q1[c] \in Roles /\ q2[c] \in Roles
    BY DEF Queues
  <1> QED BY DEF Roles

\* The queue built from the bindings is one.
LEMMA RebuiltType == ASSUME NEW r, NEW S PROVE Rebuilt(r, S) \in Queues
  BY DEF Rebuilt, Queues, Roles

\* Routing a connection leaves every route in one of its states.
LEMMA RoutedType ==
    ASSUME route \in Routes, NEW c, NEW torn, NEW cut PROVE Routed(c, torn, cut) \in Routes
  BY DEF Routed, Routes

\* A queue holds connections.
LEMMA InType == ASSUME NEW q PROVE In(q) \subseteq Conns
  BY DEF In

\* No pass yet is a number of passes.
LEMMA NoPasses == DesignAssumption => 0 \in Passes
  BY DEF DesignAssumption, Passes

\* No batch yet is a batch.
LEMMA NoBatchType == NoBatch \in Batches
  BY DEF NoBatch, Batches, LowProgress

\* A source move leaves routes and three queues.
LEMMA SourceMoveType ==
    ASSUME route \in Routes, NEW c \in Conns, NEW m \in SourceMoves(c)
    PROVE m.route \in Routes /\ m.parked \in Queues /\ m.moved \in Queues /\ m.cut \in Queues
  <1>1. PICK late, begun, cut : m = MovedSource(c, late, begun, cut)
    BY DEF SourceMoves
  <1> DEFINE torn == Outputs(c) \cup begun \cup (late \cap Bound(route))
             r == [d \in Conns |-> IF d \in Inputs(c) \ late THEN "done"
                                   ELSE Routed(c, torn, cut)[d]]
  <1>2. Routed(c, torn, cut) \in Routes
    BY RoutedType
  <1>3. r \in Routes
    BY <1>2 DEF Routes
  <1>4. "fanout" \in Roles /\ "generic" \in Roles
    BY DEF Roles
  <1>5. /\ Of(Outputs(c) \cap Siblings(c), "fanout") \in Queues /\ Of(cut, "fanout") \in Queues
        /\ Of(Outputs(c) \ Siblings(c), "generic") \in Queues
    BY <1>4, OfType
  <1>6. Merge(Of(Outputs(c) \ Siblings(c), "generic"), Rebuilt(r, late)) \in Queues
    BY <1>5, RebuiltType, MergeType
  <1> QED BY <1>1, <1>3, <1>5, <1>6 DEF MovedSource

\* A sink move leaves routes and two queues.
LEMMA SinkMoveType ==
    ASSUME route \in Routes, NEW c \in Conns, NEW m \in SinkMoves(c)
    PROVE m.route \in Routes /\ m.moved \in Queues /\ m.cut \in Queues
  <1>1. PICK cut : m = MovedSink(c, cut)
    BY DEF SinkMoves
  <1>2. "fanout" \in Roles
    BY DEF Roles
  <1>3. /\ Routed(c, AtSink(c), cut) \in Routes
        /\ Rebuilt(Routed(c, AtSink(c), cut), AtSink(c) \cup {c}) \in Queues
        /\ Of(cut, "fanout") \in Queues
    BY <1>2, RoutedType, RebuiltType, OfType
  <1> QED BY <1>1, <1>3 DEF MovedSink

---------------------------------------------------------------------------
(* The beginning of a batch *)

\* A batch begins with the roles normalized; the stage stays what it was.
LEMMA BatchBegins ==
    ASSUME DesignAssumption, NEW s \in Scheds, BeginBatch(s)
    PROVE /\ sched' \in Scheds /\ SameStage(s, sched')
          /\ left' \subseteq Conns /\ phase' = "batch" /\ batch' = NoBatch
  <1>1. PICK G \in Leaders(s) :
          LET n == Normalized(s, G)
          IN /\ sched' = IF n.stage = "fanouts" /\ n.passes < FanoutPasses
                         THEN [n EXCEPT !.passes = @ + 1] ELSE n
             /\ left' = In(n.todo) /\ phase' = "batch" /\ batch' = NoBatch
    BY DEF BeginBatch
  <1> DEFINE n == Normalized(s, G)
             branches == Of(In(s.todo) \ G, "fanout")
  <1>2. n \in Scheds /\ SameStage(s, n)
    <2>1. "fanout" \in Roles /\ "generic" \in Roles
      BY DEF Roles
    <2>2. branches \in Queues /\ Of(G, "generic") \in Queues /\ s.parked \in Queues
      BY <2>1, OfType DEF Scheds
    <2>3. Merge(Of(G, "generic"), branches) \in Queues /\ Merge(s.parked, branches) \in Queues
      BY <2>2, MergeType
    <2> HIDE DEF branches
    <2>4. CASE s.stage = "fanouts"
      <3>1. n = s
        BY <2>4 DEF Normalized
      <3> QED BY <3>1 DEF SameStage
    <2>5. CASE s.stage = "destinations"
      <3>1. n = [s EXCEPT !.todo = Merge(Of(G, "generic"), branches)]
        BY <2>5 DEF Normalized, branches
      <3> QED BY <3>1, <2>3 DEF SameStage, Scheds
    <2>6. CASE s.stage \notin {"fanouts", "destinations"}
      <3>1. n = [s EXCEPT !.todo = Of(G, "generic"), !.parked = Merge(@, branches)]
        BY <2>6 DEF Normalized, branches
      <3> QED BY <3>1, <2>2, <2>3 DEF SameStage, Scheds
    <2> QED BY <2>4, <2>5, <2>6
  <1> HIDE DEF n
  <1>3. sched' = (IF n.stage = "fanouts" /\ n.passes < FanoutPasses
                  THEN [n EXCEPT !.passes = @ + 1] ELSE n)
        /\ left' = In(n.todo) /\ phase' = "batch" /\ batch' = NoBatch
    BY <1>1 DEF n
  <1>4. n.passes < FanoutPasses => n.passes + 1 \in Passes
    <2>1. n.passes \in Passes /\ FanoutPasses \in Nat
      BY <1>2 DEF Scheds, DesignAssumption
    <2> QED BY <2>1 DEF Passes
  <1>5. sched' \in Scheds /\ SameStage(n, sched')
    BY <1>2, <1>3, <1>4 DEF Scheds, SameStage
  <1> QED BY <1>2, <1>3, <1>5, InType DEF SameStage

\* What follows a relocation keeps types and stage.
LEMMA Resumes ==
    ASSUME DesignAssumption, NEW s \in Scheds, Resume(s)
    PROVE /\ sched' \in Scheds /\ SameStage(s, sched')
          /\ left' \subseteq Conns /\ phase' \in {"head", "batch"} /\ batch' = NoBatch
  <1>1. CASE s.relocate /\ pending' = Empty /\ HasWork(s)
    BY <1>1 DEF Resume, SameStage
  <1>2. CASE ~(s.relocate /\ pending' = Empty /\ HasWork(s))
    <2> DEFINE t == [s EXCEPT !.relocate = FALSE]
    <2>1. BeginBatch(t)
      BY <1>2 DEF Resume
    <2>2. t \in Scheds /\ SameStage(s, t)
      BY DEF Scheds, SameStage
    <2> HIDE DEF t
    <2> QED BY <2>1, <2>2, BatchBegins DEF SameStage
  <1> QED BY <1>1, <1>2

\* Releasing a focus keeps types and stage, and empties the active queue.
LEMMA RestoredType ==
    ASSUME DesignAssumption, NEW s \in Scheds, NEW r
    PROVE Restored(s, r) \in Scheds /\ SameStage(s, Restored(s, r))
          /\ Restored(s, r).todo = Empty
  <1>1. Only(Merge(s.deferred, s.todo), Conns \ Done(r)) \in Queues
    BY MergeType, OnlyType DEF Scheds
  <1> QED BY <1>1, EmptyType DEF Restored, Scheds, SameStage

---------------------------------------------------------------------------
(* The end of a pass *)

\* A scheduler after the pending tasks were filed.
Fine(s) == s \in Scheds /\ Once(s) /\ ~s.recovery /\ Closed(s)

\* The empty queue holds nothing.
LEMMA EmptyHasNone == In(Empty) = {}
  BY DEF In, Empty

\* Filing the pending tasks hands nothing to a closed Basic stage.
LEMMA AbsorbedFine ==
    ASSUME NEW s \in Scheds, Once(s), pending \in Queues, ~(s.sourcesDone /\ s.stage = "basic")
    PROVE Fine(Absorbed(s)) /\ ~(Absorbed(s).sourcesDone /\ Absorbed(s).stage = "basic")
  <1> DEFINE branches == {c \in In(pending) : pending[c] = "fanout"}
             shelved == IF s.stage \in {"basic", "seeds", "sources"} THEN branches ELSE {}
             away == IF s.focus = NoCell THEN {} ELSE In(pending) \ Incident(s.focus)
             filed == [s EXCEPT !.parked = Merge(@, Only(pending, shelved)),
                                !.deferred = Merge(@, Only(pending, away)),
                                !.todo = Merge(@, Only(pending, Conns \ (shelved \cup away)))]
  <1> HIDE DEF branches, shelved, away
  <1>1. Only(pending, shelved) \in Queues /\ Only(pending, away) \in Queues
        /\ Only(pending, Conns \ (shelved \cup away)) \in Queues
    BY OnlyType
  <1>2. Merge(s.parked, Only(pending, shelved)) \in Queues
        /\ Merge(s.deferred, Only(pending, away)) \in Queues
        /\ Merge(s.todo, Only(pending, Conns \ (shelved \cup away))) \in Queues
    BY <1>1, MergeType DEF Scheds
  <1>3. filed \in Scheds /\ SameStage(s, filed)
    BY <1>2 DEF Scheds, SameStage
  <1>4. Absorbed(s) = IF filed.stage = "sources" /\ filed.recovery
                      THEN [filed EXCEPT !.recovery = FALSE, !.relocate = (In(filed.todo) # {})]
                      ELSE filed
    BY DEF Absorbed, branches, shelved, away
  <1> HIDE DEF filed
  <1>5. Absorbed(s) \in Scheds /\ Absorbed(s).stage = s.stage
        /\ Absorbed(s).sourcesDone = s.sourcesDone /\ Absorbed(s).outcome = s.outcome
        /\ (Absorbed(s).recovery => s.recovery /\ s.stage # "sources")
    BY <1>3, <1>4 DEF Scheds, SameStage
  <1> QED BY <1>5 DEF Fine, Once, Closed

\* Moving sources without active tasks ends for good.
LEMMA SettledFine ==
    ASSUME DesignAssumption, NEW s, Fine(s) PROVE Fine(Settled(s))
  <1> DEFINE free == IF s.focus # NoCell /\ In(s.todo) = {} THEN Restored(s, route) ELSE s
  <1>1. free \in Scheds /\ SameStage(s, free) /\ (In(s.todo) = {} => In(free.todo) = {})
    BY RestoredType, EmptyHasNone DEF Fine, SameStage
  <1>2. Settled(s) = IF free.stage = "sources" /\ In(free.todo) = {}
                     THEN [free EXCEPT !.sourcesDone = TRUE, !.stage = "basic", !.relocate = FALSE]
                     ELSE free
    BY DEF Settled
  <1> HIDE DEF free
  <1>3. CASE free.stage = "sources" /\ In(free.todo) = {}
    BY <1>1, <1>2, <1>3 DEF Fine, Once, Closed, SameStage, Scheds
  <1>4. CASE ~(free.stage = "sources" /\ In(free.todo) = {})
    BY <1>1, <1>2, <1>4 DEF Fine, Once, Closed, SameStage
  <1> QED BY <1>3, <1>4

\* A hand-over enters Moving sources only before it was ever done.
LEMMA HandedOverFine ==
    ASSUME NEW s, Fine(s), NEW broken \in BOOLEAN PROVE Fine(HandedOver(s, broken))
  <1>1. CASE s.stage = "basic" /\ In(s.todo) = {} /\ ~s.sourcesDone
    <2>1. HandedOver(s, broken) = [s EXCEPT !.sourcesDone = TRUE]
      BY <1>1 DEF HandedOver
    <2> QED BY <1>1, <2>1 DEF Fine, Once, Closed, Scheds
  <1>2. CASE s.stage = "basic" /\ In(s.todo) # {} /\ broken
    <2>1. ~s.sourcesDone
      BY <1>2 DEF Fine, Closed, Scheds
    <2>2. HandedOver(s, broken) =
            [s EXCEPT !.todo = Of(In(s.todo), "generic"), !.stage = "sources",
                      !.relocate = TRUE, !.recovery = FALSE,
                      !.outcome = IF s.sourcesDone THEN "sources restarted" ELSE @]
      BY <1>2 DEF HandedOver
    <2>3. Of(In(s.todo), "generic") \in Queues
      BY OfType DEF Roles
    <2> QED BY <1>2, <2>1, <2>2, <2>3 DEF Fine, Once, Closed, Scheds
  <1>3. CASE s.stage \in {"fanouts", "seeds"} /\ broken
    <2>1. HandedOver(s, broken) = [s EXCEPT !.todo = Merge(@, s.parked), !.parked = Empty]
      BY <1>3 DEF HandedOver
    <2>2. Merge(s.todo, s.parked) \in Queues
      BY MergeType DEF Fine, Scheds
    <2> QED BY <1>3, <2>1, <2>2, EmptyType DEF Fine, Once, Closed, Scheds
  <1>4. CASE /\ ~(s.stage = "basic" /\ In(s.todo) = {} /\ ~s.sourcesDone)
             /\ ~(s.stage = "basic" /\ In(s.todo) # {} /\ broken)
             /\ ~(s.stage \in {"fanouts", "seeds"} /\ broken)
    BY <1>4 DEF HandedOver
  <1> QED BY <1>1, <1>2, <1>3, <1>4

\* What the sets of FanoutStarts are does not matter, only what it assigns.
LEMMA FanoutStartsFine ==
    ASSUME DesignAssumption, NEW s, Fine(s), NEW f \in FanoutStarts(s) PROVE Fine(f)
  <1>1. \/ f = s
        \/ f = [s EXCEPT !.todo = s.parked, !.parked = Empty, !.stage = "fanouts", !.passes = 0]
        \/ f = [s EXCEPT !.outcome = "missing trunk"]
        \/ \E G : f = [s EXCEPT !.todo = Of(G, "generic"), !.parked = Only(@, Conns \ G),
                                !.stage = "seeds"]
    <2> DEFINE parked == In(s.parked)
               waiting == {c \in parked : ~HasExit(route, c) /\ route[c] # "gap"}
               mends == {G \in SUBSET {c \in parked : route[c] = "gap"} :
                           /\ \A c \in G : Siblings(c) \cap G = {} /\ Siblings(c) \cap waiting # {}
                           /\ \A c \in waiting : Siblings(c) \cap G # {}}
               quiet == Moving(s) \/ In(s.todo) # {} \/ parked = {}
    <2>1. f \in IF quiet THEN {s} ELSE
                 CASE waiting = {} -> {[s EXCEPT !.todo = s.parked, !.parked = Empty,
                                               !.stage = "fanouts", !.passes = 0]}
                 [] waiting # {} /\ mends = {} -> {[s EXCEPT !.outcome = "missing trunk"]}
                 [] OTHER -> {[s EXCEPT !.todo = Of(G, "generic"), !.parked = Only(@, Conns \ G),
                                        !.stage = "seeds"] : G \in mends}
      BY DEF FanoutStarts
    <2> HIDE DEF quiet, waiting, mends
    <2> QED BY <2>1
  <1>2. CASE f = s
    BY <1>2
  <1>3. CASE f = [s EXCEPT !.todo = s.parked, !.parked = Empty, !.stage = "fanouts", !.passes = 0]
    BY <1>3, EmptyType, NoPasses DEF Fine, Once, Closed, Scheds
  <1>4. CASE f = [s EXCEPT !.outcome = "missing trunk"]
    BY <1>4 DEF Fine, Once, Closed, Scheds
  <1>5. CASE \E G : f = [s EXCEPT !.todo = Of(G, "generic"), !.parked = Only(@, Conns \ G),
                                  !.stage = "seeds"]
    <2>1. PICK G : f = [s EXCEPT !.todo = Of(G, "generic"), !.parked = Only(@, Conns \ G),
                                 !.stage = "seeds"]
      BY <1>5
    <2>2. Of(G, "generic") \in Queues /\ Only(s.parked, Conns \ G) \in Queues
      BY OfType, OnlyType DEF Roles, Fine, Scheds
    <2> QED BY <2>1, <2>2 DEF Fine, Once, Closed, Scheds
  <1> QED BY <1>1, <1>2, <1>3, <1>4, <1>5

\* Moving destinations starts with the unfinished tasks of both queues.
LEMMA MovingStartsFine ==
    ASSUME DesignAssumption, NEW s, Fine(s) PROVE Fine(MovingStarts(s))
  <1>1. CASE Moving(s)
    BY <1>1 DEF MovingStarts, Fine, Once, Closed, Scheds
  <1>2. CASE ~Moving(s)
    <2>1. Only(Merge(s.todo, s.deferred), Conns \ Done(route)) \in Queues
      BY MergeType, OnlyType DEF Fine, Scheds
    <2> QED BY <1>2, <2>1, EmptyType, NoPasses DEF MovingStarts, Moving, Fine, Once, Closed, Scheds
  <1> QED BY <1>1, <1>2

\* The last audit may reopen Moving destinations, never Basic.
LEMMA AuditedFine == ASSUME NEW s, Fine(s) PROVE Fine(Audited(s))
  <1>1. Rebuilt(route, Unmended) \in Queues
    BY RebuiltType
  <1>2. Audited(s) = s \/ Audited(s) = [s EXCEPT !.todo = Rebuilt(route, Unmended),
                                                !.stage = "destinations", !.relocate = FALSE]
    BY DEF Audited
  <1> QED BY <1>1, <1>2 DEF Fine, Once, Closed, Scheds

\* The end of a pass keeps all of it.
LEMMA PassEndsFine ==
    ASSUME DesignAssumption, NEW s, Fine(s), batch \in Batches,
           NEW expired \in BOOLEAN, NEW again \in BOOLEAN,
           NEW t \in PassEnds(s, expired, again)
    PROVE Fine(t)
  <1> DEFINE broken == batch.failed \/ expired
             handed == HandedOver(Settled(s), broken)
  <1>1. PICK f \in FanoutStarts(handed) :
          t = Audited(MovingStarts(f)) \/ t = Audited(f)
    BY DEF PassEnds
  <1>2. Fine(handed)
    BY SettledFine, HandedOverFine DEF Batches
  <1> HIDE DEF handed
  <1>3. Fine(f)
    BY <1>2, FanoutStartsFine
  <1> QED BY <1>1, <1>3, MovingStartsFine, AuditedFine

---------------------------------------------------------------------------
(* The invariant *)

\* The loop starts in Basic with Moving sources to come.
LEMMA InitInv == DesignAssumption /\ Init => IInv
  <1> SUFFICES ASSUME DesignAssumption, Init PROVE IInv
    OBVIOUS
  <1>1. PICK old \in SUBSET Conns : \E seeds \in SUBSET (Conns \ old) :
          /\ route = [c \in Conns |-> IF c \in old THEN "done" ELSE "unbound"]
          /\ sched = [todo |-> Of(seeds, "generic"),
                      parked |-> Of(Conns \ (old \cup seeds), "fanout"),
                      deferred |-> Empty, stage |-> "basic", sourcesDone |-> FALSE,
                      relocate |-> FALSE, recovery |-> FALSE, focus |-> NoCell,
                      passes |-> 0, outcome |-> "running"]
          /\ pending = Empty /\ phase = "head" /\ left = {} /\ batch = NoBatch
    BY DEF Init
  <1>2. PICK seeds \in SUBSET (Conns \ old) :
          sched = [todo |-> Of(seeds, "generic"),
                   parked |-> Of(Conns \ (old \cup seeds), "fanout"),
                   deferred |-> Empty, stage |-> "basic", sourcesDone |-> FALSE,
                   relocate |-> FALSE, recovery |-> FALSE, focus |-> NoCell,
                   passes |-> 0, outcome |-> "running"]
    BY <1>1
  <1>3. Of(seeds, "generic") \in Queues /\ Of(Conns \ (old \cup seeds), "fanout") \in Queues
    BY OfType DEF Roles
  <1>4. route \in Routes
    BY <1>1 DEF Routes
  <1>5. sched \in Scheds
    BY <1>2, <1>3, EmptyType, NoPasses DEF Scheds, DesignAssumption
  <1>6. TypeOK
    BY <1>1, <1>4, <1>5, Typed, EmptyType, NoBatchType
  <1> QED BY <1>1, <1>2, <1>6 DEF IInv, Once, Closed

\* The type invariant after a step, variable by variable.
LEMMA TypedAfter ==
    TypeOK' <=> /\ route' \in Routes /\ sched' \in Scheds /\ pending' \in Queues
                /\ phase' \in {"head", "relocating", "batch"} /\ left' \subseteq Conns
                /\ batch' \in Batches
  BY DEF TypeOK, Routes, Scheds, Queues, Batches, Passes

\* Away from the closed Basic stage, a step that keeps the types and the stage
\* keeps the invariant.
LEMMA Keeps ==
    ASSUME IInv, SameStage(sched, sched'), ~(sched.sourcesDone /\ sched.stage = "basic"),
           route' \in Routes, sched' \in Scheds, pending' \in Queues,
           phase' \in {"head", "relocating", "batch"}, left' \subseteq Conns, batch' \in Batches,
           phase' = "relocating" => sched.stage = "sources"
    PROVE IInv'
  BY TypedAfter DEF IInv, SameStage, Once, Closed

\* Stopping keeps the invariant, whatever the reason.
LEMMA Stops ==
    ASSUME IInv, NEW why, Stop(why),
           why \in {"returned", "deferred work", "stopped", "no movable endpoint",
                   "task cannot relocate"}
    PROVE IInv'
  <1>1. sched' = [sched EXCEPT !.outcome = why]
        /\ UNCHANGED <<route, pending, phase, left, batch>>
    BY DEF Stop
  <1>2. sched \in Scheds
    BY Typed DEF IInv
  <1>3. sched' \in Scheds /\ sched'.todo = sched.todo /\ sched'.stage = sched.stage
        /\ sched'.sourcesDone = sched.sourcesDone /\ sched'.recovery = sched.recovery
        /\ sched'.outcome = why
    BY <1>1, <1>2 DEF Scheds
  <1> QED BY <1>1, <1>3, Typed, TypedAfter DEF IInv, Once, Closed, In

\* A merged queue is a queue, also when one of them holds the branches of a set.
LEMMA WithBranches ==
    ASSUME NEW q \in Queues, NEW S PROVE Merge(q, Of(S, "fanout")) \in Queues
  BY OfType, MergeType DEF Roles

\* Adding generic tasks to a queue leaves a queue.
LEMMA WithTrunks ==
    ASSUME NEW q \in Queues, NEW S PROVE Merge(q, Of(S, "generic")) \in Queues
  BY OfType, MergeType DEF Roles

---------------------------------------------------------------------------
(* The steps of a batch *)

\* A pass starts with active work, so not in a closed Basic stage.
LEMMA StartPassStep == ASSUME DesignAssumption, IInv, StartPass PROVE IInv'
  <1>1. sched \in Scheds /\ route \in Routes /\ pending \in Queues
    BY Typed DEF IInv
  <1>2. ~(sched.sourcesDone /\ sched.stage = "basic")
    BY DEF StartPass, AtHead, HasWork, IInv, Closed, Moving
  <1>3. BeginBatch(sched) /\ UNCHANGED <<route, pending>>
    BY DEF StartPass
  <1>4. sched' \in Scheds /\ SameStage(sched, sched') /\ left' \subseteq Conns
        /\ phase' = "batch" /\ batch' = NoBatch
    BY <1>1, <1>3, BatchBegins
  <1> QED BY <1>1, <1>2, <1>3, <1>4, Keeps, NoBatchType

\* Visiting a task keeps the types of the batch.
LEMMA VisitedType ==
    ASSUME batch \in Batches, left \subseteq Conns, NEW c, Visited(c)
    PROVE batch' \in Batches /\ left' \subseteq Conns /\ phase' = phase
  <1>1. CASE batch.completed <= LowProgress
    <2>1. batch' = [batch EXCEPT !.completed = @ + 1]
      BY <1>1 DEF Visited
    <2>2. batch.completed + 1 \in 0..(LowProgress + 1)
      BY <1>1 DEF Batches, LowProgress
    <2> QED BY <2>1, <2>2 DEF Visited, Batches
  <1>2. CASE ~(batch.completed <= LowProgress)
    BY <1>2 DEF Visited
  <1> QED BY <1>1, <1>2

\* A task runs in a batch, away from the closed Basic stage.
LEMMA InBatch ==
    ASSUME IInv, NEW c, Ready(c)
    PROVE /\ phase = "batch" /\ ~(sched.sourcesDone /\ sched.stage = "basic")
          /\ route \in Routes /\ sched \in Scheds /\ pending \in Queues
          /\ left \subseteq Conns /\ batch \in Batches
  BY Typed DEF IInv, Ready

\* Removing a task from the active queue.
LEMMA TaskRemoved ==
    ASSUME NEW s \in Scheds, NEW c \in Conns
    PROVE [s EXCEPT !.todo[c] = "no"] \in Scheds
  <1>1. [s.todo EXCEPT ![c] = "no"] \in Queues
    BY DEF Scheds, Queues, Roles
  <1> QED BY <1>1 DEF Scheds

\* A task that completes may cut and tear, and queues what it cut.
LEMMA CompleteTaskStep ==
    ASSUME IInv, NEW c \in Conns, CompleteTask(c) PROVE IInv'
  <1>1. PICK torn \in Resets(c), cut \in Cuts(c) :
          route' = Routed(c, torn, cut) /\ pending' = Merge(pending, Of(torn \cup cut, "fanout"))
    BY DEF CompleteTask
  <1>2. Ready(c) /\ Visited(c) /\ sched' = [sched EXCEPT !.todo[c] = "no"]
    BY DEF CompleteTask
  <1>3. route' \in Routes /\ pending' \in Queues
    BY <1>1, <1>2, InBatch, RoutedType, WithBranches
  <1>4. sched' \in Scheds /\ SameStage(sched, sched')
    BY <1>2, InBatch, TaskRemoved DEF SameStage, Scheds
  <1>5. phase' = "batch" /\ batch' \in Batches /\ left' \subseteq Conns
    BY <1>2, InBatch, VisitedType
  <1> QED BY <1>2, <1>3, <1>4, <1>5, InBatch, Keeps

\* A task parked as a branch changes queues.
LEMMA ParkTaskStep ==
    ASSUME IInv, NEW c \in Conns, ParkTask(c) PROVE IInv'
  <1>1. Ready(c) /\ sched' = [sched EXCEPT !.todo[c] = "no", !.parked[c] = "fanout"]
        /\ left' = left \ {c} /\ UNCHANGED <<route, pending, phase, batch>>
    BY DEF ParkTask
  <1>2. [sched.todo EXCEPT ![c] = "no"] \in Queues /\ [sched.parked EXCEPT ![c] = "fanout"] \in Queues
    BY <1>1, InBatch DEF Scheds, Queues, Roles
  <1>3. sched' = [sched EXCEPT !.todo = [sched.todo EXCEPT ![c] = "no"],
                               !.parked = [sched.parked EXCEPT ![c] = "fanout"]]
    BY <1>1
  <1>4. sched' \in Scheds /\ SameStage(sched, sched')
    BY <1>1, <1>2, <1>3, InBatch DEF SameStage, Scheds
  <1> QED BY <1>1, <1>4, InBatch, Keeps

\* A task that fails stays active and may have torn its source tree.
LEMMA FailTaskStep ==
    ASSUME IInv, NEW c \in Conns, FailTask(c) PROVE IInv'
  <1>1. Ready(c) /\ UNCHANGED <<sched, phase, left>>
        /\ batch' = [batch EXCEPT !.failed = TRUE]
    BY DEF FailTask
  <1>2. PICK own, torn :
          own \in {route[c], "partial"}
          /\ route' = [Routed(c, torn, {}) EXCEPT ![c] = own]
          /\ pending' = Merge(pending, Of(torn, "fanout"))
    BY DEF FailTask
  <1>3. Routed(c, torn, {}) \in Routes /\ own \in {"unbound", "partial", "gap", "done"}
    BY <1>1, <1>2, InBatch, RoutedType DEF Routes
  <1>4. route' \in Routes
    BY <1>2, <1>3 DEF Routes
  <1>5. pending' \in Queues
    BY <1>1, <1>2, InBatch, WithBranches
  <1>6. batch' \in Batches
    BY <1>1, InBatch DEF Batches
  <1> QED BY <1>1, <1>4, <1>5, <1>6, InBatch, Keeps DEF SameStage

\* A task that recovers by moving its cell queues what the move returns.
LEMMA RecoverTaskStep ==
    ASSUME IInv, NEW c \in Conns, RecoverTask(c) PROVE IInv'
  <1>1. Ready(c) /\ Visited(c)
    BY DEF RecoverTask
  <1>2. phase' = "batch" /\ batch' \in Batches /\ left' \subseteq Conns
    BY <1>1, InBatch, VisitedType
  <1>3. CASE \E m \in SourceMoves(c) :
                /\ route' = m.route
                /\ pending' = Merge(pending, Merge(m.moved, m.cut))
                /\ sched' = [sched EXCEPT !.todo[c] = "no", !.parked = Merge(@, m.parked)]
    <2>1. PICK m \in SourceMoves(c) :
                /\ route' = m.route
                /\ pending' = Merge(pending, Merge(m.moved, m.cut))
                /\ sched' = [sched EXCEPT !.todo[c] = "no", !.parked = Merge(@, m.parked)]
      BY <1>3
    <2>2. m.route \in Routes /\ m.parked \in Queues /\ m.moved \in Queues /\ m.cut \in Queues
      BY <1>1, InBatch, SourceMoveType
    <2>3. [sched.todo EXCEPT ![c] = "no"] \in Queues /\ Merge(sched.parked, m.parked) \in Queues
      BY <1>1, <2>2, InBatch, MergeType DEF Scheds, Queues, Roles
    <2>4. sched' = [sched EXCEPT !.todo = [sched.todo EXCEPT ![c] = "no"],
                                 !.parked = Merge(sched.parked, m.parked)]
      BY <2>1
    <2>5. sched' \in Scheds /\ SameStage(sched, sched')
      BY <1>1, <2>3, <2>4, InBatch DEF SameStage, Scheds
    <2>6. pending' \in Queues /\ route' \in Routes
      BY <1>1, <2>1, <2>2, InBatch, MergeType
    <2> QED BY <1>1, <1>2, <2>5, <2>6, InBatch, Keeps
  <1>4. CASE \E m \in SinkMoves(c) :
                /\ route' = m.route
                /\ pending' = Merge(pending, Merge(m.moved, m.cut))
                /\ sched' = [sched EXCEPT !.todo[c] = "no"]
    <2>1. PICK m \in SinkMoves(c) :
                /\ route' = m.route
                /\ pending' = Merge(pending, Merge(m.moved, m.cut))
                /\ sched' = [sched EXCEPT !.todo[c] = "no"]
      BY <1>4
    <2>2. m.route \in Routes /\ m.moved \in Queues /\ m.cut \in Queues
      BY <1>1, InBatch, SinkMoveType
    <2>3. sched' \in Scheds /\ SameStage(sched, sched')
      BY <1>1, <2>1, InBatch, TaskRemoved DEF SameStage, Scheds
    <2>4. pending' \in Queues /\ route' \in Routes
      BY <1>1, <2>1, <2>2, InBatch, MergeType
    <2> QED BY <1>1, <1>2, <2>3, <2>4, InBatch, Keeps
  <1> QED BY <1>3, <1>4 DEF RecoverTask

\* Moving may give up on a deadline.
LEMMA AbandonStep == ASSUME IInv, Abandon PROVE IInv'
  BY Stops DEF Abandon

---------------------------------------------------------------------------
(* The relocation of Moving sources *)

\* While the sources relocate, the stage is Moving sources.
LEMMA InRelocation ==
    ASSUME IInv, phase = "relocating"
    PROVE /\ sched.stage = "sources" /\ ~sched.sourcesDone
          /\ route \in Routes /\ sched \in Scheds /\ pending \in Queues
          /\ left \subseteq Conns /\ batch \in Batches
  BY Typed DEF IInv, Once

\* Moving sources visits every active task.
LEMMA EnterSourcesStep == ASSUME IInv, EnterSources PROVE IInv'
  <1>1. /\ sched.stage = "sources" /\ sched' = [sched EXCEPT !.todo = Empty, !.relocate = FALSE]
        /\ left' = In(sched.todo) /\ phase' = "relocating" /\ batch' = NoBatch
        /\ UNCHANGED <<route, pending>>
    BY DEF EnterSources
  <1>2. sched \in Scheds /\ route \in Routes /\ pending \in Queues
    BY Typed DEF IInv
  <1>3. sched' \in Scheds /\ SameStage(sched, sched')
    BY <1>1, <1>2, EmptyType DEF SameStage, Scheds
  <1> QED BY <1>1, <1>2, <1>3, InType, NoBatchType, Keeps

\* A visited task that needs no move is dropped, one that is not tried
\* returns to the active queue.
LEMMA PassSourceStep ==
    ASSUME IInv, NEW c \in Conns, PassSource(c) PROVE IInv'
  <1>1. /\ phase = "relocating" /\ left' = left \ {c} /\ UNCHANGED <<route, pending, phase, batch>>
        /\ sched' = IF NeedsSource(c)
                    THEN [sched EXCEPT !.todo = Merge(@, Of({c}, "generic"))] ELSE sched
    BY DEF PassSource, Relocating
  <1>2. Merge(sched.todo, Of({c}, "generic")) \in Queues
    BY <1>1, InRelocation, WithTrunks DEF Scheds
  <1>3. sched' \in Scheds /\ SameStage(sched, sched')
    BY <1>1, <1>2, InRelocation DEF SameStage, Scheds
  <1> QED BY <1>1, <1>3, InRelocation, Keeps

\* A task can be wired where its cell stands.
LEMMA WireSourceStep ==
    ASSUME IInv, NEW c \in Conns, WireSource(c) PROVE IInv'
  <1>1. phase = "relocating" /\ Visited(c) /\ UNCHANGED sched
    BY DEF WireSource, Relocating
  <1>2. PICK cut \in Cuts(c) : /\ route' = Routed(c, {}, cut)
                               /\ pending' = Merge(pending, Of(cut, "fanout"))
    BY DEF WireSource
  <1>3. route' \in Routes /\ pending' \in Queues
    BY <1>1, <1>2, InRelocation, RoutedType, WithBranches
  <1>4. phase' = "relocating" /\ batch' \in Batches /\ left' \subseteq Conns
    BY <1>1, InRelocation, VisitedType
  <1> QED BY <1>1, <1>3, <1>4, InRelocation, Keeps DEF SameStage

\* Or its driver moves.
LEMMA ShiftSourceStep ==
    ASSUME DesignAssumption, IInv, NEW c \in Conns, ShiftSource(c) PROVE IInv'
  <1>1. /\ phase = "relocating" /\ left' = left \ {c} /\ UNCHANGED phase
        /\ batch' = [batch EXCEPT !.completed = 1, !.moved = @ \cup {Driver(c)}]
    BY DEF ShiftSource, Relocating
  <1>2. PICK m \in SourceMoves(c) :
          /\ route' = m.route
          /\ pending' = Merge(pending, m.cut)
          /\ sched' = [sched EXCEPT !.todo = Merge(@, m.moved), !.parked = Merge(@, m.parked)]
    BY DEF ShiftSource
  <1>3. m.route \in Routes /\ m.parked \in Queues /\ m.moved \in Queues /\ m.cut \in Queues
    BY <1>1, InRelocation, SourceMoveType
  <1>4. Merge(sched.todo, m.moved) \in Queues /\ Merge(sched.parked, m.parked) \in Queues
        /\ Merge(pending, m.cut) \in Queues
    BY <1>1, <1>3, InRelocation, MergeType DEF Scheds
  <1>5. sched' \in Scheds /\ SameStage(sched, sched')
    BY <1>1, <1>2, <1>4, InRelocation DEF SameStage, Scheds
  <1>6. Driver(c) \in Cells
    BY DEF Driver, DesignAssumption
  <1>7. batch' \in Batches
    <2>1. batch \in Batches /\ 1 \in 0..(LowProgress + 1)
      BY <1>1, InRelocation DEF LowProgress
    <2> QED BY <1>1, <1>6, <2>1 DEF Batches
  <1> QED BY <1>1, <1>2, <1>3, <1>4, <1>5, <1>7, InRelocation, Keeps

\* After the last visit a batch or another relocation follows.
LEMMA LeaveSourcesStep == ASSUME DesignAssumption, IInv, LeaveSources PROVE IInv'
  <1>1. phase = "relocating"
    BY DEF LeaveSources
  <1>2. CASE batch.completed = 0
    BY <1>2, Stops DEF LeaveSources
  <1>3. CASE batch.completed # 0
    <2>1. UNCHANGED <<route, pending>>
      BY <1>3 DEF LeaveSources
    <2>2. PICK due \in BOOLEAN :
            Resume([sched EXCEPT !.recovery = sched.recovery \/ due,
                                 !.relocate = ~(sched.recovery \/ due)])
      BY <1>3 DEF LeaveSources
    <2> DEFINE t == [sched EXCEPT !.recovery = sched.recovery \/ due,
                                  !.relocate = ~(sched.recovery \/ due)]
    <2>3. t \in Scheds /\ t.stage = "sources" /\ ~t.sourcesDone /\ t.outcome = sched.outcome
      BY <1>1, InRelocation DEF Scheds
    <2> HIDE DEF t
    <2>4. /\ sched' \in Scheds /\ SameStage(t, sched')
          /\ left' \subseteq Conns /\ phase' \in {"head", "batch"} /\ batch' = NoBatch
      BY <2>2, <2>3, Resumes DEF t
    <2>5. TypeOK'
      BY <1>1, <2>1, <2>4, InRelocation, NoBatchType, TypedAfter
    <2>6. Once(sched') /\ Closed(sched') /\ sched'.stage # "basic"
      BY <2>3, <2>4 DEF IInv, Once, Closed, SameStage
    <2> QED BY <2>4, <2>5, <2>6 DEF IInv
  <1> QED BY <1>2, <1>3

---------------------------------------------------------------------------
(* The relocation of Moving destinations *)

\* A relocation of destinations that resumes the loop from a scheduler of its
\* own stage.
LEMMA Relocates ==
    ASSUME DesignAssumption, IInv, Destinations,
           NEW s \in Scheds, SameStage(sched, s), Resume(s),
           route' \in Routes, pending' \in Queues
    PROVE IInv'
  <1>1. /\ sched' \in Scheds /\ SameStage(s, sched') /\ left' \subseteq Conns
        /\ phase' \in {"head", "batch"} /\ batch' = NoBatch
    BY Resumes
  <1>2. sched.stage = "destinations"
    BY DEF Destinations
  <1> QED BY <1>1, <1>2, NoBatchType, Keeps DEF SameStage

\* The head of Moving destinations.
LEMMA AtDestinations ==
    ASSUME IInv, Destinations
    PROVE /\ sched.stage = "destinations" /\ phase = "head"
          /\ route \in Routes /\ sched \in Scheds /\ pending \in Queues
          /\ left \subseteq Conns /\ batch \in Batches
  BY Typed DEF IInv, Destinations, AtHead

\* Without a focus the next deferred tasks become active.
LEMMA PickDeferredStep == ASSUME DesignAssumption, IInv, PickDeferred PROVE IInv'
  <1>1. Destinations /\ UNCHANGED <<route, pending>>
    BY DEF PickDeferred
  <1> DEFINE open == Only(sched.deferred, Conns \ Done(route))
  <1>2. open \in Queues
    BY <1>1, AtDestinations, OnlyType DEF Scheds
  <1>3. IF open = Empty THEN Resume([sched EXCEPT !.deferred = Empty, !.relocate = FALSE])
        ELSE /\ \E c \in In(open) :
                   sched' = [sched EXCEPT !.todo = Only(open, {c}), !.relocate = TRUE,
                                          !.deferred = Only(open, Conns \ {c})]
             /\ UNCHANGED <<phase, left, batch>>
    BY DEF PickDeferred
  <1> HIDE DEF open
  <1>4. CASE open = Empty
    <2> DEFINE s == [sched EXCEPT !.deferred = Empty, !.relocate = FALSE]
    <2>1. s \in Scheds /\ SameStage(sched, s)
      BY <1>1, AtDestinations, EmptyType DEF SameStage, Scheds
    <2>2. Resume(s)
      BY <1>3, <1>4
    <2> HIDE DEF s
    <2> QED BY <1>1, <2>1, <2>2, AtDestinations, Relocates
  <1>5. CASE open # Empty
    <2>1. PICK c \in In(open) :
            sched' = [sched EXCEPT !.todo = Only(open, {c}), !.relocate = TRUE,
                                   !.deferred = Only(open, Conns \ {c})]
      BY <1>3, <1>5
    <2>2. Only(open, {c}) \in Queues /\ Only(open, Conns \ {c}) \in Queues
      BY <1>2, OnlyType
    <2>3. sched' \in Scheds /\ SameStage(sched, sched')
      BY <1>1, <2>1, <2>2, AtDestinations DEF SameStage, Scheds
    <2> QED BY <1>1, <1>3, <1>5, <2>3, AtDestinations, Keeps
  <1> QED BY <1>4, <1>5

\* With nothing unfinished among the active tasks the loop resumes without a
\* move.
LEMMA NothingToMoveStep == ASSUME DesignAssumption, IInv, NothingToMove PROVE IInv'
  <1> DEFINE s == IF sched.focus = NoCell THEN [sched EXCEPT !.relocate = FALSE]
                  ELSE Restored(sched, route)
  <1>1. Destinations /\ UNCHANGED <<route, pending>> /\ Resume(s)
    BY DEF NothingToMove
  <1>2. s \in Scheds /\ SameStage(sched, s)
    <2>1. CASE sched.focus = NoCell
      BY <1>1, <2>1, AtDestinations DEF SameStage, Scheds
    <2>2. CASE sched.focus # NoCell
      BY <1>1, <2>2, AtDestinations, RestoredType
    <2> QED BY <2>1, <2>2
  <1> HIDE DEF s
  <1> QED BY <1>1, <1>2, AtDestinations, Relocates

\* A focus that cannot move ends the routing.
LEMMA FocusStuckStep == ASSUME IInv, FocusStuck PROVE IInv'
  BY Stops DEF FocusStuck

\* A connection at a frozen cell is repaired in place.
LEMMA RepairFrozenStep ==
    ASSUME DesignAssumption, IInv, NEW c \in Conns, RepairFrozen(c) PROVE IInv'
  <1>1. Destinations
    BY DEF RepairFrozen
  <1>2. CASE \E cut \in Cuts(c) : /\ route' = Routed(c, {}, cut)
                                 /\ pending' = Merge(pending, Of(cut, "fanout"))
                                 /\ Resume([sched EXCEPT !.relocate = TRUE])
    <2> DEFINE s == [sched EXCEPT !.relocate = TRUE]
    <2>1. PICK cut \in Cuts(c) : /\ route' = Routed(c, {}, cut)
                                 /\ pending' = Merge(pending, Of(cut, "fanout"))
                                 /\ Resume(s)
      BY <1>2
    <2>2. route' \in Routes /\ pending' \in Queues
      BY <1>1, <2>1, AtDestinations, RoutedType, WithBranches
    <2>3. s \in Scheds /\ SameStage(sched, s)
      BY <1>1, AtDestinations DEF SameStage, Scheds
    <2> HIDE DEF s
    <2> QED BY <1>1, <2>1, <2>2, <2>3, Relocates
  <1>3. CASE \E m \in SourceMoves(c) :
               /\ route' = m.route
               /\ pending' = Merge(pending, Merge(m.moved, m.cut))
               /\ Resume([sched EXCEPT !.relocate = TRUE, !.parked = Merge(@, m.parked)])
    <2>1. PICK m \in SourceMoves(c) :
               /\ route' = m.route
               /\ pending' = Merge(pending, Merge(m.moved, m.cut))
               /\ Resume([sched EXCEPT !.relocate = TRUE, !.parked = Merge(@, m.parked)])
      BY <1>3
    <2> DEFINE s == [sched EXCEPT !.relocate = TRUE, !.parked = Merge(sched.parked, m.parked)]
    <2>2. m.route \in Routes /\ m.parked \in Queues /\ m.moved \in Queues /\ m.cut \in Queues
      BY <1>1, AtDestinations, SourceMoveType
    <2>3. Merge(sched.parked, m.parked) \in Queues /\ pending' \in Queues
      BY <1>1, <2>1, <2>2, AtDestinations, MergeType DEF Scheds
    <2>4. s \in Scheds /\ SameStage(sched, s)
      BY <1>1, <2>3, AtDestinations DEF SameStage, Scheds
    <2>5. Resume(s)
      BY <2>1
    <2> HIDE DEF s
    <2> QED BY <1>1, <2>1, <2>2, <2>3, <2>4, <2>5, Relocates
  <1> QED BY <1>2, <1>3 DEF RepairFrozen

\* A task is wired where its sink stands.
LEMMA WireSinkStep ==
    ASSUME DesignAssumption, IInv, NEW c \in Conns, WireSink(c) PROVE IInv'
  <1>1. Destinations
    BY DEF WireSink, MovesHere
  <1>2. PICK cut \in Cuts(c) :
          LET r == Routed(c, {}, cut)
              open == Only(Merge(Merge(sched.todo, pending), Of(cut, "fanout")), Conns \ Done(r))
          IN /\ route' = r
             /\ pending' = Empty
             /\ Resume([sched EXCEPT !.todo = open,
                            !.relocate = open # Empty \/ In(sched.deferred) # {}])
    BY DEF WireSink
  <1> DEFINE r == Routed(c, {}, cut)
             open == Only(Merge(Merge(sched.todo, pending), Of(cut, "fanout")), Conns \ Done(r))
             s == [sched EXCEPT !.todo = open, !.relocate = open # Empty \/ In(sched.deferred) # {}]
  <1>3. r \in Routes /\ open \in Queues
    BY <1>1, AtDestinations, RoutedType, MergeType, WithBranches, OnlyType DEF Scheds
  <1>4. route' = r /\ pending' = Empty /\ Resume(s)
    BY <1>2
  <1> HIDE DEF open, r
  <1>5. s \in Scheds /\ SameStage(sched, s)
    BY <1>1, <1>3, AtDestinations DEF SameStage, Scheds
  <1> HIDE DEF s
  <1> QED BY <1>1, <1>3, <1>4, <1>5, EmptyType, Relocates

\* Or its sink moves and becomes the focus.
LEMMA ShiftSinkStep ==
    ASSUME DesignAssumption, IInv, NEW c \in Conns, ShiftSink(c) PROVE IInv'
  <1>1. Destinations
    BY DEF ShiftSink, MovesHere
  <1> DEFINE near == Incident(To[c])
  <1>2. PICK m \in SinkMoves(c) :
          LET tasks == Merge(m.moved, Only(sched.todo, near))
          IN /\ route' = m.route
             /\ pending' = Empty
             /\ Resume([sched EXCEPT
                   !.deferred = Merge(Unfocused(sched, To[c]), Only(tasks, Conns \ near)),
                   !.todo = Merge(Only(tasks, near), Merge(pending, m.cut)),
                   !.focus = To[c], !.relocate = FALSE])
    BY DEF ShiftSink
  <1> DEFINE tasks == Merge(m.moved, Only(sched.todo, near))
             away == Merge(Unfocused(sched, To[c]), Only(tasks, Conns \ near))
             here == Merge(Only(tasks, near), Merge(pending, m.cut))
             s == [sched EXCEPT !.deferred = away, !.todo = here, !.focus = To[c], !.relocate = FALSE]
  <1> HIDE DEF near
  <1>3. m.route \in Routes /\ m.moved \in Queues /\ m.cut \in Queues
    BY <1>1, AtDestinations, SinkMoveType
  <1>4. sched.todo \in Queues /\ sched.deferred \in Queues /\ pending \in Queues
    BY <1>1, AtDestinations DEF Scheds
  <1>5. tasks \in Queues
    BY <1>3, <1>4, OnlyType, MergeType
  <1>6. Unfocused(sched, To[c]) \in Queues
    BY <1>4, OnlyType, MergeType DEF Unfocused
  <1>7. route' = m.route /\ pending' = Empty /\ Resume(s)
    BY <1>2
  <1>8. away \in Queues /\ here \in Queues
    <2> HIDE DEF tasks
    <2> QED BY <1>3, <1>4, <1>5, <1>6, OnlyType, MergeType
  <1>9. To[c] \in Cells
    BY DEF DesignAssumption
  <1> HIDE DEF away, here
  <1>10. s \in Scheds /\ SameStage(sched, s)
    BY <1>1, <1>8, <1>9, AtDestinations DEF SameStage, Scheds
  <1> HIDE DEF s
  <1> QED BY <1>1, <1>3, <1>7, <1>10, EmptyType, Relocates

---------------------------------------------------------------------------
(* The end of a pass *)

\* The end of a pass files, hands over and audits.
LEMMA EndPassStep == ASSUME DesignAssumption, IInv, EndPass PROVE IInv'
  <1>1. /\ phase = "batch" /\ UNCHANGED route
        /\ pending' = Empty /\ phase' = "head" /\ left' = {} /\ batch' = NoBatch
    BY DEF EndPass
  <1>2. sched \in Scheds /\ route \in Routes /\ pending \in Queues /\ batch \in Batches
    BY Typed DEF IInv
  <1> DEFINE s == Absorbed(sched)
  <1>3. Fine(s) /\ ~(s.sourcesDone /\ s.stage = "basic")
    BY <1>1, <1>2, AbsorbedFine DEF IInv
  <1>4. PICK expired \in BOOLEAN, again \in BOOLEAN :
          IF FocusUnfinished(s)
          THEN sched' = [s EXCEPT !.relocate = again,
                           !.todo = Rebuilt(route, Unmended \cap Incident(s.focus))]
          ELSE sched' \in PassEnds(s, expired, again)
    BY DEF EndPass
  <1> HIDE DEF s
  <1>5. Fine(sched')
    <2>1. CASE FocusUnfinished(s)
      <3>1. sched' = [s EXCEPT !.relocate = again,
                        !.todo = Rebuilt(route, Unmended \cap Incident(s.focus))]
        BY <1>4, <2>1
      <3>2. Rebuilt(route, Unmended \cap Incident(s.focus)) \in Queues
        BY RebuiltType
      <3> QED BY <1>3, <3>1, <3>2 DEF Fine, Once, Closed, Scheds
    <2>2. CASE ~FocusUnfinished(s)
      <3>1. sched' \in PassEnds(s, expired, again)
        BY <1>4, <2>2
      <3> QED BY <1>2, <1>3, <3>1, PassEndsFine
    <2> QED BY <2>1, <2>2
  <1>6. TypeOK'
    BY <1>1, <1>2, <1>5, EmptyType, NoBatchType, TypedAfter DEF Fine
  <1> QED BY <1>1, <1>5, <1>6 DEF IInv, Fine

\* The loop ends without active work.
LEMMA FinishStep == ASSUME IInv, Finish PROVE IInv'
  BY Stops DEF Finish

---------------------------------------------------------------------------
(* The theorems *)

\* Every step of the loop keeps the invariant.
LEMMA StepInv == DesignAssumption /\ IInv /\ [Next]_vars => IInv'
  <1> SUFFICES ASSUME DesignAssumption, IInv, [Next]_vars PROVE IInv'
    OBVIOUS
  <1>1. CASE StartPass \/ EndPass \/ Finish \/ Abandon
    BY <1>1, StartPassStep, EndPassStep, FinishStep, AbandonStep
  <1>2. CASE \E c \in Conns : CompleteTask(c) \/ ParkTask(c) \/ FailTask(c) \/ RecoverTask(c)
    BY <1>2, CompleteTaskStep, ParkTaskStep, FailTaskStep, RecoverTaskStep
  <1>3. CASE EnterSources \/ LeaveSources
    BY <1>3, EnterSourcesStep, LeaveSourcesStep
  <1>4. CASE \E c \in Conns : PassSource(c) \/ WireSource(c) \/ ShiftSource(c)
    BY <1>4, PassSourceStep, WireSourceStep, ShiftSourceStep
  <1>5. CASE PickDeferred \/ NothingToMove \/ FocusStuck
    BY <1>5, PickDeferredStep, NothingToMoveStep, FocusStuckStep
  <1>6. CASE \E c \in Conns : RepairFrozen(c) \/ WireSink(c) \/ ShiftSink(c)
    BY <1>6, RepairFrozenStep, WireSinkStep, ShiftSinkStep
  <1>7. CASE UNCHANGED vars
    BY <1>7, Typed, TypedAfter DEF vars, IInv, Once, Closed, In
  <1> QED BY <1>1, <1>2, <1>3, <1>4, <1>5, <1>6, <1>7 DEF Next

\* For every design the invariant holds: Moving sources is entered only from an
\* open Basic stage, and closing it leaves Basic without work.
THEOREM Inductive == Spec => []IInv
  BY DesignAssumption, InitInv, StepInv, PTL DEF Spec

\* The scheduler keeps its type through every hand-over.
THEOREM TypeCorrect == Spec => []TypeOK
  <1>1. IInv => TypeOK
    BY DEF IInv
  <1> QED BY Inductive, <1>1, PTL

\* "Moving sources restarted after reaching zero trunks" is never asserted, and
\* no Generic recovery is left due when the stage is over.
THEOREM SourcesRunOnce == Spec => []SourcesOnce
  <1>1. IInv => SourcesOnce
    BY DEF IInv, Once, SourcesOnce
  <1> QED BY Inductive, <1>1, PTL
=============================================================================
