-------------------------- MODULE RouteStarProofs --------------------------
(***************************************************************************)
(* Proofs about RouteStages for the designs in which its queues lose       *)
(* nothing: no cell both drives and receives, a cell drives from one port  *)
(* and receives on one pin.  (The other designs reach the losses of the    *)
(* README's findings.)  No unfinished connection leaves the queues, every  *)
(* port has a trunk when Fanouts begins, and a normal return is complete.  *)
(***************************************************************************)
EXTENDS RouteStagesProofs

Star ==
    /\ \A c, d \in Conns : Driver(c) # To[d]
    /\ \A c, d \in Conns : Driver(c) = Driver(d) => From[c] = From[d]
    /\ \A c, d \in Conns : To[c] = To[d] => c = d

---------------------------------------------------------------------------
(* The invariant *)

Open(r)     == Conns \ Done(r)
OnePer(S)   == \A c, d \in S : From[c] = From[d] => c = d
Trunk(r, c) == \E d \in Conns : From[d] = From[c] /\ r[d] \in {"done", "gap"}

\* Every port has a trunk, complete or cut, or one of the tasks S for it.
Rooted(r, S) == \A c \in Conns : Trunk(r, c) \/ \E d \in S : From[d] = From[c]

Known(s)   == In(s.todo) \cup In(s.parked) \cup In(s.deferred)
AtFocus(s) == {c \in Conns : To[c] = s.focus}

\* A focus and the pool exist in Moving destinations only.
Placed(s) == /\ s.focus # NoCell => s.stage = "destinations" /\ AtFocus(s) # {}
             /\ s.stage # "destinations" => In(s.deferred) = {}

\* The active tasks are those of the focus, or it has none among them: moving
\* the focused cell again forgets no other task.
Split(s) == s.focus # NoCell => In(s.todo) \subseteq AtFocus(s) \/ In(s.todo) \cap AtFocus(s) = {}

\* Tasks of trunks: in the queue, or waiting for a relocation's visit.
Active == In(sched.todo) \cup left

Running ==
    /\ Open(route) \subseteq Active \cup Known(sched) \cup In(pending)
    /\ phase = "head" => pending = Empty /\ left = {} /\ Split(sched)
    /\ phase = "batch" => left = In(sched.todo)
    /\ phase = "relocating" => \A c \in left : Driver(c) \notin batch.moved
    /\ batch.failed => ~Moving(sched) /\ phase = "batch"
    /\ Placed(sched)
    /\ sched.stage \in {"basic", "sources"} =>
          OnePer(Active) /\ Rooted(route, Active) /\ \A c \in Conns : pending[c] # "generic"

SInv ==
    /\ IInv
    /\ sched.outcome = "running" => Running
    /\ TrunkBarrier
    /\ ReturnedComplete

---------------------------------------------------------------------------
(* Queues as sets *)

\* What the operators on queues hold.
LEMMA InOf == ASSUME NEW S, NEW role, role # "no" PROVE In(Of(S, role)) = S \cap Conns
  BY DEF In, Of

\* Part of a queue holds that part,
LEMMA InOnly == ASSUME NEW q, NEW S PROVE In(Only(q, S)) = In(q) \cap S
  BY DEF In, Only

\* two queues merged hold both,
LEMMA InMerge ==
    ASSUME NEW q1 \in Queues, NEW q2 \in Queues
    PROVE In(Merge(q1, q2)) = In(q1) \cup In(q2)
  BY DEF In, Merge, Queues, Roles

\* and a rebuilt one the connections asked for.
LEMMA InRebuilt == ASSUME NEW r, NEW S PROVE In(Rebuilt(r, S)) = S \cap Conns
  BY DEF In, Rebuilt

\* A queue that holds nothing is the empty one.
LEMMA EmptyOnly == ASSUME NEW q \in Queues, In(q) = {} PROVE q = Empty
  BY DEF In, Queues, Empty

\* A queue of branches has no trunk task.
LEMMA NoGeneric ==
    ASSUME NEW q1 \in Queues, NEW q2 \in Queues,
           \A c \in Conns : q1[c] # "generic" /\ q2[c] # "generic"
    PROVE \A c \in Conns : Merge(q1, q2)[c] # "generic"
  BY DEF Merge

---------------------------------------------------------------------------
(* Routes *)

\* A task that completes opens only what it cut or tore.
LEMMA RoutedOpen ==
    ASSUME route \in Routes, NEW c \in Conns, NEW torn, NEW cut
    PROVE Open(Routed(c, torn, cut)) \subseteq (Open(route) \ {c}) \cup torn \cup cut
  BY DEF Open, Done, Routed

\* No port loses its trunk: what is torn belongs to the port of c.
LEMMA RoutedTrunk ==
    ASSUME route \in Routes, NEW c \in Conns, NEW torn, NEW cut, torn \subseteq Siblings(c),
           NEW x \in Conns, Trunk(route, x) \/ From[x] = From[c]
    PROVE Trunk(Routed(c, torn, cut), x)
  <1>1. Routed(c, torn, cut)[c] = "done"
    BY DEF Routed
  <1>2. CASE From[x] = From[c]
    BY <1>1, <1>2 DEF Trunk
  <1>3. CASE From[x] # From[c]
    <2>1. PICK d \in Conns : From[d] = From[x] /\ route[d] \in {"done", "gap"}
      BY <1>3 DEF Trunk
    <2>2. d # c /\ d \notin torn
      BY <1>3, <2>1 DEF Siblings
    <2>3. Routed(c, torn, cut)[d] \in {"done", "gap"}
      BY <2>1, <2>2 DEF Routed
    <2> QED BY <2>1, <2>3 DEF Trunk
  <1> QED BY <1>2, <1>3

\* The trunk barrier, as the rooting of every port.
LEMMA BarrierIsRooted ==
    TrunkBarrier <=> /\ sched.outcome # "missing trunk"
                     /\ sched.stage \in {"fanouts", "seeds"} /\ ~batch.failed => Rooted(route, {})
  <1> SUFFICES ASSUME NEW c \in Conns
               PROVE (\E d \in Siblings(c) \cup {c} : route[d] \in {"done", "gap"}) <=> Trunk(route, c)
    BY DEF TrunkBarrier, Rooted
  <1> QED BY DEF Siblings, Trunk

\* In a star a source has no inputs and one port.
LEMMA StarSource ==
    ASSUME Star, route \in Routes, NEW c \in Conns, NEW m \in SourceMoves(c)
    PROVE \E torn, cut : /\ torn \subseteq Siblings(c) /\ cut \subseteq Conns
                         /\ m.route = Routed(c, torn, cut)
                         /\ In(m.parked) = torn /\ m.moved = Empty
                         /\ m.cut = Of(cut, "fanout")
  <1>1. Inputs(c) = {}
    BY DEF Star, Inputs
  <1>2. Outputs(c) \subseteq Siblings(c)
    BY DEF Star, Outputs, Siblings, Bound
  <1>3. PICK cut : m = MovedSource(c, {}, {}, cut) /\ cut \subseteq Conns
    BY <1>1 DEF SourceMoves, Cuttable
  <1>4. m.route = Routed(c, Outputs(c), cut)
    <2>1. m.route = [d \in Conns |-> IF d \in Inputs(c) \ {} THEN "done"
                                     ELSE Routed(c, Outputs(c) \cup {} \cup ({} \cap Bound(route)), cut)[d]]
      BY <1>3 DEF MovedSource
    <2> QED BY <1>1, <2>1 DEF Routed
  <1>5. m.parked = Of(Outputs(c) \cap Siblings(c), "fanout") /\ m.cut = Of(cut, "fanout")
    BY <1>3 DEF MovedSource
  <1>6. In(m.parked) = Outputs(c)
    BY <1>2, <1>5, InOf DEF Siblings
  <1>7. m.moved = Empty
    <2>1. \E r : m.moved = Merge(Of(Outputs(c) \ Siblings(c), "generic"), Rebuilt(r, {}))
      BY <1>3 DEF MovedSource
    <2> QED BY <1>2, <2>1 DEF Merge, Of, Rebuilt, Empty
  <1> QED BY <1>2, <1>3, <1>4, <1>5, <1>6, <1>7

\* ... and nothing else ends at a sink.
LEMMA StarSink ==
    ASSUME Star, route \in Routes, NEW c \in Conns
    PROVE /\ Incident(To[c]) = {c}
          /\ \A m \in SinkMoves(c) :
                \E cut : /\ cut \subseteq Conns /\ m.route = Routed(c, {}, cut)
                         /\ In(m.moved) = {c} /\ m.cut = Of(cut, "fanout")
  <1>1. Incident(To[c]) = {c}
    BY DEF Star, Incident
  <1>2. AtSink(c) = {}
    BY <1>1 DEF AtSink
  <1> SUFFICES ASSUME NEW m \in SinkMoves(c)
               PROVE \E cut : /\ cut \subseteq Conns /\ m.route = Routed(c, {}, cut)
                              /\ In(m.moved) = {c} /\ m.cut = Of(cut, "fanout")
    BY <1>1
  <1>3. PICK cut : m = MovedSink(c, cut) /\ cut \subseteq Conns
    BY DEF SinkMoves, Cuttable
  <1>4. m.route = Routed(c, {}, cut) /\ m.cut = Of(cut, "fanout")
        /\ m.moved = Rebuilt(m.route, {} \cup {c})
    BY <1>2, <1>3 DEF MovedSink
  <1>5. In(m.moved) = {c}
    BY <1>4, InRebuilt
  <1> QED BY <1>3, <1>4, <1>5

---------------------------------------------------------------------------
(* The beginning of a batch, on routes r and with pending tasks p *)

Startable(s, r, p) ==
    /\ s \in Scheds /\ r \in Routes /\ p \in Queues
    /\ s.outcome = "running"
    /\ Open(r) \subseteq Known(s) \cup In(p)
    /\ Placed(s)
    /\ s.stage \in {"basic", "sources"} =>
          OnePer(In(s.todo)) /\ Rooted(r, In(s.todo)) /\ \A c \in Conns : p[c] # "generic"
    /\ s.stage \in {"fanouts", "seeds"} => Rooted(r, {})

Kept ==
    /\ sched.outcome = "running" => Running
    /\ TrunkBarrier
    /\ ReturnedComplete

\* A batch begins with every active task to visit.
LEMMA BatchKeeps ==
    ASSUME DesignAssumption, NEW s, Startable(s, route', pending'), BeginBatch(s)
    PROVE Kept'
  <1>0. s \in Scheds /\ s.outcome = "running"
    BY DEF Startable
  <1>1. PICK G \in Leaders(s) :
          LET n == Normalized(s, G)
          IN /\ sched' = IF n.stage = "fanouts" /\ n.passes < FanoutPasses
                         THEN [n EXCEPT !.passes = @ + 1] ELSE n
             /\ left' = In(n.todo) /\ phase' = "batch" /\ batch' = NoBatch
    BY DEF BeginBatch
  <1>2. sched' \in Scheds /\ SameStage(s, sched')
    BY <1>0, BatchBegins
  <1> DEFINE n == Normalized(s, G)
             branches == Of(In(s.todo) \ G, "fanout")
  <1>3. G \subseteq In(s.todo) /\ In(s.todo) \subseteq Conns /\ "fanout" \in Roles /\ "generic" \in Roles
    BY InType DEF Leaders, Roles
  <1>4. /\ branches \in Queues /\ Of(G, "generic") \in Queues /\ s.parked \in Queues
        /\ In(branches) = In(s.todo) \ G /\ In(Of(G, "generic")) = G
    <2>1. branches \in Queues /\ Of(G, "generic") \in Queues
      BY <1>3, OfType
    <2>2. In(branches) = (In(s.todo) \ G) \cap Conns /\ In(Of(G, "generic")) = G \cap Conns
      BY InOf
    <2> QED BY <1>0, <1>3, <2>1, <2>2 DEF Scheds
  <1>5. /\ n \in Scheds /\ n.focus = s.focus /\ n.deferred = s.deferred
        /\ In(s.todo) \cup In(s.parked) = In(n.todo) \cup In(n.parked)
        /\ s.stage \in {"basic", "sources"} => In(n.todo) = G
    <2> HIDE DEF branches
    <2>1. In(Merge(Of(G, "generic"), branches)) = In(s.todo)
          /\ In(Merge(s.parked, branches)) = In(s.parked) \cup (In(s.todo) \ G)
          /\ Merge(Of(G, "generic"), branches) \in Queues /\ Merge(s.parked, branches) \in Queues
      BY <1>3, <1>4, InMerge, MergeType
    <2>2. CASE s.stage = "fanouts"
      BY <1>0, <2>2 DEF Normalized
    <2>3. CASE s.stage = "destinations"
      <3>1. n = [s EXCEPT !.todo = Merge(Of(G, "generic"), branches)]
        BY <2>3 DEF Normalized, branches
      <3> HIDE DEF n
      <3> QED BY <1>0, <2>1, <2>3, <3>1 DEF Scheds
    <2>4. CASE s.stage \notin {"fanouts", "destinations"}
      <3>1. n = [s EXCEPT !.todo = Of(G, "generic"), !.parked = Merge(@, branches)]
        BY <2>4 DEF Normalized, branches
      <3> HIDE DEF n
      <3> QED BY <1>0, <1>3, <1>4, <2>1, <2>4, <3>1 DEF Scheds
    <2> QED BY <2>2, <2>3, <2>4
  <1>6. /\ sched'.todo = n.todo /\ sched'.parked = n.parked /\ sched'.deferred = n.deferred
        /\ sched'.focus = n.focus
    <2>1. sched' = n \/ sched' = [n EXCEPT !.passes = @ + 1]
      BY <1>1
    <2> HIDE DEF n
    <2> QED BY <1>5, <2>1 DEF Scheds
  <1>7. s.stage \in {"basic", "sources"} => OnePer(G) /\ Rooted(route', G)
    <2> SUFFICES ASSUME s.stage \in {"basic", "sources"} PROVE OnePer(G) /\ Rooted(route', G)
      OBVIOUS
    <2>1. OnePer(G)
      BY <1>3 DEF Startable, OnePer
    <2>2. ASSUME NEW c \in Conns PROVE Trunk(route', c) \/ \E d \in G : From[d] = From[c]
      <3>1. CASE Trunk(route', c)
        BY <3>1
      <3>2. CASE ~Trunk(route', c)
        <4>1. PICK d \in In(s.todo) : From[d] = From[c]
          BY <3>2 DEF Startable, Rooted
        <4>2. ~HasExit(route', d)
          BY <1>3, <3>2, <4>1 DEF HasExit, Trunk, Done
        <4>3. \E e \in G : G \cap (Siblings(d) \cup {d}) = {e}
          BY <4>1, <4>2 DEF Leaders
        <4> QED BY <4>1, <4>3 DEF Siblings
      <3> QED BY <3>1, <3>2
    <2> QED BY <2>1, <2>2 DEF Rooted
  <1> HIDE DEF n, branches
  <1>8. left' = In(sched'.todo) /\ phase' = "batch" /\ batch' = NoBatch
    BY <1>1, <1>6 DEF n
  <1>9. Known(sched') = Known(s) /\ Placed(sched') /\ sched'.stage = s.stage
        /\ sched'.outcome = "running"
    <2>1. AtFocus(sched') = AtFocus(s)
      BY <1>6, <1>5 DEF AtFocus
    <2> QED BY <1>0, <1>2, <1>6, <1>5, <2>1 DEF Known, Placed, Startable, SameStage
  <1>10. Running'
    <2>1. Active' = In(sched'.todo)
      BY <1>8 DEF Active
    <2>2. In(sched'.todo) = In(n.todo)
      BY <1>6
    <2>3. ~batch'.failed
      BY <1>8 DEF NoBatch
    <2>4. Open(route)' = Open(route') /\ Known(sched)' = Known(sched') /\ Placed(sched)' = Placed(sched')
          /\ Rooted(route, Active)' = Rooted(route', Active')
      OBVIOUS
    <2> QED BY <1>5, <1>7, <1>8, <1>9, <2>1, <2>2, <2>3, <2>4 DEF Running, Startable
  <1>11. TrunkBarrier'
    <2>1. sched'.stage \in {"fanouts", "seeds"} => Rooted(route', {})
      BY <1>9 DEF Startable
    <2>2. sched'.outcome # "missing trunk"
      BY <1>9
    <2> QED BY <2>1, <2>2 DEF TrunkBarrier, Rooted, Trunk, Siblings
  <1> QED BY <1>9, <1>10, <1>11 DEF Kept, ReturnedComplete

\* A relocation may be repeated before a batch when the focus keeps its tasks apart.
LEMMA ResumeKeeps ==
    ASSUME DesignAssumption, NEW s, Startable(s, route', pending'), Resume(s),
           s.relocate => Split(s)
    PROVE Kept'
  <1>1. CASE s.relocate /\ pending' = Empty /\ HasWork(s)
    <2>1. sched' = s /\ phase' = "head" /\ left' = {} /\ batch' = NoBatch
      BY <1>1 DEF Resume
    <2>2. Active' = In(s.todo) /\ ~batch'.failed
      BY <2>1 DEF Active, NoBatch
    <2>3. Running'
      BY <1>1, <2>1, <2>2 DEF Running, Startable, Known, Placed, AtFocus, Split, Open, Done,
                             Rooted, Trunk, OnePer
    <2>4. TrunkBarrier'
      BY <2>1 DEF Startable, TrunkBarrier, Rooted, Trunk, Siblings
    <2> QED BY <2>1, <2>3, <2>4 DEF Kept, ReturnedComplete, Startable
  <1>2. CASE ~(s.relocate /\ pending' = Empty /\ HasWork(s))
    <2> DEFINE t == [s EXCEPT !.relocate = FALSE]
    <2>1. BeginBatch(t)
      BY <1>2 DEF Resume
    <2>2. Startable(t, route', pending')
      <3>1. /\ t \in Scheds /\ t.todo = s.todo /\ t.parked = s.parked /\ t.deferred = s.deferred
            /\ t.stage = s.stage /\ t.focus = s.focus /\ t.outcome = s.outcome
        BY DEF Startable, Scheds
      <3> HIDE DEF t
      <3> QED BY <3>1 DEF Startable, Known, Placed, AtFocus
    <2> HIDE DEF t
    <2> QED BY <2>1, <2>2, BatchKeeps
  <1> QED BY <1>1, <1>2

---------------------------------------------------------------------------
(* The steps within a batch *)

\* What a completed task does to the ports: those of A keep a trunk or a task of B.
LEMMA RootedAfter ==
    ASSUME route \in Routes, NEW c \in Conns, NEW torn, NEW cut, torn \subseteq Siblings(c),
           NEW A \in SUBSET Conns, NEW B, A \subseteq B \cup {c}, Rooted(route, A)
    PROVE Rooted(Routed(c, torn, cut), B)
  <1> SUFFICES ASSUME NEW x \in Conns
               PROVE Trunk(Routed(c, torn, cut), x) \/ \E d \in B : From[d] = From[x]
    BY DEF Rooted
  <1>1. CASE Trunk(route, x) \/ From[x] = From[c]
    BY <1>1, RoutedTrunk
  <1>2. CASE ~(Trunk(route, x) \/ From[x] = From[c])
    <2>1. PICK d \in A : From[d] = From[x]
      BY <1>2 DEF Rooted
    <2> QED BY <1>2, <2>1
  <1> QED BY <1>1, <1>2

\* Taking a task from the active queue takes that task only.
LEMMA Dequeued ==
    ASSUME sched \in Scheds, NEW c \in Conns, NEW parked \in Queues,
           sched' = [sched EXCEPT !.todo[c] = "no", !.parked = parked]
    PROVE /\ In(sched'.todo) = In(sched.todo) \ {c} /\ sched'.parked = parked
          /\ sched'.deferred = sched.deferred /\ sched'.focus = sched.focus
          /\ sched'.stage = sched.stage /\ sched'.outcome = sched.outcome
  <1>1. /\ sched'.todo = [sched.todo EXCEPT ![c] = "no"] /\ sched'.parked = parked
        /\ sched'.deferred = sched.deferred /\ sched'.focus = sched.focus
        /\ sched'.stage = sched.stage /\ sched'.outcome = sched.outcome
    BY DEF Scheds
  <1>2. sched.todo \in Queues
    BY DEF Scheds
  <1>3. In([sched.todo EXCEPT ![c] = "no"]) = In(sched.todo) \ {c}
    BY <1>2 DEF In, Queues
  <1> QED BY <1>1, <1>3

\* A task that completes leaves the queue, what it tears and cuts enters others.
LEMMA TaskKeeps ==
    ASSUME SInv, sched.outcome = "running", phase = "batch", phase' = "batch",
           NEW c \in Conns, NEW torn, NEW cut, torn \subseteq Siblings(c),
           route' = Routed(c, torn, cut), left' = left \ {c},
           batch'.failed = batch.failed,
           In(sched'.todo) = In(sched.todo) \ {c},
           sched'.deferred = sched.deferred, sched'.focus = sched.focus,
           sched'.stage = sched.stage, sched'.outcome = sched.outcome,
           In(sched.parked) \subseteq In(sched'.parked),
           In(pending) \subseteq In(pending'),
           torn \cup cut \subseteq In(sched'.parked) \cup In(pending'),
           sched.stage \in {"basic", "sources"} => \A d \in Conns : pending'[d] # "generic"
    PROVE Kept'
  <1>0. Running /\ route \in Routes /\ TrunkBarrier
    BY Typed DEF SInv, IInv
  <1>1. Active = In(sched.todo) /\ Active' = Active \ {c} /\ Active \in SUBSET Conns
    BY <1>0, InType DEF Active, Running
  <1>2. Open(route') \subseteq (Open(route) \ {c}) \cup torn \cup cut
    BY <1>0, RoutedOpen
  <1>3. Rooted(route, Active) => Rooted(route', Active')
    BY <1>0, <1>1, RootedAfter
  <1>4. Rooted(route, {}) => Rooted(route', {})
    BY <1>0, RootedAfter
  <1>5. Running'
    <2>1. Open(route') \subseteq Active' \cup Known(sched') \cup In(pending')
      BY <1>0, <1>1, <1>2 DEF Running, Known
    <2>2. Placed(sched') /\ (Moving(sched') <=> Moving(sched))
      BY <1>0 DEF Running, Placed, AtFocus, Moving
    <2>3. OnePer(Active) => OnePer(Active')
      BY <1>1 DEF OnePer
    <2>4. left' = In(sched'.todo)
      BY <1>0 DEF Running
    <2>5. Open(route)' = Open(route') /\ Known(sched)' = Known(sched')
          /\ Placed(sched)' = Placed(sched') /\ Moving(sched)' = Moving(sched')
          /\ Rooted(route, Active)' = Rooted(route', Active') /\ OnePer(Active)' = OnePer(Active')
      OBVIOUS
    <2> QED BY <1>0, <1>3, <2>1, <2>2, <2>3, <2>4, <2>5 DEF Running
  <1>6. TrunkBarrier'
    <2>1. sched'.stage \in {"fanouts", "seeds"} /\ ~batch'.failed => Rooted(route', {})
      BY <1>0, <1>4, BarrierIsRooted
    <2> QED BY <1>0, <2>1 DEF TrunkBarrier, Rooted, Trunk, Siblings
  <1> QED BY <1>5, <1>6 DEF Kept, ReturnedComplete

\* The queues of a typed state are queues.
LEMMA Queued ==
    ASSUME SInv
    PROVE /\ sched \in Scheds /\ route \in Routes /\ pending \in Queues
          /\ sched.todo \in Queues /\ sched.parked \in Queues /\ sched.deferred \in Queues
          /\ left \subseteq Conns /\ batch \in Batches
  <1>1. sched \in Scheds /\ route \in Routes /\ pending \in Queues
        /\ left \subseteq Conns /\ batch \in Batches
    BY Typed DEF SInv, IInv
  <1> QED BY <1>1 DEF Scheds

\* What a task adds to the pending queue.
LEMMA PendingCut ==
    ASSUME pending \in Queues, NEW S \in SUBSET Conns
    PROVE /\ Of(S, "fanout") \in Queues
          /\ In(Of(S, "fanout")) = S
          /\ In(Merge(pending, Of(S, "fanout"))) = In(pending) \cup S
          /\ (\A d \in Conns : pending[d] # "generic")
                => \A d \in Conns : Merge(pending, Of(S, "fanout"))[d] # "generic"
  <1>1. Of(S, "fanout") \in Queues
    BY OfType DEF Roles
  <1>2. In(Of(S, "fanout")) = S
    BY InOf
  <1>3. \A d \in Conns : Of(S, "fanout")[d] # "generic"
    BY DEF Of
  <1> QED BY <1>1, <1>2, <1>3, InMerge, NoGeneric

\* A task that completes queues every route it cut or tore.
LEMMA CompleteTaskKeeps ==
    ASSUME SInv, NEW c \in Conns, CompleteTask(c) PROVE Kept'
  <1>1. PICK torn \in Resets(c), cut \in Cuts(c) :
          route' = Routed(c, torn, cut) /\ pending' = Merge(pending, Of(torn \cup cut, "fanout"))
    BY DEF CompleteTask
  <1>2. torn \subseteq Siblings(c) /\ torn \cup cut \in SUBSET Conns
    BY <1>1 DEF Resets, Cuts, Cuttable, Siblings
  <1>3. /\ sched.outcome = "running" /\ phase = "batch" /\ phase' = "batch"
        /\ left' = left \ {c} /\ batch'.failed = batch.failed
        /\ sched' = [sched EXCEPT !.todo[c] = "no"]
    BY Queued DEF CompleteTask, Ready, Visited, Batches
  <1>4. sched' = [sched EXCEPT !.todo[c] = "no", !.parked = sched.parked]
    BY <1>3, Queued DEF Scheds
  <1>5. /\ In(sched'.todo) = In(sched.todo) \ {c} /\ sched'.parked = sched.parked
        /\ sched'.deferred = sched.deferred /\ sched'.focus = sched.focus
        /\ sched'.stage = sched.stage /\ sched'.outcome = sched.outcome
    BY <1>4, Queued, Dequeued
  <1>6. /\ In(pending') = In(pending) \cup torn \cup cut
        /\ sched.stage \in {"basic", "sources"} => \A d \in Conns : pending'[d] # "generic"
    BY <1>1, <1>2, <1>3, Queued, PendingCut DEF SInv, Running
  <1> QED BY <1>1, <1>2, <1>3, <1>5, <1>6, TaskKeeps

\* So does one that moves its cell, which parks the branches of its port.
LEMMA RecoverTaskKeeps ==
    ASSUME DesignAssumption, Star, SInv, NEW c \in Conns, RecoverTask(c) PROVE Kept'
  <1>1. /\ sched.outcome = "running" /\ phase = "batch" /\ phase' = "batch"
        /\ left' = left \ {c} /\ batch'.failed = batch.failed
    BY Queued DEF RecoverTask, Ready, Visited, Batches
  <1>2. CASE \E m \in SourceMoves(c) :
               /\ route' = m.route
               /\ pending' = Merge(pending, Merge(m.moved, m.cut))
               /\ sched' = [sched EXCEPT !.todo[c] = "no", !.parked = Merge(@, m.parked)]
    <2>1. PICK m \in SourceMoves(c) :
               /\ route' = m.route
               /\ pending' = Merge(pending, Merge(m.moved, m.cut))
               /\ sched' = [sched EXCEPT !.todo[c] = "no", !.parked = Merge(@, m.parked)]
      BY <1>2
    <2>2. PICK torn, cut : /\ torn \subseteq Siblings(c) /\ cut \subseteq Conns
                           /\ m.route = Routed(c, torn, cut)
                           /\ In(m.parked) = torn /\ m.moved = Empty
                           /\ m.cut = Of(cut, "fanout")
      BY Queued, StarSource
    <2>3. m.parked \in Queues
      BY Queued, SourceMoveType
    <2>4. /\ Merge(sched.parked, m.parked) \in Queues
          /\ In(Merge(sched.parked, m.parked)) = In(sched.parked) \cup torn
      BY <2>2, <2>3, Queued, InMerge, MergeType
    <2>5. sched' = [sched EXCEPT !.todo[c] = "no", !.parked = Merge(sched.parked, m.parked)]
      BY <2>1, Queued DEF Scheds
    <2>6. /\ In(sched'.todo) = In(sched.todo) \ {c}
          /\ sched'.parked = Merge(sched.parked, m.parked)
          /\ sched'.deferred = sched.deferred /\ sched'.focus = sched.focus
          /\ sched'.stage = sched.stage /\ sched'.outcome = sched.outcome
      BY <2>4, <2>5, Queued, Dequeued
    <2>7. Merge(m.moved, m.cut) = Of(cut, "fanout")
      BY <2>2 DEF Merge, Empty, Of
    <2>8. /\ In(pending') = In(pending) \cup cut
          /\ sched.stage \in {"basic", "sources"} => \A d \in Conns : pending'[d] # "generic"
      BY <1>1, <2>1, <2>2, <2>7, Queued, PendingCut DEF SInv, Running
    <2> QED BY <1>1, <2>1, <2>2, <2>4, <2>6, <2>8, TaskKeeps
  <1>3. CASE /\ sched.focus = To[c]
             /\ \E m \in SinkMoves(c) :
                   /\ route' = m.route
                   /\ pending' = Merge(pending, Merge(m.moved, m.cut))
                   /\ sched' = [sched EXCEPT !.todo[c] = "no"]
    <2>1. PICK m \in SinkMoves(c) :
               /\ route' = m.route
               /\ pending' = Merge(pending, Merge(m.moved, m.cut))
               /\ sched' = [sched EXCEPT !.todo[c] = "no"]
      BY <1>3
    <2>2. PICK cut : /\ cut \subseteq Conns /\ m.route = Routed(c, {}, cut)
                     /\ In(m.moved) = {c} /\ m.cut = Of(cut, "fanout")
      BY Queued, StarSink
    <2>3. m.moved \in Queues /\ m.cut \in Queues
      BY Queued, SinkMoveType
    <2>4. In(m.cut) = cut
      BY <2>2, Queued, PendingCut
    <2>5. In(pending') = In(pending) \cup {c} \cup cut
      <3>1. Merge(m.moved, m.cut) \in Queues /\ In(Merge(m.moved, m.cut)) = {c} \cup cut
        BY <2>2, <2>3, <2>4, InMerge, MergeType
      <3> QED BY <2>1, <3>1, Queued, InMerge
    <2>6. sched' = [sched EXCEPT !.todo[c] = "no", !.parked = sched.parked]
      BY <2>1, Queued DEF Scheds
    <2>7. /\ In(sched'.todo) = In(sched.todo) \ {c} /\ sched'.parked = sched.parked
          /\ sched'.deferred = sched.deferred /\ sched'.focus = sched.focus
          /\ sched'.stage = sched.stage /\ sched'.outcome = sched.outcome
      BY <2>6, Queued, Dequeued
    <2>8. sched.stage = "destinations"
      <3>1. To[c] \in Cells /\ NoCell \notin Cells
        BY DEF DesignAssumption
      <3> QED BY <1>1, <1>3, <3>1 DEF SInv, Running, Placed
    <2> QED BY <1>1, <2>1, <2>2, <2>5, <2>7, <2>8, TaskKeeps
  <1> QED BY <1>2, <1>3 DEF RecoverTask

\* A branch that waits for a trunk is parked.
LEMMA ParkTaskKeeps ==
    ASSUME SInv, NEW c \in Conns, ParkTask(c) PROVE Kept'
  <1>1. /\ sched.outcome = "running" /\ phase = "batch" /\ phase' = phase
        /\ left' = left \ {c} /\ batch' = batch /\ route' = route /\ pending' = pending
        /\ sched.stage = "fanouts" /\ Running /\ TrunkBarrier
    BY DEF ParkTask, Ready, Waits, SInv
  <1> DEFINE parked == [sched.parked EXCEPT ![c] = "fanout"]
  <1>2. parked \in Queues /\ In(parked) = In(sched.parked) \cup {c}
    BY Queued DEF In, Queues, Roles
  <1>3. sched' = [sched EXCEPT !.todo[c] = "no", !.parked = parked]
    BY Queued DEF ParkTask, Scheds
  <1> HIDE DEF parked
  <1>4. /\ In(sched'.todo) = In(sched.todo) \ {c} /\ sched'.parked = parked
        /\ sched'.deferred = sched.deferred /\ sched'.focus = sched.focus
        /\ sched'.stage = sched.stage /\ sched'.outcome = sched.outcome
    BY <1>2, <1>3, Queued, Dequeued
  <1>5. Running'
    <2>1. Open(route') \subseteq Active' \cup Known(sched') \cup In(pending')
      BY <1>1, <1>2, <1>4 DEF Running, Known, Active
    <2>2. Placed(sched') /\ ~Moving(sched')
      BY <1>1, <1>4 DEF Running, Placed, AtFocus, Moving
    <2>3. left' = In(sched'.todo)
      BY <1>1, <1>4 DEF Running
    <2> QED BY <1>1, <1>4, <2>1, <2>2, <2>3 DEF Running, Open, Done, Known, Placed, AtFocus, Moving
  <1>6. TrunkBarrier'
    BY <1>1, <1>4 DEF TrunkBarrier
  <1> QED BY <1>1, <1>4, <1>5, <1>6 DEF Kept, ReturnedComplete

\* A failed task stays in the queue and ends the batch.
LEMMA FailTaskKeeps ==
    ASSUME SInv, NEW c \in Conns, FailTask(c) PROVE Kept'
  <1>1. PICK own \in {route[c], "partial"},
             torn \in {{}} \cup (IF sched.stage = "fanouts" THEN {}
                                 ELSE {Siblings(c) \cap Bound(route)}) :
          /\ route' = [Routed(c, torn, {}) EXCEPT ![c] = own]
          /\ pending' = Merge(pending, Of(torn, "fanout"))
    BY DEF FailTask
  <1>2. /\ sched.outcome = "running" /\ phase = "batch" /\ phase' = phase /\ c \in left
        /\ left' = left /\ batch'.failed /\ sched' = sched /\ ~Moving(sched)
        /\ route[c] # "done" /\ Running /\ TrunkBarrier
    BY Queued DEF FailTask, Ready, SInv, Batches
  <1>3. torn \subseteq Siblings(c) /\ torn \in SUBSET Conns
    BY <1>1 DEF Siblings
  <1>4. \A d \in Conns : route'[d] = IF d = c THEN own ELSE IF d \in torn THEN "partial"
                                     ELSE route[d]
    BY <1>1, Queued DEF Routed
  <1>5. Open(route') \subseteq Open(route) \cup torn
    BY <1>2, <1>4 DEF Open, Done
  <1>6. /\ In(pending') = In(pending) \cup torn
        /\ sched.stage \in {"basic", "sources"} => \A d \in Conns : pending'[d] # "generic"
    BY <1>1, <1>2, <1>3, Queued, PendingCut DEF Running
  <1>7. Rooted(route, Active) => Rooted(route', Active)
    <2> SUFFICES ASSUME Rooted(route, Active), NEW x \in Conns
                 PROVE Trunk(route', x) \/ \E d \in Active : From[d] = From[x]
      BY DEF Rooted
    <2>1. CASE From[x] = From[c]
      BY <1>2, <2>1 DEF Active
    <2>2. CASE From[x] # From[c] /\ Trunk(route, x)
      <3>1. PICK d \in Conns : From[d] = From[x] /\ route[d] \in {"done", "gap"}
        BY <2>2 DEF Trunk
      <3>2. d # c /\ d \notin torn
        BY <1>3, <2>2, <3>1 DEF Siblings
      <3> QED BY <1>4, <3>1, <3>2 DEF Trunk
    <2>3. CASE ~Trunk(route, x)
      BY <2>3 DEF Rooted
    <2> QED BY <2>1, <2>2, <2>3
  <1>8. Running'
    <2>1. Active' = Active /\ Open(route)' = Open(route') /\ Known(sched)' = Known(sched)
          /\ Placed(sched)' = Placed(sched) /\ Moving(sched)' = Moving(sched)
          /\ Rooted(route, Active)' = Rooted(route', Active) /\ OnePer(Active)' = OnePer(Active)
      BY <1>2 DEF Active, Known, Placed, AtFocus, Moving, OnePer, Rooted, Open, Done
    <2> QED BY <1>2, <1>5, <1>6, <1>7, <2>1 DEF Running
  <1>9. TrunkBarrier'
    BY <1>2 DEF TrunkBarrier
  <1> QED BY <1>2, <1>8, <1>9 DEF Kept, ReturnedComplete

---------------------------------------------------------------------------
(* Stops, and the beginning of a pass *)

\* Stopping keeps what is left to keep; a normal return needs every
\* connection routed.
LEMMA StopKeeps ==
    ASSUME SInv, sched.outcome = "running",
           NEW why \in {"returned", "deferred work", "stopped",
                        "no movable endpoint", "task cannot relocate"},
           Stop(why), why = "returned" => Done(route) = Conns
    PROVE Kept'
  <1>1. /\ sched'.outcome = why /\ sched'.stage = sched.stage
        /\ route' = route /\ batch' = batch
    BY Queued DEF Stop, Scheds
  <1>2. TrunkBarrier'
    BY <1>1 DEF SInv, TrunkBarrier
  <1>3. ReturnedComplete'
    BY <1>1 DEF ReturnedComplete, Done
  <1> QED BY <1>1, <1>2, <1>3 DEF Kept

\* Giving up returns nothing as complete.
LEMMA AbandonKeeps == ASSUME SInv, Abandon PROVE Kept'
  BY StopKeeps DEF Abandon

\* Nor does a focus that cannot move.
LEMMA FocusStuckKeeps == ASSUME SInv, FocusStuck PROVE Kept'
  BY StopKeeps DEF FocusStuck, Destinations, AtHead

\* Between two passes the queues alone know every unfinished connection.
LEMMA HeadKeeps ==
    ASSUME SInv, sched.outcome = "running", phase = "head"
    PROVE /\ pending = Empty /\ left = {} /\ Open(route) \subseteq Known(sched)
          /\ Placed(sched) /\ Split(sched) /\ ~batch.failed
          /\ Startable(sched, route, pending)
  <1>1. Running
    BY DEF SInv
  <1>2. pending = Empty /\ left = {} /\ Split(sched) /\ Placed(sched) /\ ~batch.failed
    BY <1>1 DEF Running
  <1>3. Active = In(sched.todo)
    BY <1>2 DEF Active
  <1>4. Open(route) \subseteq Known(sched)
    BY <1>1, <1>2, <1>3, EmptyHasNone DEF Running, Known
  <1>5. sched.stage \in {"fanouts", "seeds"} => Rooted(route, {})
    BY <1>2, BarrierIsRooted DEF SInv
  <1> QED BY <1>1, <1>2, <1>3, <1>4, <1>5, Queued DEF Startable, Running

\* Without work anywhere every connection is routed.
LEMMA FinishKeeps == ASSUME SInv, Finish PROVE Kept'
  <1>1. phase = "head" /\ sched.outcome = "running" /\ ~HasWork(sched)
    BY DEF Finish
  <1>2. CASE In(sched.parked) \cup In(sched.deferred) \cup In(pending) = {}
    <2>1. Known(sched) = {}
      BY <1>1, <1>2 DEF Known, HasWork
    <2>2. Done(route) = Conns
      BY <1>1, <2>1, HeadKeeps DEF Open, Done
    <2>3. Stop("returned")
      BY <1>2 DEF Finish
    <2> QED BY <1>1, <2>2, <2>3, StopKeeps
  <1>3. CASE In(sched.parked) \cup In(sched.deferred) \cup In(pending) # {}
    <2>1. Stop("deferred work")
      BY <1>3 DEF Finish
    <2> QED BY <1>1, <2>1, StopKeeps
  <1> QED BY <1>2, <1>3

\* A pass starts with every unfinished connection known.
LEMMA StartPassKeeps == ASSUME DesignAssumption, SInv, StartPass PROVE Kept'
  <1>1. phase = "head" /\ sched.outcome = "running" /\ BeginBatch(sched)
        /\ route' = route /\ pending' = pending
    BY DEF StartPass, AtHead
  <1>2. Startable(sched, route', pending')
    BY <1>1, HeadKeeps
  <1> QED BY <1>1, <1>2, BatchKeeps

---------------------------------------------------------------------------
(* The relocation of Moving sources *)

\* What Moving sources has not visited stays known through `left`.
LEMMA EnterSourcesKeeps == ASSUME SInv, EnterSources PROVE Kept'
  <1>1. /\ sched.outcome = "running" /\ phase = "head" /\ sched.stage = "sources"
        /\ left' = In(sched.todo) /\ phase' = "relocating" /\ batch' = NoBatch
        /\ route' = route /\ pending' = pending
        /\ sched' = [sched EXCEPT !.todo = Empty, !.relocate = FALSE]
    BY DEF EnterSources, AtHead
  <1>2. /\ sched'.todo = Empty /\ sched'.parked = sched.parked
        /\ sched'.deferred = sched.deferred /\ sched'.focus = sched.focus
        /\ sched'.stage = sched.stage /\ sched'.outcome = sched.outcome
    BY <1>1, Queued DEF Scheds
  <1>3. Active' = In(sched.todo)
    BY <1>1, <1>2, EmptyHasNone DEF Active
  <1>4. Running'
    <2>1. Startable(sched, route, pending) /\ Open(route) \subseteq Known(sched)
      BY <1>1, HeadKeeps
    <2>2. Open(route') \subseteq Active' \cup Known(sched') \cup In(pending')
      BY <1>1, <1>2, <1>3, <2>1 DEF Known
    <2>3. Placed(sched') /\ ~batch'.failed /\ batch'.moved = {}
      BY <1>1, <1>2, <2>1 DEF Startable, Placed, AtFocus, NoBatch
    <2>4. OnePer(Active') /\ Rooted(route', Active') /\ \A c \in Conns : pending'[c] # "generic"
      BY <1>1, <1>3, <2>1 DEF Startable
    <2>5. Open(route)' = Open(route') /\ Known(sched)' = Known(sched') /\ Placed(sched)' = Placed(sched')
          /\ Rooted(route, Active)' = Rooted(route', Active') /\ OnePer(Active)' = OnePer(Active')
      OBVIOUS
    <2> QED BY <1>1, <2>2, <2>3, <2>4, <2>5 DEF Running
  <1>5. TrunkBarrier' /\ ReturnedComplete'
    BY <1>1, <1>2 DEF TrunkBarrier, ReturnedComplete
  <1> QED BY <1>4, <1>5 DEF Kept

\* A visit that drops nothing it should keep.
LEMMA VisitKeeps ==
    ASSUME SInv, sched.outcome = "running", phase = "relocating", phase' = "relocating",
           NEW c \in left, NEW torn, NEW cut, torn \subseteq Siblings(c),
           route' = Routed(c, torn, cut) \/ (route' = route /\ (route[c] = "done" \/ c \in In(sched'.todo))),
           left' = left \ {c}, batch'.failed = batch.failed,
           \A d \in left' : Driver(d) \notin batch'.moved,
           In(sched.todo) \subseteq In(sched'.todo), In(sched'.todo) \subseteq In(sched.todo) \cup {c},
           sched'.deferred = sched.deferred, sched'.focus = sched.focus,
           sched'.stage = sched.stage, sched'.outcome = sched.outcome,
           In(sched.parked) \subseteq In(sched'.parked),
           In(pending) \subseteq In(pending'),
           route' # route => torn \cup cut \subseteq In(sched'.parked) \cup In(pending'),
           \A d \in Conns : pending'[d] # "generic"
    PROVE Kept'
  <1>0. Running /\ route \in Routes /\ sched.stage = "sources" /\ c \in Conns
    BY Queued DEF SInv, IInv
  <1>1. Active' \subseteq Active /\ Active \ {c} \subseteq Active' /\ Active \in SUBSET Conns
        /\ (c \in In(sched'.todo) => Active' = Active)
    BY Queued, InType DEF Active
  <1>2. Open(route') \subseteq Active' \cup Known(sched') \cup In(pending')
    <2>1. CASE route' = route
      <3>1. Open(route) \subseteq Active \cup Known(sched) \cup In(pending)
        BY <1>0 DEF Running
      <3>2. c \in Active' \/ c \notin Open(route)
        BY <1>0, <1>1, <2>1 DEF Open, Done, Routed, Active
      <3> QED BY <1>1, <2>1, <3>1, <3>2 DEF Known
    <2>2. CASE route' # route
      <3>1. Open(route') \subseteq (Open(route) \ {c}) \cup torn \cup cut
        BY <1>0, <2>2, RoutedOpen
      <3> QED BY <1>0, <1>1, <2>2, <3>1 DEF Running, Known
    <2> QED BY <2>1, <2>2
  <1>3. Rooted(route', Active')
    <2>1. Rooted(route, Active)
      BY <1>0 DEF Running
    <2>2. CASE route' = Routed(c, torn, cut)
      BY <1>0, <1>1, <2>1, <2>2, RootedAfter
    <2>3. CASE route' = route /\ c \in In(sched'.todo)
      BY <1>1, <2>1, <2>3
    <2>4. CASE route' = route /\ route[c] = "done"
      <3> SUFFICES ASSUME NEW x \in Conns
                   PROVE Trunk(route, x) \/ \E d \in Active' : From[d] = From[x]
        BY <2>4 DEF Rooted
      <3>1. CASE From[x] = From[c]
        BY <1>0, <2>4, <3>1 DEF Trunk
      <3>2. CASE From[x] # From[c]
        BY <1>1, <2>1, <3>2 DEF Rooted
      <3> QED BY <3>1, <3>2
    <2> QED BY <2>2, <2>3, <2>4
  <1>4. Running'
    <2>1. Placed(sched') /\ (Moving(sched') <=> Moving(sched)) /\ ~batch.failed
      BY <1>0 DEF Running, Placed, AtFocus, Moving
    <2>2. OnePer(Active')
      BY <1>0, <1>1 DEF Running, OnePer
    <2>3. Open(route)' = Open(route') /\ Known(sched)' = Known(sched') /\ Placed(sched)' = Placed(sched')
          /\ Rooted(route, Active)' = Rooted(route', Active') /\ OnePer(Active)' = OnePer(Active')
      OBVIOUS
    <2> QED BY <1>0, <1>2, <1>3, <2>1, <2>2, <2>3 DEF Running
  <1>5. TrunkBarrier' /\ ReturnedComplete'
    BY <1>0 DEF TrunkBarrier, ReturnedComplete
  <1> QED BY <1>4, <1>5 DEF Kept

\* With one port per cell a moved cell has no other task in the batch.
LEMMA PassSourceKeeps == ASSUME SInv, NEW c \in Conns, PassSource(c) PROVE Kept'
  <1>1. /\ sched.outcome = "running" /\ phase = "relocating" /\ phase' = "relocating"
        /\ c \in left /\ left' = left \ {c} /\ batch' = batch
        /\ route' = route /\ pending' = pending
    BY DEF PassSource, Relocating
  <1>2. Running /\ sched.stage = "sources"
    BY <1>1 DEF SInv, IInv
  <1>3. Driver(c) \notin batch.moved /\ (\A d \in left' : Driver(d) \notin batch.moved)
    BY <1>1, <1>2 DEF Running
  <1>4. CASE NeedsSource(c)
    <2>1. sched' = [sched EXCEPT !.todo = Merge(@, Of({c}, "generic"))]
      BY <1>4 DEF PassSource
    <2>2. Of({c}, "generic") \in Queues /\ In(Of({c}, "generic")) = {c}
      BY OfType, InOf DEF Roles
    <2>3. In(sched'.todo) = In(sched.todo) \cup {c}
          /\ sched'.parked = sched.parked
          /\ sched'.deferred = sched.deferred /\ sched'.focus = sched.focus
          /\ sched'.stage = sched.stage /\ sched'.outcome = sched.outcome
      BY <2>1, <2>2, Queued, InMerge DEF Scheds
    <2>4. {} \subseteq Siblings(c)
      OBVIOUS
    <2> QED BY <1>1, <1>2, <1>3, <2>3, <2>4, VisitKeeps DEF Running
  <1>5. CASE ~NeedsSource(c)
    <2>1. route[c] = "done" /\ sched' = sched
      BY <1>3, <1>5 DEF NeedsSource, PassSource
    <2>2. {} \subseteq Siblings(c)
      OBVIOUS
    <2> QED BY <1>1, <1>2, <1>3, <2>1, <2>2, VisitKeeps DEF Running
  <1> QED BY <1>4, <1>5

\* A wired source is off the list, what it cut is pending.
LEMMA WireSourceKeeps == ASSUME SInv, NEW c \in Conns, WireSource(c) PROVE Kept'
  <1>1. PICK cut \in Cuts(c) :
          route' = Routed(c, {}, cut) /\ pending' = Merge(pending, Of(cut, "fanout"))
    BY DEF WireSource
  <1>2. cut \in SUBSET Conns /\ {} \subseteq Siblings(c)
    BY <1>1 DEF Cuts, Cuttable
  <1>3. /\ sched.outcome = "running" /\ phase = "relocating" /\ phase' = "relocating"
        /\ c \in left /\ left' = left \ {c} /\ sched' = sched
        /\ batch'.failed = batch.failed /\ batch'.moved = batch.moved
    BY Queued DEF WireSource, Relocating, Visited, Batches
  <1>4. Running /\ sched.stage = "sources"
    BY <1>3 DEF SInv, IInv
  <1>5. In(pending') = In(pending) \cup cut /\ \A d \in Conns : pending'[d] # "generic"
    BY <1>1, <1>2, <1>4, Queued, PendingCut DEF Running
  <1>6. \A d \in left' : Driver(d) \notin batch'.moved
    BY <1>3, <1>4 DEF Running
  <1> QED BY <1>1, <1>2, <1>3, <1>5, <1>6, VisitKeeps

\* A moved source has its trunk routed and the branches it tore parked.
LEMMA ShiftSourceKeeps ==
    ASSUME Star, SInv, NEW c \in Conns, ShiftSource(c) PROVE Kept'
  <1>1. PICK m \in SourceMoves(c) :
          /\ route' = m.route
          /\ pending' = Merge(pending, m.cut)
          /\ sched' = [sched EXCEPT !.todo = Merge(@, m.moved), !.parked = Merge(@, m.parked)]
    BY DEF ShiftSource
  <1>2. PICK torn, cut : /\ torn \subseteq Siblings(c) /\ cut \subseteq Conns
                         /\ m.route = Routed(c, torn, cut)
                         /\ In(m.parked) = torn /\ m.moved = Empty
                         /\ m.cut = Of(cut, "fanout")
    BY Queued, StarSource
  <1>3. /\ sched.outcome = "running" /\ phase = "relocating" /\ phase' = "relocating"
        /\ c \in left /\ left' = left \ {c}
        /\ batch'.failed = batch.failed /\ batch'.moved = batch.moved \cup {Driver(c)}
    BY Queued DEF ShiftSource, Relocating, Batches
  <1>4. Running /\ sched.stage = "sources"
    BY <1>3 DEF SInv, IInv
  <1>5. m.parked \in Queues /\ Empty \in Queues
    BY Queued, SourceMoveType, EmptyType
  <1>6. /\ In(Merge(sched.todo, Empty)) = In(sched.todo)
        /\ In(Merge(sched.parked, m.parked)) = In(sched.parked) \cup torn
    <2>1. In(Merge(sched.todo, Empty)) = In(sched.todo) \cup In(Empty)
      BY <1>5, Queued, InMerge
    <2>2. In(Merge(sched.parked, m.parked)) = In(sched.parked) \cup In(m.parked)
      BY <1>5, Queued, InMerge
    <2> QED BY <1>2, <2>1, <2>2, EmptyHasNone
  <1>7. /\ In(sched'.todo) = In(sched.todo) /\ In(sched'.parked) = In(sched.parked) \cup torn
        /\ sched'.deferred = sched.deferred /\ sched'.focus = sched.focus
        /\ sched'.stage = sched.stage /\ sched'.outcome = sched.outcome
    BY <1>1, <1>2, <1>6, Queued DEF Scheds
  <1>8. In(pending') = In(pending) \cup cut /\ \A d \in Conns : pending'[d] # "generic"
    BY <1>1, <1>2, <1>4, Queued, PendingCut DEF Running
  <1>9. \A d \in left' : Driver(d) \notin batch'.moved
    <2> SUFFICES ASSUME NEW d \in left, d # c PROVE Driver(d) # Driver(c)
      BY <1>3, <1>4 DEF Running
    <2>1. OnePer(Active) /\ c \in Active /\ d \in Active
      BY <1>3, <1>4 DEF Running, Active
    <2> QED BY <2>1, Queued DEF OnePer, Star
  <1> QED BY <1>1, <1>2, <1>3, <1>7, <1>8, <1>9, VisitKeeps

\* After the last visit the queues alone know the open connections.
LEMMA LeaveSourcesKeeps == ASSUME DesignAssumption, SInv, LeaveSources PROVE Kept'
  <1>1. phase = "relocating" /\ sched.outcome = "running" /\ left = {}
    BY DEF LeaveSources
  <1>2. Running /\ sched.stage = "sources"
    BY <1>1 DEF SInv, IInv
  <1>3. CASE batch.completed = 0
    BY <1>1, <1>3, StopKeeps DEF LeaveSources
  <1>4. CASE batch.completed # 0
    <2>1. PICK due \in BOOLEAN :
            Resume([sched EXCEPT !.recovery = sched.recovery \/ due,
                                 !.relocate = ~(sched.recovery \/ due)])
          /\ route' = route /\ pending' = pending
      BY <1>4 DEF LeaveSources
    <2> DEFINE s == [sched EXCEPT !.recovery = sched.recovery \/ due,
                                  !.relocate = ~(sched.recovery \/ due)]
    <2>2. /\ s \in Scheds /\ s.todo = sched.todo /\ s.parked = sched.parked
          /\ s.deferred = sched.deferred /\ s.focus = sched.focus
          /\ s.stage = sched.stage /\ s.outcome = sched.outcome
      BY Queued DEF Scheds
    <2>3. Resume(s)
      BY <2>1
    <2> HIDE DEF s
    <2>4. Active = In(s.todo)
      BY <1>1, <2>2 DEF Active
    <2>5. Startable(s, route', pending') /\ Split(s)
      BY <1>1, <1>2, <2>1, <2>2, <2>4, Queued
         DEF Running, Startable, Known, Placed, AtFocus, Split
    <2> QED BY <2>3, <2>5, ResumeKeeps
  <1> QED BY <1>3, <1>4

---------------------------------------------------------------------------
(* The relocation of Moving destinations *)

\* The same at the head of Moving destinations.
LEMMA DestinationsHead ==
    ASSUME SInv, Destinations
    PROVE /\ sched.outcome = "running" /\ phase = "head" /\ sched.stage = "destinations"
          /\ pending = Empty /\ left = {} /\ ~batch.failed
          /\ Open(route) \subseteq Known(sched) /\ Placed(sched) /\ Split(sched)
  BY HeadKeeps DEF Destinations, AtHead

\* Outside Basic and Moving sources only the queues matter.
LEMMA Restart ==
    ASSUME DesignAssumption, NEW s \in Scheds, s.stage = "destinations", s.outcome = "running",
           route' \in Routes, pending' \in Queues,
           s.focus # NoCell => AtFocus(s) # {},
           Open(route') \subseteq Known(s) \cup In(pending'),
           s.relocate => Split(s), Resume(s)
    PROVE Kept'
  <1>1. Startable(s, route', pending')
    BY DEF Startable, Placed
  <1> QED BY <1>1, ResumeKeeps

\* Resuming without a move forgets nothing.
LEMMA NothingToMoveKeeps == ASSUME DesignAssumption, SInv, NothingToMove PROVE Kept'
  <1>1. Destinations /\ route' = route /\ pending' = pending
    BY DEF NothingToMove
  <1>2. route' \in Routes /\ pending' \in Queues
    BY <1>1, Queued
  <1>3. CASE sched.focus = NoCell
    <2> DEFINE s == [sched EXCEPT !.relocate = FALSE]
    <2>1. Resume(s)
      BY <1>3 DEF NothingToMove
    <2>2. /\ s \in Scheds /\ s.todo = sched.todo /\ s.parked = sched.parked
          /\ s.deferred = sched.deferred /\ s.focus = NoCell /\ s.relocate = FALSE
          /\ s.stage = sched.stage /\ s.outcome = sched.outcome
      BY <1>3, Queued DEF Scheds
    <2> HIDE DEF s
    <2>3. Known(s) = Known(sched)
      BY <2>2 DEF Known
    <2> QED BY <1>1, <1>2, <2>1, <2>2, <2>3, DestinationsHead, Restart
  <1>4. CASE sched.focus # NoCell
    <2> DEFINE s == Restored(sched, route)
    <2>1. Resume(s)
      BY <1>4 DEF NothingToMove
    <2>2. s = [sched EXCEPT !.deferred = Only(Merge(@, sched.todo), Conns \ Done(route)),
                            !.todo = Empty, !.focus = NoCell, !.relocate = TRUE]
      BY DEF Restored
    <2>3. s \in Scheds
      BY Queued, RestoredType
    <2>4. In(Only(Merge(sched.deferred, sched.todo), Conns \ Done(route)))
            = (In(sched.deferred) \cup In(sched.todo)) \cap Open(route)
      <3>1. In(Merge(sched.deferred, sched.todo)) = In(sched.deferred) \cup In(sched.todo)
        BY Queued, InMerge
      <3> QED BY <3>1, InOnly DEF Open
    <2> HIDE DEF s
    <2>5. /\ s.parked = sched.parked /\ s.focus = NoCell
          /\ In(s.deferred) = (In(sched.deferred) \cup In(sched.todo)) \cap Open(route)
          /\ s.stage = sched.stage /\ s.outcome = sched.outcome
      BY <2>2, <2>4, Queued DEF Scheds
    <2>6. Open(route) \subseteq Known(s)
      BY <1>1, <2>5, DestinationsHead DEF Known
    <2>7. Split(s)
      BY <2>5 DEF Split
    <2> QED BY <1>1, <1>2, <2>1, <2>3, <2>5, <2>6, <2>7, DestinationsHead, Restart
  <1> QED BY <1>3, <1>4

\* What was deferred becomes active but for what was routed meanwhile.
LEMMA PickDeferredKeeps == ASSUME DesignAssumption, SInv, PickDeferred PROVE Kept'
  <1> DEFINE open == Only(sched.deferred, Conns \ Done(route))
  <1>1. /\ Destinations /\ sched.focus = NoCell /\ In(sched.todo) = {}
        /\ route' = route /\ pending' = pending
    BY DEF PickDeferred
  <1>2. open \in Queues /\ In(open) = In(sched.deferred) \cap Open(route)
    BY Queued, OnlyType, InOnly DEF Open
  <1>3. Open(route) \subseteq In(sched.parked) \cup In(open)
    BY <1>1, <1>2, DestinationsHead DEF Known
  <1>4. route' \in Routes /\ pending' \in Queues
    BY <1>1, Queued
  <1>5. CASE open = Empty
    <2> DEFINE s == [sched EXCEPT !.deferred = Empty, !.relocate = FALSE]
    <2>1. Resume(s)
      BY <1>5 DEF PickDeferred
    <2>2. /\ s \in Scheds /\ s.parked = sched.parked /\ s.focus = NoCell /\ s.relocate = FALSE
          /\ s.stage = sched.stage /\ s.outcome = sched.outcome
      BY <1>1, Queued, EmptyType DEF Scheds
    <2> HIDE DEF s
    <2>3. Open(route) \subseteq Known(s)
      BY <1>3, <1>5, <2>2, EmptyHasNone DEF Known
    <2> QED BY <1>1, <1>4, <2>1, <2>2, <2>3, DestinationsHead, Restart
  <1>6. CASE open # Empty
    <2>1. PICK c \in In(open) :
             sched' = [sched EXCEPT !.todo = Only(open, {c}), !.relocate = TRUE,
                                    !.deferred = Only(open, Conns \ {c})]
      BY <1>6 DEF PickDeferred
    <2>2. phase' = phase /\ left' = left /\ batch' = batch
      BY <1>6 DEF PickDeferred
    <2> HIDE DEF open
    <2>3. In(Only(open, {c})) = {c} /\ In(Only(open, Conns \ {c})) = In(open) \ {c}
      BY <2>1, InOnly, InType
    <2>4. /\ In(sched'.todo) = {c} /\ In(sched'.deferred) = In(open) \ {c}
          /\ sched'.parked = sched.parked /\ sched'.focus = NoCell
          /\ sched'.stage = sched.stage /\ sched'.outcome = sched.outcome
      BY <1>1, <2>1, <2>3, Queued DEF Scheds
    <2>5. Running'
      <3>1. Open(route') \subseteq Known(sched')
        BY <1>1, <1>3, <2>4 DEF Known
      <3>2. Placed(sched') /\ Split(sched') /\ ~batch'.failed /\ phase' = "head"
            /\ pending' = Empty /\ left' = {} /\ sched'.stage = "destinations"
        BY <1>1, <2>2, <2>4, DestinationsHead DEF Placed, Split
      <3>3. Open(route)' = Open(route') /\ Known(sched)' = Known(sched')
            /\ Placed(sched)' = Placed(sched') /\ Split(sched)' = Split(sched')
        OBVIOUS
      <3> QED BY <3>1, <3>2, <3>3 DEF Running
    <2>6. TrunkBarrier' /\ ReturnedComplete'
      BY <1>1, <2>4, DestinationsHead DEF TrunkBarrier, ReturnedComplete
    <2> QED BY <2>5, <2>6 DEF Kept
  <1> QED BY <1>5, <1>6

\* A repair in place queues what it cut.
LEMMA RepairFrozenKeeps ==
    ASSUME DesignAssumption, Star, SInv, NEW c \in Conns, RepairFrozen(c) PROVE Kept'
  <1>1. Destinations
    BY DEF RepairFrozen
  <1>2. CASE \E cut \in Cuts(c) :
               /\ route' = Routed(c, {}, cut)
               /\ pending' = Merge(pending, Of(cut, "fanout"))
               /\ Resume([sched EXCEPT !.relocate = TRUE])
    <2>1. PICK cut \in Cuts(c) :
               /\ route' = Routed(c, {}, cut)
               /\ pending' = Merge(pending, Of(cut, "fanout"))
               /\ Resume([sched EXCEPT !.relocate = TRUE])
      BY <1>2
    <2> DEFINE s == [sched EXCEPT !.relocate = TRUE]
    <2>2. cut \in SUBSET Conns
      BY <2>1 DEF Cuts, Cuttable
    <2>3. /\ s \in Scheds /\ s.todo = sched.todo /\ s.parked = sched.parked
          /\ s.deferred = sched.deferred /\ s.focus = sched.focus
          /\ s.stage = sched.stage /\ s.outcome = sched.outcome
      BY Queued DEF Scheds
    <2>4. Resume(s)
      BY <2>1
    <2> HIDE DEF s
    <2>5. pending' \in Queues /\ In(pending') = In(pending) \cup cut /\ route' \in Routes
      BY <2>1, <2>2, Queued, PendingCut, MergeType, RoutedType
    <2>6. Open(route') \subseteq Open(route) \cup cut
      BY <2>1, Queued, RoutedOpen
    <2>7. Open(route') \subseteq Known(s) \cup In(pending')
      BY <1>1, <2>3, <2>5, <2>6, DestinationsHead DEF Known
    <2>8. Split(s) /\ (s.focus # NoCell => AtFocus(s) # {})
      BY <1>1, <2>3, DestinationsHead DEF Split, AtFocus, Placed
    <2> QED BY <1>1, <2>3, <2>4, <2>5, <2>7, <2>8, DestinationsHead, Restart
  <1>3. CASE \E m \in SourceMoves(c) :
               /\ route' = m.route
               /\ pending' = Merge(pending, Merge(m.moved, m.cut))
               /\ Resume([sched EXCEPT !.relocate = TRUE, !.parked = Merge(@, m.parked)])
    <2>1. PICK m \in SourceMoves(c) :
               /\ route' = m.route
               /\ pending' = Merge(pending, Merge(m.moved, m.cut))
               /\ Resume([sched EXCEPT !.relocate = TRUE, !.parked = Merge(@, m.parked)])
      BY <1>3
    <2>2. PICK torn, cut : /\ torn \subseteq Siblings(c) /\ cut \subseteq Conns
                           /\ m.route = Routed(c, torn, cut)
                           /\ In(m.parked) = torn /\ m.moved = Empty
                           /\ m.cut = Of(cut, "fanout")
      BY Queued, StarSource
    <2> DEFINE s == [sched EXCEPT !.relocate = TRUE, !.parked = Merge(@, m.parked)]
    <2>3. m.parked \in Queues
      BY Queued, SourceMoveType
    <2>4. /\ Merge(sched.parked, m.parked) \in Queues
          /\ In(Merge(sched.parked, m.parked)) = In(sched.parked) \cup torn
      BY <2>2, <2>3, Queued, InMerge, MergeType
    <2>5. /\ s \in Scheds /\ s.todo = sched.todo /\ In(s.parked) = In(sched.parked) \cup torn
          /\ s.deferred = sched.deferred /\ s.focus = sched.focus
          /\ s.stage = sched.stage /\ s.outcome = sched.outcome
      BY <2>4, Queued DEF Scheds
    <2>6. Resume(s)
      BY <2>1
    <2> HIDE DEF s
    <2>7. Merge(m.moved, m.cut) = Of(cut, "fanout")
      BY <2>2 DEF Merge, Empty, Of
    <2>8. pending' \in Queues /\ In(pending') = In(pending) \cup cut /\ route' \in Routes
      BY <2>1, <2>2, <2>7, Queued, PendingCut, MergeType, RoutedType
    <2>9. Open(route') \subseteq Open(route) \cup torn \cup cut
      BY <2>1, <2>2, Queued, RoutedOpen
    <2>10. Open(route') \subseteq Known(s) \cup In(pending')
      BY <1>1, <2>5, <2>8, <2>9, DestinationsHead DEF Known
    <2>11. Split(s) /\ (s.focus # NoCell => AtFocus(s) # {})
      BY <1>1, <2>5, DestinationsHead DEF Split, AtFocus, Placed
    <2> QED BY <1>1, <2>5, <2>6, <2>8, <2>10, <2>11, DestinationsHead, Restart
  <1> QED BY <1>2, <1>3 DEF RepairFrozen

\* In a star a focus has one connection, which is the one that moves.
LEMMA StarFocus ==
    ASSUME DesignAssumption, Star, SInv, NEW c \in Conns, MovesHere(c)
    PROVE sched.focus = NoCell \/ (sched.focus = To[c] /\ AtFocus(sched) = {c})
  <1> SUFFICES ASSUME sched.focus # NoCell
               PROVE sched.focus = To[c] /\ AtFocus(sched) = {c}
    OBVIOUS
  <1>1. PICK e \in Conns : To[e] = sched.focus
    BY DestinationsHead DEF MovesHere, Placed, AtFocus
  <1>2. c \in Incident(To[e])
    BY <1>1 DEF MovesHere
  <1>3. c = e
    BY <1>2, Queued, StarSink
  <1> QED BY <1>1, <1>3 DEF AtFocus, Star

\* Wiring a sink drops from the active queue only what is routed.
LEMMA WireSinkKeeps ==
    ASSUME DesignAssumption, Star, SInv, NEW c \in Conns, WireSink(c) PROVE Kept'
  <1>1. MovesHere(c) /\ Destinations
    BY DEF WireSink, MovesHere
  <1>2. PICK cut \in Cuts(c) :
          LET r == Routed(c, {}, cut)
              open == Only(Merge(Merge(sched.todo, pending), Of(cut, "fanout")), Conns \ Done(r))
          IN /\ route' = r
             /\ pending' = Empty
             /\ Resume([sched EXCEPT !.todo = open,
                            !.relocate = open # Empty \/ In(sched.deferred) # {}])
    BY DEF WireSink
  <1> DEFINE r == Routed(c, {}, cut)
             open == Only(Merge(Merge(sched.todo, pending), Of(cut, "fanout")), Conns \ Done(r))
             s == [sched EXCEPT !.todo = open,
                                !.relocate = open # Empty \/ In(sched.deferred) # {}]
  <1>3. cut \in SUBSET Conns
    BY <1>2 DEF Cuts, Cuttable
  <1>4. r \in Routes /\ Open(r) \subseteq (Open(route) \ {c}) \cup cut /\ c \notin Open(r)
    <2>1. r \in Routes /\ Open(r) \subseteq (Open(route) \ {c}) \cup cut
      BY Queued, RoutedType, RoutedOpen
    <2>2. c \notin Open(r)
      BY DEF Open, Done, Routed
    <2> QED BY <2>1, <2>2
  <1>5. open \in Queues /\ In(open) = (In(sched.todo) \cup In(pending) \cup cut) \cap Open(r)
    <2>1. Merge(sched.todo, pending) \in Queues
          /\ In(Merge(sched.todo, pending)) = In(sched.todo) \cup In(pending)
      BY Queued, MergeType, InMerge
    <2>2. Of(cut, "fanout") \in Queues /\ In(Of(cut, "fanout")) = cut
      BY <1>3, Queued, PendingCut
    <2> DEFINE q == Merge(Merge(sched.todo, pending), Of(cut, "fanout"))
    <2>3. q \in Queues /\ In(q) = In(sched.todo) \cup In(pending) \cup cut
      BY <2>1, <2>2, MergeType, InMerge
    <2>4. open = Only(q, Open(r))
      BY DEF Open
    <2> HIDE DEF q, r, open
    <2> QED BY <2>3, <2>4, OnlyType, InOnly
  <1> HIDE DEF open
  <1>6. Resume(s) /\ route' = r /\ pending' = Empty
    BY <1>2 DEF open
  <1>7. /\ s \in Scheds /\ s.todo = open /\ s.parked = sched.parked
        /\ s.deferred = sched.deferred /\ s.focus = sched.focus
        /\ s.stage = sched.stage /\ s.outcome = sched.outcome
    BY <1>5, Queued DEF Scheds
  <1> HIDE DEF s, r
  <1>8. Open(r) \subseteq Known(s)
    BY <1>1, <1>4, <1>5, <1>7, DestinationsHead DEF Known
  <1>9. Split(s) /\ (s.focus # NoCell => AtFocus(s) # {})
    <2>1. AtFocus(s) = AtFocus(sched)
      BY <1>7 DEF AtFocus
    <2>2. c \notin In(s.todo)
      BY <1>4, <1>5, <1>7
    <2> QED BY <1>1, <1>7, <2>1, <2>2, StarFocus DEF Split
  <1> QED BY <1>1, <1>4, <1>6, <1>7, <1>8, <1>9, EmptyType, DestinationsHead, Restart

\* A moved sink defers the tasks elsewhere and keeps its own, also when the
\* focus moves on.
LEMMA ShiftSinkKeeps ==
    ASSUME DesignAssumption, Star, SInv, NEW c \in Conns, ShiftSink(c) PROVE Kept'
  <1>1. MovesHere(c) /\ Destinations /\ c \in In(sched.todo)
    BY DEF ShiftSink, MovesHere, Unfinished
  <1> DEFINE near == Incident(To[c])
  <1>2. PICK m \in SinkMoves(c) :
          LET tasks == Merge(m.moved, Only(sched.todo, near))
          IN /\ route' = m.route
             /\ pending' = Empty
             /\ Resume([sched EXCEPT
                   !.deferred = Merge(Unfocused(sched, To[c]), Only(tasks, Conns \ near)),
                   !.todo = Merge(Only(tasks, near), Merge(pending, m.cut)),
                   !.focus = To[c], !.relocate = FALSE])
    BY DEF ShiftSink
  <1> DEFINE tasks == Merge(m.moved, Only(sched.todo, near))
             away  == Merge(Unfocused(sched, To[c]), Only(tasks, Conns \ near))
             here  == Merge(Only(tasks, near), Merge(pending, m.cut))
             s == [sched EXCEPT !.deferred = away, !.todo = here,
                                !.focus = To[c], !.relocate = FALSE]
  <1>3. near = {c}
    BY Queued, StarSink
  <1>4. PICK cut : /\ cut \subseteq Conns /\ m.route = Routed(c, {}, cut)
                   /\ In(m.moved) = {c} /\ m.cut = Of(cut, "fanout")
    BY Queued, StarSink
  <1>5. m.moved \in Queues /\ m.cut \in Queues /\ In(m.cut) = cut
    BY <1>4, Queued, SinkMoveType, PendingCut
  <1>6. m.route \in Routes /\ Open(m.route) \subseteq (Open(route) \ {c}) \cup cut
    BY <1>4, Queued, RoutedType, RoutedOpen
  <1> HIDE DEF near
  <1>7. tasks \in Queues
    BY <1>5, Queued, OnlyType, MergeType
  <1> HIDE DEF tasks
  <1>8. Unfocused(sched, To[c]) \in Queues
        /\ In(sched.deferred) \cup In(sched.todo) \subseteq In(Unfocused(sched, To[c])) \cup {c}
    <2>1. CASE sched.focus = To[c]
      <3>1. Unfocused(sched, To[c]) = sched.deferred
        BY <2>1 DEF Unfocused
      <3>2. sched.focus # NoCell
        BY <2>1 DEF DesignAssumption
      <3>3. In(sched.todo) \subseteq {c}
        BY <1>1, <3>2, StarFocus, DestinationsHead DEF Split
      <3> QED BY <3>1, <3>3, Queued
    <2>2. CASE sched.focus # To[c]
      <3>1. Unfocused(sched, To[c]) = Only(Merge(sched.deferred, sched.todo), Conns \ {c})
        BY <1>3, <2>2 DEF Unfocused, near
      <3>2. Merge(sched.deferred, sched.todo) \in Queues
            /\ In(Merge(sched.deferred, sched.todo)) = In(sched.deferred) \cup In(sched.todo)
        BY Queued, MergeType, InMerge
      <3>3. In(sched.deferred) \cup In(sched.todo) \subseteq Conns
        BY InType
      <3> QED BY <3>1, <3>2, <3>3, OnlyType, InOnly
    <2> QED BY <2>1, <2>2
  <1>9. away \in Queues /\ In(Unfocused(sched, To[c])) \subseteq In(away)
    <2>1. Only(tasks, Conns \ near) \in Queues
      BY <1>7, OnlyType
    <2> QED BY <1>8, <2>1, MergeType, InMerge
  <1>10. here \in Queues /\ In(pending) \cup cut \subseteq In(here)
    <2>1. Only(tasks, near) \in Queues
      BY <1>7, OnlyType
    <2>2. Merge(pending, m.cut) \in Queues /\ In(Merge(pending, m.cut)) = In(pending) \cup cut
      BY <1>5, Queued, MergeType, InMerge
    <2> QED BY <2>1, <2>2, MergeType, InMerge
  <1> HIDE DEF away, here
  <1>11. Resume(s) /\ route' = m.route /\ pending' = Empty
    BY <1>2 DEF away, here, tasks
  <1>12. To[c] \in Cells
    BY DEF DesignAssumption
  <1>13. /\ s \in Scheds /\ s.todo = here /\ s.parked = sched.parked
         /\ s.deferred = away /\ s.focus = To[c] /\ s.relocate = FALSE
         /\ s.stage = sched.stage /\ s.outcome = sched.outcome
    BY <1>9, <1>10, <1>12, Queued DEF Scheds
  <1> HIDE DEF s
  <1>14. Open(route') \subseteq Known(s)
    BY <1>1, <1>6, <1>8, <1>9, <1>10, <1>11, <1>13, DestinationsHead DEF Known
  <1>15. AtFocus(s) # {}
    BY <1>13 DEF AtFocus
  <1> QED BY <1>1, <1>6, <1>11, <1>13, <1>14, <1>15, EmptyType, DestinationsHead, Restart

---------------------------------------------------------------------------
(* The end of a pass *)

Whole(s) ==
    /\ s \in Scheds
    /\ s.outcome \notin {"returned", "missing trunk"}
    /\ Open(route) \subseteq Known(s)
    /\ Placed(s)
    /\ s.stage \in {"basic", "sources"} => OnePer(In(s.todo)) /\ Rooted(route, In(s.todo))
    /\ s.stage \in {"fanouts", "seeds"} /\ ~batch.failed => Rooted(route, {})
    /\ Split(s)

\* Filing the pending tasks loses none; a focus at the end of its batch has
\* only tasks of its own.
LEMMA AbsorbedWhole ==
    ASSUME DesignAssumption, Star, SInv, sched.outcome = "running", phase = "batch",
           Moving(sched) => left = {}
    PROVE Whole(Absorbed(sched)) /\ Absorbed(sched).stage = sched.stage
  <1> DEFINE branches == {c \in In(pending) : pending[c] = "fanout"}
             shelved == IF sched.stage \in {"basic", "seeds", "sources"} THEN branches ELSE {}
             away == IF sched.focus = NoCell THEN {} ELSE In(pending) \ Incident(sched.focus)
             parked == Merge(sched.parked, Only(pending, shelved))
             deferred == Merge(sched.deferred, Only(pending, away))
             todo == Merge(sched.todo, Only(pending, Conns \ (shelved \cup away)))
             filed == [sched EXCEPT !.parked = parked, !.deferred = deferred, !.todo = todo]
  <1>1. Running
    BY DEF SInv
  <1>2. In(pending) \subseteq Conns /\ left = In(sched.todo) /\ Active = In(sched.todo)
    BY <1>1, InType DEF Running, Active
  <1>3. sched.stage # "destinations" => sched.focus = NoCell /\ away = {} /\ In(sched.deferred) = {}
    BY <1>1 DEF Running, Placed
  <1>4. sched.stage \in {"basic", "sources"} => shelved = In(pending)
    BY <1>1, Queued DEF Running, In, Queues, Roles
  <1>5. sched.focus # NoCell => In(sched.todo) = {} /\ Incident(sched.focus) = AtFocus(sched)
    <2> SUFFICES ASSUME sched.focus # NoCell
                 PROVE In(sched.todo) = {} /\ Incident(sched.focus) = AtFocus(sched)
      OBVIOUS
    <2>1. sched.stage = "destinations" /\ AtFocus(sched) # {}
      BY <1>1 DEF Running, Placed
    <2>2. PICK e \in Conns : To[e] = sched.focus
      BY <2>1 DEF AtFocus
    <2>3. Incident(sched.focus) = AtFocus(sched)
      BY <2>2 DEF Incident, AtFocus, Star
    <2> QED BY <1>2, <2>1, <2>3 DEF Moving
  <1>6. shelved \subseteq In(pending) /\ away \subseteq In(pending)
    OBVIOUS
  <1> HIDE DEF branches, shelved, away
  <1>7. /\ parked \in Queues /\ In(parked) = In(sched.parked) \cup shelved
        /\ deferred \in Queues /\ In(deferred) = In(sched.deferred) \cup away
        /\ todo \in Queues /\ In(todo) = In(sched.todo) \cup (In(pending) \ (shelved \cup away))
    <2>1. /\ Only(pending, shelved) \in Queues /\ In(Only(pending, shelved)) = shelved
          /\ Only(pending, away) \in Queues /\ In(Only(pending, away)) = away
      <3>1. Only(pending, shelved) \in Queues /\ Only(pending, away) \in Queues
        BY Queued, OnlyType
      <3>2. /\ In(Only(pending, shelved)) = In(pending) \cap shelved
            /\ In(Only(pending, away)) = In(pending) \cap away
        BY InOnly
      <3> QED BY <1>6, <3>1, <3>2
    <2>2. /\ Only(pending, Conns \ (shelved \cup away)) \in Queues
          /\ In(Only(pending, Conns \ (shelved \cup away))) = In(pending) \ (shelved \cup away)
      BY <1>2, Queued, OnlyType, InOnly
    <2>3. parked \in Queues /\ In(parked) = In(sched.parked) \cup shelved
      BY <2>1, Queued, MergeType, InMerge
    <2>4. deferred \in Queues /\ In(deferred) = In(sched.deferred) \cup away
      BY <2>1, Queued, MergeType, InMerge
    <2>5. todo \in Queues /\ In(todo) = In(sched.todo) \cup (In(pending) \ (shelved \cup away))
      BY <2>2, Queued, MergeType, InMerge
    <2> QED BY <2>3, <2>4, <2>5
  <1>8. Absorbed(sched) = IF filed.stage = "sources" /\ filed.recovery
                          THEN [filed EXCEPT !.recovery = FALSE, !.relocate = (In(filed.todo) # {})]
                          ELSE filed
    BY DEF Absorbed, branches, shelved, away
  <1> HIDE DEF parked, deferred, todo
  <1>9. /\ filed \in Scheds /\ filed.todo = todo /\ filed.parked = parked
        /\ filed.deferred = deferred /\ filed.focus = sched.focus
        /\ filed.stage = sched.stage /\ filed.outcome = sched.outcome
    BY <1>7, Queued DEF Scheds
  <1> HIDE DEF filed
  <1> DEFINE s == Absorbed(sched)
  <1>10. /\ s \in Scheds /\ s.todo = todo /\ s.parked = parked
         /\ s.deferred = deferred /\ s.focus = sched.focus
         /\ s.stage = sched.stage /\ s.outcome = sched.outcome
    BY <1>8, <1>9 DEF Scheds
  <1> HIDE DEF s
  <1>11. Open(route) \subseteq Known(s)
    BY <1>1, <1>2, <1>7, <1>10 DEF Running, Known
  <1>12. Placed(s) /\ AtFocus(s) = AtFocus(sched)
    BY <1>1, <1>3, <1>7, <1>10 DEF Running, Placed, AtFocus
  <1>13. s.stage \in {"basic", "sources"} => OnePer(In(s.todo)) /\ Rooted(route, In(s.todo))
    <2>1. s.stage \in {"basic", "sources"} => In(s.todo) = Active
      BY <1>2, <1>4, <1>7, <1>10
    <2> QED BY <1>1, <1>10, <2>1 DEF Running
  <1>14. s.stage \in {"fanouts", "seeds"} /\ ~batch.failed => Rooted(route, {})
    BY <1>10, BarrierIsRooted DEF SInv
  <1>15. Split(s)
    <2>1. s.focus # NoCell => In(s.todo) \subseteq AtFocus(s)
      BY <1>5, <1>7, <1>10, <1>12 DEF away
    <2> QED BY <2>1 DEF Split
  <1> QED BY <1>10, <1>11, <1>12, <1>13, <1>14, <1>15 DEF Whole, s

\* The end of a focus puts its unfinished tasks back into the pool.
LEMMA SettledWhole == ASSUME DesignAssumption, NEW s, Whole(s) PROVE Whole(Settled(s))
  <1> DEFINE free == IF s.focus # NoCell /\ In(s.todo) = {} THEN Restored(s, route) ELSE s
             pool == Only(Merge(s.deferred, s.todo), Conns \ Done(route))
  <1>1. Whole(free)
    <2>1. CASE ~(s.focus # NoCell /\ In(s.todo) = {})
      BY <2>1
    <2>2. CASE s.focus # NoCell /\ In(s.todo) = {}
      <3>1. s \in Scheds /\ s.deferred \in Queues /\ s.todo \in Queues /\ s.stage = "destinations"
        BY <2>2 DEF Whole, Scheds, Placed
      <3>2. pool \in Queues /\ In(pool) = (In(s.deferred) \cup In(s.todo)) \cap Open(route)
        <4>1. Merge(s.deferred, s.todo) \in Queues
              /\ In(Merge(s.deferred, s.todo)) = In(s.deferred) \cup In(s.todo)
          BY <3>1, MergeType, InMerge
        <4>2. In(pool) = In(Merge(s.deferred, s.todo)) \cap (Conns \ Done(route))
          BY InOnly
        <4> QED BY <4>1, <4>2, OnlyType DEF Open
      <3> HIDE DEF pool
      <3>3. free = [s EXCEPT !.deferred = pool, !.todo = Empty, !.focus = NoCell, !.relocate = TRUE]
        BY <2>2 DEF Restored, pool
      <3> HIDE DEF free
      <3>4. /\ free \in Scheds /\ free.deferred = pool /\ free.parked = s.parked
            /\ free.focus = NoCell /\ free.stage = s.stage /\ free.outcome = s.outcome
        BY <3>1, <3>2, <3>3, EmptyType DEF Scheds
      <3>5. Open(route) \subseteq Known(free)
        BY <3>2, <3>4 DEF Whole, Known
      <3> QED BY <3>1, <3>4, <3>5 DEF Whole, Placed, Split
    <2> QED BY <2>1, <2>2
  <1>2. Settled(s) = IF free.stage = "sources" /\ In(free.todo) = {}
                     THEN [free EXCEPT !.sourcesDone = TRUE, !.stage = "basic", !.relocate = FALSE]
                     ELSE free
    BY DEF Settled
  <1> HIDE DEF free
  <1>3. CASE free.stage = "sources" /\ In(free.todo) = {}
    <2> DEFINE t == [free EXCEPT !.sourcesDone = TRUE, !.stage = "basic", !.relocate = FALSE]
    <2>1. /\ t \in Scheds /\ t.todo = free.todo /\ t.parked = free.parked
          /\ t.deferred = free.deferred /\ t.focus = free.focus
          /\ t.stage = "basic" /\ t.outcome = free.outcome
      BY <1>1 DEF Whole, Scheds
    <2>2. Settled(s) = t
      BY <1>2, <1>3
    <2> HIDE DEF t
    <2> QED BY <1>1, <1>3, <2>1, <2>2 DEF Whole, Known, Placed, Split, AtFocus
  <1>4. CASE ~(free.stage = "sources" /\ In(free.todo) = {})
    BY <1>1, <1>2, <1>4
  <1> QED BY <1>3, <1>4

\* A hand-over forgets no task; leaving Fanouts it takes the parked ones
\* along.
LEMMA HandedOverWhole ==
    ASSUME NEW s, Whole(s), NEW broken \in BOOLEAN
    PROVE LET h == HandedOver(s, broken)
          IN /\ Whole(h)
             /\ h.stage # s.stage => h.stage = "sources"
             /\ s.stage \in {"fanouts", "seeds"} /\ broken =>
                   /\ h.parked = Empty
                   /\ In(h.todo) = In(s.todo) \cup In(s.parked)
  <1>0. s \in Scheds /\ s.todo \in Queues /\ s.parked \in Queues
    BY DEF Whole, Scheds
  <1> DEFINE h == HandedOver(s, broken)
  <1>1. CASE s.stage = "basic" /\ In(s.todo) = {} /\ ~s.sourcesDone
    <2>1. h = [s EXCEPT !.sourcesDone = TRUE]
      BY <1>1 DEF HandedOver
    <2> HIDE DEF h
    <2>2. /\ h \in Scheds /\ h.todo = s.todo /\ h.parked = s.parked
          /\ h.deferred = s.deferred /\ h.focus = s.focus
          /\ h.stage = s.stage /\ h.outcome = s.outcome
      BY <1>0, <2>1 DEF Scheds
    <2>3. Whole(h)
      BY <2>2 DEF Whole, Known, Placed, Split, AtFocus
    <2> QED BY <1>1, <2>2, <2>3 DEF h
  <1>2. CASE s.stage = "basic" /\ In(s.todo) # {} /\ broken
    <2> DEFINE q == Of(In(s.todo), "generic")
    <2>1. h = [s EXCEPT !.todo = q, !.stage = "sources",
                        !.relocate = TRUE, !.recovery = FALSE,
                        !.outcome = IF s.sourcesDone THEN "sources restarted" ELSE @]
      BY <1>2 DEF HandedOver
    <2>2. q \in Queues /\ In(q) = In(s.todo)
      BY OfType, InOf, InType DEF Roles
    <2> HIDE DEF h, q
    <2>3. /\ h \in Scheds /\ h.todo = q /\ h.parked = s.parked
          /\ h.deferred = s.deferred /\ h.focus = s.focus
          /\ h.stage = "sources" /\ h.outcome \in {s.outcome, "sources restarted"}
      BY <1>0, <2>1, <2>2 DEF Scheds
    <2>4. Whole(h)
      BY <1>2, <2>2, <2>3 DEF Whole, Known, Placed, Split, AtFocus
    <2> QED BY <1>2, <2>3, <2>4 DEF h
  <1>3. CASE s.stage \in {"fanouts", "seeds"} /\ broken
    <2> DEFINE q == Merge(s.todo, s.parked)
    <2>1. h = [s EXCEPT !.todo = q, !.parked = Empty]
      BY <1>3 DEF HandedOver
    <2>2. q \in Queues /\ In(q) = In(s.todo) \cup In(s.parked)
      BY <1>0, MergeType, InMerge
    <2> HIDE DEF h, q
    <2>3. /\ h \in Scheds /\ h.todo = q /\ h.parked = Empty
          /\ h.deferred = s.deferred /\ h.focus = s.focus
          /\ h.stage = s.stage /\ h.outcome = s.outcome
      BY <1>0, <2>1, <2>2, EmptyType DEF Scheds
    <2>4. Whole(h)
      BY <1>3, <2>2, <2>3 DEF Whole, Known, Placed, Split, AtFocus
    <2> QED BY <1>3, <2>2, <2>3, <2>4 DEF h
  <1>4. CASE /\ ~(s.stage = "basic" /\ In(s.todo) = {} /\ ~s.sourcesDone)
             /\ ~(s.stage = "basic" /\ In(s.todo) # {} /\ broken)
             /\ ~(s.stage \in {"fanouts", "seeds"} /\ broken)
    <2>1. HandedOver(s, broken) = s
      BY <1>4 DEF HandedOver
    <2> QED BY <1>4, <2>1
  <1> QED BY <1>1, <1>2, <1>3, <1>4

\* When Fanouts may begin, every port has a trunk; those that wait for one find
\* a cut route to mend.
LEMMA FanoutStartsWhole ==
    ASSUME DesignAssumption, NEW s, Whole(s), NEW f \in FanoutStarts(s),
           s.stage \in {"fanouts", "seeds"} /\ batch.failed => f = s
    PROVE /\ Whole(f)
          /\ f = s \/ (f.stage \in {"fanouts", "seeds"} /\ Rooted(route, {}))
  <1> SUFFICES ASSUME f # s
               PROVE Whole(f) /\ f.stage \in {"fanouts", "seeds"} /\ Rooted(route, {})
    OBVIOUS
  <1> DEFINE parked == In(s.parked)
             waiting == {c \in parked : ~HasExit(route, c) /\ route[c] # "gap"}
             mends == {G \in SUBSET {c \in parked : route[c] = "gap"} :
                         /\ \A c \in G : Siblings(c) \cap G = {} /\ Siblings(c) \cap waiting # {}
                         /\ \A c \in waiting : Siblings(c) \cap G # {}}
             quiet == Moving(s) \/ In(s.todo) # {} \/ parked = {}
  <1>1. f \in IF quiet THEN {s} ELSE
               CASE waiting = {} -> {[s EXCEPT !.todo = s.parked, !.parked = Empty,
                                             !.stage = "fanouts", !.passes = 0]}
               [] waiting # {} /\ mends = {} -> {[s EXCEPT !.outcome = "missing trunk"]}
               [] OTHER -> {[s EXCEPT !.todo = Of(G, "generic"), !.parked = Only(@, Conns \ G),
                                      !.stage = "seeds"] : G \in mends}
    BY DEF FanoutStarts
  <1>2. s \in Scheds /\ s.parked \in Queues /\ s.stage \in {"basic", "fanouts", "seeds", "sources", "destinations"}
    BY DEF Whole, Scheds
  <1>3. ~Moving(s) /\ In(s.todo) = {}
    <2> HIDE DEF waiting, mends, quiet
    <2>1. ~quiet
      BY <1>1
    <2> QED BY <2>1 DEF quiet
  <1>4. Rooted(route, {})
    BY <1>2, <1>3 DEF Whole, Moving
  <1>5. Open(route) \subseteq parked /\ s.focus = NoCell /\ In(s.deferred) = {}
    BY <1>3 DEF Whole, Moving, Placed, Known
  <1>6. waiting # {} => mends # {}
    <2> SUFFICES ASSUME waiting # {} PROVE mends # {}
      OBVIOUS
    <2> DEFINE cand == {d \in parked : route[d] = "gap" /\ Siblings(d) \cap waiting # {}}
               pick(p) == CHOOSE d \in cand : From[d] = p
               G == {pick(From[c]) : c \in waiting}
    <2>1. ASSUME NEW c \in waiting PROVE pick(From[c]) \in cand /\ From[pick(From[c])] = From[c]
      <3>1. c \in Conns /\ ~HasExit(route, c) /\ route[c] # "gap"
        BY InType
      <3>2. PICK d \in Conns : From[d] = From[c] /\ route[d] \in {"done", "gap"}
        BY <1>4, <3>1 DEF Rooted, Trunk
      <3>3. route[d] = "gap"
        BY <3>1, <3>2 DEF HasExit, Done
      <3>4. d \in parked
        BY <1>5, <3>2, <3>3 DEF Open, Done
      <3>5. c \in Siblings(d)
        BY <3>1, <3>2, <3>3 DEF Siblings
      <3>6. d \in cand
        BY <3>3, <3>4, <3>5
      <3> HIDE DEF cand
      <3> QED BY <3>2, <3>6
    <2>2. \A e \in G : e \in cand /\ e = pick(From[e])
      <3> HIDE DEF cand, pick, waiting
      <3> SUFFICES ASSUME NEW c \in waiting
                   PROVE pick(From[c]) \in cand /\ pick(From[c]) = pick(From[pick(From[c])])
        OBVIOUS
      <3> QED BY <2>1
    <2>3. \A e \in G : Siblings(e) \cap G = {}
      <3> HIDE DEF cand, pick, G
      <3> QED BY <2>2 DEF Siblings
    <2>4. \A c \in waiting : Siblings(c) \cap G # {}
      <3> SUFFICES ASSUME NEW c \in waiting PROVE pick(From[c]) \in Siblings(c) \cap G
        OBVIOUS
      <3>1. pick(From[c]) \in cand /\ From[pick(From[c])] = From[c] /\ pick(From[c]) \in G
        <4> HIDE DEF pick, cand, waiting
        <4> QED BY <2>1
      <3>2. pick(From[c]) # c /\ pick(From[c]) \in Conns
        <4> HIDE DEF pick
        <4> QED BY <3>1, InType
      <3> HIDE DEF pick, G
      <3> QED BY <3>1, <3>2 DEF Siblings
    <2>5. G \in mends
      <3>1. G \subseteq {c \in parked : route[c] = "gap"}
        <4> HIDE DEF pick, G
        <4> QED BY <2>2
      <3>2. \A e \in G : Siblings(e) \cap waiting # {}
        <4> HIDE DEF pick, G, waiting
        <4> QED BY <2>2
      <3> HIDE DEF G, waiting
      <3> QED BY <2>3, <2>4, <3>1, <3>2
    <2> QED BY <2>5
  <1>7. CASE f = [s EXCEPT !.todo = s.parked, !.parked = Empty, !.stage = "fanouts", !.passes = 0]
    <2>1. /\ f \in Scheds /\ f.todo = s.parked /\ f.stage = "fanouts" /\ f.focus = NoCell
          /\ f.deferred = s.deferred /\ f.outcome = s.outcome
      BY <1>2, <1>5, <1>7, EmptyType, NoPasses DEF Scheds
    <2>2. Open(route) \subseteq Known(f)
      BY <1>5, <2>1 DEF Known
    <2> QED BY <1>4, <1>5, <2>1, <2>2 DEF Whole, Placed, Split
  <1>8. CASE \E G \in mends : f = [s EXCEPT !.todo = Of(G, "generic"), !.parked = Only(@, Conns \ G),
                                            !.stage = "seeds"]
    <2>1. PICK G \in mends : f = [s EXCEPT !.todo = Of(G, "generic"),
                                           !.parked = Only(@, Conns \ G), !.stage = "seeds"]
      BY <1>8
    <2>2. G \subseteq Conns
      BY <2>1, InType
    <2>3. Of(G, "generic") \in Queues /\ Only(s.parked, Conns \ G) \in Queues
      BY <1>2, OfType, OnlyType DEF Roles
    <2>4. In(Of(G, "generic")) = G /\ In(Only(s.parked, Conns \ G)) = parked \ G
      <3>1. In(Of(G, "generic")) = G \cap Conns /\ In(Only(s.parked, Conns \ G)) = parked \cap (Conns \ G)
        BY InOf, InOnly
      <3> QED BY <2>2, <3>1, InType
    <2>5. /\ f \in Scheds /\ f.todo = Of(G, "generic") /\ f.parked = Only(s.parked, Conns \ G)
          /\ f.stage = "seeds" /\ f.focus = NoCell
          /\ f.deferred = s.deferred /\ f.outcome = s.outcome
      BY <1>2, <1>5, <2>1, <2>3 DEF Scheds
    <2>6. Open(route) \subseteq Known(f)
      BY <1>5, <2>4, <2>5 DEF Known
    <2> QED BY <1>4, <1>5, <2>5, <2>6 DEF Whole, Placed, Split
  <1> HIDE DEF mends, waiting, quiet
  <1> QED BY <1>1, <1>6, <1>7, <1>8

\* The start of Moving destinations forgets no task.
LEMMA MovingStartsWhole ==
    ASSUME DesignAssumption, NEW s, Whole(s)
    PROVE Whole(MovingStarts(s)) /\ MovingStarts(s).stage \in {"sources", "destinations"}
          /\ (Moving(s) => MovingStarts(s).stage = s.stage)
  <1> DEFINE t == MovingStarts(s)
             q == Only(Merge(s.todo, s.deferred), Conns \ Done(route))
  <1>0. s \in Scheds /\ s.todo \in Queues /\ s.deferred \in Queues
    BY DEF Whole, Scheds
  <1>1. CASE Moving(s)
    <2>1. t = [s EXCEPT !.relocate = TRUE]
      BY <1>1 DEF MovingStarts
    <2> HIDE DEF t
    <2>2. /\ t \in Scheds /\ t.todo = s.todo /\ t.parked = s.parked
          /\ t.deferred = s.deferred /\ t.focus = s.focus
          /\ t.stage = s.stage /\ t.outcome = s.outcome
      BY <1>0, <2>1 DEF Scheds
    <2>3. Whole(t)
      BY <2>2 DEF Whole, Known, Placed, Split, AtFocus
    <2> QED BY <1>1, <2>2, <2>3 DEF t, Moving
  <1>2. CASE ~Moving(s)
    <2>1. q \in Queues /\ In(q) = (In(s.todo) \cup In(s.deferred)) \cap Open(route)
      <3>1. Merge(s.todo, s.deferred) \in Queues
            /\ In(Merge(s.todo, s.deferred)) = In(s.todo) \cup In(s.deferred)
        BY <1>0, MergeType, InMerge
      <3>2. In(q) = In(Merge(s.todo, s.deferred)) \cap (Conns \ Done(route))
        BY InOnly
      <3> QED BY <3>1, <3>2, OnlyType DEF Open
    <2>2. t = [s EXCEPT !.todo = q, !.deferred = Empty,
                        !.stage = "destinations", !.relocate = TRUE, !.passes = 0]
      BY <1>2 DEF MovingStarts
    <2> HIDE DEF t, q
    <2>3. /\ t \in Scheds /\ t.todo = q /\ t.parked = s.parked
          /\ t.focus = s.focus /\ t.stage = "destinations" /\ t.outcome = s.outcome
      BY <1>0, <2>1, <2>2, EmptyType, NoPasses DEF Scheds
    <2>4. s.focus = NoCell
      BY <1>2 DEF Whole, Placed, Moving
    <2>5. Open(route) \subseteq Known(t)
      BY <2>1, <2>3 DEF Whole, Known
    <2>6. Whole(t)
      BY <2>3, <2>4, <2>5 DEF Whole, Placed, Split
    <2> QED BY <1>2, <2>3, <2>6 DEF t
  <1> QED BY <1>1, <1>2

\* The last audit finds by their bindings what no queue has.
LEMMA AuditedWhole ==
    ASSUME NEW s, Whole(s)
    PROVE Whole(Audited(s)) /\ Audited(s).stage \in {s.stage, "destinations"}
  <1> DEFINE t == Audited(s)
  <1>1. CASE t = s
    BY <1>1
  <1>2. CASE t # s
    <2>1. /\ In(s.todo) \cup In(s.parked) \cup In(s.deferred) = {} /\ s.focus = NoCell
          /\ t = [s EXCEPT !.todo = Rebuilt(route, Unmended), !.stage = "destinations",
                           !.relocate = FALSE]
      BY <1>2 DEF Audited
    <2> HIDE DEF t
    <2>2. Rebuilt(route, Unmended) \in Queues
      BY RebuiltType
    <2>3. /\ t \in Scheds /\ t.focus = NoCell /\ t.stage = "destinations"
          /\ t.outcome = s.outcome
      BY <2>1, <2>2 DEF Whole, Scheds
    <2>4. Open(route) = {}
      BY <2>1 DEF Whole, Known
    <2>5. Whole(t)
      BY <2>3, <2>4 DEF Whole, Placed, Split
    <2> QED BY <2>3, <2>5 DEF t
  <1> QED BY <1>1, <1>2

\* Whatever ends the pass, the ports of the stage it leads to have their trunks.
LEMMA PassEndsWhole ==
    ASSUME DesignAssumption, NEW s, Whole(s), s.stage = sched.stage,
           batch.failed => ~Moving(sched),
           NEW expired \in BOOLEAN, NEW again \in BOOLEAN,
           NEW e \in PassEnds(s, expired, again)
    PROVE /\ Whole(e)
          /\ e.stage \in {"fanouts", "seeds"} => Rooted(route, {})
  <1> DEFINE broken == batch.failed \/ expired
             handed == HandedOver(Settled(s), broken)
             moves == \/ s.stage \in {"fanouts", "seeds"} /\ broken
                      \/ Stuck(s)
                      \/ again /\ Moving(handed) /\ In(handed.todo) # {}
  <1>1. PICK f \in FanoutStarts(handed) : e = Audited(IF moves THEN MovingStarts(f) ELSE f)
    BY DEF PassEnds
  <1>2. Whole(Settled(s)) /\ (s.stage # "sources" => Settled(s).stage = s.stage)
        /\ (s.stage = "sources" => Settled(s).stage \in {"basic", "sources"})
    <2>1. Whole(Settled(s))
      BY SettledWhole
    <2>2. s \in Scheds
      BY DEF Whole
    <2> DEFINE free == IF s.focus # NoCell /\ In(s.todo) = {} THEN Restored(s, route) ELSE s
    <2>3. free \in Scheds /\ free.stage = s.stage
      BY <2>2, RestoredType DEF SameStage
    <2>4. Settled(s) = IF free.stage = "sources" /\ In(free.todo) = {}
                       THEN [free EXCEPT !.sourcesDone = TRUE, !.stage = "basic", !.relocate = FALSE]
                       ELSE free
      BY DEF Settled
    <2> HIDE DEF free
    <2>5. Settled(s).stage = s.stage \/ (s.stage = "sources" /\ Settled(s).stage = "basic")
      BY <2>3, <2>4 DEF Scheds
    <2> QED BY <2>1, <2>5
  <1>3. broken \in BOOLEAN
    BY DEF Whole
  <1>4. /\ Whole(handed)
        /\ handed.stage # Settled(s).stage => handed.stage = "sources"
        /\ Settled(s).stage \in {"fanouts", "seeds"} /\ broken =>
              /\ handed.parked = Empty
              /\ In(handed.todo) = In(Settled(s).todo) \cup In(Settled(s).parked)
    BY <1>2, <1>3, HandedOverWhole
  <1> HIDE DEF handed
  <1>5. handed.stage \in {"fanouts", "seeds"} => handed.stage = s.stage
    BY <1>2, <1>4
  <1>6. handed.stage \in {"fanouts", "seeds"} /\ batch.failed => f = handed
    <2> SUFFICES ASSUME handed.stage \in {"fanouts", "seeds"}, batch.failed PROVE f = handed
      OBVIOUS
    <2>1. handed.parked = Empty
      BY <1>2, <1>4, <1>5
    <2>2. In(handed.parked) = {}
      BY <2>1, EmptyHasNone
    <2>3. FanoutStarts(handed) = {handed}
      BY <2>2 DEF FanoutStarts
    <2> QED BY <1>1, <2>3
  <1>7. Whole(f) /\ (f = handed \/ (f.stage \in {"fanouts", "seeds"} /\ Rooted(route, {})))
    BY <1>1, <1>4, <1>6, FanoutStartsWhole
  <1> DEFINE g == IF moves THEN MovingStarts(f) ELSE f
  <1>8. Whole(g) /\ (g.stage \in {"fanouts", "seeds"} => Rooted(route, {}))
    <2>1. CASE moves
      BY <1>7, <2>1, MovingStartsWhole
    <2>2. CASE ~moves
      <3>1. CASE f # handed
        BY <1>7, <2>2, <3>1
      <3>2. CASE f = handed /\ handed.stage \in {"fanouts", "seeds"}
        <4>1. ~batch.failed
          BY <1>5, <2>2, <3>2
        <4> QED BY <1>7, <2>2, <3>2, <4>1 DEF Whole
      <3>3. CASE f = handed /\ handed.stage \notin {"fanouts", "seeds"}
        BY <1>7, <2>2, <3>3
      <3> QED BY <3>1, <3>2, <3>3
    <2> QED BY <2>1, <2>2
  <1> HIDE DEF g
  <1>9. Whole(Audited(g)) /\ Audited(g).stage \in {g.stage, "destinations"}
    BY <1>8, AuditedWhole
  <1> QED BY <1>1, <1>8, <1>9 DEF g

\* The end of a pass keeps the invariant.
LEMMA EndPassKeeps == ASSUME DesignAssumption, Star, SInv, EndPass PROVE Kept'
  <1>1. PICK expired \in BOOLEAN, again \in BOOLEAN :
          /\ expired => ~Moving(sched)
          /\ again => Moving(sched)
          /\ left = {} \/ batch.failed \/ expired
          /\ LET s == Absorbed(sched)
             IN IF FocusUnfinished(s)
                THEN sched' = [s EXCEPT !.relocate = again,
                                 !.todo = Rebuilt(route, Unmended \cap Incident(s.focus))]
                ELSE sched' \in PassEnds(s, expired, again)
    BY DEF EndPass
  <1>2. /\ phase = "batch" /\ sched.outcome = "running"
        /\ pending' = Empty /\ phase' = "head" /\ left' = {} /\ batch' = NoBatch /\ route' = route
    BY DEF EndPass
  <1>3. Running
    BY <1>2 DEF SInv
  <1>4. (batch.failed => ~Moving(sched)) /\ (Moving(sched) => left = {})
    BY <1>1, <1>3 DEF Running
  <1> DEFINE s == Absorbed(sched)
  <1>5. Whole(s) /\ s.stage = sched.stage
    BY <1>2, <1>4, AbsorbedWhole
  <1>6. Whole(sched') /\ (sched'.stage \in {"fanouts", "seeds"} => Rooted(route, {}))
    <2> HIDE DEF s
    <2>1. CASE FocusUnfinished(s)
      <3> DEFINE q == Rebuilt(route, Unmended \cap Incident(s.focus))
      <3>1. sched' = [s EXCEPT !.relocate = again, !.todo = q]
        BY <1>1, <2>1 DEF s
      <3>2. q \in Queues /\ In(q) = Unmended \cap Incident(s.focus)
        <4>1. In(q) = (Unmended \cap Incident(s.focus)) \cap Conns
          BY InRebuilt
        <4> QED BY <4>1, RebuiltType DEF Unmended, Bound
      <3> HIDE DEF q
      <3>3. s \in Scheds /\ s.focus # NoCell /\ In(s.todo) = {} /\ s.stage = "destinations"
            /\ AtFocus(s) # {}
        BY <1>5, <2>1 DEF Whole, FocusUnfinished, Placed
      <3>4. /\ sched' \in Scheds /\ sched'.todo = q /\ sched'.parked = s.parked
            /\ sched'.deferred = s.deferred /\ sched'.focus = s.focus
            /\ sched'.stage = s.stage /\ sched'.outcome = s.outcome
        BY <3>1, <3>2, <3>3 DEF Scheds
      <3>5. Open(route) \subseteq Known(sched')
        BY <1>5, <3>3, <3>4 DEF Whole, Known
      <3>6. In(sched'.todo) \subseteq AtFocus(sched') /\ AtFocus(sched') # {}
        <4>1. PICK e \in Conns : To[e] = s.focus
          BY <3>3 DEF AtFocus
        <4>2. Incident(s.focus) \subseteq AtFocus(sched')
          BY <3>4, <4>1 DEF Incident, AtFocus, Star
        <4> QED BY <3>2, <3>4, <4>1, <4>2 DEF AtFocus
      <3> QED BY <1>5, <3>3, <3>4, <3>5, <3>6 DEF Whole, Placed, Split
    <2>2. CASE ~FocusUnfinished(s)
      <3>1. sched' \in PassEnds(s, expired, again)
        BY <1>1, <2>2 DEF s
      <3> QED BY <1>4, <1>5, <3>1, PassEndsWhole
    <2> QED BY <2>1, <2>2
  <1>7. Running'
    <2>1. Active' = In(sched'.todo) /\ ~batch'.failed /\ In(pending') = {}
      BY <1>2, EmptyHasNone DEF Active, NoBatch
    <2>2. \A c \in Conns : pending'[c] # "generic"
      BY <1>2 DEF Empty
    <2>3. Open(route)' = Open(route) /\ Known(sched)' = Known(sched') /\ Placed(sched)' = Placed(sched')
          /\ Rooted(route, Active)' = Rooted(route, Active') /\ OnePer(Active)' = OnePer(Active')
          /\ Split(sched)' = Split(sched')
      BY <1>2 DEF Open, Done, Known, Placed, AtFocus, Rooted, Trunk, OnePer, Split
    <2> QED BY <1>2, <1>6, <2>1, <2>2, <2>3 DEF Running, Whole
  <1>8. TrunkBarrier'
    BY <1>2, <1>6 DEF TrunkBarrier, Whole, Rooted, Trunk, Siblings
  <1> QED BY <1>6, <1>7, <1>8 DEF Kept, ReturnedComplete, Whole

---------------------------------------------------------------------------
(* The theorems *)

\* At the start a port has a trunk or exactly one seed task.
LEMMA InitKeeps == ASSUME DesignAssumption, Init PROVE SInv
  <1>1. PICK old \in SUBSET Conns :
        \E seeds \in SUBSET (Conns \ old) :
            LET trunk == [c \in Conns |-> IF c \in old THEN "done" ELSE "unbound"]
            IN /\ \A c \in seeds : Siblings(c) \cap seeds = {}
               /\ \A c \in Conns : HasExit(trunk, c) \/ c \in seeds \/ Siblings(c) \cap seeds # {}
               /\ route = trunk
               /\ sched = [todo |-> Of(seeds, "generic"),
                           parked |-> Of(Conns \ (old \cup seeds), "fanout"),
                           deferred |-> Empty, stage |-> "basic", sourcesDone |-> FALSE,
                           relocate |-> FALSE, recovery |-> FALSE, focus |-> NoCell,
                           passes |-> 0, outcome |-> "running"]
               /\ pending = Empty /\ phase = "head" /\ left = {} /\ batch = NoBatch
    BY DEF Init
  <1>2. PICK seeds \in SUBSET (Conns \ old) :
        LET trunk == [c \in Conns |-> IF c \in old THEN "done" ELSE "unbound"]
        IN /\ \A c \in seeds : Siblings(c) \cap seeds = {}
           /\ \A c \in Conns : HasExit(trunk, c) \/ c \in seeds \/ Siblings(c) \cap seeds # {}
           /\ route = trunk
           /\ sched = [todo |-> Of(seeds, "generic"),
                       parked |-> Of(Conns \ (old \cup seeds), "fanout"),
                       deferred |-> Empty, stage |-> "basic", sourcesDone |-> FALSE,
                       relocate |-> FALSE, recovery |-> FALSE, focus |-> NoCell,
                       passes |-> 0, outcome |-> "running"]
           /\ pending = Empty /\ phase = "head" /\ left = {} /\ batch = NoBatch
    BY <1>1
  <1>3. In(sched.todo) = seeds /\ In(sched.parked) = Conns \ (old \cup seeds) /\ In(sched.deferred) = {}
    <2>1. seeds \subseteq Conns /\ Conns \ (old \cup seeds) \subseteq Conns
      BY <1>2
    <2>2. In(Of(seeds, "generic")) = seeds
      BY <2>1 DEF In, Of
    <2>3. In(Of(Conns \ (old \cup seeds), "fanout")) = Conns \ (old \cup seeds)
      BY <2>1, InOf
    <2> QED BY <1>2, <2>2, <2>3, EmptyHasNone
  <1>4. Open(route) \subseteq Known(sched)
    BY <1>2, <1>3 DEF Open, Done, Known
  <1>5. Active = seeds
    BY <1>2, <1>3 DEF Active
  <1>6. OnePer(seeds)
    BY <1>2 DEF OnePer, Siblings
  <1>7. Rooted(route, seeds)
    <2> SUFFICES ASSUME NEW c \in Conns PROVE Trunk(route, c) \/ \E d \in seeds : From[d] = From[c]
      BY DEF Rooted
    <2>1. HasExit(route, c) \/ c \in seeds \/ Siblings(c) \cap seeds # {}
      BY <1>2
    <2> QED BY <2>1 DEF HasExit, Done, Trunk, Siblings
  <1>8. Running
    <2>1. sched.focus = NoCell /\ sched.stage = "basic" /\ ~batch.failed
          /\ \A c \in Conns : pending[c] # "generic"
      BY <1>2 DEF NoBatch, Empty
    <2> QED BY <1>2, <1>3, <1>4, <1>5, <1>6, <1>7, <2>1 DEF Running, Placed, Split
  <1>9. TrunkBarrier /\ ReturnedComplete
    BY <1>2 DEF TrunkBarrier, ReturnedComplete
  <1> QED BY <1>8, <1>9, InitInv DEF SInv

\* Every step of the loop keeps the invariant in a star.
LEMMA StepKeeps == DesignAssumption /\ Star /\ SInv /\ [Next]_vars => SInv'
  <1> SUFFICES ASSUME DesignAssumption, Star, SInv, [Next]_vars PROVE SInv'
    OBVIOUS
  <1>1. IInv'
    BY StepInv DEF SInv
  <1>2. Kept'
    <2>1. CASE StartPass \/ EndPass \/ Finish \/ Abandon
      BY <2>1, StartPassKeeps, EndPassKeeps, FinishKeeps, AbandonKeeps
    <2>2. CASE \E c \in Conns : CompleteTask(c) \/ ParkTask(c) \/ FailTask(c) \/ RecoverTask(c)
      BY <2>2, CompleteTaskKeeps, ParkTaskKeeps, FailTaskKeeps, RecoverTaskKeeps
    <2>3. CASE EnterSources \/ LeaveSources
      BY <2>3, EnterSourcesKeeps, LeaveSourcesKeeps
    <2>4. CASE \E c \in Conns : PassSource(c) \/ WireSource(c) \/ ShiftSource(c)
      BY <2>4, PassSourceKeeps, WireSourceKeeps, ShiftSourceKeeps
    <2>5. CASE PickDeferred \/ NothingToMove \/ FocusStuck
      BY <2>5, PickDeferredKeeps, NothingToMoveKeeps, FocusStuckKeeps
    <2>6. CASE \E c \in Conns : RepairFrozen(c) \/ WireSink(c) \/ ShiftSink(c)
      BY <2>6, RepairFrozenKeeps, WireSinkKeeps, ShiftSinkKeeps
    <2>7. CASE UNCHANGED vars
      BY <2>7 DEF vars, SInv, Kept, Running, TrunkBarrier, ReturnedComplete, Open, Done, Known,
                  Active, Placed, AtFocus, Split, Moving, OnePer, Rooted, Trunk
    <2> QED BY <2>1, <2>2, <2>3, <2>4, <2>5, <2>6, <2>7 DEF Next
  <1> QED BY <1>1, <1>2 DEF SInv, Kept

\* In every star the queues, the ports and the focus stay in order.
THEOREM StarInductive == Star => (Spec => []SInv)
  <1> SUFFICES ASSUME Star PROVE Spec => []SInv
    OBVIOUS
  <1>1. DesignAssumption /\ Init => SInv
    BY InitKeeps
  <1>2. SInv /\ [Next]_vars => SInv'
    BY DesignAssumption, StepKeeps
  <1> QED BY <1>1, <1>2, DesignAssumption, PTL DEF Spec

\* Between two passes every unfinished connection is in a queue: no completion,
\* cut, tear, relocation or hand-over drops a task.
THEOREM NothingIsLost == Star => (Spec => []NothingLost)
  <1> SUFFICES ASSUME Star PROVE Spec => []NothingLost
    OBVIOUS
  <1>1. SInv => NothingLost
    BY HeadKeeps DEF NothingLost, Open, Known, Done
  <1> QED BY <1>1, StarInductive, PTL

\* routeDesign returns normally only with every connection routed.
THEOREM ReturnsComplete == Star => (Spec => []ReturnedComplete)
  <1> SUFFICES ASSUME Star PROVE Spec => []ReturnedComplete
    OBVIOUS
  <1>1. SInv => ReturnedComplete
    BY DEF SInv
  <1> QED BY <1>1, StarInductive, PTL

\* Fanouts begins, and stays until a failure, with a trunk on every port; a
\* port without one always finds a cut route to mend.
THEOREM TrunksFirst == Star => (Spec => []TrunkBarrier)
  <1> SUFFICES ASSUME Star PROVE Spec => []TrunkBarrier
    OBVIOUS
  <1>1. SInv => TrunkBarrier
    BY DEF SInv
  <1> QED BY <1>1, StarInductive, PTL
=============================================================================
