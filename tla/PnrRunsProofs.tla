--------------------------- MODULE PnrRunsProofs ---------------------------
(***************************************************************************)
(* Proofs about PnrRuns: for every design and every plan that puts each    *)
(* cell in exactly one run, however placement and routing behave.          *)
(***************************************************************************)
EXTENDS PnrRuns, TLAPS

\* The strengthening that is inductive, one part per place run() can be in.
\* RunsSettled alone is not: it says nothing of the states in between.
Untouched ==
    stage \in {"called", "refused"} =>
        /\ number = 1 /\ succeeded = {} /\ counted = {}
        /\ pending = {} /\ completed = {} /\ fixed = {}
        /\ mode = saved
        /\ failed = (stage = "refused")

AtLoop ==
    stage = "loop" =>
        /\ ~failed /\ mode.preserve = TRUE
        /\ succeeded = 1..(number - 1)
        /\ pending = Cells \ RunsBefore(number)
        /\ RunsSettled

InRun ==
    stage \in {"placing", "routing"} =>
        /\ ~failed /\ mode.preserve = TRUE
        /\ number \in DOMAIN Plan
        /\ pending = Cells \ RunsBefore(number + 1)
        /\ succeeded = 1..(number - 1)
        /\ counted = RunsBefore(number)

AfterReturn ==
    stage = "returned" => /\ mode = saved
                          /\ failed => LaterRunsPending
                          /\ ~failed => FinalComplete

Shadowed ==
    \A c \in Cells : bunch[c] = "shadow" =>
        stage \in {"placing", "routing"} /\ c \in Plan[number]

IInv == TypeOK /\ Untouched /\ AtLoop /\ InRun /\ AfterReturn /\ Shadowed

\* Plan is a sequence of sets of cells.
LEMMA PlanFacts ==
    /\ Len(Plan) \in Nat /\ DOMAIN Plan = 1..Len(Plan)
    /\ \A i \in DOMAIN Plan : Plan[i] \subseteq Cells
BY PlanAssumption

\* The cells of the runs before n + 1 are those before n and run n's own.
LEMMA NextRun ==
    ASSUME NEW n \in DOMAIN Plan
    PROVE  RunsBefore(n + 1) = RunsBefore(n) \cup Plan[n]
<1>1. n \in Nat /\ (n + 1) - 1 = n /\ n \in 1..n
  BY PlanFacts
<1>2. 1..n = (1..(n - 1)) \cup {n}
  BY <1>1
<1>3. QED
  BY <1>1, <1>2 DEF RunsBefore

\* Behind the last run every cell has been admitted.
LEMMA AllRuns == RunsBefore(Len(Plan) + 1) = Cells
BY PlanAssumption, PlanFacts DEF RunsBefore

\* Before the call nothing is admitted or borrowed.
LEMMA InitInv == Init => IInv
<1> SUFFICES ASSUME Init PROVE IInv
  OBVIOUS
<1>1. TypeOK
  <2>1. site \in [Cells -> Sites \cup {NoSite}]
    <3>1. PICK bound \in {{}, Cells \ Placeable, Cells} : \E at \in [bound -> Sites] :
             site = [c \in Cells |-> IF c \in bound THEN at[c] ELSE NoSite]
      BY DEF Init
    <3>2. PICK at \in [bound -> Sites] :
             site = [c \in Cells |-> IF c \in bound THEN at[c] ELSE NoSite]
      BY <3>1
    <3>3. \A c \in Cells : (IF c \in bound THEN at[c] ELSE NoSite) \in Sites \cup {NoSite}
      BY <3>2
    <3>4. QED
      BY <3>2, <3>3
  <2>2. routed \subseteq Conns /\ bunch \in [Cells -> {"none", "free", "fixed", "shadow"}]
    BY DEF Init
  <2>3. number \in 1..(Len(Plan) + 1) /\ failed \in BOOLEAN
    <3>1. number = 1 /\ failed = FALSE
      BY DEF Init
    <3>2. 1 \in 1..(Len(Plan) + 1)
      BY PlanFacts
    <3>3. QED
      BY <3>1, <3>2
  <2>4. /\ stage \in {"called", "loop", "placing", "routing", "returned", "refused"}
        /\ succeeded \subseteq DOMAIN Plan /\ counted \subseteq Cells
        /\ pending \subseteq Cells /\ completed \subseteq Cells /\ fixed \subseteq Cells
    BY DEF Init
  <2>5. mode \in [preserve : BOOLEAN, aware : BOOLEAN] /\ saved = mode
    BY DEF Init
  <2>6. QED
    BY <2>1, <2>2, <2>3, <2>4, <2>5 DEF TypeOK
<1>2. Untouched /\ AtLoop /\ InRun /\ AfterReturn /\ Shadowed
  BY DEF Init, Untouched, AtLoop, InRun, AfterReturn, Shadowed
<1>3. QED
  BY <1>1, <1>2 DEF IInv

\* Every step keeps the types; counting a run rests on its being in progress.
LEMMA StepTypes == TypeOK /\ InRun /\ [Next]_vars => TypeOK'
<1> SUFFICES ASSUME TypeOK, InRun, [Next]_vars PROVE TypeOK'
  OBVIOUS
<1> USE PlanFacts
<1>1. CASE Refuse
  BY <1>1 DEF Refuse, TypeOK
<1>2. CASE Start
  BY <1>2 DEF Start, PreservedMode, TypeOK
<1>3. CASE Admit
  BY <1>3 DEF Admit, TypeOK
<1>4. CASE PlacementFails \/ RoutingFails \/ ValidationFails
  BY <1>4 DEF PlacementFails, RoutingFails, ValidationFails, Abort, RestoredBunches,
              ReturnedMode, TypeOK
<1>5. CASE BeginRouting
  BY <1>5 DEF BeginRouting, TypeOK
<1>6. ASSUME NEW c \in Cells, Pack(c) \/ Refine(c) \/ Relocate(c) PROVE TypeOK'
  BY <1>6, DesignAssumption DEF Pack, Refine, Relocate, Packable, Free, Eligible, TypeOK
<1>7. ASSUME NEW k \in Conns, Connect(k) \/ Cut(k) PROVE TypeOK'
  BY <1>7 DEF Connect, Cut, TypeOK
<1>8. CASE FreezeFails
  BY <1>8 DEF FreezeFails, Abort, Admitted, RestoredBunches, ReturnedMode, TypeOK
<1>9. CASE Complete \/ CallbackFails
  <2>1. Frozen /\ number \in DOMAIN Plan
    BY <1>9 DEF Complete, CallbackFails, Frozen, InRun
  <2>2. /\ counted' \subseteq Cells /\ succeeded' \subseteq DOMAIN Plan
        /\ completed' \subseteq Cells /\ fixed' \subseteq Cells
        /\ bunch' \in [Cells -> {"none", "free", "fixed", "shadow"}]
    BY <2>1 DEF Frozen, Admitted, RestoredBunches, TypeOK
  <2>3. number' \in 1..(Len(Plan) + 1)
    BY <1>9, <2>1 DEF Complete, CallbackFails, NextNumber, TypeOK
  <2>4. QED
    BY <1>9, <2>2, <2>3 DEF Complete, CallbackFails, ReturnedMode, TypeOK
<1>10. CASE Return
  BY <1>10 DEF Return, ReturnedMode, TypeOK
<1>11. CASE UNCHANGED vars
  BY <1>11 DEF vars, TypeOK
<1>12. QED
  BY <1>1, <1>2, <1>3, <1>4, <1>5, <1>6, <1>7, <1>8, <1>9, <1>10, <1>11
  DEF Next, Placing, Routing, Closing

\* Every step that is neither the start nor the end of a run leaves the
\* stage, the accounting and the modes as they are.
EngineStep ==
    \/ \E c \in Cells : Pack(c) \/ Refine(c) \/ Relocate(c)
    \/ \E k \in Conns : Connect(k) \/ Cut(k)

\* An engine works in its own stage and edits cells and connections only.
LEMMA EngineSteps ==
    ASSUME EngineStep
    PROVE  /\ stage \in {"placing", "routing"}
           /\ UNCHANGED <<stage, number, failed, succeeded, counted, pending, fixed,
                          bunch, mode, saved>>
BY DEF EngineStep, Pack, Refine, Relocate, Connect, Cut

\* The runs are admitted one by one, in order.
LEMMA StepInRun == IInv /\ [Next]_vars => InRun'
<1> SUFFICES ASSUME IInv, [Next]_vars PROVE InRun'
  OBVIOUS
<1> USE DEF IInv
<1>1. CASE Admit
  <2>1. number \in DOMAIN Plan
    BY <1>1, PlanFacts DEF Admit, MoreRuns, TypeOK
  <2>2. RunsBefore(number + 1) = RunsBefore(number) \cup Plan[number]
    BY <2>1, NextRun
  <2>3. pending' = Cells \ RunsBefore(number + 1)
    BY <1>1, <2>2 DEF Admit, AtLoop
  <2>4. counted = RunsBefore(number)
    BY <1>1 DEF Admit, AtLoop, RunsSettled
  <2>5. QED
    BY <1>1, <2>1, <2>3, <2>4 DEF Admit, AtLoop, InRun, RunsBefore
<1>2. CASE BeginRouting
  BY <1>2 DEF BeginRouting, InRun, RunsBefore, TypeOK
<1>3. CASE EngineStep
  BY <1>3, EngineSteps DEF InRun, RunsBefore
<1>4. ASSUME Refuse \/ Start \/ Return \/ PlacementFails \/ RoutingFails \/ Closing
      PROVE  stage' \notin {"placing", "routing"}
  BY <1>4 DEF Refuse, Start, Return, PlacementFails, RoutingFails, Closing, ValidationFails,
              FreezeFails, Complete, CallbackFails, Abort
<1>5. CASE UNCHANGED vars
  BY <1>5 DEF vars, InRun, RunsBefore
<1>6. QED
  BY <1>1, <1>2, <1>3, <1>4, <1>5 DEF Next, Placing, Routing, EngineStep, InRun

\* Before the first change nothing of the call is visible.
LEMMA StepUntouched == IInv /\ [Next]_vars => Untouched'
<1> SUFFICES ASSUME IInv, [Next]_vars, stage' \in {"called", "refused"} PROVE Untouched'
  BY DEF Untouched
<1>1. Refuse \/ UNCHANGED vars
  BY EngineSteps DEF Next, Placing, Routing, Closing, EngineStep, Start, Admit, Return, PlacementFails,
     BeginRouting, RoutingFails, ValidationFails, FreezeFails, Complete, CallbackFails, Abort
<1>2. QED
  BY <1>1 DEF IInv, Untouched, Refuse, vars

\* Only a finished run, or the start, comes back to the loop head.
LEMMA StepAtLoop == IInv /\ [Next]_vars => AtLoop'
<1> SUFFICES ASSUME IInv, [Next]_vars, stage' = "loop" PROVE AtLoop'
  BY DEF AtLoop
<1> USE DEF IInv
<1>1. Start \/ Complete \/ UNCHANGED vars
  BY EngineSteps DEF Next, Placing, Routing, Closing, EngineStep, Refuse, Admit, Return, PlacementFails,
     BeginRouting, RoutingFails, ValidationFails, FreezeFails, CallbackFails, Abort
<1>2. CASE Start
  <2>1. number' = 1 /\ RunsBefore(1) = {} /\ 1..(number' - 1) = {}
    BY <1>2 DEF Start, Untouched, RunsBefore
  <2>2. Admitted' = {} /\ Eligible' = {}
    BY <1>2, DesignAssumption DEF Start, Admitted, Eligible
  <2>3. QED
    BY <1>2, <2>1, <2>2 DEF Start, Untouched, PreservedMode, AtLoop, RunsSettled, RunsBefore, TypeOK
<1>3. CASE Complete
  <2>1. Frozen /\ number \in DOMAIN Plan
    BY <1>3 DEF Complete, Frozen, InRun
  <2>2. number' = number + 1 /\ RunsBefore(number') = RunsBefore(number) \cup Plan[number]
    BY <1>3, <2>1, NextRun DEF Complete, NextNumber
  <2>3. pending' = Cells \ RunsBefore(number') /\ Admitted' = Admitted
    BY <1>3, <2>1, <2>2 DEF Complete, Frozen, InRun, Admitted
  <2>4. Admitted = RunsBefore(number')
    BY <2>2, <2>1, <1>3, PlanFacts DEF Admitted, InRun, Frozen, TypeOK
  <2>5. counted' = RunsBefore(number') /\ succeeded' = 1..(number' - 1)
    BY <1>3, <2>1, <2>2, PlanFacts DEF Frozen, InRun
  <2>6. Eligible' = Eligible /\ Eligible \subseteq Direct \cup routed
    BY <1>3, <2>3 DEF Complete, Frozen, Unrouted, Eligible
  <2>7. \A c \in Admitted' : site'[c] # NoSite
    BY <1>3, <2>3 DEF Complete, Frozen
  <2>8. completed' = Admitted' /\ Admitted' \subseteq fixed'
    BY <1>3, <2>3 DEF Complete, Frozen
  <2>9. failed' = FALSE /\ mode'.preserve = TRUE /\ routed' = routed
    BY <1>3 DEF Complete, Frozen, InRun, TypeOK
  <2>10. RunsSettled'
    BY <2>3, <2>4, <2>5, <2>6, <2>7, <2>8, <2>9 DEF RunsSettled, RunsBefore
  <2>11. QED
    BY <2>3, <2>5, <2>9, <2>10 DEF AtLoop, RunsBefore
<1>4. CASE UNCHANGED vars
  BY <1>4 DEF vars, AtLoop, RunsSettled, RunsBefore, Admitted, Eligible
<1>5. QED
  BY <1>1, <1>2, <1>3, <1>4

\* Every way out of run() leaves the plan's accounting consistent.
LEMMA StepReturn == IInv /\ [Next]_vars => AfterReturn'
<1> SUFFICES ASSUME IInv, [Next]_vars, stage' = "returned" PROVE AfterReturn'
  BY DEF AfterReturn
<1> USE DEF IInv
<1>1. \/ \E frozen \in SUBSET Cells : Abort(frozen) /\ stage \in {"placing", "routing"}
      \/ CallbackFails \/ Return \/ UNCHANGED vars
  BY EngineSteps DEF Next, Placing, Routing, Closing, EngineStep, Refuse, Start, Admit, PlacementFails,
     BeginRouting, RoutingFails, ValidationFails, FreezeFails, Complete, Admitted
<1>2. ASSUME NEW frozen \in SUBSET Cells, Abort(frozen), stage \in {"placing", "routing"}
      PROVE  AfterReturn'
  <2>1. pending' = Cells \ RunsBefore(number' + 1) /\ counted' = RunsBefore(number')
        /\ succeeded' = 1..(number' - 1)
    BY <1>2 DEF Abort, InRun, RunsBefore
  <2>2. LaterRunsPending'
    BY <2>1 DEF LaterRunsPending, RunsBefore
  <2>3. QED
    BY <1>2, <2>2 DEF Abort, ReturnedMode, AfterReturn
<1>3. CASE CallbackFails
  <2>1. number \in DOMAIN Plan /\ stage = "routing"
    BY <1>3 DEF CallbackFails, Frozen, InRun
  <2>2. RunsBefore(number + 1) = RunsBefore(number) \cup Plan[number]
    BY <2>1, NextRun
  <2>3. counted' = RunsBefore(number' + 1) /\ pending' = Cells \ RunsBefore(number' + 1)
    BY <1>3, <2>1, <2>2 DEF CallbackFails, Frozen, InRun, RunsBefore
  <2>4. succeeded' = 1..number' /\ number' \in Nat /\ (number' + 1) - 1 = number'
    BY <1>3, <2>1, PlanFacts DEF CallbackFails, Frozen, InRun
  <2>5. counted' = UNION {Plan[i] : i \in succeeded'}
    BY <2>3, <2>4 DEF RunsBefore
  <2>6. LaterRunsPending'
    BY <2>3, <2>4, <2>5 DEF LaterRunsPending, RunsBefore
  <2>7. QED
    BY <1>3, <2>6 DEF CallbackFails, ReturnedMode, AfterReturn
<1>4. CASE Return
  <2>1. number = Len(Plan) + 1 /\ RunsBefore(number) = Cells
    BY <1>4, AllRuns, PlanFacts DEF Return, MoreRuns, TypeOK
  <2>2. pending = {} /\ Admitted = Cells /\ Eligible = Conns
    BY <1>4, <2>1, DesignAssumption DEF Return, AtLoop, Admitted, Eligible
  <2>3. succeeded = DOMAIN Plan
    BY <1>4, <2>1, PlanFacts DEF Return, AtLoop
  <2>4. FinalComplete'
    BY <1>4, <2>2, <2>3 DEF Return, AtLoop, RunsSettled, FinalComplete
  <2>5. QED
    BY <1>4, <2>4 DEF Return, AtLoop, ReturnedMode, AfterReturn
<1>5. CASE UNCHANGED vars
  BY <1>5 DEF vars, AfterReturn, LaterRunsPending, FinalComplete, RunsBefore
<1>6. QED
  BY <1>1, <1>2, <1>3, <1>4, <1>5

\* Shadow bunches exist for the admitted run only, and die with it.
LEMMA StepShadowed == IInv /\ [Next]_vars => Shadowed'
<1> SUFFICES ASSUME IInv, [Next]_vars PROVE Shadowed'
  OBVIOUS
<1> USE DEF IInv
<1>1. CASE Admit
  BY <1>1 DEF Admit, Shadowed
<1>2. CASE EngineStep
  BY <1>2, EngineSteps DEF Shadowed
<1>3. CASE BeginRouting
  BY <1>3 DEF BeginRouting, Shadowed
<1>4. CASE PlacementFails \/ RoutingFails \/ ValidationFails \/ FreezeFails
  <2>1. bunch' = RestoredBunches(FALSE)
    BY <1>4 DEF PlacementFails, RoutingFails, ValidationFails, FreezeFails, Abort
  <2>2. QED
    BY <2>1 DEF RestoredBunches, Shadowed
<1>5. CASE Complete \/ CallbackFails
  <2>1. bunch' = RestoredBunches(TRUE)
    BY <1>5 DEF Complete, CallbackFails, Frozen
  <2>2. QED
    BY <2>1 DEF RestoredBunches, Shadowed
<1>6. CASE Refuse \/ Start \/ Return
  BY <1>6 DEF Refuse, Start, Return, Shadowed
<1>7. CASE UNCHANGED vars
  BY <1>7 DEF vars, Shadowed
<1>8. QED
  BY <1>1, <1>2, <1>3, <1>4, <1>5, <1>6, <1>7 DEF Next, Placing, Routing, Closing, EngineStep

\* Every step keeps every part of the invariant.
LEMMA StepInv == IInv /\ [Next]_vars => IInv'
BY StepTypes, StepUntouched, StepAtLoop, StepInRun, StepReturn, StepShadowed DEF IInv

\* The inductive invariant of Pnr::run, for every plan that partitions the
\* cells.
THEOREM Inductive == Spec => []IInv
BY InitInv, StepInv, PTL DEF Spec

-----------------------------------------------------------------------------
\* The variables of Pnr::run keep their types.
THEOREM TypeCorrect == Spec => []TypeOK
<1>1. IInv => TypeOK
  BY DEF IInv
<1>2. QED
  BY <1>1, Inductive, PTL

\* Runs are admitted in plan order and no cell of a later run is admitted
\* once a run failed, whatever made it fail.
THEOREM NothingBehindFailure == Spec => []LaterRunsPending
<1>1. IInv => LaterRunsPending
  BY DEF IInv, InRun, AfterReturn, LaterRunsPending, RunsBefore
<1>2. QED
  BY <1>1, Inductive, PTL

\* Between two runs all earlier runs are placed, frozen and fully routed,
\* although each later run may preempt their routes and move their cells.
THEOREM EveryRunSettles == Spec => []RunsSettled
<1>1. IInv => RunsSettled
  BY DEF IInv, AtLoop, RunsSettled
<1>2. QED
  BY <1>1, Inductive, PTL

\* A successful call leaves no cell unplaced and no connection deferred.
THEOREM SuccessIsComplete == Spec => []FinalComplete
<1>1. IInv => FinalComplete
  BY DEF IInv, AfterReturn, FinalComplete
<1>2. QED
  BY <1>1, Inductive, PTL

\* The borrowed modes and the estimate forest are restored on every exit.
THEOREM EverythingRestored == Spec => []Restored
<1>1. IInv => Restored
  BY DEF IInv, Untouched, AfterReturn, Shadowed, Restored
<1>2. QED
  BY <1>1, Inductive, PTL

\* No engine places a pending cell or routes one of its connections.
THEOREM PendingStays == Spec => PendingUntouched
<1>1. IInv /\ [Next]_vars =>
        [/\ \A c \in pending : site'[c] = site[c]
         /\ \A k \in routed' \ routed : DriverOf[k] \notin pending /\ SinkOf[k] \notin pending]_vars
  <2> SUFFICES ASSUME IInv, Next
               PROVE  /\ \A c \in pending : site'[c] = site[c]
                      /\ \A k \in routed' \ routed :
                            DriverOf[k] \notin pending /\ SinkOf[k] \notin pending
    OBVIOUS
  <2>1. ASSUME NEW d \in Cells, Pack(d) \/ Refine(d)
        PROVE  routed' = routed /\ \A c \in pending : site'[c] = site[c]
    BY <2>1 DEF Pack, Refine, Packable, IInv, TypeOK
  <2>2. ASSUME NEW d \in Cells, Relocate(d)
        PROVE  /\ \A c \in pending : site'[c] = site[c]
               /\ \A k \in routed' \ routed : k \in Eligible
    BY <2>2 DEF Relocate, Admitted, IInv, TypeOK
  <2>3. ASSUME NEW d \in Conns, Connect(d) \/ Cut(d)
        PROVE  site' = site /\ \A k \in routed' \ routed : k \in Eligible
    BY <2>3 DEF Connect, Cut
  <2>4. ASSUME Refuse \/ Start \/ Admit \/ PlacementFails \/ BeginRouting \/ RoutingFails
                  \/ Closing \/ Return
        PROVE  site' = site /\ routed' \subseteq routed
    BY <2>4 DEF Refuse, Start, Admit, PlacementFails, BeginRouting, RoutingFails, Closing,
       ValidationFails, FreezeFails, Complete, CallbackFails, Abort, Return
  <2>5. \A k \in Eligible : DriverOf[k] \notin pending /\ SinkOf[k] \notin pending
    BY DEF Eligible, Admitted
  <2>6. QED
    BY <2>1, <2>2, <2>3, <2>4, <2>5 DEF Next, Placing, Routing
<1>2. QED
  BY <1>1, Inductive, PTL DEF Spec, PendingUntouched

\* Finished work survives until the next routing stage, which reopens a
\* completed cell when it moves it.
THEOREM CompletedStays == Spec => CompletedKept
<1>1. IInv /\ [Next]_vars =>
        [/\ stage # "routing" => routed' = routed /\ \A c \in completed : site'[c] = site[c]
         /\ \A c \in completed : site'[c] # site[c] => c \notin completed']_vars
  <2> SUFFICES ASSUME IInv, Next
               PROVE  /\ stage # "routing" => routed' = routed
                                              /\ \A c \in completed : site'[c] = site[c]
                      /\ \A c \in completed : site'[c] # site[c] => c \notin completed'
    OBVIOUS
  <2>1. ASSUME NEW d \in Cells, Pack(d) \/ Refine(d)
        PROVE  routed' = routed /\ \A c \in completed : site'[c] = site[c]
    BY <2>1 DEF Pack, Refine, Packable, IInv, TypeOK
  <2>2. ASSUME NEW d \in Cells, Relocate(d)
        PROVE  stage = "routing" /\ \A c \in completed : site'[c] # site[c] => c \notin completed'
    BY <2>2 DEF Relocate, IInv, TypeOK
  <2>3. ASSUME NEW d \in Conns, Connect(d) \/ Cut(d)
        PROVE  stage = "routing" /\ site' = site
    BY <2>3 DEF Connect, Cut
  <2>4. ASSUME Refuse \/ Start \/ Admit \/ PlacementFails \/ BeginRouting \/ RoutingFails
                  \/ Closing \/ Return
        PROVE  site' = site /\ routed' = routed
    BY <2>4 DEF Refuse, Start, Admit, PlacementFails, BeginRouting, RoutingFails, Closing,
       ValidationFails, FreezeFails, Complete, CallbackFails, Frozen, Abort, Return, IInv, InRun
  <2>5. QED
    BY <2>1, <2>2, <2>3, <2>4 DEF Next, Placing, Routing
<1>2. QED
  BY <1>1, Inductive, PTL DEF Spec, CompletedKept
====
