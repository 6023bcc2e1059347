------------------------------ MODULE PnrPlan ------------------------------
(***************************************************************************)
(* Pnr::plan of src/src/pnr/pnr.cpp: cells that must be admitted together  *)
(* are joined in a union-find forest, the resulting groups are ordered by  *)
(* timing criticality, and packed first-come into runs of about RunCells   *)
(* cells.  One step is one join or one packed group.                       *)
(*                                                                         *)
(* Operators named Mut* are not part of the model: each is the operator    *)
(* after it with a plausible bug, and a property must notice the exchange. *)
(***************************************************************************)
EXTENDS Integers, SequencesExt

CONSTANTS
    CellOrder,      \* collect(): the cells in traversal order
    NameRank,       \* the position of a cell's full name in name order
    Bunches, BunchOf, RegOf, NoBunch,
    Feeds,          \* <<driver, sink>> for every input driven by a collected cell
    Strict,         \* those that are local mux or carry chains
    Clocked,        \* those that enter a clocked input (check_clocked)
    Deficits,       \* bound: the values max_deficit may take
    Delay,          \* top_max_delay
    MaxRunCells     \* bound: the largest run_cells

Cells == ToSet(CellOrder)

ASSUME PlanInputs ==
    /\ CellOrder \in Seq(Cells) /\ IsInjective(CellOrder) /\ IsFiniteSet(Cells)
    /\ NameRank \in [Cells -> Nat] /\ \A c, d \in Cells : c # d => NameRank[c] # NameRank[d]
    /\ NoBunch \notin Bunches /\ BunchOf \in [Cells -> Bunches \cup {NoBunch}]
    /\ RegOf \in [Bunches -> Cells]
    /\ Feeds \subseteq Cells \X Cells /\ Strict \subseteq Feeds /\ Clocked \subseteq Feeds
    /\ Deficits \subseteq Int /\ Delay \in [Cells -> Int]
    /\ MaxRunCells \in Nat

VARIABLES
    runCells,   \* run_cells: 0 is refused
    deficit,    \* stats.max_deficit of every cell, from Estimate
    phase,      \* "start", "chains", "clocks", "pack", "done", "refused"
    todo,       \* the joins of this phase still to make
    parent,     \* the union-find forest
    ordered,    \* the groups still to pack, most critical first
    runs        \* the runs built so far

vars == <<runCells, deficit, phase, todo, parent, ordered, runs>>

-----------------------------------------------------------------------------
(* The forest.                                                             *)

\* One iteration of root(): the cell is redirected to its grandparent.
Halve(st) ==
    LET up == st.parent[st.parent[st.id]]
    IN  [parent |-> [st.parent EXCEPT ![st.id] = up], id |-> up]

\* root(c): the forest it leaves and the root it finds.  At a root an
\* iteration changes nothing, so that as many as there are cells suffice.
Find(p, c) ==
    LET after[k \in 0..Len(CellOrder)] ==
            IF k = 0 THEN [parent |-> p, id |-> c] ELSE Halve(after[k - 1])
    IN  after[Len(CellOrder)]
Root(p, c) == Find(p, c).id

MutJoin(p, a, b) == [p EXCEPT ![Root(p, b)] = a]     \* hangs b's root under a, not a's root

\* join(a, b): the right-hand side of the assignment, root(a), goes first.
Join(p, a, b) ==
    LET first  == Find(p, a)
        second == Find(first.parent, b)
    IN  [second.parent EXCEPT ![second.id] = first.id]

-----------------------------------------------------------------------------
(* What is joined                                                          *)

Position(c) == CHOOSE i \in DOMAIN CellOrder : CellOrder[i] = c
FirstOf(S) == CHOOSE c \in S : \A d \in S : Position(c) <= Position(d)

\* The cells of S in traversal order.
InOrder(S) ==
    LET upTo[k \in 0..Len(CellOrder)] ==
            IF k = 0 THEN <<>>
            ELSE IF CellOrder[k] \in S THEN Append(upTo[k - 1], CellOrder[k]) ELSE upTo[k - 1]
    IN  upTo[Len(CellOrder)]

\* Members of a bunch with its first member, then with its register.
Bunched == {c \in Cells : BunchOf[c] # NoBunch}
FirstMember(c) == FirstOf({d \in Cells : BunchOf[d] = BunchOf[c]})
BunchJoins ==
    LET members == InOrder({c \in Bunched : c # FirstMember(c)})
        all     == InOrder(Bunched)
    IN  [i \in DOMAIN members |-> <<members[i], FirstMember(members[i])>>]
        \o [i \in DOMAIN all |-> <<all[i], RegOf[BunchOf[all[i]]]>>]

\* Strict local chains, across bunches, in some order: the code meets them in
\* cell order, and the groups are the same in every order of these joins.
\* The mutant looks inside bunches only.
MutChainJoins == SetToSeq({<<e[2], e[1]>> : e \in {e \in Strict : BunchOf[e[1]] = BunchOf[e[2]]}})
ChainJoins == SetToSeq({<<e[2], e[1]>> : e \in Strict})

\* The cell whose timing stands for c.
Ranked(c) == IF BunchOf[c] = NoBunch THEN c ELSE RegOf[BunchOf[c]]
MoreCritical(c, d) ==
    LET x == Ranked(c) y == Ranked(d) IN
    deficit[x] > deficit[y] \/ (deficit[x] = deficit[y] /\ Delay[x] > Delay[y])

ClockSources == {e[1] : e \in Clocked}
Consumers(s) == {e[2] : e \in {e \in Clocked : e[1] = s}}

\* The highest ranked consumer of a clock source, the first one on ties.
ClockConsumer(s) == FirstOf({c \in Consumers(s) : \A d \in Consumers(s) : ~MoreCritical(d, c)})

\* Everything upstream of a clock source, the source included: what the walk
\* has seen when nothing is pending.
Drivers(S) == {e[1] : e \in {e \in Feeds : e[2] \in S}}
Closed(S) == Drivers(S) \subseteq S
Cone(s) == {c \in Cells : \A S \in SUBSET Cells : s \in S /\ Closed(S) => c \in S}

MutClockJoins == {<<ClockConsumer(s), s>> : s \in ClockSources}     \* without the cone
ClockJoins == UNION {{<<ClockConsumer(s), c>> : c \in Cone(s)} : s \in ClockSources}

-----------------------------------------------------------------------------
(* Groups and runs                                                         *)

Maximum(S) == CHOOSE x \in S : \A y \in S : y <= x
Minimum(S) == CHOOSE x \in S : \A y \in S : x <= y

Group(cells) ==
    [cells   |-> cells,
     deficit |-> Maximum({deficit[Ranked(c)] : c \in cells}),
     delay   |-> Maximum({Delay[Ranked(c)] : c \in cells} \cup {0}),
     name    |-> Minimum({NameRank[c] : c \in cells})]

Groups == {Group({d \in Cells : Root(parent, d) = r}) : r \in {Root(parent, c) : c \in Cells}}

MutBefore(g, h) == g.name < h.name
Before(g, h) ==
    \/ g.deficit > h.deficit
    \/ g.deficit = h.deficit /\ g.delay > h.delay
    \/ g.deficit = h.deficit /\ g.delay = h.delay /\ g.name < h.name

\* Before is total on groups: names are unique and each is in one group.
Sorted(groups) ==
    {s \in SetToSeqs(groups) :
        /\ ToSet(s) = groups
        /\ \A i, j \in DOMAIN s : i < j => Before(s[i], s[j])}

\* A group opens a new run unless the last one has room for it.
MutOpens(rs, g) == rs = <<>> \/ Cardinality(Last(rs).cells) >= runCells
Opens(rs, g) ==
    \/ rs = <<>>
    \/ Cardinality(Last(rs).cells) + Cardinality(g.cells) > runCells

MutPackedEmpty(rs, g) == IF Opens(rs, g) THEN Append(rs, [cells |-> {}, deficit |-> g.deficit]) ELSE rs
MutPacked(rs, g) == IF Opens(rs, g) THEN Append(rs, [cells |-> g.cells, deficit |-> g.deficit]) ELSE rs
Packed(rs, g) ==
    IF Opens(rs, g) THEN Append(rs, [cells |-> g.cells, deficit |-> g.deficit])
    ELSE [rs EXCEPT ![Len(rs)] = [cells   |-> @.cells \cup g.cells,
                                  deficit |-> Maximum({@.deficit, g.deficit})]]

-----------------------------------------------------------------------------
Init ==
    /\ runCells \in 0..MaxRunCells
    /\ deficit \in [Cells -> Deficits]
    /\ phase = "start" /\ todo = <<>>
    /\ parent = [c \in Cells |-> c]
    /\ ordered = <<>> /\ runs = <<>>

Refuse ==
    /\ phase = "start" /\ runCells = 0
    /\ phase' = "refused"
    /\ UNCHANGED <<runCells, deficit, todo, parent, ordered, runs>>

Begin ==
    /\ phase = "start" /\ runCells # 0
    /\ phase' = "chains" /\ todo' = BunchJoins \o ChainJoins
    /\ UNCHANGED <<runCells, deficit, parent, ordered, runs>>

\* Bunches are joined in cell order, then the chains.
JoinChain ==
    /\ phase = "chains" /\ todo # <<>>
    /\ parent' = Join(parent, Head(todo)[1], Head(todo)[2])
    /\ todo' = Tail(todo)
    /\ UNCHANGED <<runCells, deficit, phase, ordered, runs>>

FindClocks ==
    /\ phase = "chains" /\ todo = <<>>
    /\ phase' = "clocks" /\ todo' = ClockJoins
    /\ UNCHANGED <<runCells, deficit, parent, ordered, runs>>

\* Clock cones are joined in the order of a hash map.
JoinClock ==
    /\ phase = "clocks"
    /\ \E e \in todo :
          /\ parent' = Join(parent, e[1], e[2])
          /\ todo' = todo \ {e}
    /\ UNCHANGED <<runCells, deficit, phase, ordered, runs>>

Order ==
    /\ phase = "clocks" /\ todo = {}
    /\ phase' = "pack"
    /\ ordered' \in Sorted(Groups)
    /\ UNCHANGED <<runCells, deficit, todo, parent, runs>>

Pack ==
    /\ phase = "pack" /\ ordered # <<>>
    /\ runs' = Packed(runs, Head(ordered))
    /\ ordered' = Tail(ordered)
    /\ UNCHANGED <<runCells, deficit, phase, todo, parent>>

Finish ==
    /\ phase = "pack" /\ ordered = <<>>
    /\ phase' = "done"
    /\ UNCHANGED <<runCells, deficit, todo, parent, ordered, runs>>

Next == Refuse \/ Begin \/ JoinChain \/ FindClocks \/ JoinClock \/ Order \/ Pack \/ Finish

Spec == Init /\ [][Next]_vars

-----------------------------------------------------------------------------
\* The types of the variables; todo is a sequence while chains are joined and
\* a set while clock cones are.
TypeOK ==
    /\ runCells \in 0..MaxRunCells /\ deficit \in [Cells -> Deficits]
    /\ phase \in {"start", "chains", "clocks", "pack", "done", "refused"}
    /\ IF phase \in {"start", "chains", "refused"}
       THEN todo \in Seq(Cells \X Cells) ELSE todo \subseteq Cells \X Cells
    /\ parent \in [Cells -> Cells]
    /\ \A i \in DOMAIN ordered : ordered[i].cells \subseteq Cells /\ ordered[i].cells # {}
    /\ \A i \in DOMAIN runs : runs[i].cells \subseteq Cells /\ runs[i].cells # {}

\* Path halving and unions never close a cycle: every cell leads to a root.
Forest == \A c \in Cells : parent[Root(parent, c)] = Root(parent, c)

RunOf(c) == {i \in DOMAIN runs : c \in runs[i].cells}

\* Every cell is in exactly one run, those of no bunch included; this is what
\* Pnr::run relies on.
CoveredOnce == phase = "done" => \A c \in Cells : Cardinality(RunOf(c)) = 1

\* Cells that must be packed together are admitted together: a bunch with its
\* register, and both ends of every mux or carry chain edge.
NothingSplit ==
    phase = "done" =>
        /\ \A c, d \in Cells : BunchOf[c] # NoBunch /\ BunchOf[c] = BunchOf[d] => RunOf(c) = RunOf(d)
        /\ \A c \in Cells : BunchOf[c] # NoBunch => RunOf(RegOf[BunchOf[c]]) = RunOf(c)
        /\ \A e \in Strict : RunOf(e[1]) = RunOf(e[2])

\* Clock infrastructure is admitted with a consumer, the whole cone at once,
\* and with the most critical consumer the source has.
ClocksAnchored ==
    phase = "done" => \A s \in ClockSources :
        /\ \E c \in Consumers(s) : /\ RunOf(c) = RunOf(s)
                                   /\ \A d \in Consumers(s) : ~MoreCritical(d, c)
        /\ \A e \in Feeds : e[2] \in Cone(s) => RunOf(e[1]) = RunOf(s)

\* A run exceeds the target only when it is one indivisible group, and a new
\* run is opened only when the next group would not have fitted.
RunsSized ==
    phase = "done" => \A i \in DOMAIN runs :
        /\ Cardinality(runs[i].cells) > runCells =>
              \E c \in runs[i].cells : runs[i].cells = {d \in Cells : Root(parent, d) = Root(parent, c)}
        /\ i < Len(runs) =>
              \E c \in runs[i + 1].cells :
                 Cardinality(runs[i].cells \cup {d \in Cells : Root(parent, d) = Root(parent, c)}) > runCells

\* The most critical work is admitted first: the deficit a run reports is the
\* largest of its cells and no later run reports a larger one.
CriticalFirst ==
    phase = "done" => \A i \in DOMAIN runs :
        /\ runs[i].deficit = Maximum({deficit[Ranked(c)] : c \in runs[i].cells})
        /\ \A j \in DOMAIN runs : i < j => runs[j].deficit <= runs[i].deficit
=============================================================================
