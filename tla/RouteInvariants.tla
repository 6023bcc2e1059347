-------------------------- MODULE RouteInvariants --------------------------
(***************************************************************************)
(* The inductive invariant of RouteLeases, in named parts: the fragments   *)
(* are those of the fabric and the tile indexes exact (Regular), a route   *)
(* is a line (Lines), and whatever a route uses is leased, by the replica  *)
(* of its own source that agrees with it up to there (Sound).  A run       *)
(* checks Sound, RouteLeasesProofs and RouteTreeProofs prove it.           *)
(***************************************************************************)
EXTENDS RouteLeases

-----------------------------------------------------------------------------
(* Fragments and indexes                                                   *)

\* What the fabric and the operations on routes leave possible.
Shape(f) ==
    /\ f.kind = "out" => /\ f.src \in SrcNodes /\ f.in \in Sources
                         /\ f.in \in FanIn[f.src] /\ f.dst = Landing[f.src]
    /\ f.kind = "hop" => /\ f.src \in SrcNodes /\ f.in \in DstNodes
                         /\ f.in \in FanIn[f.src] /\ f.dst = Landing[f.src]
    /\ f.kind = "ground" => f.in \in DstNodes
    /\ f.kind = "pin" => f.in \in Pins
    /\ f.kind = "gap" => /\ f.in \in DstNodes /\ f.dst \in DstNodes \cup Pins
                         /\ f = Gap(f.in, f.dst)

Good == {f \in Fragment : Shape(f)}
Routes == [Bindings -> Seq(Good)]

\* Two routes that differ in ownership only.
SameFabric(r, q) ==
    /\ Len(r) = Len(q)
    /\ \A i \in 1..Len(r) : SamePhysicalFragment(r[i], q[i])

\* What the three variables may hold together.
States == [route : Routes, leased : SUBSET Nodes, reg : SUBSET (Tiles \X Bindings)]

\* A state of fabric fragments with exact tile indexes.
Regular(st) == st \in States /\ st.reg = Entries(st.route, Bindings)

\* The two routes are the same fabric up to fragment i.
Agree(r, q, i) ==
    i <= Len(r) /\ i <= Len(q) /\ \A j \in 1..i : SamePhysicalFragment(r[j], q[j])

-----------------------------------------------------------------------------
(* Lines                                                                   *)

\* g goes on where f ends.
Follows(f, g) ==
    /\ f.kind # "pin"
    /\ f.kind \in Jumps \cup {"gap"} => f.dst = g.in
    /\ f.kind = "gap" => g.kind # "gap"
    /\ f.kind = "ground" => g.kind = "pin" /\ f.in \in Entry[g.in]

Linked(r) == \A i \in 1..(Len(r) - 1) : Follows(r[i], r[i + 1])

\* A route of b without a break, as far as it goes: it ends at a landing from
\* which it can go on, or at its pin.
Line(b, r) ==
    /\ r # <<>> => /\ r[1].kind = "out" /\ r[1].in = SourceOf[b]
                   /\ \/ r[Len(r)].kind \in Jumps
                      \/ r[Len(r)].kind = "pin" /\ r[Len(r)].in = PinOf[b]
    /\ Linked(r)

\* Every route is a line, in a state and now.
LinesOf(st) == \A b \in Bindings : Line(b, st.route[b])

Lines == \A b \in Bindings : Line(b, route[b])

-----------------------------------------------------------------------------
(* Leases                                                                  *)

\* The fragment is an incoming DST's owner.
OwnsIn(f) == f.kind \in {"hop", "ground"} /\ ~f.shared /\ f.ownsDst

\* The nodes fragment i refers to and no fragment before it does: a jump its
\* SRC and its landing, a pin itself, what follows a hole its incoming DST.
Needs(r, i) ==
    (IF r[i].kind \in Jumps THEN {"src", "landing"} ELSE {})
    \cup (IF \/ r[i].kind = "pin"
             \/ r[i].kind \in {"hop", "ground"} /\ i > 1 /\ r[i - 1].kind = "gap"
          THEN {"in"} ELSE {})

NodeOf(f, w) ==
    CASE w = "src" -> f.src [] w = "landing" -> f.dst [] w = "in" -> f.in

\* Fragment i, or the one behind it, owns the lease of that node.
Gives(r, i, w) ==
    \/ w = "src" /\ r[i].kind \in Jumps /\ ~r[i].shared
    \/ w = "landing" /\ r[i].kind \in Jumps /\ (r[i].ownsLanding \/ (i < Len(r) /\ OwnsIn(r[i + 1])))
    \/ w = "in" /\ (OwnsIn(r[i]) \/ (r[i].kind = "pin" /\ ~r[i].shared))

\* Route q owns what fragment i of route r needs, as the same fabric.
Backs(q, r, i, w) == Agree(r, q, i) /\ Gives(q, i, w)

\* Whatever a route uses is owned by a replica that agrees with it up to there.
Held(rt) ==
    \A d \in Bindings : \A i \in 1..Len(rt[d]) : \A w \in Needs(rt[d], i) :
        \E e \in Siblings(d) : Backs(rt[e], rt[d], i, w)

\* No sibling depends on what b owns.
Free(rt, b) ==
    \A d \in Siblings(b) \ {b} : \A i \in 1..Len(rt[d]) : \A w \in Needs(rt[d], i) :
        \E e \in Siblings(d) \ {b} : Backs(rt[e], rt[d], i, w)

\* No sibling depends on what b owns behind its fragment k.
FreeBeyond(rt, b, k) ==
    \A d \in Siblings(b) \ {b} : \A i \in 1..Len(rt[d]) : \A w \in Needs(rt[d], i) :
        i > k => \E e \in Siblings(d) \ {b} : Backs(rt[e], rt[d], i, w)

\* The nodes any route uses.
AllUses(rt) == UNION {RouteUses(rt[b]) : b \in Bindings}

\* No node serves two sources.
Single(rt) ==
    \A b, c \in Bindings : SourceOf[b] # SourceOf[c] => RouteUses(rt[b]) \cap RouteUses(rt[c]) = {}

\* The leases are exactly what the routes use, every used node has an owner
\* among the replicas that agree with its user, and no two sources meet.
Sound(st) ==
    /\ Regular(st) /\ LinesOf(st) /\ Held(st.route)
    /\ st.leased = AllUses(st.route) /\ Single(st.route)

\* What auditTileCongestionImpl audits, made inductive: the owner of a lease is
\* a replica that shares the fabric of its user up to the node, so that a
\* transfer of ownership finds it when the owner is cut.
LeasesSound == Sound(Now)

-----------------------------------------------------------------------------
(* The runs the theorems are about                                         *)

\* Two sinks of one source do not end on one DST: no crossbar that grounds
\* into a pin can be shared.  Else the detachment of a moved sink keeps the
\* crossbar as a live shared prefix, and the route is continued behind it.
SeparateTerminals ==
    \A b, c \in Bindings :
        b # c /\ SourceOf[b] = SourceOf[c] =>
            /\ PinOf[b] # PinOf[c]
            /\ Entry[PinOf[b]] \cap Entry[PinOf[c]] = {}

\* Of the bindings in S no two replicate one another.
Apart(S) == \A b, c \in S : SourceOf[b] = SourceOf[c] => b = c

\* What moves takes no two bindings of one source along, and no two of them
\* end on one DST.
MovesApart ==
    /\ \A S \in MoveSets : Apart(S)
    /\ MoveSets # {} => SeparateTerminals

\* The runs in which no binding steps back over a hop a sibling depends on:
\* unrouteLastRouteStep does not look.
StepsBackAlone ==
    [][\A b \in Bindings : StepBack(b) => FreeBeyond(route, b, Len(route[b]) - 1)]_vars

\* Where only bindings without siblings step back, they all are such runs.
ReplicasApart ==
    /\ MovesApart
    /\ \A b \in Backstepped : Siblings(b) = {b}

=============================================================================
