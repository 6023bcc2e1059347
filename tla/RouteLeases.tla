---------------------------- MODULE RouteLeases ----------------------------
(***************************************************************************)
(* Route trees and the leases that back them: src/src/fpga/Wire.cpp and the    *)
(* callers of it in src/src/pnr/route/RouteDesign.cpp.                         *)
(*                                                                         *)
(* A binding is one driver-to-sink connection and owns one route, a vector *)
(* of fragments.  Bindings of one source share fabric: a fork copies the   *)
(* prefix of a complete sibling with shared = TRUE, and only flags on the  *)
(* fragments say which replica owns the lease of a node.  Every removal    *)
(* must move that ownership before it releases, and every tile must know   *)
(* the bindings that touch it, because owner queries go through the tile.  *)
(***************************************************************************)
EXTENDS RouteFragments, SequencesExt

CONSTANTS
    Bindings,       \* every binding of the design
    Nets,           \* the RTL nets
    BindingOrder,   \* the order in which net.routes and tile lists are walked
    NetOf,          \* the RTL net of a binding (one source may have several)
    SourceOf,       \* the physical driver of a binding
    PinOf,          \* the sink pin of a binding
    Backstepped,    \* bound: the bindings a run lets step back
    MoveSets,       \* the sets of bindings that end at one movable instance
    Protected,      \* nets with route_protected
    MaxHops         \* bound: hops in one committed suffix or one repair

VARIABLES
    route,          \* binding -> its vector of fragments, <<>> when unrouted
    leased,         \* the set bits of every tile's lease masks
    reg             \* the <<tile, binding>> pairs of all routed_bindings indexes

vars == <<route, leased, reg>>

Tiles == {TileOf[n] : n \in Nodes \cup Sources}
BindingsOfNet(net) == {b \in Bindings : NetOf[b] = net}
Siblings(b) == {c \in Bindings : SourceOf[c] = SourceOf[b]}

ASSUME BindingAssumption ==
    /\ BindingOrder \in Seq(Bindings) /\ ToSet(BindingOrder) = Bindings
    /\ IsInjective(BindingOrder)
    /\ NetOf \in [Bindings -> Nets] /\ SourceOf \in [Bindings -> Sources]
    /\ PinOf \in [Bindings -> Pins]
    /\ Backstepped \subseteq Bindings /\ MoveSets \subseteq SUBSET Bindings
    /\ Protected \subseteq Nets
    /\ MaxHops \in Nat

-----------------------------------------------------------------------------
(* Owner queries and registration.  A state is a record of the three        *)
(* variables, so that operations that call one another compose.             *)

Now == [route |-> route, leased |-> leased, reg |-> reg]
Install(st) == route' = st.route /\ leased' = st.leased /\ reg' = st.reg

\* Every <<tile, binding>> pair the routes of B imply.
Entries(rt, B) == UNION {{<<t, b>> : t \in RouteTiles(rt[b])} : b \in B}

\* The bindings the index of a tile lists.
Listed(st, t) == {b \in Bindings : <<t, b>> \in st.reg}

\* findNetOwnersByNode: owners the tile's index can see.
Owners(st, n) == {b \in Listed(st, TileOf[n]) : n \in RouteOwned(st.route[b])}

\* Every node for which Owners is not empty.
VisiblyOwned(st) ==
    UNION {{n \in RouteOwned(st.route[b]) : <<TileOf[n], b>> \in st.reg} : b \in Bindings}

\* findNetRouteCutVictims: every registered dependent of a cut node.
Dependents(st, cuts) ==
    {b \in UNION {Listed(st, TileOf[n]) : n \in cuts} : RouteUses(st.route[b]) \cap cuts # {}}

MutReleased(st, removed) ==    \* clears leases another binding owns
    UNION {LeaseRefs(removed[b]) : b \in DOMAIN removed}

\* clearRouteLeases(removed, true): what the removed fragments referred to
\* and no live binding owns any more.  `removed` maps a binding to the vector
\* of fragments it gave up.
Released(st, removed) ==
    (UNION {LeaseRefs(removed[b]) : b \in DOMAIN removed}) \ VisiblyOwned(st)

MutRebuildForgets(st, removed) ==      \* what a route keeps is not reindexed
    st.reg \ UNION {RouteTiles(removed[b]) \X BindingsOfNet(NetOf[b]) : b \in DOMAIN removed}

MutRebuild(st, removed) ==     \* reindexes the removed bindings only
    LET nets    == {NetOf[b] : b \in DOMAIN removed}
        touched == UNION {RouteTiles(removed[b]) \X BindingsOfNet(NetOf[b]) : b \in DOMAIN removed}
    IN  (st.reg \ touched) \cup Entries(st.route, DOMAIN removed)

\* rebuildNetRouteTiles: every affected net is dropped from the tiles its
\* removed fragments touched, and all its remaining routes are registered.
Rebuild(st, removed) ==
    LET nets    == {NetOf[b] : b \in DOMAIN removed}
        touched == UNION {RouteTiles(removed[b]) \X BindingsOfNet(NetOf[b]) : b \in DOMAIN removed}
    IN  (st.reg \ touched) \cup Entries(st.route, UNION {BindingsOfNet(net) : net \in nets})

\* Install rt, release what `removed` leaves without an owner, reindex.
Withdraw(st, rt, removed) ==
    LET cut == [st EXCEPT !.route = rt]
    IN  [route  |-> rt,
         leased |-> st.leased \ Released(cut, removed),
         reg    |-> Rebuild(cut, removed)]

MutCommit(st, b, r, new) ==    \* leases the source's LOCAL like a fabric node
    [route  |-> [st.route EXCEPT ![b] = r],
     leased |-> st.leased \cup new \cup {r[1].in},
     reg    |-> st.reg \cup (RouteTiles(r) \X {b})]

\* Give binding b the route r, leasing `new` and registering its tiles
\* (registerNetRouteTiles adds, it never removes).
Commit(st, b, r, new) ==
    [route  |-> [st.route EXCEPT ![b] = r],
     leased |-> st.leased \cup new,
     reg    |-> st.reg \cup (RouteTiles(r) \X {b})]

-----------------------------------------------------------------------------
(* Ownership transfer (promoteSurvivingSourcePrefix)                       *)

\* The fragment behind the common prefix owned the landing of its last hop: a
\* sibling that forks right there takes it.
LandingMoves(removed, sibling, k) ==
    /\ k > 0 /\ k < Len(removed)
    /\ sibling[k].kind \in Jumps
    /\ removed[k + 1].kind \in {"hop", "ground"}
    /\ ~removed[k + 1].shared /\ removed[k + 1].ownsDst
    /\ removed[k + 1].in = sibling[k].dst

\* Fragment i of either route once `sibling` has taken over what `removed`
\* owns in their common prefix, of length k.
Taken(removed, sibling, k, i) ==
    LET old == removed[i]
    IN  IF i > k \/ old.kind = "gap" THEN sibling[i]
        ELSE [sibling[i] EXCEPT
                !.ownsLanding = @ \/ old.ownsLanding \/ (i = k /\ LandingMoves(removed, sibling, k)),
                !.shared  = @ /\ old.shared,
                !.ownsDst = @ \/ (~old.shared /\ old.ownsDst)]

Given(removed, sibling, k, i) ==
    LET old == removed[i]
    IN  IF i <= k /\ old.kind # "gap" THEN [old EXCEPT !.ownsLanding = FALSE, !.shared = TRUE]
        ELSE IF i = k + 1 /\ LandingMoves(removed, sibling, k) THEN [old EXCEPT !.ownsDst = FALSE]
        ELSE old

TransferPrefix(removed, sibling) ==
    LET k == CommonLength(removed, sibling)
    IN  [sibling |-> [i \in 1..Len(sibling) |-> Taken(removed, sibling, k, i)],
         removed |-> [i \in 1..Len(removed) |-> Given(removed, sibling, k, i)]]

HandOver(rt, b, c) ==
    LET moved == TransferPrefix(rt[b], rt[c])
    IN  [rt EXCEPT ![b] = moved.removed, ![c] = moved.sibling]

MutPromote(st, b, excluded) == st   \* drops a route without handing over

\* Two passes over the bindings: the siblings of the own net come first, then
\* those of nets registered on the tile of the first fragment.
AtTurn(k) == BindingOrder[IF k <= Len(BindingOrder) THEN k ELSE k - Len(BindingOrder)]

Visited(st, b, excluded, k) ==
    LET c == AtTurn(k)
    IN  /\ c # b /\ c \notin excluded /\ c \in Siblings(b) /\ st.route[c] # <<>>
        /\ IF k <= Len(BindingOrder) THEN NetOf[c] = NetOf[b]
           ELSE /\ NetOf[c] # NetOf[b]
                /\ \E d \in Listed(st, FromTile(st.route[b][1])) : NetOf[d] = NetOf[c]

Promote(st, b, excluded) ==
    LET n == 2 * Len(BindingOrder)
        after[k \in 0..n] ==
            IF k = 0 THEN st.route
            ELSE IF Visited(st, b, excluded, k) THEN HandOver(after[k - 1], b, AtTurn(k))
            ELSE after[k - 1]
    IN  IF st.route[b] = <<>> THEN st ELSE [st EXCEPT !.route = after[n]]

-----------------------------------------------------------------------------
(* Committing fabric (tryBestFirstRoute, commitPreparedRoute)              *)

PathEnd(n, p) == IF p = <<>> THEN n ELSE Landing[p[Len(p)]]

\* Paths of at most MaxHops SRCs leaving node n that never land twice on a
\* node: what one bounded search can return.
Paths(n) ==
    LET at(p, i) == PathEnd(n, SubSeq(p, 1, i))
        walks(p) == \A i \in 1..Len(p) : at(p, i - 1) \in FanIn[p[i]]
        fresh(p) == \A i, j \in 0..Len(p) : at(p, i) = at(p, j) => i = j
    IN  {p \in BoundedSeq(SrcNodes, MaxHops) : walks(p) /\ fresh(p)}

\* The fragments of a suffix that leaves n along p and, if `done`, grounds
\* into pin q.  Leaving an existing DST borrows it: the first fragment does
\* not own it.  An unfinished suffix reserves its landing.
Suffix(n, p, done, q) ==
    LET borrowed(i) == i = 1 /\ n \in DstNodes
    IN  [i \in 1..Len(p) |->
            Hop(IF i = 1 THEN n ELSE Landing[p[i - 1]], p[i],
                ~borrowed(i), ~done /\ i = Len(p))]
        \o IF done THEN <<Ground(PathEnd(n, p), ~borrowed(Len(p) + 1)), Pin(q)>> ELSE <<>>

\* The nodes such a suffix must lease.
SuffixNodes(p, done, q) ==
    {p[i] : i \in 1..Len(p)} \cup {Landing[p[i]] : i \in 1..Len(p)}
    \cup (IF done THEN {q} ELSE {})

\* Where binding b may start, with the replica of the prefix it starts from:
\* its own endpoint, the source, or a DST of a complete sibling.
ReplicaPrefix(r, k) == [i \in 1..k |-> [r[i] EXCEPT !.shared = TRUE]]

Starts(b) ==
    IF HasGap(route[b]) \/ IsComplete(route[b]) THEN {}
    ELSE IF route[b] # <<>> THEN {[node |-> Endpoint(route[b]), prefix |-> route[b]]}
    ELSE {[node |-> SourceOf[b], prefix |-> <<>>]}
         \cup UNION {{[node |-> route[c][k].dst, prefix |-> ReplicaPrefix(route[c], k)] :
                        k \in {i \in DOMAIN route[c] : route[c][i].kind \in Jumps}} :
                     c \in {c \in Siblings(b) \ {b} : IsComplete(route[c])}}

Reaches(n, p, done, q) == done => PathEnd(n, p) \in Entry[q]

\* One bounded search that needs no preemption.
RouteStep(b) ==
    \E st \in Starts(b) : \E p \in Paths(st.node), done \in BOOLEAN :
        LET new == SuffixNodes(p, done, PinOf[b])
            r   == st.prefix \o Suffix(st.node, p, done, PinOf[b])
        IN  /\ p # <<>> \/ done
            /\ Reaches(st.node, p, done, PinOf[b])
            /\ st.node \in DstNodes => st.node \in leased
            /\ new \cap leased = {}
            /\ Install(Commit(Now, b, r, new))

-----------------------------------------------------------------------------
(* Removal (unrouteNetRoute and its relatives)                             *)

MutKeepLanding(kept, removed) ==    \* the landing goes with the removed hop
    [kept |-> kept, removed |-> removed]

\* A retained hop whose landing the first removed fragment owned takes it.
KeepLanding(kept, removed) ==
    LET handed == /\ kept # <<>> /\ removed # <<>>
                  /\ kept[Len(kept)].kind \in Crossbar
                  /\ removed[1].kind \in Crossbar
                  /\ kept[Len(kept)].dst = removed[1].in
    IN  [kept    |-> IF handed THEN [kept EXCEPT ![Len(kept)].ownsLanding = TRUE] ELSE kept,
         removed |-> IF handed THEN [removed EXCEPT ![1].ownsDst = FALSE] ELSE removed]

\* Cut route b after its first k fragments.
Truncate(st, b, k) ==
    LET r   == st.route[b]
        cut == KeepLanding(SubSeq(r, 1, k), SubSeq(r, k + 1, Len(r)))
    IN  Withdraw(st, [st.route EXCEPT ![b] = cut.kept], [c \in {b} |-> cut.removed])

\* unrouteNetRoute
Unroute(st, b) ==
    LET promoted == Promote(st, b, {})
    IN  Withdraw(promoted, [promoted.route EXCEPT ![b] = <<>>], [c \in {b} |-> promoted.route[b]])

\* discardNetBranch: a branch that failed is dropped whole.
Discard(b) ==
    /\ route[b] # <<>>
    /\ Install(Unroute(Now, b))

\* unrouteLastRouteStep: a blocked incomplete route gives up its last hop.
StepBack(b) ==
    /\ b \in Backstepped
    /\ route[b] # <<>> /\ ~HasGap(route[b]) /\ ~IsComplete(route[b])
    /\ ~route[b][Len(route[b])].shared
    /\ Install(IF Len(route[b]) = 1 THEN Unroute(Now, b)
               ELSE Truncate(Now, b, Len(route[b]) - 1))

\* unrouteSourceRouteTree: every binding of a source, with no owner scan.
UnrouteSourceTree(s) ==
    LET tree    == {b \in Bindings : SourceOf[b] = s /\ route[b] # <<>>}
        removed == [b \in tree |-> [i \in 1..Len(route[b]) |->
                                      [route[b][i] EXCEPT !.shared = FALSE]]]
        cut     == [Now EXCEPT !.route = [b \in Bindings |-> IF b \in tree THEN <<>> ELSE route[b]]]
    IN  /\ tree # {}
        /\ Install([route  |-> cut.route,
                    leased |-> leased \ UNION {RouteOwned(removed[b]) : b \in tree},
                    reg    |-> Rebuild(cut, removed)])

-----------------------------------------------------------------------------
(* Moved sinks (invalidateMovedSinkRoutes)                                 *)

MutRetainedPrefix(r) ==            \* the crossbar that enters the pin is retained
    IF r # <<>> /\ r[Len(r)].kind = "pin" THEN Len(r) - 1 ELSE Len(r)

\* retainedRoutePrefixSize(route, false, true)
RetainedPrefix(r) ==
    LET fabric == IF r # <<>> /\ r[Len(r)].kind = "pin" THEN Len(r) - 1 ELSE Len(r)
        entry  == r[fabric]
    IN  IF fabric > 0 /\ (entry.kind = "ground" \/ (entry.kind \in Jumps /\ FromTile(entry) = ToTile(entry)))
        THEN fabric - 1 ELSE fabric

\* liveSharedPrefixLength: the shared fragments a surviving sibling also has.
LiveSharedPrefix(st, b, excluded) ==
    LET r == st.route[b]
        t == FromTile(r[1])
        seen == {c \in Siblings(b) \ (excluded \cup {b}) :
                    \/ NetOf[c] = NetOf[b]
                    \/ \E d \in Listed(st, t) : NetOf[d] = NetOf[c]}
        run(c) == {k \in 0..CommonLength(r, st.route[c]) : \A i \in 1..k : r[i].shared}
        lengths == {0} \cup UNION {run(c) : c \in seen}
    IN  CHOOSE k \in lengths : \A j \in lengths : j <= k

\* How much of a route its detachment keeps; `proven` is 0 without a proof.
KeptLength(st, b, excluded, complete, proven) ==
    LET r     == st.route[b]
        keeps == {proven, LiveSharedPrefix(st, b, excluded)}
                 \cup (IF complete /\ proven = 0 THEN {RetainedPrefix(r)} ELSE {})
        long  == CHOOSE k \in keeps : \A j \in keeps : j <= k
    IN  IF long = Len(r) /\ long > 1 /\ r[long].kind = "pin" THEN long - 1 ELSE long

\* detachNetRouteDestinationImpl
Detach(st, b, excluded, complete, proven) ==
    IF st.route[b] = <<>> THEN st
    ELSE Truncate(st, b, KeptLength(st, b, excluded, complete, proven))

\* Where a caller may prove a prefix: a crossbar within the retained fabric.
Proofs(b) ==
    {[binding |-> b, keep |-> k] :
        k \in {0} \cup {i \in 1..RetainedPrefix(route[b]) : route[b][i].kind \in Crossbar}}

PromoteAll(st, S) ==
    LET n == Len(BindingOrder)
        after[k \in 0..n] ==
            IF k = 0 THEN st
            ELSE IF BindingOrder[k] \in S THEN Promote(after[k - 1], BindingOrder[k], S)
            ELSE after[k - 1]
    IN  after[n]

DetachAll(st, S, complete, proof) ==
    LET n == Len(BindingOrder)
        proven(b) == IF b = proof.binding THEN proof.keep ELSE 0
        after[k \in 0..n] ==
            IF k = 0 THEN st
            ELSE LET b == BindingOrder[k]
                 IN  IF b \in S THEN Detach(after[k - 1], b, S, b \in complete, proven(b))
                     ELSE after[k - 1]
    IN  after[n]

\* The sinks of one instance move: S is every binding that ends there.
\* Ownership goes to survivors only; then each route is cut back.
MoveSinks(S) ==
    /\ \E b \in S : route[b] # <<>>
    /\ \E proof \in UNION {Proofs(b) : b \in S} :
          Install(DetachAll(PromoteAll(Now, S), S, {b \in S : IsComplete(route[b])}, proof))

-----------------------------------------------------------------------------
(* Preemption (preemptDockingBridge, unrouteNetRoutesFromNodes)            *)

EndpointTiles(b) == {TileOf[SourceOf[b]], TileOf[PinOf[b]]}

MutPreemptible(b, c, n) ==     \* cuts on endpoint tiles too
    /\ n \in RouteOwned(route[c]) => n \in RouteTransitUses(route[c])
    /\ NetOf[c] \notin Protected
    /\ NetOf[c] # NetOf[b] /\ SourceOf[c] # SourceOf[b]

\* A binding that may lose node n to b.
Preemptible(b, c, n) ==
    /\ n \in RouteOwned(route[c]) => n \in RouteTransitUses(route[c])
    /\ NetOf[c] \notin Protected
    /\ TileOf[n] \notin EndpointTiles(c)
    /\ NetOf[c] # NetOf[b] /\ SourceOf[c] # SourceOf[b]

\* previewNetRouteCuts: nodes of the holes that no retained fragment uses.
HoleNodes(r, hole) ==
    LET keepsLanding == /\ r[hole[1] - 1].kind \in Crossbar
                        /\ r[hole[1]].kind \in Crossbar
                        /\ r[hole[1] - 1].dst = r[hole[1]].in
        nodes(i) == OwnedLanding(r[i])
                    \cup (IF r[i].kind \in Jumps THEN {r[i].src} ELSE {})
                    \cup (IF /\ r[i].kind \in {"hop", "ground"} /\ r[i].ownsDst
                             /\ ~(keepsLanding /\ i = hole[1])
                          THEN {r[i].in} ELSE {})
    IN  UNION {nodes(i) : i \in hole[1]..hole[2]}

Preview(victims, cuts) ==
    LET hole(c)  == TransitCut(route[c], cuts)
        found    == UNION {HoleNodes(route[c], hole(c)) : c \in victims}
        inHole(c, i) == c \in victims /\ i \in hole(c)[1]..hole(c)[2]
        visible  == UNION {Listed(Now, TileOf[n]) : n \in found}
        retained == UNION {UNION {Uses(route[c][i]) : i \in {j \in DOMAIN route[c] : ~inHole(c, j)}} :
                           c \in visible}
    IN  found \ retained

\* What a hole is to reach: the pin behind it, or where it ended before.
HoleEnd(r, hole) ==
    IF r[hole[2] + 1].kind = "pin" THEN r[hole[2] + 1].in ELSE r[hole[2]].dst

\* A fragment behind a hole owns everything it refers to.
Islanded(f) ==
    IF f.kind = "gap" THEN f
    ELSE IF f.kind = "pin" THEN [f EXCEPT !.shared = FALSE]
    ELSE [f EXCEPT !.shared = FALSE, !.ownsDst = f.kind # "out", !.ownsLanding = f.kind \in Jumps]

\* The victim after its hole is opened: the prefix takes the landing, the
\* tail owns everything it keeps.
Opened(r, hole) ==
    LET cut  == KeepLanding(SubSeq(r, 1, hole[1] - 1), SubSeq(r, hole[1], hole[2]))
        tail == [i \in 1..(Len(r) - hole[2]) |-> Islanded(r[hole[2] + i])]
    IN  [route   |-> cut.kept \o <<Gap(r[hole[1]].in, HoleEnd(r, hole))>> \o tail,
         removed |-> cut.removed]

\* Every victim after its hole is opened (unrouteNetRoutesFromNodes).
OpenHoles(victims, cuts) ==
    LET opened == [c \in victims |-> Opened(route[c], TransitCut(route[c], cuts))]
    IN  Withdraw(Now, [c \in Bindings |-> IF c \in victims THEN opened[c].route ELSE route[c]],
                 [c \in victims |-> opened[c].removed])

\* May b take the nodes `cuts` from the bindings that depend on them?
MayCut(b, cuts) ==
    LET victims == Dependents(Now, cuts)
    IN  /\ cuts # {}
        /\ \A n \in cuts : Dependents(Now, {n}) # {}
        /\ \A n \in cuts : \A c \in Dependents(Now, {n}) : Preemptible(b, c, n)
        /\ \A c \in victims : /\ TakeoffPrecedesCut(route[c], cuts)
                              /\ TransitCut(route[c], cuts) # <<>>
        /\ cuts \subseteq Preview(victims, cuts)

\* A search that found no free way cuts a hole in foreign transit routes and
\* commits its own suffix in the same transaction.
Preempt(b) ==
    \E st \in Starts(b) : \E p \in Paths(st.node), done \in BOOLEAN :
        LET new  == SuffixNodes(p, done, PinOf[b])
            cuts == new \cap leased
            r    == st.prefix \o Suffix(st.node, p, done, PinOf[b])
        IN  /\ p # <<>>
            /\ Reaches(st.node, p, done, PinOf[b])
            /\ st.node \in DstNodes => st.node \in leased
            /\ MayCut(b, cuts)
            /\ Install(Commit(OpenHoles(Dependents(Now, cuts), cuts), b, r, new))

-----------------------------------------------------------------------------
(* Closing a hole (repairNetRouteGaps)                                     *)

FirstOf(I) == CHOOSE i \in I : \A j \in I : i <= j
FirstGap(r) == FirstOf({i \in DOMAIN r : r[i].kind = "gap"})

\* SRCs a repair may cross although leased: the very edge of a sibling.
SharedEdge(b, n, s) ==
    /\ Owners(Now, s) \subseteq Siblings(b)
    /\ \E c \in Listed(Now, TileOf[n]) \cap Siblings(b) :
          /\ s \in RouteOwned(route[c])
          /\ \E i \in DOMAIN route[c] :
                route[c][i].kind = "hop" /\ route[c][i].in = n /\ route[c][i].src = s

\* May a repair of b's hole, which ends at node `end`, go from n over s?
MutCrossable(b, n, s, end) == s \notin leased      \* not where s lands
Crossable(b, n, s, end) ==
    \/ SharedEdge(b, n, s)
    \/ /\ s \notin leased
       /\ Landing[s] \notin leased \/ Landing[s] = end

\* The fragments that close `gap` along p.  The DST in front of the hole stays
\* with the fragment that lands on it.
Fill(gap, p) ==
    LET at(i) == IF i = 1 THEN gap.in ELSE Landing[p[i - 1]]
    IN  [i \in 1..Len(p) |-> Hop(at(i), p[i], i # 1, FALSE)]
        \o IF gap.dst \in Pins THEN <<Ground(PathEnd(gap.in, p), p # <<>>)>> ELSE <<>>

Closes(gap, p) ==
    IF gap.dst \in Pins THEN PathEnd(gap.in, p) \in Entry[gap.dst]
    ELSE p # <<>> /\ PathEnd(gap.in, p) = gap.dst

Patch(r, gap, fill) ==
    LET i == FirstOf({j \in DOMAIN r : r[j] = gap})
    IN  SubSeq(r, 1, i - 1) \o fill \o SubSeq(r, i + 1, Len(r))

\* The same-source replicas that carry the identical hole.
Twins(b, gap) ==
    LET nets == {NetOf[b]} \cup {NetOf[c] : c \in Listed(Now, TileOf[gap.in])}
    IN  {c \in Siblings(b) : NetOf[c] \in nets /\ \E i \in DOMAIN route[c] : route[c][i] = gap}

\* Every twin receives the same fragments.
CloseHoles(twins, gap, fill) ==
    LET after == [route  |-> [c \in Bindings |-> IF c \in twins THEN Patch(route[c], gap, fill) ELSE route[c]],
                  leased |-> leased \cup RouteOwned(fill),
                  reg    |-> reg]
    IN  [after EXCEPT !.reg = Rebuild(after, [c \in twins |-> route[c]])]

\* Only the first hole is repaired at a time.
RepairGap(b) ==
    /\ HasGap(route[b])
    /\ LET gap     == route[b][FirstGap(route[b])]
           at(p, i) == IF i = 1 THEN gap.in ELSE Landing[p[i - 1]]
           held(n) == Owners(Now, n) # {} /\ Owners(Now, n) \subseteq Siblings(b)
       IN  /\ held(gap.in) /\ held(gap.dst)
           /\ \E p \in Paths(gap.in) :
                 /\ Closes(gap, p)
                 /\ \A i \in 1..Len(p) : Crossable(b, at(p, i), p[i], gap.dst)
                 /\ Install(CloseHoles(Twins(b, gap), gap, Fill(gap, p)))

-----------------------------------------------------------------------------
Init ==
    /\ route  = [b \in Bindings |-> <<>>]
    /\ leased = {}
    /\ reg    = {}

Next ==
    \/ \E b \in Bindings : \/ RouteStep(b)
                           \/ Preempt(b)
                           \/ RepairGap(b)
                           \/ StepBack(b)
                           \/ Discard(b)
    \/ \E s \in Sources : UnrouteSourceTree(s)
    \/ \E S \in MoveSets : MoveSinks(S)

Spec == Init /\ [][Next]_vars

-----------------------------------------------------------------------------
(* Properties.  The first six are auditTileCongestionImpl, which the code   *)
(* runs on a real device, stated over every tile at once.                   *)

\* The types of the three variables.
TypeOK ==
    /\ route \in [Bindings -> Seq(Fragment)]
    /\ leased \subseteq Nodes
    /\ reg \subseteq Tiles \X Bindings

\* Every leased node has an owner: removal, transfer and preemption leave no
\* bit set that nothing could ever clear (orphan_leases).
NoOrphanLease == leased \subseteq UNION {RouteOwned(route[b]) : b \in Bindings}

\* A node some route physically uses stays leased, whichever replica held
\* the owning flag when another was removed (missing_leases).
UsedNodesLeased == \A b \in Bindings : RouteUses(route[b]) \subseteq leased

\* No node is driven by two sources, also while victims wait with holes
\* (conflicting_driver_nodes).
SingleDriver ==
    \A b, c \in Bindings :
        SourceOf[b] # SourceOf[c] => RouteUses(route[b]) \cap RouteUses(route[c]) = {}

\* A tile's index holds exactly the bindings whose route touches the tile
\* (missing_registrations, stale_registrations).
RegistrationExact == reg = Entries(route, Bindings)

\* A route is physically continuous from its source, hole or not, and what
\* follows a hole is what the hole promises to reach.
Continuous ==
    \A b \in Bindings : LET r == route[b] IN
        /\ r # <<>> => r[1].kind = "out" /\ r[1].in = SourceOf[b]
        /\ \A i \in 1..(Len(r) - 1) :
              CASE r[i].kind \in Jumps  -> r[i].dst = r[i + 1].in
                [] r[i].kind = "gap"    -> r[i].dst = r[i + 1].in
                [] r[i].kind = "ground" -> r[i + 1].kind = "pin" /\ r[i].in \in Entry[r[i + 1].in]
                [] r[i].kind = "pin"    -> FALSE

\* A replica never keeps a shared hop whose SRC no live sibling owns, not
\* even when the sinks of one instance move together.
SharedHopsOwned ==
    \A b \in Bindings : \A i \in DOMAIN route[b] :
        route[b][i].shared /\ route[b][i].kind \in Jumps =>
            \E c \in Siblings(b) : route[b][i].src \in RouteOwned(route[c])

\* Both ends of a hole stay leased by the victim's own source until the hole
\* is closed: repairNetRouteGaps refuses to start otherwise.
HoleBoundariesHeld ==
    \A b \in Bindings : \A i \in DOMAIN route[b] :
        route[b][i].kind = "gap" =>
            \A n \in {route[b][i].in, route[b][i].dst} :
                Owners(Now, n) # {} /\ Owners(Now, n) \subseteq Siblings(b)

\* A node passes directly from one source to another only as foreign transit:
\* never on a protected net, never on an endpoint tile, and the loser keeps
\* its takeoff and its last fragment.
ExchangeIsTransit ==
    [][\A b, c \in Bindings :
          LET lost == RouteUses(route[c]) \cap RouteUses(route'[b]) IN
          SourceOf[b] # SourceOf[c] /\ lost # {} =>
            /\ NetOf[c] \notin Protected
            /\ \A n \in lost : TileOf[n] \notin EndpointTiles(c)
            /\ Len(route'[c]) > 1
            /\ SamePhysicalFragment(route'[c][1], route[c][1])
            /\ SamePhysicalFragment(route'[c][Len(route'[c])], route[c][Len(route[c])])]_vars

=============================================================================
