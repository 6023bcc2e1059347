--------------------------- MODULE RouteFragments ---------------------------
(***************************************************************************)
(* The fabric, the fragments a route is made of, and the pure functions    *)
(* of src/src/fpga/Wire.cpp that read a route: which fragment physically uses  *)
(* a node, which one owns its lease, where a cut falls, what a fork point  *)
(* is.  Nothing here has state; RouteLeases holds it.                      *)
(*                                                                         *)
(* A node is a SRC (the driver of one inter-tile wire), a DST (where such  *)
(* a wire lands) or a PIN (the LOCAL input of a sink).  JOINTs follow the  *)
(* SRC of their fragment in every rule of Wire.cpp and are folded into it. *)
(* The output LOCAL of a source is never leased by the numeric router      *)
(* (leaseConcreteOut) and is only the identity of the source.              *)
(*                                                                         *)
(* Operators named Mut* are not part of the model: each is the operator    *)
(* after it with a plausible bug, and a property must notice the exchange. *)
(***************************************************************************)
EXTENDS Naturals, Sequences, FiniteSets

CONSTANTS
    Sources,      \* physical driver ports
    SrcNodes,     \* SRC nodes of the fabric
    DstNodes,     \* DST nodes of the fabric
    Pins,         \* sink LOCAL nodes
    Landing,      \* Landing[s]: the DST a SRC jumps to
    FanIn,        \* FanIn[s]: the sources and DSTs with an arc to SRC s
    Entry,        \* Entry[p]: the DSTs with an arc to pin p
    TileOf,       \* the tile of a node or of a source
    NoNode        \* the -1 of Wire::jump and Wire::dst

Nodes == SrcNodes \cup DstNodes \cup Pins

ASSUME FabricAssumption ==
    /\ Landing \in [SrcNodes -> DstNodes]
    /\ FanIn \in [SrcNodes -> SUBSET (Sources \cup DstNodes)]
    /\ Entry \in [Pins -> SUBSET DstNodes]
    /\ Nodes \cup Sources \subseteq DOMAIN TileOf
    /\ NoNode \notin Nodes
    \* The node types of a tile have masks of their own.
    /\ Sources \cap Nodes = {} /\ SrcNodes \cap DstNodes = {}
    /\ Pins \cap (SrcNodes \cup DstNodes) = {}
    \* The arcs of a crossbar stay in its tile; only a SRC leaves it.
    /\ \A s \in SrcNodes : \A n \in FanIn[s] : TileOf[n] = TileOf[s]

(***************************************************************************)
(* Fragments.  "out" is a CROSSBAR with pos 0 (the takeoff), "hop" one     *)
(* with pos 1 or 2 and a jump, "ground" the terminal CROSSBAR without a    *)
(* jump, "pin" the input TILE_PIN, "gap" the hole a preemption leaves.     *)
(***************************************************************************)
Crossbar == {"out", "hop", "ground"}
Jumps    == {"out", "hop"}

Fragment == [kind : Crossbar \cup {"pin", "gap"},
             in   : Sources \cup DstNodes \cup Pins,
             src  : SrcNodes \cup {NoNode},
             dst  : DstNodes \cup Pins \cup {NoNode},
             shared : BOOLEAN, ownsDst : BOOLEAN, ownsLanding : BOOLEAN]

Hop(n, s, owns, landing) ==
    [kind |-> IF n \in Sources THEN "out" ELSE "hop",
     in |-> n, src |-> s, dst |-> Landing[s],
     shared |-> FALSE, ownsDst |-> owns, ownsLanding |-> landing]

Ground(n, owns) ==
    [kind |-> "ground", in |-> n, src |-> NoNode, dst |-> NoNode,
     shared |-> FALSE, ownsDst |-> owns, ownsLanding |-> FALSE]

Pin(p) ==
    [kind |-> "pin", in |-> p, src |-> NoNode, dst |-> NoNode,
     shared |-> FALSE, ownsDst |-> TRUE, ownsLanding |-> FALSE]

Gap(n, end) ==
    [kind |-> "gap", in |-> n, src |-> NoNode, dst |-> end,
     shared |-> FALSE, ownsDst |-> TRUE, ownsLanding |-> FALSE]

FromTile(f) == TileOf[f.in]
ToTile(f)   == IF f.kind \in Jumps \cup {"gap"} THEN TileOf[f.dst] ELSE TileOf[f.in]
FragmentTiles(f) == {FromTile(f), ToTile(f)}
RouteTiles(r) == UNION {FragmentTiles(r[i]) : i \in 1..Len(r)}

\* Equality of fragments as fabric, whatever their ownership flags.
SamePhysicalFragment(f, g) ==
    /\ f.kind = g.kind
    /\ f.in = g.in /\ f.src = g.src /\ f.dst = g.dst

(***************************************************************************)
(* Use and ownership of a node by one fragment (routeUsesNodeOnTile).      *)
(***************************************************************************)
\* The nodes a fragment physically depends on (routeNodeCut's test).
Uses(f) ==
    CASE f.kind = "out"    -> {f.src, f.dst}
      [] f.kind = "hop"    -> {f.in, f.src, f.dst}
      [] f.kind = "ground" -> {f.in}
      [] f.kind = "pin"    -> {f.in}
      [] f.kind = "gap"    -> {}

OwnedLanding(f) ==
    IF f.kind \in Jumps /\ f.ownsLanding THEN {f.dst} ELSE {}

\* The nodes whose lease a fragment owns.  A shared replica owns only a
\* landing it explicitly reserved.
Owned(f) ==
    OwnedLanding(f) \cup
    IF f.shared \/ f.kind = "gap" THEN {}
    ELSE (IF f.kind \in Jumps THEN {f.src} ELSE {})
         \cup (IF f.kind \in {"hop", "ground"} /\ f.ownsDst THEN {f.in} ELSE {})
         \cup (IF f.kind = "pin" THEN {f.in} ELSE {})

\* Nodes for which a binding counts as a transit user (transit_only = true,
\* owned_only = false): hops only, and an incoming DST only if owned.
TransitUses(f) ==
    OwnedLanding(f) \cup
    (IF f.kind = "hop" THEN {f.src} \cup (IF f.ownsDst THEN {f.in} ELSE {}) ELSE {})

RouteUses(r)  == UNION {Uses(r[i])  : i \in 1..Len(r)}
RouteOwned(r) == UNION {Owned(r[i]) : i \in 1..Len(r)}
RouteTransitUses(r) == UNION {TransitUses(r[i]) : i \in 1..Len(r)}

HasGap(r) == \E i \in 1..Len(r) : r[i].kind = "gap"

IsComplete(r) == /\ Len(r) > 0 /\ r[Len(r)].kind = "pin"
                 /\ ~HasGap(r)
                 /\ \E i \in 1..Len(r) : r[i].kind \in Crossbar

MutLeaseRefs(removed) ==   \* forgets a landing the removed tail reserved
    UNION {Owned([removed[i] EXCEPT !.shared = FALSE, !.ownsLanding = FALSE]) :
              i \in 1..Len(removed)}

\* The nodes releaseRouteFragmentLease tries to clear for a removed range.
LeaseRefs(removed) ==
    UNION {LET f == removed[i] IN
             OwnedLanding(f)
             \cup (IF f.kind \in Jumps THEN {f.src} ELSE {})
             \cup (IF f.kind \in {"hop", "ground"} /\ f.ownsDst THEN {f.in} ELSE {})
             \cup (IF f.kind = "pin" /\ i = Len(removed) THEN {f.in} ELSE {})
           : i \in 1..Len(removed)}

\* Length of the physically common prefix of two routes.
CommonLength(r, q) ==
    LET bound == IF Len(r) < Len(q) THEN Len(r) ELSE Len(q)
        common == {k \in 0..bound : \A i \in 1..k : SamePhysicalFragment(r[i], q[i])}
    IN  CHOOSE k \in common : \A j \in common : j <= k

MutEndpoint(r) ==          \* resumes at the first landing, not at the last
    IF r[1].kind \in Jumps THEN r[1].dst ELSE NoNode

\* The DST a route without gaps could be continued from.
Endpoint(r) ==
    LET jumps == {i \in 1..Len(r) : r[i].kind \in Jumps}
    IN  IF jumps = {} THEN NoNode
        ELSE r[CHOOSE i \in jumps : \A j \in jumps : j <= i].dst

(***************************************************************************)
(* Where a preemption cuts a victim (routeNodeCut, transitCutEnd).  The    *)
(* result is the pair <<first, last>> of removed fragments, or <<>> when   *)
(* the cut is refused.                                                     *)
(***************************************************************************)
FirstUse(r, cuts) ==
    LET users == {i \in 1..Len(r) : Uses(r[i]) \cap cuts # {}}
    IN  IF users = {} THEN 0 ELSE CHOOSE i \in users : \A j \in users : i <= j

TransitCut(r, cuts) ==
    LET users == {i \in 1..Len(r) : Uses(r[i]) \cap cuts # {}}
        first == FirstUse(r, cuts)
        final == CHOOSE i \in users : \A j \in users : j <= i
        \* Reusing a SRC also takes its landing: the departing hop goes too.
        end1  == IF final < Len(r) /\ r[final].src \in cuts THEN final + 1 ELSE final
        low   == IF first > 1 /\ r[first - 1].kind = "gap" THEN first - 1 ELSE first
        end2  == IF end1 < Len(r) /\ r[end1 + 1].kind = "gap" THEN end1 + 1 ELSE end1
        \* A disconnected terminal hop is not kept: the hole ends at the pin.
        end   == IF end2 + 2 = Len(r) /\ r[end2 + 1].kind = "ground"
                    /\ r[Len(r)].kind = "pin" THEN end2 + 1 ELSE end2
        terminal == end + 1 = Len(r) /\ r[Len(r)].kind = "pin"
        transit(i) == \/ r[i].kind \in {"hop", "gap"}
                      \/ terminal /\ i = end /\ r[i].kind = "ground"
        boundary == IF terminal
                    THEN r[end].kind = "gap" => r[end].dst = r[Len(r)].in
                    ELSE /\ r[end + 1].kind \in Crossbar
                         /\ r[end].dst = r[end + 1].in
    IN  IF /\ \A i \in users : r[i].kind = "hop"
           /\ low > 1
           /\ end < Len(r)
           /\ \A i \in low..end : transit(i)
           /\ boundary
        THEN <<low, end>> ELSE <<>>

\* A takeoff leaving its tile precedes the cut (canPreemptNetRouteFromNodes).
TakeoffPrecedesCut(r, cuts) ==
    /\ FirstUse(r, cuts) # 0
    /\ \E i \in 1..(FirstUse(r, cuts) - 1) :
          r[i].kind \in Jumps /\ FromTile(r[i]) # ToTile(r[i])
=============================================================================
