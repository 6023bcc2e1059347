--------------------------- MODULE MCRouteLeases ---------------------------
(***************************************************************************)
(* An instance of RouteLeases.  Source A drives two sinks through nets that *)
(* are RTL aliases, source B one; both want the transit DST d3, and A has a  *)
(* detour through d6.                                                       *)
(*                                                                          *)
(*   A -oA-> d1 -s13-> d3 -s34-> d4 -s4e-> de   pa1                         *)
(*           d1 -s16-> d6 -s64-> d4     d3 -s35-> d5   pa2                  *)
(*                     d6 -s65-> d5                                         *)
(*   B -oB-> d2 -s23-> d3 -s37-> d7   pb                                    *)
(***************************************************************************)
EXTENDS RouteInvariants

MCSources  == {"A", "B"}
MCSrcNodes == {"oA", "oB", "s13", "s23", "s34", "s4e", "s35", "s37",
               "s16", "s64", "s65"}
MCDstNodes == {"d1", "d2", "d3", "d4", "de", "d5", "d6", "d7"}
MCPins     == {"pa1", "pa2", "pb"}
MCLanding ==
    "oA" :> "d1" @@ "oB" :> "d2" @@ "s13" :> "d3" @@ "s23" :> "d3" @@ "s34" :> "d4"
    @@ "s4e" :> "de" @@ "s35" :> "d5" @@ "s37" :> "d7" @@ "s16" :> "d6"
    @@ "s64" :> "d4" @@ "s65" :> "d5"
MCFanIn ==
    "oA" :> {"A"} @@ "oB" :> {"B"} @@ "s13" :> {"d1"} @@ "s23" :> {"d2"} @@ "s34" :> {"d3"}
    @@ "s4e" :> {"d4"} @@ "s35" :> {"d3"} @@ "s37" :> {"d3"} @@ "s16" :> {"d1"}
    @@ "s64" :> {"d6"} @@ "s65" :> {"d6"}
MCEntry == "pa1" :> {"de"} @@ "pa2" :> {"d5"} @@ "pb" :> {"d7"}
MCTileOf ==
    "A" :> 1 @@ "oA" :> 1 @@ "B" :> 2 @@ "oB" :> 2
    @@ "d1" :> 3 @@ "s13" :> 3 @@ "s16" :> 3
    @@ "d2" :> 4 @@ "s23" :> 4
    @@ "d3" :> 5 @@ "s34" :> 5 @@ "s35" :> 5 @@ "s37" :> 5
    @@ "d4" :> 6 @@ "s4e" :> 6 @@ "de" :> 7 @@ "pa1" :> 7
    @@ "d5" :> 8 @@ "pa2" :> 8 @@ "d6" :> 9 @@ "s64" :> 9 @@ "s65" :> 9
    @@ "d7" :> 10 @@ "pb" :> 10

MCBindings == {"a1", "a2", "b1"}
MCOrder    == <<"a1", "a2", "b1">>
MCNetOf    == "a1" :> "na" @@ "a2" :> "alias" @@ "b1" :> "nb"
MCSourceOf == "a1" :> "A" @@ "a2" :> "A" @@ "b1" :> "B"
MCCluster  == {{"a1", "a2"}}
MCMoveSets == {{"a1"}, {"a2"}}
MCPinOf    == "a1" :> "pa1" @@ "a2" :> "pa2" @@ "b1" :> "pb"

\* The same fabric with pa1 grounded at d4: shorter routes for the runs in
\* which sinks move.
ShortSrcNodes == MCSrcNodes \ {"s4e"}
ShortDstNodes == MCDstNodes \ {"de"}
ShortLanding  == [s \in ShortSrcNodes |-> MCLanding[s]]
ShortFanIn    == [s \in ShortSrcNodes |-> MCFanIn[s]]
ShortEntry    == "pa1" :> {"d4"} @@ MCEntry
ShortTileOf   == "pa1" :> 6 @@ MCTileOf
\* pb at the tile of d3: A may never cut b1 there.
NearTileOf    == "pb" :> 5 @@ "d7" :> 5 @@ ShortTileOf
MCOneNet      == "a1" :> "na" @@ "a2" :> "na" @@ "b1" :> "nb"
=============================================================================
