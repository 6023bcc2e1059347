------------------------- MODULE RouteLeasesProofs -------------------------
(***************************************************************************)
(* Theorems about RouteLeases, for every fabric and every set of bindings: *)
(* every fragment is one the fabric has, and the tile indexes are exact    *)
(* (Regular).  The owner queries rest on it, and so does RouteTreeProofs.  *)
(***************************************************************************)
EXTENDS RouteInvariants, InductionLemmas, SequenceTheorems

-----------------------------------------------------------------------------
(* Fragments                                                               *)

\* The constructors of RouteFragments make fragments of the fabric.
LEMMA Constructors ==
    /\ \A s \in SrcNodes, owns, landing \in BOOLEAN : \A n \in FanIn[s] :
          Hop(n, s, owns, landing) \in Good
    /\ \A n \in DstNodes, owns \in BOOLEAN : Ground(n, owns) \in Good
    /\ \A p \in Pins : Pin(p) \in Good
    /\ \A n \in DstNodes, d \in DstNodes \cup Pins : Gap(n, d) \in Good
<1> USE FabricAssumption
<1>1. ASSUME NEW s \in SrcNodes, NEW owns \in BOOLEAN, NEW landing \in BOOLEAN, NEW n \in FanIn[s]
      PROVE  Hop(n, s, owns, landing) \in Good
  <2>1. n \in Sources \cup DstNodes /\ Landing[s] \in DstNodes /\ (n \in Sources => n \notin DstNodes)
    BY DEF Nodes
  <2>2. Hop(n, s, owns, landing) \in Fragment
    BY <2>1 DEF Hop, Fragment, Crossbar
  <2>3. Shape(Hop(n, s, owns, landing))
    BY <2>1 DEF Hop, Shape
  <2>4. QED
    BY <2>2, <2>3 DEF Good
<1>2. \A n \in DstNodes, owns \in BOOLEAN : Ground(n, owns) \in Good
  BY DEF Ground, Good, Fragment, Crossbar, Shape
<1>3. \A p \in Pins : Pin(p) \in Good
  BY DEF Pin, Good, Fragment, Crossbar, Shape
<1>4. \A n \in DstNodes, d \in DstNodes \cup Pins : Gap(n, d) \in Good
  BY DEF Gap, Good, Fragment, Crossbar, Shape
<1>5. QED
  BY <1>1, <1>2, <1>3, <1>4

\* What is known of a fragment of the fabric.
LEMMA GoodFragment ==
    ASSUME NEW f \in Good
    PROVE  /\ f \in Fragment /\ Shape(f)
           /\ f.kind \in {"out", "hop", "ground", "pin", "gap"}
           /\ f.shared \in BOOLEAN /\ f.ownsDst \in BOOLEAN /\ f.ownsLanding \in BOOLEAN
           /\ f.in \in Sources \cup DstNodes \cup Pins
           /\ FragmentTiles(f) \subseteq Tiles
<1>1. f \in Fragment /\ Shape(f)
  BY DEF Good
<1>2. f.kind \in {"out", "hop", "ground", "pin", "gap"}
  BY <1>1 DEF Fragment, Crossbar
<1>3. /\ f.shared \in BOOLEAN /\ f.ownsDst \in BOOLEAN /\ f.ownsLanding \in BOOLEAN
      /\ f.in \in Sources \cup DstNodes \cup Pins
  BY <1>1 DEF Fragment
<1>4. f.kind \in Jumps \cup {"gap"} => f.dst \in DstNodes \cup Pins
  BY <1>1, FabricAssumption DEF Shape, Jumps
<1>5. FragmentTiles(f) \subseteq Tiles
  BY <1>3, <1>4 DEF FragmentTiles, FromTile, ToTile, Tiles, Nodes
<1>6. QED
  BY <1>1, <1>2, <1>3, <1>5

\* f with other ownership flags.
Flagged(f, sh, od, ol) == [f EXCEPT !.shared = sh, !.ownsDst = od, !.ownsLanding = ol]

\* Fragments that differ in ownership only.
LEMMA Reflagged ==
    ASSUME NEW f \in Good, f.kind # "gap",
           NEW sh \in BOOLEAN, NEW od \in BOOLEAN, NEW ol \in BOOLEAN
    PROVE  /\ Flagged(f, sh, od, ol) \in Good /\ SamePhysicalFragment(f, Flagged(f, sh, od, ol))
           /\ Flagged(f, sh, od, ol).shared = sh /\ Flagged(f, sh, od, ol).ownsDst = od
           /\ Flagged(f, sh, od, ol).ownsLanding = ol
<1> DEFINE g == Flagged(f, sh, od, ol)
<1>1. f \in Fragment /\ Shape(f)
  BY DEF Good
<1>2. /\ g \in Fragment /\ g.shared = sh /\ g.ownsDst = od /\ g.ownsLanding = ol
      /\ g.kind = f.kind /\ g.in = f.in /\ g.src = f.src /\ g.dst = f.dst
  BY <1>1 DEF Fragment, Flagged
<1>3. Shape(g)
  BY <1>1, <1>2 DEF Shape
<1>4. QED
  BY <1>2, <1>3 DEF Good, SamePhysicalFragment

\* Changing an ownership flag leaves a fragment the same fabric.
LEMMA OneFlag ==
    ASSUME NEW f \in Good, f.kind # "gap", NEW v \in BOOLEAN
    PROVE  /\ [f EXCEPT !.shared = v] \in Good
           /\ SamePhysicalFragment(f, [f EXCEPT !.shared = v])
           /\ [f EXCEPT !.ownsDst = v] \in Good
           /\ SamePhysicalFragment(f, [f EXCEPT !.ownsDst = v])
           /\ [f EXCEPT !.ownsLanding = v] \in Good
           /\ SamePhysicalFragment(f, [f EXCEPT !.ownsLanding = v])
<1>1. f \in Fragment /\ f.shared \in BOOLEAN /\ f.ownsDst \in BOOLEAN /\ f.ownsLanding \in BOOLEAN
  BY GoodFragment
<1>2. /\ [f EXCEPT !.shared = v] = Flagged(f, v, f.ownsDst, f.ownsLanding)
      /\ [f EXCEPT !.ownsDst = v] = Flagged(f, f.shared, v, f.ownsLanding)
      /\ [f EXCEPT !.ownsLanding = v] = Flagged(f, f.shared, f.ownsDst, v)
  BY <1>1 DEF Flagged, Fragment
<1>3. /\ Flagged(f, v, f.ownsDst, f.ownsLanding) \in Good
      /\ SamePhysicalFragment(f, Flagged(f, v, f.ownsDst, f.ownsLanding))
      /\ Flagged(f, f.shared, v, f.ownsLanding) \in Good
      /\ SamePhysicalFragment(f, Flagged(f, f.shared, v, f.ownsLanding))
      /\ Flagged(f, f.shared, f.ownsDst, v) \in Good
      /\ SamePhysicalFragment(f, Flagged(f, f.shared, f.ownsDst, v))
  BY <1>1, Reflagged
<1>4. QED
  BY <1>2, <1>3

\* A set of numbers up to n has a largest one.
LEMMA LargestUpTo ==
    ASSUME NEW n \in Nat, NEW T, T \subseteq 0..n, T # {}
    PROVE  LET m == CHOOSE k \in T : \A j \in T : j <= k
           IN  m \in T /\ \A j \in T : j <= m
<1>1. IsFiniteSet(0..n)
  BY FS_Interval
<1>2. T \in SUBSET (0..n) /\ T \subseteq Int
  OBVIOUS
<1>2a. IsFiniteSet(T)
  BY <1>1, <1>2, FS_Subset
<1>3. \E m \in T : \A j \in T : j <= m
  BY <1>2, <1>2a, Largest
<1>4. QED
  BY <1>3

\* CommonLength is how far two routes agree.
LEMMA Common ==
    ASSUME NEW r \in Seq(Good), NEW q \in Seq(Good)
    PROVE  /\ CommonLength(r, q) \in Nat
           /\ Agree(r, q, CommonLength(r, q))
           /\ \A i \in Nat : Agree(r, q, i) <=> i <= CommonLength(r, q)
<1> DEFINE bound == IF Len(r) < Len(q) THEN Len(r) ELSE Len(q)
           common == {k \in 0..bound : \A i \in 1..k : SamePhysicalFragment(r[i], q[i])}
           c == CHOOSE k \in common : \A j \in common : j <= k
<1>1. Len(r) \in Nat /\ Len(q) \in Nat /\ bound \in Nat
  OBVIOUS
<1>2. 0 \in common /\ common \subseteq 0..bound
  BY <1>1
<1>3. c \in common /\ \A j \in common : j <= c
  <2> HIDE DEF common, bound
  <2> QED
    BY <1>1, <1>2, LargestUpTo
<1>4. CommonLength(r, q) = c
  BY DEF CommonLength
<1>5. c \in Nat /\ Agree(r, q, c)
  BY <1>1, <1>3 DEF Agree
<1>6. \A i \in Nat : Agree(r, q, i) => i <= c
  <2> SUFFICES ASSUME NEW i \in Nat, Agree(r, q, i) PROVE i <= c
    OBVIOUS
  <2>1. i \in common
    BY <1>1 DEF Agree
  <2>2. QED
    BY <1>3, <2>1
<1>7. \A i \in Nat : i <= c => Agree(r, q, i)
  <2> HIDE DEF c
  <2> SUFFICES ASSUME NEW i \in Nat, i <= c PROVE Agree(r, q, i)
    OBVIOUS
  <2>1. 1..i \subseteq 1..c /\ i <= Len(r) /\ i <= Len(q)
    BY <1>1, <1>5 DEF Agree
  <2>2. QED
    BY <1>5, <2>1 DEF Agree
<1>8. QED
  BY <1>4, <1>5, <1>6, <1>7

\* To be the same fabric is an equivalence.
LEMMA SameFabricFacts ==
    /\ \A r : SameFabric(r, r)
    /\ \A r, q : SameFabric(r, q) => SameFabric(q, r)
    /\ \A r, q, p : SameFabric(r, q) /\ SameFabric(q, p) => SameFabric(r, p)
BY DEF SameFabric, SamePhysicalFragment

\* The nodes and tiles of a route are those of its fabric.
LEMMA FabricOnly ==
    ASSUME NEW r \in Seq(Good), NEW q \in Seq(Good), SameFabric(r, q)
    PROVE  RouteTiles(r) = RouteTiles(q) /\ RouteUses(r) = RouteUses(q)
<1>1. \A f, g : SamePhysicalFragment(f, g) => FragmentTiles(f) = FragmentTiles(g) /\ Uses(f) = Uses(g)
  BY DEF SamePhysicalFragment, FragmentTiles, FromTile, ToTile, Uses
<1>2. Len(r) = Len(q) /\ \A i \in 1..Len(r) : SamePhysicalFragment(r[i], q[i])
  BY DEF SameFabric
<1>3. \A i \in 1..Len(r) : FragmentTiles(r[i]) = FragmentTiles(q[i]) /\ Uses(r[i]) = Uses(q[i])
  BY <1>1, <1>2
<1>4. QED
  BY <1>2, <1>3 DEF RouteTiles, RouteUses

-----------------------------------------------------------------------------
(* Ownership transfer                                                      *)

\* Both results are fabric fragments that differ in ownership only.
LEMMA TransferGood ==
    ASSUME NEW r \in Seq(Good), NEW q \in Seq(Good), NEW k, k = CommonLength(r, q)
    PROVE  /\ \A i \in 1..Len(r) : Given(r, q, k, i) \in Good /\ SamePhysicalFragment(r[i], Given(r, q, k, i))
           /\ \A i \in 1..Len(q) : Taken(r, q, k, i) \in Good /\ SamePhysicalFragment(q[i], Taken(r, q, k, i))
<1>1. k \in Nat /\ Agree(r, q, k)
  BY Common
<1>2. \A i \in 1..Len(r) : r[i] \in Good
  OBVIOUS
<1>3. \A i \in 1..Len(q) : q[i] \in Good
  OBVIOUS
<1>a. \A f : SamePhysicalFragment(f, f)
  BY DEF SamePhysicalFragment
<1>4. ASSUME NEW i \in 1..Len(r)
      PROVE  Given(r, q, k, i) \in Good /\ SamePhysicalFragment(r[i], Given(r, q, k, i))
  <2>1. r[i] \in Good /\ r[i] \in Fragment
    BY <1>2 DEF Good
  <2>b. r[i].shared \in BOOLEAN /\ r[i].ownsDst \in BOOLEAN /\ r[i].ownsLanding \in BOOLEAN
    BY <2>1, GoodFragment
  <2>3. CASE i <= k /\ r[i].kind # "gap"
    <3>1. Given(r, q, k, i) = [r[i] EXCEPT !.ownsLanding = FALSE, !.shared = TRUE]
      BY <2>3 DEF Given
    <3> DEFINE g == Flagged(r[i], TRUE, r[i].ownsDst, FALSE)
    <3>2. g \in Good /\ SamePhysicalFragment(r[i], g)
      BY <2>1, <2>3, <2>b, Reflagged
    <3>3. Given(r, q, k, i) = g
      BY <2>1, <3>1 DEF Flagged, Fragment
    <3> HIDE DEF g
    <3>4. QED
      BY <3>2, <3>3
  <2>4. CASE ~(i <= k /\ r[i].kind # "gap") /\ i = k + 1 /\ LandingMoves(r, q, k)
    <3>1. r[i].kind # "gap"
      BY <2>4 DEF LandingMoves
    <3>2. Given(r, q, k, i) = [r[i] EXCEPT !.ownsDst = FALSE]
      BY <2>4 DEF Given
    <3> DEFINE g == Flagged(r[i], r[i].shared, FALSE, r[i].ownsLanding)
    <3>3. g \in Good /\ SamePhysicalFragment(r[i], g)
      BY <2>1, <2>b, <3>1, Reflagged
    <3>4. Given(r, q, k, i) = g
      BY <2>1, <3>2 DEF Flagged, Fragment
    <3> HIDE DEF g
    <3>5. QED
      BY <3>3, <3>4
  <2>5. CASE ~(i <= k /\ r[i].kind # "gap") /\ ~(i = k + 1 /\ LandingMoves(r, q, k))
    <3>1. Given(r, q, k, i) = r[i]
      BY <2>5 DEF Given
    <3>2. QED
      BY <1>a, <2>1, <3>1
  <2>6. QED
    BY <2>3, <2>4, <2>5
<1>5. ASSUME NEW i \in 1..Len(q)
      PROVE  Taken(r, q, k, i) \in Good /\ SamePhysicalFragment(q[i], Taken(r, q, k, i))
  <2>2. q[i] \in Good /\ q[i] \in Fragment
    BY <1>3 DEF Good
  <2>3. CASE i > k \/ r[i].kind = "gap"
    BY <1>a, <2>2, <2>3 DEF Taken
  <2>4. CASE ~(i > k \/ r[i].kind = "gap")
    <3> DEFINE sh == q[i].shared /\ r[i].shared
               od == q[i].ownsDst \/ (~r[i].shared /\ r[i].ownsDst)
               ol == q[i].ownsLanding \/ r[i].ownsLanding \/ (i = k /\ LandingMoves(r, q, k))
               g  == Flagged(q[i], sh, od, ol)
    <3>1. sh \in BOOLEAN /\ od \in BOOLEAN /\ ol \in BOOLEAN
      OBVIOUS
    <3>2. Taken(r, q, k, i) = g
      BY <2>2, <2>4 DEF Taken, Fragment, Flagged
    <3>3. q[i].kind # "gap"
      <4>1. i <= k /\ i \in 1..k
        BY <1>1, <2>4
      <4>2. QED
        BY <1>1, <2>4, <4>1 DEF Agree, SamePhysicalFragment
    <3> HIDE DEF sh, od, ol
    <3>4. g \in Good /\ SamePhysicalFragment(q[i], g)
      BY <2>2, <3>1, <3>3, Reflagged
    <3> HIDE DEF g
    <3>5. QED
      BY <3>2, <3>4
  <2>5. QED
    BY <2>3, <2>4
<1>6. QED
  BY <1>4, <1>5

\* The fabric of both routes stays as it was.
LEMMA TransferKeeps ==
    ASSUME NEW r \in Seq(Good), NEW q \in Seq(Good)
    PROVE  /\ TransferPrefix(r, q).removed \in Seq(Good)
           /\ TransferPrefix(r, q).sibling \in Seq(Good)
           /\ SameFabric(r, TransferPrefix(r, q).removed)
           /\ SameFabric(q, TransferPrefix(r, q).sibling)
<1> DEFINE k == CommonLength(r, q)
           g == [i \in 1..Len(r) |-> Given(r, q, k, i)]
           t == [i \in 1..Len(q) |-> Taken(r, q, k, i)]
<1>1. TransferPrefix(r, q).removed = g /\ TransferPrefix(r, q).sibling = t
  BY DEF TransferPrefix
<1>2. Len(r) \in Nat /\ Len(q) \in Nat
  OBVIOUS
<1>3. g \in Seq(Good) /\ Len(g) = Len(r) /\ t \in Seq(Good) /\ Len(t) = Len(q)
  BY <1>2, TransferGood
<1>4. \A i \in 1..Len(r) : SamePhysicalFragment(r[i], g[i])
  BY TransferGood
<1>5. \A i \in 1..Len(q) : SamePhysicalFragment(q[i], t[i])
  BY TransferGood
<1> HIDE DEF g, t
<1>6. QED
  BY <1>1, <1>3, <1>4, <1>5 DEF SameFabric

\* A transfer between two routes of a tree.
LEMMA HandOverKeeps ==
    ASSUME NEW rt \in Routes, NEW b \in Bindings, NEW c \in Bindings
    PROVE  /\ HandOver(rt, b, c) \in Routes
           /\ b # c => \A d \in Bindings : SameFabric(rt[d], HandOver(rt, b, c)[d])
<1> DEFINE moved == TransferPrefix(rt[b], rt[c])
<1>1. rt[b] \in Seq(Good) /\ rt[c] \in Seq(Good)
  BY DEF Routes
<1>2. /\ moved.removed \in Seq(Good) /\ moved.sibling \in Seq(Good)
      /\ SameFabric(rt[b], moved.removed) /\ SameFabric(rt[c], moved.sibling)
  BY <1>1, TransferKeeps
<1>3. HandOver(rt, b, c) = [rt EXCEPT ![b] = moved.removed, ![c] = moved.sibling]
  BY DEF HandOver
<1> HIDE DEF moved
<1>4. HandOver(rt, b, c) \in Routes
  BY <1>2, <1>3 DEF Routes
<1>5. ASSUME b # c, NEW d \in Bindings PROVE SameFabric(rt[d], HandOver(rt, b, c)[d])
  <2>1. HandOver(rt, b, c)[d] = IF d = c THEN moved.sibling ELSE IF d = b THEN moved.removed ELSE rt[d]
    BY <1>3, <1>5 DEF Routes
  <2>2. QED
    BY <1>2, <2>1, SameFabricFacts
<1>6. QED
  BY <1>4, <1>5

\* The two passes over the bindings that Promote makes.
Turns == 2 * Len(BindingOrder)

\* Each of the turns of a promotion looks at a binding.
LEMMA TurnsFacts ==
    /\ Turns \in Nat
    /\ \A k \in 1..Turns : AtTurn(k) \in Bindings
<1>1. BindingOrder \in Seq(Bindings) /\ Len(BindingOrder) \in Nat
  BY BindingAssumption
<1>2. ASSUME NEW k \in 1..Turns PROVE AtTurn(k) \in Bindings
  <2> DEFINE j == IF k <= Len(BindingOrder) THEN k ELSE k - Len(BindingOrder)
  <2>1. j \in 1..Len(BindingOrder)
    BY <1>1 DEF Turns
  <2>2. QED
    BY <1>1, <2>1 DEF AtTurn
<1>3. QED
  BY <1>1, <1>2 DEF Turns

\* w lists the routes after each turn of a promotion.
Promotes(st, b, excluded, w) ==
    /\ w[0] = st.route
    /\ \A k \in 1..Turns : w[k] = IF Visited(st, b, excluded, k) THEN HandOver(w[k - 1], b, AtTurn(k))
                                  ELSE w[k - 1]
    /\ st.route[b] # <<>> => Promote(st, b, excluded) = [st EXCEPT !.route = w[Turns]]

\* A promotion has such a list.
LEMMA Promoting ==
    ASSUME NEW st, st.route \in Routes, NEW b \in Bindings, NEW excluded
    PROVE  \E w \in [0..Turns -> Routes] : Promotes(st, b, excluded, w)
<1> DEFINE G(k, rt) == IF Visited(st, b, excluded, k) THEN HandOver(rt, b, AtTurn(k)) ELSE rt
           F == [k \in 1..Turns |-> [rt \in Routes |-> G(k, rt)]]
           IsRun(w) == w = [k \in 0..Turns |-> IF k = 0 THEN st.route ELSE G(k, w[k - 1])]
<1>1. Turns \in Nat /\ st.route \in Routes
  BY TurnsFacts
<1>2. \A k \in 1..Turns, rt \in Routes : G(k, rt) \in Routes
  BY TurnsFacts, HandOverKeeps
<1>3. F \in [1..Turns -> [Routes -> Routes]]
  <2> HIDE DEF G
  <2> QED
    BY <1>2
<1>4. PICK v \in [0..Turns -> Routes] : Iterates(Turns, st.route, F, v)
  <2> HIDE DEF F
  <2> QED
    BY <1>1, <1>3, Iteration
<1>5. \A k \in 1..Turns : v[k] = G(k, v[k - 1])
  <2> SUFFICES ASSUME NEW k \in 1..Turns PROVE v[k] = G(k, v[k - 1])
    OBVIOUS
  <2>1. k - 1 \in 0..Turns
    BY <1>1
  <2>2. v[k - 1] \in Routes
    BY <1>4, <2>1
  <2> HIDE DEF G
  <2>3. F[k][v[k - 1]] = G(k, v[k - 1])
    BY <2>2
  <2>4. v[k] = F[k][v[k - 1]]
    BY <1>4 DEF Iterates
  <2>5. QED
    BY <2>3, <2>4
<1>6. \E w : IsRun(w)
  <2> HIDE DEF F, G
  <2>1. \A k \in 0..Turns : v[k] = IF k = 0 THEN st.route ELSE G(k, v[k - 1])
    BY <1>1, <1>4, <1>5 DEF Iterates
  <2>2. IsRun(v)
    BY <1>4, <2>1
  <2>3. QED
    BY <2>2
<1> DEFINE w == CHOOSE g : IsRun(g)
<1>7. IsRun(w)
  <2> HIDE DEF IsRun
  <2> QED
    BY <1>6
<1>8. st.route[b] # <<>> => Promote(st, b, excluded) = [st EXCEPT !.route = w[Turns]]
  BY DEF Promote, Turns
<1>9. w[0] = st.route /\ \A k \in 1..Turns : w[k] = G(k, w[k - 1])
  <2> HIDE DEF w, G
  <2> QED
    BY <1>1, <1>7
<1> DEFINE T == {k \in Nat : k <= Turns => w[k] \in Routes}
<1>10. 0 \in T
  BY <1>1, <1>9
<1>11. ASSUME NEW k \in Nat, k \in T PROVE k + 1 \in T
  <2> HIDE DEF w, G
  <2> SUFFICES ASSUME k + 1 <= Turns PROVE w[k + 1] \in Routes
    OBVIOUS
  <2>1. k + 1 \in 1..Turns /\ w[k] \in Routes /\ (k + 1) - 1 = k
    BY <1>1, <1>11
  <2>2. w[k + 1] = G(k + 1, w[k])
    BY <1>9, <2>1
  <2>3. G(k + 1, w[k]) \in Routes
    BY <1>2, <2>1
  <2>4. QED
    BY <2>2, <2>3
<1>12. \A k \in 0..Turns : w[k] \in Routes
  <2>1. Nat \subseteq T
    <3> HIDE DEF T
    <3> QED
      BY <1>10, <1>11, Induct
  <2> HIDE DEF w, G
  <2>2. QED
    BY <1>1, <2>1
<1>13. w \in [0..Turns -> Routes]
  <2> HIDE DEF w, G
  <2> QED
    BY <1>7, <1>12
<1>14. Promotes(st, b, excluded, w)
  <2> HIDE DEF w
  <2> QED
    BY <1>8, <1>9 DEF Promotes
<1>15. QED
  BY <1>13, <1>14

\* A promotion moves ownership only.
LEMMA PromoteKeeps ==
    ASSUME NEW st \in States, NEW b \in Bindings, NEW excluded
    PROVE  /\ Promote(st, b, excluded) \in States
           /\ Promote(st, b, excluded).leased = st.leased
           /\ Promote(st, b, excluded).reg = st.reg
           /\ \A d \in Bindings : SameFabric(st.route[d], Promote(st, b, excluded).route[d])
<1> DEFINE Kept(rt) == \A d \in Bindings : SameFabric(st.route[d], rt[d])
<1>1. CASE st.route[b] = <<>>
  <2>1. Promote(st, b, excluded) = st
    BY <1>1 DEF Promote
  <2>2. QED
    BY <2>1, SameFabricFacts
<1>2. CASE st.route[b] # <<>>
  <2>0. st.route \in Routes
    BY DEF States
  <2>1. PICK w \in [0..Turns -> Routes] : Promotes(st, b, excluded, w)
    BY <2>0, Promoting
  <2>2. Turns \in Nat /\ \A k \in 1..Turns : AtTurn(k) \in Bindings
    BY TurnsFacts
  <2> DEFINE S == {k \in Nat : k <= Turns => Kept(w[k])}
  <2>3. 0 \in S
    BY <2>1, SameFabricFacts DEF Promotes
  <2>4. ASSUME NEW k \in Nat, k \in S PROVE k + 1 \in S
    <3> SUFFICES ASSUME k + 1 <= Turns PROVE Kept(w[k + 1])
      OBVIOUS
    <3>1. k + 1 \in 1..Turns /\ k \in 0..Turns /\ (k + 1) - 1 = k /\ Kept(w[k])
      BY <2>2, <2>4
    <3>2. CASE ~Visited(st, b, excluded, k + 1)
      <4>1. w[k + 1] = w[k]
        BY <2>1, <3>1, <3>2 DEF Promotes
      <4>2. QED
        BY <3>1, <4>1
    <3>3. CASE Visited(st, b, excluded, k + 1)
      <4>1. w[k + 1] = HandOver(w[k], b, AtTurn(k + 1)) /\ AtTurn(k + 1) # b
        BY <2>1, <3>1, <3>3 DEF Promotes, Visited
      <4>2. \A d \in Bindings : SameFabric(w[k][d], w[k + 1][d])
        BY <2>2, <3>1, <4>1, HandOverKeeps
      <4>3. QED
        BY <3>1, <4>2, SameFabricFacts
    <3>4. QED
      BY <3>2, <3>3
  <2>5. Turns \in S
    <3> HIDE DEF S
    <3> QED
      BY <2>2, <2>3, <2>4, Induct
  <2>6. Kept(w[Turns]) /\ w[Turns] \in Routes
    BY <2>2, <2>5
  <2>7. Promote(st, b, excluded) = [st EXCEPT !.route = w[Turns]]
    BY <1>2, <2>1 DEF Promotes
  <2>8. QED
    BY <2>6, <2>7 DEF States
<1>3. QED
  BY <1>1, <1>2

-----------------------------------------------------------------------------
(* Registration                                                            *)

\* The tiles of a route of the fabric are tiles, and its nodes lie on them.
LEMMA RouteOnTiles ==
    ASSUME NEW r \in Seq(Good)
    PROVE  /\ RouteTiles(r) \subseteq Tiles
           /\ RouteUses(r) \subseteq Nodes /\ RouteOwned(r) \subseteq Nodes
           /\ \A n \in RouteUses(r) : TileOf[n] \in RouteTiles(r)
           /\ \A n \in RouteOwned(r) : TileOf[n] \in RouteTiles(r)
<1>1. ASSUME NEW f \in Good
      PROVE  /\ FragmentTiles(f) \subseteq Tiles
             /\ Uses(f) \subseteq Nodes /\ Owned(f) \subseteq Nodes
             /\ \A n \in Uses(f) \cup Owned(f) : TileOf[n] \in FragmentTiles(f)
  <2>1. FragmentTiles(f) \subseteq Tiles /\ Shape(f) /\ f.kind \in {"out", "hop", "ground", "pin", "gap"}
    BY GoodFragment
  <2>2. CASE f.kind \in {"out", "hop"}
    <3>1. /\ f.src \in SrcNodes /\ f.in \in FanIn[f.src] /\ f.dst = Landing[f.src]
          /\ f.kind = "hop" => f.in \in DstNodes
      BY <2>1, <2>2 DEF Shape
    <3>2. TileOf[f.src] = TileOf[f.in] /\ f.dst \in DstNodes
      BY <3>1, FabricAssumption
    <3>3. FragmentTiles(f) = {TileOf[f.in], TileOf[f.dst]}
      BY <2>2 DEF FragmentTiles, FromTile, ToTile, Jumps
    <3>4. /\ Uses(f) \cup Owned(f) \subseteq {f.src, f.dst} \cup (IF f.kind = "hop" THEN {f.in} ELSE {})
      BY <2>2 DEF Uses, Owned, OwnedLanding
    <3>5. QED
      BY <2>1, <3>1, <3>2, <3>3, <3>4 DEF Nodes
  <2>3. CASE f.kind \in {"ground", "pin"}
    <3>1. f.in \in DstNodes \cup Pins
      BY <2>1, <2>3 DEF Shape
    <3>2. FragmentTiles(f) = {TileOf[f.in]}
      BY <2>3 DEF FragmentTiles, FromTile, ToTile, Jumps
    <3>3. Uses(f) \cup Owned(f) \subseteq {f.in}
      BY <2>3 DEF Uses, Owned, OwnedLanding, Jumps
    <3>4. QED
      BY <2>1, <3>1, <3>2, <3>3 DEF Nodes
  <2>4. CASE f.kind = "gap"
    <3>1. Uses(f) = {} /\ Owned(f) = {}
      BY <2>4 DEF Uses, Owned, OwnedLanding, Jumps
    <3>2. QED
      BY <2>1, <3>1
  <2>5. QED
    BY <2>1, <2>2, <2>3, <2>4
<1>2. \A i \in 1..Len(r) : r[i] \in Good
  OBVIOUS
<1>3. QED
  BY <1>1, <1>2 DEF RouteTiles, RouteUses, RouteOwned

\* Membership in the tile indexes of a set of routes.
LEMMA EntriesOf ==
    ASSUME NEW rt, NEW B, NEW t, NEW b
    PROVE  <<t, b>> \in Entries(rt, B) <=> b \in B /\ t \in RouteTiles(rt[b])
<1>1. <<t, b>> \in Entries(rt, B) <=> \E c \in B : <<t, b>> \in {<<u, c>> : u \in RouteTiles(rt[c])}
  BY DEF Entries
<1>2. \A c : <<t, b>> \in {<<u, c>> : u \in RouteTiles(rt[c])} <=> b = c /\ t \in RouteTiles(rt[c])
  OBVIOUS
<1>3. QED
  BY <1>1, <1>2

\* An index entry is a tile and a binding.
LEMMA EntriesArePairs ==
    ASSUME NEW rt \in Routes
    PROVE  Entries(rt, Bindings) \subseteq Tiles \X Bindings
<1>1. \A b \in Bindings : rt[b] \in Seq(Good)
  BY DEF Routes
<1>2. \A b \in Bindings : RouteTiles(rt[b]) \subseteq Tiles
  BY <1>1, RouteOnTiles
<1>3. QED
  BY <1>2 DEF Entries

\* Routes of the same fabric are registered alike.
LEMMA SameEntries ==
    ASSUME NEW rt \in Routes, NEW rt2 \in Routes, \A b \in Bindings : SameFabric(rt[b], rt2[b])
    PROVE  Entries(rt, Bindings) = Entries(rt2, Bindings)
<1>1. \A b \in Bindings : rt[b] \in Seq(Good) /\ rt2[b] \in Seq(Good)
  BY DEF Routes
<1>2. \A b \in Bindings : RouteTiles(rt[b]) = RouteTiles(rt2[b])
  BY <1>1, FabricOnly
<1>3. QED
  BY <1>2 DEF Entries

\* Reindexing a net is exact whenever what a route gave up, together with what
\* it keeps, covers the tiles it had.
LEMMA RebuildExact ==
    ASSUME NEW rt \in Routes, NEW rt2 \in Routes, NEW st, st.route = rt2,
           st.reg = Entries(rt, Bindings),
           NEW removed, DOMAIN removed \subseteq Bindings,
           \A b \in Bindings : b \notin DOMAIN removed => RouteTiles(rt2[b]) = RouteTiles(rt[b]),
           \A b \in DOMAIN removed : RouteTiles(rt[b]) \subseteq RouteTiles(removed[b]) \cup RouteTiles(rt2[b])
    PROVE  Rebuild(st, removed) = Entries(rt2, Bindings)
<1> DEFINE nets == {NetOf[b] : b \in DOMAIN removed}
           touched == UNION {RouteTiles(removed[b]) \X BindingsOfNet(NetOf[b]) : b \in DOMAIN removed}
           again == UNION {BindingsOfNet(net) : net \in nets}
<1>1. Rebuild(st, removed) = (Entries(rt, Bindings) \ touched) \cup Entries(rt2, again)
  BY DEF Rebuild
<1>2. again \subseteq Bindings /\ DOMAIN removed \subseteq again
  BY DEF BindingsOfNet
<1>3. \A b, t : <<t, b>> \in touched => b \in again
  <2> SUFFICES ASSUME NEW b, NEW t, <<t, b>> \in touched PROVE b \in again
    OBVIOUS
  <2>1. PICK d \in DOMAIN removed : <<t, b>> \in RouteTiles(removed[d]) \X BindingsOfNet(NetOf[d])
    OBVIOUS
  <2>2. b \in BindingsOfNet(NetOf[d]) /\ NetOf[d] \in nets
    BY <2>1
  <2>3. QED
    BY <2>2
<1>4. \A b \in DOMAIN removed : \A t : t \in RouteTiles(removed[b]) => <<t, b>> \in touched
  BY DEF BindingsOfNet
<1> HIDE DEF touched, again
<1>5. Entries(rt, Bindings) \subseteq Tiles \X Bindings /\ Entries(rt2, Bindings) \subseteq Tiles \X Bindings
  BY EntriesArePairs
<1>6. Entries(rt2, again) \subseteq Entries(rt2, Bindings)
  BY <1>2 DEF Entries
<1>7. ASSUME NEW b \in Bindings, NEW t \in Tiles
      PROVE  <<t, b>> \in Rebuild(st, removed) <=> <<t, b>> \in Entries(rt2, Bindings)
  <2>1. /\ <<t, b>> \in Entries(rt, Bindings) <=> t \in RouteTiles(rt[b])
        /\ <<t, b>> \in Entries(rt2, Bindings) <=> t \in RouteTiles(rt2[b])
        /\ <<t, b>> \in Entries(rt2, again) <=> b \in again /\ t \in RouteTiles(rt2[b])
    BY EntriesOf
  <2>2. CASE b \notin again
    <3>1. <<t, b>> \notin touched /\ b \notin DOMAIN removed
      BY <1>2, <1>3, <2>2
    <3>2. QED
      BY <1>1, <2>1, <2>2, <3>1
  <2>3. CASE b \in again /\ b \notin DOMAIN removed
    BY <1>1, <2>1, <2>3
  <2>4. CASE b \in DOMAIN removed
    BY <1>1, <1>2, <1>4, <2>1, <2>4
  <2>5. QED
    BY <2>2, <2>3, <2>4
<1>8. QED
  BY <1>1, <1>5, <1>6, <1>7

-----------------------------------------------------------------------------
(* Removal                                                                 *)

\* Keeping the landing changes ownership only.
LEMMA KeepLandingKeeps ==
    ASSUME NEW kept \in Seq(Good), NEW removed \in Seq(Good)
    PROVE  /\ KeepLanding(kept, removed).kept \in Seq(Good)
           /\ KeepLanding(kept, removed).removed \in Seq(Good)
           /\ SameFabric(kept, KeepLanding(kept, removed).kept)
           /\ SameFabric(removed, KeepLanding(kept, removed).removed)
<1> DEFINE handed == /\ kept # <<>> /\ removed # <<>>
                     /\ kept[Len(kept)].kind \in Crossbar
                     /\ removed[1].kind \in Crossbar
                     /\ kept[Len(kept)].dst = removed[1].in
           cut == KeepLanding(kept, removed)
<1>1. cut = [kept |-> IF handed THEN [kept EXCEPT ![Len(kept)].ownsLanding = TRUE] ELSE kept,
             removed |-> IF handed THEN [removed EXCEPT ![1].ownsDst = FALSE] ELSE removed]
  BY DEF KeepLanding
<1>2. CASE ~handed
  BY <1>1, <1>2, SameFabricFacts
<1>3. CASE handed
  <2>1. Len(kept) \in 1..Len(kept) /\ 1 \in 1..Len(removed)
    BY <1>3
  <2>2. kept[Len(kept)] \in Good /\ removed[1] \in Good
    BY <2>1
  <2>3. kept[Len(kept)].kind # "gap" /\ removed[1].kind # "gap"
    BY <1>3 DEF Crossbar
  <2> DEFINE f == [kept[Len(kept)] EXCEPT !.ownsLanding = TRUE]
             g == [removed[1] EXCEPT !.ownsDst = FALSE]
  <2>4. f \in Good /\ SamePhysicalFragment(kept[Len(kept)], f)
    BY <2>2, <2>3, OneFlag
  <2>5. g \in Good /\ SamePhysicalFragment(removed[1], g)
    BY <2>2, <2>3, OneFlag
  <2>6. cut.kept = [kept EXCEPT ![Len(kept)] = f] /\ cut.removed = [removed EXCEPT ![1] = g]
    BY <1>1, <1>3
  <2> HIDE DEF f, g, cut
  <2>7. /\ cut.kept \in Seq(Good) /\ Len(cut.kept) = Len(kept)
        /\ \A i \in 1..Len(kept) : cut.kept[i] = IF i = Len(kept) THEN f ELSE kept[i]
    BY <2>1, <2>4, <2>6
  <2>8. /\ cut.removed \in Seq(Good) /\ Len(cut.removed) = Len(removed)
        /\ \A i \in 1..Len(removed) : cut.removed[i] = IF i = 1 THEN g ELSE removed[i]
    BY <2>1, <2>5, <2>6
  <2>9. \A h : SamePhysicalFragment(h, h)
    BY DEF SamePhysicalFragment
  <2>10. QED
    BY <2>4, <2>5, <2>7, <2>8, <2>9 DEF SameFabric, cut
<1>4. QED
  BY <1>2, <1>3

\* The tiles of a route are those of its two parts.
LEMMA TilesOfParts ==
    ASSUME NEW r \in Seq(Good), NEW k \in 0..Len(r),
           NEW p \in Seq(Good), NEW q \in Seq(Good),
           SameFabric(SubSeq(r, 1, k), p), SameFabric(SubSeq(r, k + 1, Len(r)), q)
    PROVE  RouteTiles(r) \subseteq RouteTiles(p) \cup RouteTiles(q)
<1> DEFINE a == SubSeq(r, 1, k)
           z == SubSeq(r, k + 1, Len(r))
<1>1. /\ a \in Seq(Good) /\ Len(a) = k /\ \A i \in 1..k : a[i] = r[i]
      /\ z \in Seq(Good) /\ Len(z) = Len(r) - k /\ \A i \in 1..(Len(r) - k) : z[i] = r[k + i]
  OBVIOUS
<1> HIDE DEF a, z
<1>2. ASSUME NEW i \in 1..Len(r) PROVE FragmentTiles(r[i]) \subseteq RouteTiles(a) \cup RouteTiles(z)
  <2>1. CASE i <= k
    <3>1. i \in 1..Len(a) /\ a[i] = r[i]
      BY <1>1, <2>1
    <3>2. QED
      BY <3>1 DEF RouteTiles
  <2>2. CASE ~(i <= k)
    <3>1. i - k \in 1..Len(z) /\ z[i - k] = r[i]
      BY <1>1, <2>2
    <3>2. QED
      BY <3>1 DEF RouteTiles
  <2>3. QED
    BY <2>1, <2>2
<1>3. RouteTiles(a) = RouteTiles(p) /\ RouteTiles(z) = RouteTiles(q)
  <2>1. SameFabric(a, p) /\ SameFabric(z, q)
    BY DEF a, z
  <2>2. QED
    BY <1>1, <2>1, FabricOnly
<1>4. QED
  BY <1>2, <1>3 DEF RouteTiles

\* The two parts a cut of route b after k fragments leaves.
CutAt(st, b, k) == KeepLanding(SubSeq(st.route[b], 1, k), SubSeq(st.route[b], k + 1, Len(st.route[b])))

\* A truncation splits a route into fabric it keeps and fabric it removes.
LEMMA CutAtKeeps ==
    ASSUME NEW st \in States, NEW b \in Bindings, NEW k \in 0..Len(st.route[b])
    PROVE  /\ CutAt(st, b, k).kept \in Seq(Good) /\ CutAt(st, b, k).removed \in Seq(Good)
           /\ SameFabric(SubSeq(st.route[b], 1, k), CutAt(st, b, k).kept)
           /\ SameFabric(SubSeq(st.route[b], k + 1, Len(st.route[b])), CutAt(st, b, k).removed)
           /\ RouteTiles(st.route[b]) \subseteq RouteTiles(CutAt(st, b, k).kept)
                                              \cup RouteTiles(CutAt(st, b, k).removed)
<1> DEFINE r == st.route[b]
           a == SubSeq(r, 1, k)
           z == SubSeq(r, k + 1, Len(r))
<1>1. r \in Seq(Good) /\ k \in Nat /\ Len(r) \in Nat /\ k \in 0..Len(r)
  BY DEF States, Routes
<1>2. a \in Seq(Good) /\ z \in Seq(Good)
  <2> HIDE DEF r
  <2>1. 1 <= k + 1 /\ k <= Len(r) /\ k + 1 \in Nat /\ k + 1 <= Len(r) + 1
    BY <1>1
  <2>2. a \in Seq(Good)
    BY <1>1, <2>1
  <2>3. z \in Seq(Good)
    BY <1>1, <2>1
  <2>4. QED
    BY <2>2, <2>3
<1>3. CutAt(st, b, k) = KeepLanding(a, z)
  BY DEF CutAt
<1> HIDE DEF a, z
<1>4. /\ CutAt(st, b, k).kept \in Seq(Good) /\ CutAt(st, b, k).removed \in Seq(Good)
      /\ SameFabric(a, CutAt(st, b, k).kept) /\ SameFabric(z, CutAt(st, b, k).removed)
  BY <1>2, <1>3, KeepLandingKeeps
<1>5. RouteTiles(r) \subseteq RouteTiles(CutAt(st, b, k).kept) \cup RouteTiles(CutAt(st, b, k).removed)
  <2> HIDE DEF r
  <2> QED
    BY <1>1, <1>4, TilesOfParts DEF a, z, r
<1>6. QED
  BY <1>4, <1>5 DEF a, z

\* No route uses a node afterwards that it did not use before.
Shrinks(rt, rt2) == \A d \in Bindings : RouteUses(rt2[d]) \subseteq RouteUses(rt[d])

\* What a cut keeps uses nothing new.
LEMMA CutShrinks ==
    ASSUME NEW st \in States, NEW b \in Bindings, NEW k \in 0..Len(st.route[b])
    PROVE  RouteUses(CutAt(st, b, k).kept) \subseteq RouteUses(st.route[b])
<1> DEFINE r == st.route[b]
           a == SubSeq(r, 1, k)
<1>1. r \in Seq(Good) /\ k \in Nat /\ Len(r) \in Nat /\ k <= Len(r)
  BY DEF States, Routes
<1>2. CutAt(st, b, k).kept \in Seq(Good) /\ SameFabric(a, CutAt(st, b, k).kept)
  BY CutAtKeeps
<1> HIDE DEF r
<1>3. a \in Seq(Good) /\ Len(a) = k /\ \A i \in 1..k : a[i] = r[i] /\ i \in 1..Len(r)
  BY <1>1
<1> HIDE DEF a
<1>4. RouteUses(CutAt(st, b, k).kept) = RouteUses(a)
  BY <1>2, <1>3, FabricOnly
<1>5. RouteUses(a) \subseteq RouteUses(r)
  BY <1>3 DEF RouteUses
<1>6. QED
  BY <1>4, <1>5 DEF r

\* A withdrawal keeps the indexes exact.
LEMMA WithdrawKeeps ==
    ASSUME NEW st \in States, st.reg = Entries(st.route, Bindings), NEW rt \in Routes,
           NEW removed, DOMAIN removed \subseteq Bindings,
           \A b \in Bindings : b \notin DOMAIN removed => RouteTiles(rt[b]) = RouteTiles(st.route[b]),
           \A b \in DOMAIN removed : RouteTiles(st.route[b]) \subseteq RouteTiles(removed[b]) \cup RouteTiles(rt[b])
    PROVE  /\ Regular(Withdraw(st, rt, removed))
           /\ Withdraw(st, rt, removed).route = rt
           /\ Withdraw(st, rt, removed).leased \subseteq st.leased
<1> DEFINE cut == [st EXCEPT !.route = rt]
           new == Withdraw(st, rt, removed)
<1>1. new = [route |-> rt, leased |-> st.leased \ Released(cut, removed), reg |-> Rebuild(cut, removed)]
  BY DEF Withdraw
<1>2. cut.route = rt /\ cut.reg = Entries(st.route, Bindings) /\ st.route \in Routes /\ st.leased \subseteq Nodes
  BY DEF States
<1> HIDE DEF cut
<1>3. Rebuild(cut, removed) = Entries(rt, Bindings)
  BY <1>2, RebuildExact
<1>4. Entries(rt, Bindings) \subseteq Tiles \X Bindings
  BY EntriesArePairs
<1>5. QED
  BY <1>1, <1>2, <1>3, <1>4 DEF Regular, States

\* Cutting a route keeps its first k fragments, as fabric, and the others whole.
LEMMA TruncateKeeps ==
    ASSUME NEW st, Regular(st), NEW b \in Bindings, NEW k \in 0..Len(st.route[b])
    PROVE  /\ Regular(Truncate(st, b, k))
           /\ Truncate(st, b, k) = Withdraw(st, [st.route EXCEPT ![b] = CutAt(st, b, k).kept],
                                            [c \in {b} |-> CutAt(st, b, k).removed])
           /\ Truncate(st, b, k).route = [st.route EXCEPT ![b] = CutAt(st, b, k).kept]
           /\ Truncate(st, b, k).leased \subseteq st.leased
<1> DEFINE kept == CutAt(st, b, k).kept
           gone == CutAt(st, b, k).removed
           rt == [st.route EXCEPT ![b] = kept]
           removed == [c \in {b} |-> gone]
<1>1. Truncate(st, b, k) = Withdraw(st, rt, removed)
  BY DEF Truncate, CutAt
<1>2. st \in States /\ st.reg = Entries(st.route, Bindings)
  BY DEF Regular
<1>3. kept \in Seq(Good) /\ RouteTiles(st.route[b]) \subseteq RouteTiles(kept) \cup RouteTiles(gone)
  BY <1>2, CutAtKeeps
<1> HIDE DEF kept, gone
<1>4. rt \in Routes /\ rt[b] = kept /\ \A c \in Bindings : c # b => rt[c] = st.route[c]
  BY <1>2, <1>3 DEF States, Routes
<1>5. DOMAIN removed = {b} /\ removed[b] = gone
  OBVIOUS
<1> HIDE DEF rt, removed
<1>6. /\ Regular(Withdraw(st, rt, removed))
      /\ Withdraw(st, rt, removed).route = rt
      /\ Withdraw(st, rt, removed).leased \subseteq st.leased
  BY <1>2, <1>3, <1>4, <1>5, WithdrawKeeps
<1>7. QED
  BY <1>1, <1>6 DEF rt, removed, kept, gone

\* A cut gives to no route what it did not use.
LEMMA TruncateShrinks ==
    ASSUME NEW st, Regular(st), NEW b \in Bindings, NEW k \in 0..Len(st.route[b])
    PROVE  Shrinks(st.route, Truncate(st, b, k).route)
<1>1. st \in States /\ st.route \in Routes
  BY DEF Regular, States
<1>2. Truncate(st, b, k).route = [st.route EXCEPT ![b] = CutAt(st, b, k).kept]
  BY TruncateKeeps
<1>3. RouteUses(CutAt(st, b, k).kept) \subseteq RouteUses(st.route[b])
  BY <1>1, CutShrinks
<1>4. QED
  BY <1>1, <1>2, <1>3 DEF Shrinks, Routes

\* Unrouting keeps the fabric of every other route.
LEMMA UnrouteKeeps ==
    ASSUME NEW st, Regular(st), NEW b \in Bindings
    PROVE  /\ Regular(Unroute(st, b))
           /\ Unroute(st, b).route = [Promote(st, b, {}).route EXCEPT ![b] = <<>>]
           /\ Unroute(st, b).leased \subseteq st.leased
<1> DEFINE promoted == Promote(st, b, {})
           rt == [promoted.route EXCEPT ![b] = <<>>]
           removed == [c \in {b} |-> promoted.route[b]]
<1>1. Unroute(st, b) = Withdraw(promoted, rt, removed)
  BY DEF Unroute
<1>2. st \in States /\ st.reg = Entries(st.route, Bindings)
  BY DEF Regular
<1>3. /\ promoted \in States /\ promoted.leased = st.leased /\ promoted.reg = st.reg
      /\ \A d \in Bindings : SameFabric(st.route[d], promoted.route[d])
  BY <1>2, PromoteKeeps
<1> HIDE DEF promoted
<1>4. promoted.reg = Entries(promoted.route, Bindings)
  BY <1>2, <1>3, SameEntries DEF States
<1>5. rt \in Routes /\ rt[b] = <<>> /\ \A c \in Bindings : c # b => rt[c] = promoted.route[c]
  BY <1>3 DEF States, Routes
<1>6. DOMAIN removed = {b} /\ removed[b] = promoted.route[b]
  OBVIOUS
<1> HIDE DEF rt, removed
<1>7. /\ Regular(Withdraw(promoted, rt, removed))
      /\ Withdraw(promoted, rt, removed).route = rt
      /\ Withdraw(promoted, rt, removed).leased \subseteq promoted.leased
  BY <1>3, <1>4, <1>5, <1>6, WithdrawKeeps
<1>8. QED
  BY <1>1, <1>3, <1>7 DEF rt, promoted

-----------------------------------------------------------------------------
(* The loops over the bindings of a moved instance                         *)

N == Len(BindingOrder)

\* The order of the bindings enumerates them.
LEMMA OrderFacts ==
    /\ N \in Nat
    /\ \A k \in 1..N : BindingOrder[k] \in Bindings
    /\ \A b \in Bindings : \E k \in 1..N : BindingOrder[k] = b
    /\ \A j, k \in 1..N : BindingOrder[j] = BindingOrder[k] => j = k
<1>1. BindingOrder \in Seq(Bindings) /\ ToSet(BindingOrder) = Bindings /\ IsInjective(BindingOrder)
  BY BindingAssumption
<1>2. N \in Nat /\ DOMAIN BindingOrder = 1..N
  BY <1>1 DEF N
<1>3. QED
  BY <1>1, <1>2 DEF ToSet, IsInjective

PromoteTurn(u, S, k) ==
    IF BindingOrder[k] \in S THEN Promote(u, BindingOrder[k], S) ELSE u

DetachTurn(u, S, complete, proof, k) ==
    IF BindingOrder[k] \in S
    THEN Detach(u, BindingOrder[k], S, BindingOrder[k] \in complete,
                IF BindingOrder[k] = proof.binding THEN proof.keep ELSE 0)
    ELSE u

\* If each turn leads from one set of states into the next, the loop ends in
\* the last.
LEMMA PromoteAllEnds ==
    ASSUME NEW st, NEW S, NEW X, st \in X[0],
           \A k \in 1..N : \A u \in X[k - 1] : PromoteTurn(u, S, k) \in X[k]
    PROVE  PromoteAll(st, S) \in X[N]
<1> DEFINE F == [k \in 1..N |-> [u \in X[k - 1] |-> PromoteTurn(u, S, k)]]
           IsRun(w) == w = [k \in 0..N |-> IF k = 0 THEN st ELSE PromoteTurn(w[k - 1], S, k)]
<1>1. N \in Nat
  BY OrderFacts
<1>2. \A k \in 1..N : \A u \in X[k - 1] : F[k][u] = PromoteTurn(u, S, k)
  OBVIOUS
<1>3. PICK v : Iterates(N, st, F, v) /\ DOMAIN v = 0..N /\ \A k \in 0..N : v[k] \in X[k]
  <2> HIDE DEF F
  <2>1. \A k \in 1..N : \A u \in X[k - 1] : F[k][u] \in X[k]
    BY <1>2
  <2>2. QED
    BY <1>1, <2>1, Climb
<1> HIDE DEF F
<1>4. \E w : IsRun(w)
  <2> DEFINE w == [k \in 0..N |-> v[k]]
  <2>1. \A k \in 1..N : v[k] = PromoteTurn(v[k - 1], S, k)
    <3> SUFFICES ASSUME NEW k \in 1..N PROVE v[k] = PromoteTurn(v[k - 1], S, k)
      OBVIOUS
    <3>1. k - 1 \in 0..N
      BY <1>1
    <3>2. QED
      BY <1>2, <1>3, <3>1 DEF Iterates
  <2>2. \A k \in 0..N : w[k] = IF k = 0 THEN st ELSE PromoteTurn(w[k - 1], S, k)
    <3> SUFFICES ASSUME NEW k \in 0..N PROVE w[k] = IF k = 0 THEN st ELSE PromoteTurn(w[k - 1], S, k)
      OBVIOUS
    <3>1. CASE k = 0
      BY <1>1, <1>3, <3>1 DEF Iterates
    <3>2. CASE k # 0
      <4>1. k \in 1..N /\ k - 1 \in 0..N
        BY <1>1, <3>2
      <4>2. w[k] = v[k] /\ w[k - 1] = v[k - 1]
        BY <4>1
      <4>3. QED
        BY <2>1, <3>2, <4>1, <4>2
    <3>3. QED
      BY <3>1, <3>2
  <2>3. w = [k \in 0..N |-> w[k]]
    OBVIOUS
  <2>4. IsRun(w)
    <3> HIDE DEF w
    <3> QED
      BY <2>2, <2>3
  <2>5. QED
    BY <2>4
<1> DEFINE w == CHOOSE g : IsRun(g)
<1>5. IsRun(w)
  <2> HIDE DEF IsRun
  <2> QED
    BY <1>4
<1>6. PromoteAll(st, S) = w[N]
  BY DEF PromoteAll, PromoteTurn, N
<1> DEFINE T == {k \in Nat : k <= N => w[k] \in X[k]}
<1>7. w[0] = st /\ \A k \in 1..N : w[k] = PromoteTurn(w[k - 1], S, k)
  <2> HIDE DEF w
  <2> QED
    BY <1>1, <1>5
<1> HIDE DEF w
<1>8. 0 \in T
  BY <1>7
<1>9. ASSUME NEW k \in Nat, k \in T PROVE k + 1 \in T
  <2> SUFFICES ASSUME k + 1 <= N PROVE w[k + 1] \in X[k + 1]
    OBVIOUS
  <2>1. k + 1 \in 1..N /\ (k + 1) - 1 = k /\ w[k] \in X[k]
    BY <1>1, <1>9
  <2>2. w[k + 1] = PromoteTurn(w[k], S, k + 1)
    BY <1>7, <2>1
  <2>3. QED
    BY <2>1, <2>2
<1>10. N \in T
  <2> HIDE DEF T
  <2> QED
    BY <1>1, <1>8, <1>9, Induct
<1>11. QED
  BY <1>1, <1>6, <1>10

\* What each turn of a detachment carries on holds at its end.
LEMMA DetachAllEnds ==
    ASSUME NEW st, NEW S, NEW complete, NEW proof, NEW X, st \in X[0],
           \A k \in 1..N : \A u \in X[k - 1] : DetachTurn(u, S, complete, proof, k) \in X[k]
    PROVE  DetachAll(st, S, complete, proof) \in X[N]
<1> DEFINE D(u, k) == DetachTurn(u, S, complete, proof, k)
           F == [k \in 1..N |-> [u \in X[k - 1] |-> D(u, k)]]
           IsRun(w) == w = [k \in 0..N |-> IF k = 0 THEN st ELSE D(w[k - 1], k)]
<1>1. N \in Nat
  BY OrderFacts
<1>6. DetachAll(st, S, complete, proof) = (CHOOSE g : IsRun(g))[N]
  BY DEF DetachAll, DetachTurn, N
<1>a. \A k \in 1..N : \A u \in X[k - 1] : D(u, k) \in X[k]
  OBVIOUS
<1> HIDE DEF D
<1>2. \A k \in 1..N : \A u \in X[k - 1] : F[k][u] = D(u, k)
  OBVIOUS
<1>3. PICK v : Iterates(N, st, F, v) /\ DOMAIN v = 0..N /\ \A k \in 0..N : v[k] \in X[k]
  <2> HIDE DEF F
  <2>1. \A k \in 1..N : \A u \in X[k - 1] : F[k][u] \in X[k]
    BY <1>2, <1>a
  <2>2. QED
    BY <1>1, <2>1, Climb
<1> HIDE DEF F
<1>4. \E w : IsRun(w)
  <2> DEFINE w == [k \in 0..N |-> v[k]]
  <2>1. \A k \in 1..N : v[k] = D(v[k - 1], k)
    <3> SUFFICES ASSUME NEW k \in 1..N PROVE v[k] = D(v[k - 1], k)
      OBVIOUS
    <3>1. k - 1 \in 0..N
      BY <1>1
    <3>2. QED
      BY <1>2, <1>3, <3>1 DEF Iterates
  <2>2. \A k \in 0..N : w[k] = IF k = 0 THEN st ELSE D(w[k - 1], k)
    <3> SUFFICES ASSUME NEW k \in 0..N PROVE w[k] = IF k = 0 THEN st ELSE D(w[k - 1], k)
      OBVIOUS
    <3>1. CASE k = 0
      BY <1>1, <1>3, <3>1 DEF Iterates
    <3>2. CASE k # 0
      <4>1. k \in 1..N /\ k - 1 \in 0..N
        BY <1>1, <3>2
      <4>2. w[k] = v[k] /\ w[k - 1] = v[k - 1]
        BY <4>1
      <4>3. QED
        BY <2>1, <3>2, <4>1, <4>2
    <3>3. QED
      BY <3>1, <3>2
  <2>3. w = [k \in 0..N |-> w[k]]
    OBVIOUS
  <2>4. IsRun(w)
    <3> HIDE DEF w
    <3> QED
      BY <2>2, <2>3
  <2>5. QED
    BY <2>4
<1> DEFINE w == CHOOSE g : IsRun(g)
<1>5. IsRun(w)
  <2> HIDE DEF IsRun
  <2> QED
    BY <1>4
<1> DEFINE T == {k \in Nat : k <= N => w[k] \in X[k]}
<1>7. w[0] = st /\ \A k \in 1..N : w[k] = D(w[k - 1], k)
  <2> HIDE DEF w
  <2> QED
    BY <1>1, <1>5
<1>b. DetachAll(st, S, complete, proof) = w[N]
  BY <1>6
<1> HIDE DEF w
<1>8. 0 \in T
  BY <1>7
<1>9. ASSUME NEW k \in Nat, k \in T PROVE k + 1 \in T
  <2> SUFFICES ASSUME k + 1 <= N PROVE w[k + 1] \in X[k + 1]
    OBVIOUS
  <2>1. k + 1 \in 1..N /\ (k + 1) - 1 = k /\ w[k] \in X[k]
    BY <1>1, <1>9
  <2>2. w[k + 1] = D(w[k], k + 1)
    BY <1>7, <2>1
  <2>3. QED
    BY <1>a, <2>1, <2>2
<1>10. N \in T
  <2> HIDE DEF T
  <2> QED
    BY <1>1, <1>8, <1>9, Induct
<1>11. QED
  BY <1>1, <1>b, <1>10

-----------------------------------------------------------------------------
(* Moved sinks                                                             *)

\* How far b agrees with c while every fragment of b is shared.
SharedRuns(st, b, c) ==
    {k \in 0..CommonLength(st.route[b], st.route[c]) : \A i \in 1..k : st.route[b][i].shared}

\* The live shared prefix is 0 or such a run with a binding that stays.
LEMMA LiveSharedPrefixIs ==
    ASSUME NEW st \in States, NEW b \in Bindings, NEW excluded
    PROVE  /\ LiveSharedPrefix(st, b, excluded) \in 0..Len(st.route[b])
           /\ \/ LiveSharedPrefix(st, b, excluded) = 0
              \/ \E c \in Siblings(b) \ (excluded \cup {b}) :
                    LiveSharedPrefix(st, b, excluded) \in SharedRuns(st, b, c)
<1> DEFINE r == st.route[b]
           t == FromTile(r[1])
           seen == {c \in Siblings(b) \ (excluded \cup {b}) :
                       \/ NetOf[c] = NetOf[b]
                       \/ \E d \in Listed(st, t) : NetOf[d] = NetOf[c]}
           lengths == {0} \cup UNION {SharedRuns(st, b, c) : c \in seen}
<1>1. LiveSharedPrefix(st, b, excluded) = CHOOSE k \in lengths : \A j \in lengths : j <= k
  BY DEF LiveSharedPrefix, SharedRuns
<1>2. \A c \in Bindings : st.route[c] \in Seq(Good)
  BY DEF States, Routes
<1>3. Len(r) \in Nat
  BY <1>2
<1>4. seen \subseteq Siblings(b) \ (excluded \cup {b}) /\ seen \subseteq Bindings
  BY DEF Siblings
<1> HIDE DEF seen
<1>5. \A c \in seen : SharedRuns(st, b, c) \subseteq 0..Len(r)
  <2> SUFFICES ASSUME NEW c \in seen PROVE SharedRuns(st, b, c) \subseteq 0..Len(r)
    OBVIOUS
  <2>1. /\ CommonLength(st.route[b], st.route[c]) \in Nat
        /\ Agree(st.route[b], st.route[c], CommonLength(st.route[b], st.route[c]))
    BY <1>2, <1>4, Common
  <2>2. CommonLength(st.route[b], st.route[c]) <= Len(r)
    BY <2>1 DEF Agree
  <2>3. QED
    BY <1>3, <2>1, <2>2 DEF SharedRuns
<1>6. lengths \subseteq 0..Len(r) /\ lengths # {}
  BY <1>3, <1>5
<1> DEFINE m == CHOOSE k \in lengths : \A j \in lengths : j <= k
<1>7. m \in lengths
  <2> HIDE DEF lengths, r
  <2> QED
    BY <1>3, <1>6, LargestUpTo
<1> HIDE DEF m
<1>8. m \in 0..Len(r) /\ (m = 0 \/ \E c \in seen : m \in SharedRuns(st, b, c))
  BY <1>6, <1>7
<1>9. LiveSharedPrefix(st, b, excluded) = m
  BY <1>1 DEF m
<1>10. QED
  BY <1>4, <1>8, <1>9

\* The prefix that a moved sink retains is a prefix of its route.
LEMMA RetainedPrefixIs ==
    ASSUME NEW r \in Seq(Good)
    PROVE  RetainedPrefix(r) \in 0..Len(r)
<1> DEFINE fabric == IF r # <<>> /\ r[Len(r)].kind = "pin" THEN Len(r) - 1 ELSE Len(r)
<1>1. Len(r) \in Nat /\ fabric \in 0..Len(r)
  OBVIOUS
<1>2. RetainedPrefix(r) = fabric \/ (fabric > 0 /\ RetainedPrefix(r) = fabric - 1)
  BY DEF RetainedPrefix
<1>3. QED
  BY <1>1, <1>2

\* A detachment keeps its proof, a live shared prefix or the retained fabric,
\* short of the pin.
LEMMA KeptLengthIs ==
    ASSUME NEW st \in States, NEW b \in Bindings, NEW excluded, NEW complete \in BOOLEAN,
           NEW proven \in 0..Len(st.route[b])
    PROVE  \E m \in 0..Len(st.route[b]) :
              /\ \/ m = proven
                 \/ m = LiveSharedPrefix(st, b, excluded)
                 \/ complete /\ m = RetainedPrefix(st.route[b])
              /\ KeptLength(st, b, excluded, complete, proven)
                   = IF m = Len(st.route[b]) /\ m > 1 /\ st.route[b][m].kind = "pin" THEN m - 1 ELSE m
<1> DEFINE r == st.route[b]
           keeps == {proven, LiveSharedPrefix(st, b, excluded)}
                    \cup (IF complete /\ proven = 0 THEN {RetainedPrefix(r)} ELSE {})
           long == CHOOSE k \in keeps : \A j \in keeps : j <= k
<1>1. r \in Seq(Good) /\ Len(r) \in Nat
  BY DEF States, Routes
<1>2. LiveSharedPrefix(st, b, excluded) \in 0..Len(r)
  BY LiveSharedPrefixIs
<1>3. RetainedPrefix(r) \in 0..Len(r)
  <2> HIDE DEF r
  <2> QED
    BY <1>1, RetainedPrefixIs
<1>4. keeps \subseteq 0..Len(r) /\ keeps # {}
  BY <1>2, <1>3
<1>5. long \in keeps
  <2> HIDE DEF keeps, r
  <2> QED
    BY <1>1, <1>4, LargestUpTo
<1>6. KeptLength(st, b, excluded, complete, proven)
        = IF long = Len(r) /\ long > 1 /\ r[long].kind = "pin" THEN long - 1 ELSE long
  BY DEF KeptLength
<1> HIDE DEF long
<1>7. QED
  BY <1>4, <1>5, <1>6

\* Two sets of routes differ at most in the route of b.
OnlyAt(b, rt, rt2) == \A d \in Bindings : d # b => rt2[d] = rt[d]

\* A detachment cuts one route, somewhere.
LEMMA DetachKeeps ==
    ASSUME NEW st, Regular(st), NEW b \in Bindings, NEW excluded, NEW complete \in BOOLEAN,
           NEW proven \in 0..Len(st.route[b])
    PROVE  /\ KeptLength(st, b, excluded, complete, proven) \in 0..Len(st.route[b])
           /\ Regular(Detach(st, b, excluded, complete, proven))
           /\ Detach(st, b, excluded, complete, proven).leased \subseteq st.leased
           /\ OnlyAt(b, st.route, Detach(st, b, excluded, complete, proven).route)
           /\ Shrinks(st.route, Detach(st, b, excluded, complete, proven).route)
           /\ Detach(st, b, excluded, complete, proven).route[b]
                = IF st.route[b] = <<>> THEN <<>>
                  ELSE CutAt(st, b, KeptLength(st, b, excluded, complete, proven)).kept
<1> DEFINE k == KeptLength(st, b, excluded, complete, proven)
<1>1. st \in States /\ st.route[b] \in Seq(Good)
  BY DEF Regular, States, Routes
<1>2. k \in 0..Len(st.route[b])
  <2>1. PICK m \in 0..Len(st.route[b]) :
           /\ \/ m = proven
              \/ m = LiveSharedPrefix(st, b, excluded)
              \/ complete /\ m = RetainedPrefix(st.route[b])
           /\ KeptLength(st, b, excluded, complete, proven)
                = IF m = Len(st.route[b]) /\ m > 1 /\ st.route[b][m].kind = "pin" THEN m - 1 ELSE m
    BY <1>1, KeptLengthIs
  <2> HIDE DEF k
  <2>2. Len(st.route[b]) \in Nat
    BY <1>1
  <2>3. QED
    BY <2>1, <2>2 DEF k
<1>3. st.route[b] # <<>> => Detach(st, b, excluded, complete, proven) = Truncate(st, b, k)
  BY DEF Detach
<1>4. st.route[b] = <<>> => Detach(st, b, excluded, complete, proven) = st
  BY DEF Detach
<1> HIDE DEF k
<1>5. /\ Regular(Truncate(st, b, k)) /\ Truncate(st, b, k).leased \subseteq st.leased
      /\ Truncate(st, b, k).route = [st.route EXCEPT ![b] = CutAt(st, b, k).kept]
  BY <1>2, TruncateKeeps
<1>6. /\ \A d \in Bindings : d # b => Truncate(st, b, k).route[d] = st.route[d]
      /\ Truncate(st, b, k).route[b] = CutAt(st, b, k).kept
  BY <1>1, <1>5 DEF States, Routes
<1>7. Shrinks(st.route, Truncate(st, b, k).route) /\ Shrinks(st.route, st.route)
  BY <1>2, TruncateShrinks DEF Shrinks
<1>8. QED
  BY <1>2, <1>3, <1>4, <1>5, <1>6, <1>7 DEF k, OnlyAt

\* Promotions of a whole move leave the fabric as it was.
LEMMA PromoteAllKeeps ==
    ASSUME NEW st, Regular(st), NEW S
    PROVE  /\ Regular(PromoteAll(st, S))
           /\ PromoteAll(st, S).leased = st.leased /\ PromoteAll(st, S).reg = st.reg
           /\ \A d \in Bindings : SameFabric(st.route[d], PromoteAll(st, S).route[d])
<1> DEFINE Kept(u) == /\ Regular(u) /\ u.leased = st.leased /\ u.reg = st.reg
                      /\ \A d \in Bindings : SameFabric(st.route[d], u.route[d])
           Y == {u \in States : Kept(u)}
           X == [k \in 0..N |-> Y]
<1>1. N \in Nat /\ \A k \in 1..N : BindingOrder[k] \in Bindings
  BY OrderFacts
<1>2. st \in X[0]
  BY <1>1, SameFabricFacts DEF Regular
<1>3. ASSUME NEW u \in Y, NEW b \in Bindings PROVE Promote(u, b, S) \in Y
  <2>1. /\ Promote(u, b, S) \in States
        /\ Promote(u, b, S).leased = u.leased /\ Promote(u, b, S).reg = u.reg
        /\ \A d \in Bindings : SameFabric(u.route[d], Promote(u, b, S).route[d])
    BY PromoteKeeps
  <2>2. Entries(u.route, Bindings) = Entries(Promote(u, b, S).route, Bindings)
    BY <2>1, SameEntries DEF States
  <2>3. QED
    BY <2>1, <2>2, SameFabricFacts DEF Regular
<1> HIDE DEF Y
<1>4. \A k \in 1..N : \A u \in X[k - 1] : PromoteTurn(u, S, k) \in X[k]
  <2> SUFFICES ASSUME NEW k \in 1..N, NEW u \in X[k - 1] PROVE PromoteTurn(u, S, k) \in X[k]
    OBVIOUS
  <2>1. k - 1 \in 0..N /\ k \in 0..N
    BY <1>1
  <2>2. u \in Y /\ X[k] = Y
    BY <2>1
  <2>3. QED
    BY <1>1, <1>3, <2>2 DEF PromoteTurn
<1>5. PromoteAll(st, S) \in X[N]
  <2> HIDE DEF X
  <2> QED
    BY <1>2, <1>4, PromoteAllEnds
<1>6. PromoteAll(st, S) \in Y
  BY <1>1, <1>5
<1>7. QED
  BY <1>6 DEF Y

\* The state in which the detachments of a move have cut the first k bindings.
Detached(st, S, k) ==
    {u \in States : /\ Regular(u) /\ u.leased \subseteq st.leased
                    /\ Shrinks(st.route, u.route)
                    /\ \A d \in Bindings : d \notin S => u.route[d] = st.route[d]
                    /\ \A j \in 1..N : j > k => u.route[BindingOrder[j]] = st.route[BindingOrder[j]]}

\* One turn of the detachments.
LEMMA DetachTurnKeeps ==
    ASSUME NEW st, Regular(st), NEW S, NEW complete, NEW proof,
           proof.keep \in 0..Len(st.route[proof.binding]),
           NEW k \in 1..N, NEW u \in Detached(st, S, k - 1)
    PROVE  DetachTurn(u, S, complete, proof, k) \in Detached(st, S, k)
<1> DEFINE b == BindingOrder[k]
           done == b \in complete
           proven == IF b = proof.binding THEN proof.keep ELSE 0
           v == Detach(u, b, S, done, proven)
<1>1. N \in Nat /\ b \in Bindings /\ k \in Nat
  BY OrderFacts
<1>2. \A j \in 1..N : j > k => j > k - 1 /\ BindingOrder[j] # b
  BY OrderFacts
<1>3. Regular(u) /\ u \in States /\ u.leased \subseteq st.leased
  BY DEF Detached
<1>4. u.route[b] = st.route[b]
  BY <1>1 DEF Detached
<1>5. CASE b \in S
  <2>1. DetachTurn(u, S, complete, proof, k) = v
    BY <1>5 DEF DetachTurn
  <2>2. u.route[b] \in Seq(Good)
    BY <1>1, <1>3 DEF States, Routes
  <2>3. proven \in 0..Len(u.route[b])
    BY <1>4, <2>2
  <2>4. done \in BOOLEAN
    OBVIOUS
  <2> HIDE DEF b, proven, done
  <2>a. Regular(u) /\ b \in Bindings
    BY <1>1, <1>3
  <2>5. /\ Regular(v) /\ v.leased \subseteq u.leased
        /\ OnlyAt(b, u.route, v.route) /\ Shrinks(u.route, v.route)
    BY <2>a, <2>3, <2>4, DetachKeeps
  <2> HIDE DEF v
  <2>6. v \in States
    BY <2>5 DEF Regular
  <2>7. \A d \in Bindings : d # b => v.route[d] = u.route[d]
    BY <2>5 DEF OnlyAt
  <2>8. \A d \in Bindings : d \notin S => v.route[d] = st.route[d]
    BY <1>5, <2>7 DEF Detached
  <2>c. Shrinks(st.route, v.route)
    <3>1. Shrinks(st.route, u.route)
      BY DEF Detached
    <3>2. QED
      BY <2>5, <3>1 DEF Shrinks
  <2>9. ASSUME NEW j \in 1..N, j > k PROVE v.route[BindingOrder[j]] = st.route[BindingOrder[j]]
    <3>1. BindingOrder[j] \in Bindings /\ BindingOrder[j] # b /\ j > k - 1
      BY <1>2, <2>9, OrderFacts
    <3>2. QED
      BY <2>7, <3>1 DEF Detached
  <2>10. v \in Detached(st, S, k)
    BY <1>3, <2>5, <2>6, <2>8, <2>9, <2>c DEF Detached
  <2>11. QED
    BY <2>1, <2>10
<1>6. CASE b \notin S
  <2>1. DetachTurn(u, S, complete, proof, k) = u
    BY <1>6 DEF DetachTurn
  <2>2. QED
    BY <1>2, <2>1 DEF Detached
<1>7. QED
  BY <1>5, <1>6

\* The detachment of moved sinks leaves exact indexes, adds no lease and no
\* use, and spares the rest.
LEMMA DetachAllKeeps ==
    ASSUME NEW st, Regular(st), NEW S, NEW complete, NEW proof,
           proof.keep \in 0..Len(st.route[proof.binding])
    PROVE  /\ Regular(DetachAll(st, S, complete, proof))
           /\ DetachAll(st, S, complete, proof).leased \subseteq st.leased
           /\ Shrinks(st.route, DetachAll(st, S, complete, proof).route)
           /\ \A d \in Bindings : d \notin S => DetachAll(st, S, complete, proof).route[d] = st.route[d]
<1> DEFINE X == [k \in 0..N |-> Detached(st, S, k)]
<1>1. N \in Nat
  BY OrderFacts
<1>2. st \in X[0]
  BY <1>1 DEF Detached, Regular, Shrinks
<1>3. \A k \in 1..N : \A u \in X[k - 1] : DetachTurn(u, S, complete, proof, k) \in X[k]
  <2> SUFFICES ASSUME NEW k \in 1..N, NEW u \in X[k - 1]
               PROVE  DetachTurn(u, S, complete, proof, k) \in X[k]
    OBVIOUS
  <2>1. k - 1 \in 0..N /\ k \in 0..N
    BY <1>1
  <2>2. u \in Detached(st, S, k - 1) /\ X[k] = Detached(st, S, k)
    BY <2>1
  <2>3. QED
    BY <2>2, DetachTurnKeeps
<1>4. DetachAll(st, S, complete, proof) \in X[N]
  <2> HIDE DEF X
  <2> QED
    BY <1>2, <1>3, DetachAllEnds
<1>5. DetachAll(st, S, complete, proof) \in Detached(st, S, N)
  BY <1>1, <1>4
<1>6. QED
  BY <1>5 DEF Detached

\* A proof keeps at most what the moved route has.
LEMMA ProofsAreShort ==
    ASSUME NEW b \in Bindings, route \in Routes, NEW proof \in Proofs(b)
    PROVE  proof.binding = b /\ proof.keep \in 0..Len(route[b])
<1>1. route[b] \in Seq(Good)
  BY DEF Routes
<1>2. RetainedPrefix(route[b]) \in 0..Len(route[b]) /\ Len(route[b]) \in Nat
  BY <1>1, RetainedPrefixIs
<1>3. QED
  BY <1>2 DEF Proofs

-----------------------------------------------------------------------------
(* Committed fabric                                                        *)

\* Where the i-th SRC of a path from n departs.
Leaves(n, p, i) == IF i = 1 THEN n ELSE Landing[p[i - 1]]

\* What the paths of the fabric are.
LEMMA PathFacts ==
    ASSUME NEW n, NEW p \in Paths(n)
    PROVE  /\ p \in Seq(SrcNodes) /\ Len(p) \in Nat
           /\ \A i \in 1..Len(p) : p[i] \in SrcNodes /\ Leaves(n, p, i) \in FanIn[p[i]]
           /\ PathEnd(n, p) = IF Len(p) = 0 THEN n ELSE Landing[p[Len(p)]]
           /\ \A i, j \in 1..(Len(p) + 1) : Leaves(n, p, i) = Leaves(n, p, j) => i = j
<1> DEFINE at(i) == PathEnd(n, SubSeq(p, 1, i))
<1>1. p \in BoundedSeq(SrcNodes, MaxHops) /\ \A i \in 1..Len(p) : at(i - 1) \in FanIn[p[i]]
  BY DEF Paths
<1>2. \A i, j \in 0..Len(p) : at(i) = at(j) => i = j
  BY DEF Paths
<1>3. p \in Seq(SrcNodes) /\ Len(p) \in Nat
  BY <1>1, BindingAssumption DEF BoundedSeq, SeqOf
<1>4. \A i \in 1..(Len(p) + 1) : at(i - 1) = Leaves(n, p, i)
  <2> SUFFICES ASSUME NEW i \in 1..(Len(p) + 1) PROVE at(i - 1) = Leaves(n, p, i)
    OBVIOUS
  <2>1. i - 1 \in 0..Len(p) /\ Len(SubSeq(p, 1, i - 1)) = i - 1 /\ SubSeq(p, 1, i - 1) \in Seq(SrcNodes)
    BY <1>3
  <2>2. CASE i = 1
    <3>1. SubSeq(p, 1, i - 1) = <<>>
      BY <2>1, <2>2
    <3>2. QED
      BY <2>2, <3>1 DEF PathEnd, Leaves
  <2>3. CASE i # 1
    <3>1. i - 1 \in 1..(i - 1) /\ SubSeq(p, 1, i - 1) # <<>>
      BY <2>1, <2>3
    <3>2. SubSeq(p, 1, i - 1)[i - 1] = p[i - 1]
      BY <1>3, <2>1, <2>3
    <3>3. QED
      BY <2>1, <2>3, <3>1, <3>2 DEF PathEnd, Leaves
  <2>4. QED
    BY <2>2, <2>3
<1> HIDE DEF at
<1>5. \A i \in 1..Len(p) : p[i] \in SrcNodes /\ Leaves(n, p, i) \in FanIn[p[i]]
  BY <1>1, <1>3, <1>4
<1>6. PathEnd(n, p) = IF Len(p) = 0 THEN n ELSE Landing[p[Len(p)]]
  <2>1. p = <<>> <=> Len(p) = 0
    BY <1>3
  <2>2. QED
    BY <2>1 DEF PathEnd
<1>7. ASSUME NEW i \in 1..(Len(p) + 1), NEW j \in 1..(Len(p) + 1), Leaves(n, p, i) = Leaves(n, p, j)
      PROVE  i = j
  <2>1. i - 1 \in 0..Len(p) /\ j - 1 \in 0..Len(p)
    BY <1>3
  <2>2. at(i - 1) = at(j - 1)
    BY <1>4, <1>7
  <2>3. i - 1 = j - 1
    BY <1>2, <2>1, <2>2
  <2>4. QED
    BY <2>3
<1>8. QED
  BY <1>3, <1>5, <1>6, <1>7

\* s is the suffix that leaves n along p and, if done, grounds into q.
Spells(n, p, done, q, s) ==
    /\ s \in Seq(Good)
    /\ Len(s) = IF done THEN Len(p) + 2 ELSE Len(p)
    /\ \A i \in 1..Len(p) :
          s[i] = Hop(Leaves(n, p, i), p[i], ~(i = 1 /\ n \in DstNodes), ~done /\ i = Len(p))
    /\ done => /\ s[Len(p) + 1] = Ground(PathEnd(n, p), ~(Len(p) = 0 /\ n \in DstNodes))
               /\ s[Len(p) + 2] = Pin(q)

\* The fragments of a found path, spelled out.
LEMMA SuffixIs ==
    ASSUME NEW n, NEW p \in Paths(n), NEW done \in BOOLEAN, NEW q \in Pins, Reaches(n, p, done, q)
    PROVE  Spells(n, p, done, q, Suffix(n, p, done, q))
<1> DEFINE hops == [i \in 1..Len(p) |->
                      Hop(Leaves(n, p, i), p[i], ~(i = 1 /\ n \in DstNodes), ~done /\ i = Len(p))]
           g == Ground(PathEnd(n, p), ~(Len(p) + 1 = 1 /\ n \in DstNodes))
           end == IF done THEN <<g, Pin(q)>> ELSE <<>>
<1>1. /\ p \in Seq(SrcNodes) /\ Len(p) \in Nat
      /\ \A i \in 1..Len(p) : p[i] \in SrcNodes /\ Leaves(n, p, i) \in FanIn[p[i]]
  BY PathFacts
<1>2. Suffix(n, p, done, q) = hops \o end
  BY DEF Suffix, Leaves
<1>3. \A i \in 1..Len(p) :
         Hop(Leaves(n, p, i), p[i], ~(i = 1 /\ n \in DstNodes), ~done /\ i = Len(p)) \in Good
  BY <1>1, Constructors
<1>4. /\ hops \in Seq(Good) /\ Len(hops) = Len(p)
      /\ \A i \in 1..Len(p) :
            hops[i] = Hop(Leaves(n, p, i), p[i], ~(i = 1 /\ n \in DstNodes), ~done /\ i = Len(p))
  BY <1>1, <1>3
<1>5. Pin(q) \in Good
  BY Constructors
<1>6. done => g \in Good
  <2> SUFFICES ASSUME done PROVE g \in Good
    OBVIOUS
  <2>1. PathEnd(n, p) \in DstNodes
    BY FabricAssumption DEF Reaches
  <2>2. QED
    BY <2>1, Constructors
<1>7. Len(p) + 1 = 1 <=> Len(p) = 0
  BY <1>1
<1> HIDE DEF hops
<1>8. CASE ~done
  <2>1. hops \o end = hops
    BY <1>4, <1>8
  <2>2. QED
    BY <1>2, <1>4, <1>8, <2>1 DEF Spells
<1>9. CASE done
  <2>1. g = Ground(PathEnd(n, p), ~(Len(p) = 0 /\ n \in DstNodes))
    BY <1>7
  <2> HIDE DEF g
  <2>2. <<g, Pin(q)>> \in Seq(Good) /\ Len(<<g, Pin(q)>>) = 2
    BY <1>5, <1>6, <1>9
  <2>3. /\ hops \o <<g, Pin(q)>> \in Seq(Good) /\ Len(hops \o <<g, Pin(q)>>) = Len(p) + 2
        /\ \A i \in 1..Len(p) : (hops \o <<g, Pin(q)>>)[i] = hops[i]
        /\ (hops \o <<g, Pin(q)>>)[Len(p) + 1] = g
        /\ (hops \o <<g, Pin(q)>>)[Len(p) + 2] = Pin(q)
    BY <1>1, <1>4, <2>2
  <2>4. QED
    BY <1>2, <1>4, <1>9, <2>1, <2>3 DEF Spells
<1>10. QED
  BY <1>8, <1>9

\* The nodes a suffix leases are nodes.
LEMMA SuffixNodesAre ==
    ASSUME NEW n, NEW p \in Paths(n), NEW done \in BOOLEAN, NEW q \in Pins
    PROVE  SuffixNodes(p, done, q) \subseteq Nodes
<1>1. p \in Seq(SrcNodes)
  BY PathFacts
<1>2. \A i \in 1..Len(p) : p[i] \in SrcNodes /\ Landing[p[i]] \in DstNodes
  BY <1>1, FabricAssumption
<1>3. QED
  BY <1>2 DEF SuffixNodes, Nodes

\* Marked as a replica, the first k fragments of a route without a hole.
LEMMA ReplicaPrefixIs ==
    ASSUME NEW r \in Seq(Good), ~HasGap(r), NEW k \in 0..Len(r)
    PROVE  /\ ReplicaPrefix(r, k) \in Seq(Good) /\ Len(ReplicaPrefix(r, k)) = k
           /\ \A i \in 1..k : /\ ReplicaPrefix(r, k)[i] = [r[i] EXCEPT !.shared = TRUE]
                              /\ SamePhysicalFragment(r[i], ReplicaPrefix(r, k)[i])
<1>1. k \in Nat /\ \A i \in 1..k : i \in 1..Len(r) /\ r[i] \in Good
  OBVIOUS
<1>2. \A i \in 1..k : r[i].kind # "gap"
  BY <1>1 DEF HasGap
<1>3. \A i \in 1..k : /\ [r[i] EXCEPT !.shared = TRUE] \in Good
                      /\ SamePhysicalFragment(r[i], [r[i] EXCEPT !.shared = TRUE])
  <2> SUFFICES ASSUME NEW i \in 1..k
               PROVE  /\ [r[i] EXCEPT !.shared = TRUE] \in Good
                      /\ SamePhysicalFragment(r[i], [r[i] EXCEPT !.shared = TRUE])
    OBVIOUS
  <2>1. r[i] \in Good /\ r[i].kind # "gap"
    BY <1>1, <1>2
  <2>2. QED
    BY <2>1, OneFlag
<1> DEFINE Marked(i) == [r[i] EXCEPT !.shared = TRUE]
           f == [i \in 1..k |-> Marked(i)]
<1>4. ReplicaPrefix(r, k) = f
  BY DEF ReplicaPrefix
<1>5. \A i \in 1..k : Marked(i) \in Good
  BY <1>3
<1>6. f \in Seq(Good) /\ Len(f) = k /\ \A i \in 1..k : f[i] = Marked(i)
  <2> HIDE DEF Marked
  <2> QED
    BY <1>1, <1>5
<1> HIDE DEF f
<1>7. QED
  BY <1>3, <1>4, <1>6

\* Where a search starts: a continued route keeps all it has.
LEMMA StartsAre ==
    ASSUME route \in Routes, NEW b \in Bindings, NEW st \in Starts(b)
    PROVE  /\ st.prefix \in Seq(Good)
           /\ route[b] # <<>> => st.prefix = route[b]
<1>1. \A c \in Bindings : route[c] \in Seq(Good)
  BY DEF Routes
<1>2. CASE route[b] # <<>>
  BY <1>1, <1>2 DEF Starts
<1>3. CASE route[b] = <<>>
  <2>1. \/ st = [node |-> SourceOf[b], prefix |-> <<>>]
        \/ \E c \in Siblings(b) \ {b} : /\ IsComplete(route[c])
                                        /\ \E k \in DOMAIN route[c] :
                                              st = [node |-> route[c][k].dst, prefix |-> ReplicaPrefix(route[c], k)]
    BY <1>3 DEF Starts
  <2>2. CASE st = [node |-> SourceOf[b], prefix |-> <<>>]
    BY <1>3, <2>2
  <2>3. CASE \E c \in Siblings(b) \ {b} : /\ IsComplete(route[c])
                                          /\ \E k \in DOMAIN route[c] :
                                                st = [node |-> route[c][k].dst, prefix |-> ReplicaPrefix(route[c], k)]
    <3>1. PICK c \in Siblings(b) \ {b} : /\ IsComplete(route[c])
                                         /\ \E k \in DOMAIN route[c] :
                                               st = [node |-> route[c][k].dst, prefix |-> ReplicaPrefix(route[c], k)]
      BY <2>3
    <3>2. PICK k \in DOMAIN route[c] : st = [node |-> route[c][k].dst, prefix |-> ReplicaPrefix(route[c], k)]
      BY <3>1
    <3>3. route[c] \in Seq(Good) /\ ~HasGap(route[c]) /\ k \in 0..Len(route[c])
      BY <1>1, <3>1, <3>2 DEF Siblings, IsComplete
    <3>4. ReplicaPrefix(route[c], k) \in Seq(Good)
      BY <3>3, ReplicaPrefixIs
    <3>5. QED
      BY <1>3, <3>2, <3>4
  <2>4. QED
    BY <2>1, <2>2, <2>3
<1>4. QED
  BY <1>2, <1>3

\* The tiles of the two halves of a concatenation.
LEMMA TilesOfJoin ==
    ASSUME NEW r \in Seq(Good), NEW s \in Seq(Good)
    PROVE  r \o s \in Seq(Good) /\ RouteTiles(r) \subseteq RouteTiles(r \o s)
<1>1. /\ r \o s \in Seq(Good) /\ Len(r \o s) = Len(r) + Len(s)
      /\ \A i \in 1..Len(r) : (r \o s)[i] = r[i]
  OBVIOUS
<1>2. \A i \in 1..Len(r) : i \in 1..Len(r \o s)
  BY <1>1
<1>3. QED
  BY <1>1, <1>2 DEF RouteTiles

\* A commit to a route that keeps its tiles is indexed exactly.
LEMMA CommitKeeps ==
    ASSUME NEW st, Regular(st), NEW b \in Bindings, NEW r \in Seq(Good), NEW new \in SUBSET Nodes,
           RouteTiles(st.route[b]) \subseteq RouteTiles(r)
    PROVE  Regular(Commit(st, b, r, new))
<1> DEFINE rt == [st.route EXCEPT ![b] = r]
<1>1. st \in States /\ st.reg = Entries(st.route, Bindings)
  BY DEF Regular
<1>2. rt \in Routes /\ rt[b] = r /\ \A c \in Bindings : c # b => rt[c] = st.route[c]
  BY <1>1 DEF States, Routes
<1>3. Commit(st, b, r, new) = [route |-> rt, leased |-> st.leased \cup new,
                               reg |-> st.reg \cup (RouteTiles(r) \X {b})]
  BY DEF Commit
<1> HIDE DEF rt
<1>4. RouteTiles(r) \subseteq Tiles
  BY RouteOnTiles
<1>5. Entries(rt, Bindings) \subseteq Tiles \X Bindings /\ st.reg \subseteq Tiles \X Bindings
  BY <1>1, <1>2, EntriesArePairs DEF States
<1>6. ASSUME NEW t \in Tiles, NEW c \in Bindings
      PROVE  <<t, c>> \in st.reg \cup (RouteTiles(r) \X {b}) <=> <<t, c>> \in Entries(rt, Bindings)
  <2>1. <<t, c>> \in st.reg <=> t \in RouteTiles(st.route[c])
    BY <1>1, EntriesOf
  <2>2. <<t, c>> \in Entries(rt, Bindings) <=> t \in RouteTiles(rt[c])
    BY EntriesOf
  <2>3. QED
    BY <1>2, <2>1, <2>2
<1>7. st.reg \cup (RouteTiles(r) \X {b}) = Entries(rt, Bindings)
  BY <1>4, <1>5, <1>6
<1>8. QED
  BY <1>1, <1>2, <1>3, <1>5, <1>7 DEF Regular, States

-----------------------------------------------------------------------------
(* Holes                                                                   *)

\* The hole ends right in front of the pin.
Terminal(r, end) == end + 1 = Len(r) /\ r[Len(r)].kind = "pin"

UserOf(r, cuts, i) == i \in 1..Len(r) /\ Uses(r[i]) \cap cuts # {}

\* low..end covers every use of the cut nodes, all of them transit hops, keeps
\* the first and the last fragment, and ends where the rest goes on.
IsHole(r, cuts, low, end) ==
    /\ low \in 2..Len(r) /\ end \in low..(Len(r) - 1)
    /\ \A i \in Nat : UserOf(r, cuts, i) => i \in low..end /\ r[i].kind = "hop"
    /\ \A i \in Nat : UserOf(r, cuts, i) /\ r[i].src \in cuts => i + 1 \in low..end
    /\ \A i \in low..end : \/ r[i].kind \in {"hop", "gap"}
                           \/ i = end /\ r[i].kind = "ground" /\ Terminal(r, end)
    /\ IF Terminal(r, end) THEN r[end].kind = "gap" => r[end].dst = r[Len(r)].in
       ELSE r[end + 1].kind \in Crossbar /\ r[end].dst = r[end + 1].in
    /\ \/ UserOf(r, cuts, low) /\ r[low - 1].kind # "gap"
       \/ r[low].kind = "gap" /\ UserOf(r, cuts, low + 1)

\* TransitCut cuts such a hole, if any.
LEMMA TransitCutIs ==
    ASSUME NEW r \in Seq(Good), NEW cuts, RouteUses(r) \cap cuts # {}, TransitCut(r, cuts) # <<>>
    PROVE  IsHole(r, cuts, TransitCut(r, cuts)[1], TransitCut(r, cuts)[2])
<1> DEFINE users == {i \in 1..Len(r) : Uses(r[i]) \cap cuts # {}}
           first == FirstUse(r, cuts)
           final == CHOOSE i \in users : \A j \in users : j <= i
           end1 == IF final < Len(r) /\ r[final].src \in cuts THEN final + 1 ELSE final
           low == IF first > 1 /\ r[first - 1].kind = "gap" THEN first - 1 ELSE first
           end2 == IF end1 < Len(r) /\ r[end1 + 1].kind = "gap" THEN end1 + 1 ELSE end1
           end == IF end2 + 2 = Len(r) /\ r[end2 + 1].kind = "ground"
                     /\ r[Len(r)].kind = "pin" THEN end2 + 1 ELSE end2
           terminal == end + 1 = Len(r) /\ r[Len(r)].kind = "pin"
           transit(i) == \/ r[i].kind \in {"hop", "gap"}
                         \/ terminal /\ i = end /\ r[i].kind = "ground"
           boundary == IF terminal
                       THEN r[end].kind = "gap" => r[end].dst = r[Len(r)].in
                       ELSE /\ r[end + 1].kind \in Crossbar
                            /\ r[end].dst = r[end + 1].in
           ok == /\ \A i \in users : r[i].kind = "hop"
                 /\ low > 1
                 /\ end < Len(r)
                 /\ \A i \in low..end : transit(i)
                 /\ boundary
<1>1. TransitCut(r, cuts) = IF ok THEN <<low, end>> ELSE <<>>
  BY DEF TransitCut
<1>2. Len(r) \in Nat /\ users \subseteq 0..Len(r) /\ users # {} /\ users \subseteq Nat
  BY DEF RouteUses
<1>3. final \in users /\ \A j \in users : j <= final
  <2> HIDE DEF users
  <2> QED
    BY <1>2, LargestUpTo
<1>4. first \in users /\ \A j \in users : first <= j
  <2>1. \E m \in users : \A y \in users : m <= y
    <3> HIDE DEF users
    <3> QED
      BY <1>2, Least
  <2>2. first = CHOOSE i \in users : \A j \in users : i <= j
    BY <1>2 DEF FirstUse
  <2> HIDE DEF users, first
  <2>3. QED
    BY <2>1, <2>2
<1> HIDE DEF first, final
<1>5. first \in Nat /\ final \in Nat /\ first <= final /\ first >= 1 /\ final <= Len(r)
  BY <1>2, <1>3, <1>4
<1>6. low \in Nat /\ low <= first /\ low >= 1 /\ first <= low + 1
  BY <1>5
<1>7. end \in Nat /\ end1 \in Nat /\ end1 <= end /\ final <= end /\ end <= Len(r)
  BY <1>2, <1>5
<1>8. ok
  BY <1>1
<1>8a. end < Len(r) /\ final < Len(r)
  <2>1. end < Len(r)
    BY <1>8
  <2> HIDE DEF end
  <2>2. QED
    BY <1>2, <1>5, <1>7, <2>1
<1>9. \A i \in Nat : UserOf(r, cuts, i) <=> i \in users
  BY DEF UserOf
<1>10. terminal <=> Terminal(r, end)
  BY DEF Terminal
<1>11. \A i \in Nat : UserOf(r, cuts, i) => i \in low..end /\ r[i].kind = "hop"
  <2> SUFFICES ASSUME NEW i \in Nat, UserOf(r, cuts, i) PROVE i \in low..end /\ r[i].kind = "hop"
    OBVIOUS
  <2>1. i \in users /\ first <= i /\ i <= final
    BY <1>3, <1>4, <1>9
  <2> HIDE DEF users, low, end
  <2>2. i \in low..end
    BY <1>5, <1>6, <1>7, <2>1
  <2>3. QED
    BY <1>8, <2>1, <2>2
<1>12. \A i \in Nat : UserOf(r, cuts, i) /\ r[i].src \in cuts => i + 1 \in low..end
  <2> SUFFICES ASSUME NEW i \in Nat, UserOf(r, cuts, i), r[i].src \in cuts PROVE i + 1 \in low..end
    OBVIOUS
  <2>1. i \in users /\ first <= i /\ i <= final
    BY <1>3, <1>4, <1>9
  <2>2. CASE i = final
    <3>1. final < Len(r)
      BY <1>8a
    <3>2. end1 = final + 1
      BY <2>2, <3>1
    <3> HIDE DEF end, end1, low
    <3>3. QED
      BY <1>5, <1>6, <1>7, <2>1, <2>2, <3>2
  <2>3. CASE i # final
    <3> HIDE DEF end, low
    <3> QED
      BY <1>5, <1>6, <1>7, <2>1, <2>3
  <2>4. QED
    BY <2>2, <2>3
<1>13. low \in 2..Len(r) /\ end \in low..(Len(r) - 1)
  <2> HIDE DEF low, end
  <2> QED
    BY <1>2, <1>5, <1>6, <1>7, <1>8
<1>14. \/ UserOf(r, cuts, low) /\ r[low - 1].kind # "gap"
       \/ r[low].kind = "gap" /\ UserOf(r, cuts, low + 1)
  <2>1. CASE first > 1 /\ r[first - 1].kind = "gap"
    <3>1. low = first - 1 /\ low + 1 = first
      BY <1>5, <2>1
    <3>2. QED
      BY <1>4, <1>5, <1>9, <2>1, <3>1
  <2>2. CASE ~(first > 1 /\ r[first - 1].kind = "gap")
    <3>1. low = first
      BY <2>2
    <3>2. first > 1
      BY <1>8, <3>1
    <3>3. QED
      BY <1>4, <1>5, <1>9, <2>2, <3>1, <3>2
  <2>3. QED
    BY <2>1, <2>2
<1> HIDE DEF users, low, end1, end2, end
<1>15. TransitCut(r, cuts)[1] = low /\ TransitCut(r, cuts)[2] = end
  BY <1>1, <1>8
<1>16. IsHole(r, cuts, low, end)
  BY <1>8, <1>10, <1>11, <1>12, <1>13, <1>14 DEF IsHole
<1>17. QED
  BY <1>15, <1>16

\* q is r with a hole from low to end, gone what was there.
IsOpened(r, low, end, q, gone) ==
    /\ q \in Seq(Good) /\ gone \in Seq(Good)
    /\ Len(q) = low + (Len(r) - end)
    /\ SameFabric(SubSeq(r, 1, low - 1), SubSeq(q, 1, low - 1))
    /\ q[low] = Gap(r[low].in, HoleEnd(r, <<low, end>>))
    /\ \A i \in 1..(Len(r) - end) : q[low + i] = Islanded(r[end + i])
    /\ SameFabric(SubSeq(r, low, end), gone)

\* The fragment behind a hole becomes the owner of its DST and stays the same
\* fabric.
LEMMA IslandedIs ==
    ASSUME NEW f \in Good
    PROVE  Islanded(f) \in Good /\ SamePhysicalFragment(f, Islanded(f))
<1>1. f \in Fragment /\ f.shared \in BOOLEAN /\ f.ownsDst \in BOOLEAN /\ f.ownsLanding \in BOOLEAN
  BY GoodFragment
<1>2. CASE f.kind = "gap"
  BY <1>2 DEF Islanded, SamePhysicalFragment
<1>3. CASE f.kind = "pin"
  <2>1. Islanded(f) = [f EXCEPT !.shared = FALSE]
    BY <1>3 DEF Islanded
  <2>2. QED
    BY <1>3, <2>1, OneFlag
<1>4. CASE f.kind \notin {"gap", "pin"}
  <2> DEFINE od == f.kind # "out"
             ol == f.kind \in Jumps
             g  == Flagged(f, FALSE, od, ol)
  <2>1. Islanded(f) = g
    BY <1>1, <1>4 DEF Islanded, Flagged, Fragment
  <2>2. od \in BOOLEAN /\ ol \in BOOLEAN
    OBVIOUS
  <2> HIDE DEF od, ol
  <2>3. g \in Good /\ SamePhysicalFragment(f, g)
    BY <1>4, <2>2, Reflagged
  <2> HIDE DEF g
  <2>4. QED
    BY <2>1, <2>3
<1>5. QED
  BY <1>2, <1>3, <1>4

\* A route with a hole in it, spelled out; no tile of the old route is
\* forgotten.
LEMMA OpenedIs ==
    ASSUME NEW r \in Seq(Good), NEW cuts, NEW hole, IsHole(r, cuts, hole[1], hole[2])
    PROVE  /\ IsOpened(r, hole[1], hole[2], Opened(r, hole).route, Opened(r, hole).removed)
           /\ RouteTiles(r) \subseteq RouteTiles(Opened(r, hole).removed) \cup RouteTiles(Opened(r, hole).route)
<1> DEFINE low == hole[1]
           end == hole[2]
           a == SubSeq(r, 1, low - 1)
           m == SubSeq(r, low, end)
           cut == KeepLanding(a, m)
           gap == Gap(r[low].in, HoleEnd(r, hole))
           tail == [i \in 1..(Len(r) - end) |-> Islanded(r[end + i])]
           q == Opened(r, hole).route
           gone == Opened(r, hole).removed
<1>1. q = cut.kept \o <<gap>> \o tail /\ gone = cut.removed
  BY DEF Opened
<1>2. low \in 2..Len(r) /\ end \in low..(Len(r) - 1) /\ Len(r) \in Nat
  BY DEF IsHole
<1>h. HoleEnd(r, hole) = HoleEnd(r, <<low, end>>)
  BY DEF HoleEnd
<1>3. gap \in Good
  <2>1. r[low] \in Good /\ r[end] \in Good /\ r[end + 1] \in Good
    BY <1>2
  <2>2. r[low].kind \in {"hop", "gap"}
    BY <1>2 DEF IsHole
  <2>3. r[low].in \in DstNodes
    BY <2>1, <2>2, GoodFragment DEF Shape
  <2>4. HoleEnd(r, hole) \in DstNodes \cup Pins
    <3>1. CASE r[end + 1].kind = "pin"
      BY <2>1, <3>1, GoodFragment DEF HoleEnd, Shape
    <3>2. CASE r[end + 1].kind # "pin"
      <4>1. ~Terminal(r, end)
        BY <1>2, <3>2 DEF Terminal
      <4>2. end \in low..end
        BY <1>2
      <4>3. r[end].kind \in {"hop", "gap"}
        BY <4>1, <4>2 DEF IsHole
      <4>4. r[end].dst \in DstNodes \cup Pins
        BY <2>1, <4>3, GoodFragment, FabricAssumption DEF Shape
      <4>5. QED
        BY <3>2, <4>4 DEF HoleEnd
    <3>3. QED
      BY <3>1, <3>2
  <2> HIDE DEF low
  <2>5. QED
    BY <2>3, <2>4, Constructors
<1> HIDE DEF low, end
<1>4. /\ a \in Seq(Good) /\ Len(a) = low - 1 /\ \A i \in 1..(low - 1) : a[i] = r[i]
      /\ m \in Seq(Good) /\ Len(m) = end + 1 - low /\ \A i \in 1..(end + 1 - low) : m[i] = r[low + i - 1]
  BY <1>2
<1> HIDE DEF a, m
<1>5. /\ cut.kept \in Seq(Good) /\ cut.removed \in Seq(Good)
      /\ SameFabric(a, cut.kept) /\ SameFabric(m, cut.removed)
  BY <1>4, KeepLandingKeeps
<1> HIDE DEF cut
<1>6. Len(cut.kept) = low - 1 /\ \A i \in 1..(low - 1) : SamePhysicalFragment(r[i], cut.kept[i])
  BY <1>4, <1>5 DEF SameFabric
<1>7. \A i \in 1..(Len(r) - end) : r[end + i] \in Good
  BY <1>2
<1>8. \A i \in 1..(Len(r) - end) :
         Islanded(r[end + i]) \in Good /\ SamePhysicalFragment(r[end + i], Islanded(r[end + i]))
  BY <1>7, IslandedIs
<1>9. tail \in Seq(Good) /\ Len(tail) = Len(r) - end
      /\ \A i \in 1..(Len(r) - end) : tail[i] = Islanded(r[end + i])
  <2> DEFINE n == Len(r) - end
             g(i) == Islanded(r[end + i])
  <2>0. n \in Nat
    BY <1>2
  <2>1. \A i \in 1..n : g(i) \in Good
    BY <1>8
  <2> HIDE DEF g, n
  <2>2. [i \in 1..n |-> g(i)] \in Seq(Good) /\ Len([i \in 1..n |-> g(i)]) = n
    BY <2>0, <2>1
  <2>3. tail = [i \in 1..n |-> g(i)]
    BY DEF n, g
  <2> HIDE DEF tail
  <2>4. tail \in Seq(Good) /\ Len(tail) = n /\ \A i \in 1..n : tail[i] = g(i)
    BY <2>2, <2>3
  <2>5. QED
    BY <2>4 DEF n, g
<1> HIDE DEF gap, tail
<1> DEFINE f == cut.kept \o <<gap>>
<1>10. f \in Seq(Good) /\ Len(f) = low /\ f[low] = gap /\ \A i \in 1..(low - 1) : f[i] = cut.kept[i]
  BY <1>2, <1>3, <1>5, <1>6
<1>11. q = f \o tail
  BY <1>1
<1> HIDE DEF f, q
<1>12. /\ q \in Seq(Good) /\ Len(q) = low + (Len(r) - end)
       /\ \A i \in 1..low : q[i] = f[i]
       /\ \A i \in 1..(Len(r) - end) : q[low + i] = tail[i]
  <2> DEFINE n == Len(r) - end
  <2>1. n \in Nat /\ low \in Nat /\ tail \in Seq(Good) /\ Len(tail) = n /\ Len(f) = low /\ f \in Seq(Good)
    BY <1>2, <1>9, <1>10
  <2> HIDE DEF n
  <2>a. q \in Seq(Good) /\ Len(q) = low + n
    <3>1. f \o tail \in Seq(Good) /\ Len(f \o tail) = Len(f) + Len(tail)
      BY ONLY <2>1, ConcatProperties
    <3>2. QED
      BY <1>11, <2>1, <3>1
  <2>b. ASSUME NEW i \in 1..low PROVE q[i] = f[i]
    BY <2>1, <1>11
  <2>c. ASSUME NEW i \in 1..n PROVE q[low + i] = tail[i]
    <3>1. low + i \in 1..(low + n) /\ ~(low + i <= low) /\ low + i - low = i
      BY <2>1
    <3>2. (f \o tail)[low + i] = tail[low + i - low]
      <4>1. \A j \in 1..(Len(f) + Len(tail)) :
               (f \o tail)[j] = IF j <= Len(f) THEN f[j] ELSE tail[j - Len(f)]
        BY ONLY <2>1, ConcatProperties
      <4>2. QED
        BY <2>1, <3>1, <4>1
    <3>3. QED
      BY <2>1, <1>11, <3>1, <3>2
  <2>2. /\ q \in Seq(Good) /\ Len(q) = low + n
        /\ \A i \in 1..low : q[i] = f[i]
        /\ \A i \in 1..n : q[low + i] = tail[i]
    BY <2>a, <2>b, <2>c
  <2>3. QED
    BY <2>2 DEF n
<1>13. q[low] = gap /\ \A i \in 1..(low - 1) : q[i] = cut.kept[i]
  BY <1>2, <1>10, <1>12
<1>14. SameFabric(SubSeq(r, 1, low - 1), SubSeq(q, 1, low - 1))
  <2> DEFINE z == SubSeq(q, 1, low - 1)
  <2>1. Len(z) = low - 1 /\ \A i \in 1..(low - 1) : z[i] = q[i]
    BY <1>2, <1>12
  <2> HIDE DEF z
  <2>2. SameFabric(a, z)
    BY <1>4, <1>6, <1>13, <2>1 DEF SameFabric
  <2>3. QED
    BY <2>2 DEF a, z
<1>15. IsOpened(r, low, end, q, gone)
  BY <1>1, <1>5, <1>8, <1>9, <1>12, <1>13, <1>14, <1>h DEF IsOpened, gap, m
<1>16. ASSUME NEW i \in 1..Len(r)
       PROVE  FragmentTiles(r[i]) \subseteq RouteTiles(gone) \cup RouteTiles(q)
  <2>0. \A g, h : SamePhysicalFragment(g, h) => FragmentTiles(g) = FragmentTiles(h)
    BY DEF SamePhysicalFragment, FragmentTiles, FromTile, ToTile
  <2>1. CASE i < low
    <3>1. i \in 1..Len(q) /\ SamePhysicalFragment(r[i], q[i])
      BY <1>2, <1>6, <1>12, <1>13, <2>1
    <3>2. QED
      BY <2>0, <3>1 DEF RouteTiles
  <2>2. CASE low <= i /\ i <= end
    <3>1. i - low + 1 \in 1..Len(m) /\ m[i - low + 1] = r[i]
      BY <1>2, <1>4, <2>2
    <3>2. Len(m) = Len(gone) /\ SamePhysicalFragment(r[i], gone[i - low + 1])
      BY <1>1, <1>5, <3>1 DEF SameFabric
    <3>3. QED
      BY <2>0, <3>1, <3>2 DEF RouteTiles
  <2>3. CASE i > end
    <3>1. i - end \in 1..(Len(r) - end) /\ end + (i - end) = i /\ low + (i - end) \in 1..Len(q)
      BY <1>2, <1>12, <2>3
    <3>2. SamePhysicalFragment(r[i], q[low + (i - end)])
      BY <1>8, <1>9, <1>12, <3>1
    <3>3. QED
      BY <2>0, <3>1, <3>2 DEF RouteTiles
  <2>4. QED
    BY <1>2, <2>1, <2>2, <2>3
<1>17. RouteTiles(r) \subseteq RouteTiles(gone) \cup RouteTiles(q)
  BY <1>16 DEF RouteTiles
<1>18. QED
  BY <1>15, <1>17 DEF low, end, q

\* With exact indexes the dependents of a set of nodes are all its users.
LEMMA DependentsAre ==
    ASSUME NEW st, Regular(st), NEW cuts
    PROVE  Dependents(st, cuts) = {b \in Bindings : RouteUses(st.route[b]) \cap cuts # {}}
<1>1. st \in States /\ st.reg = Entries(st.route, Bindings)
  BY DEF Regular
<1>2. Dependents(st, cuts) \subseteq {b \in Bindings : RouteUses(st.route[b]) \cap cuts # {}}
  BY DEF Dependents, Listed
<1>3. ASSUME NEW b \in Bindings, RouteUses(st.route[b]) \cap cuts # {}
      PROVE  b \in Dependents(st, cuts)
  <2>1. PICK n \in cuts : n \in RouteUses(st.route[b])
    BY <1>3
  <2>2. st.route[b] \in Seq(Good)
    BY <1>1 DEF States, Routes
  <2>3. TileOf[n] \in RouteTiles(st.route[b])
    BY <2>1, <2>2, RouteOnTiles
  <2>4. <<TileOf[n], b>> \in st.reg
    BY <1>1, <2>3, EntriesOf
  <2>5. b \in Listed(st, TileOf[n])
    BY <2>4 DEF Listed
  <2>6. QED
    BY <1>3, <2>1, <2>5 DEF Dependents
<1>4. QED
  BY <1>2, <1>3

\* Opening the holes of a cut.
LEMMA OpenHolesKeeps ==
    ASSUME Regular(Now), NEW cuts, NEW b \in Bindings, MayCut(b, cuts)
    PROVE  /\ Regular(OpenHoles(Dependents(Now, cuts), cuts))
           /\ b \notin Dependents(Now, cuts)
           /\ \A c \in Bindings : c \notin Dependents(Now, cuts) =>
                 OpenHoles(Dependents(Now, cuts), cuts).route[c] = route[c]
<1> DEFINE V == Dependents(Now, cuts)
           hole(c) == TransitCut(route[c], cuts)
           o(c) == Opened(route[c], hole(c))
           opened == [c \in V |-> o(c)]
           rt == [c \in Bindings |-> IF c \in V THEN opened[c].route ELSE route[c]]
           gone == [c \in V |-> opened[c].removed]
<1>1. Now \in States /\ reg = Entries(route, Bindings) /\ route \in Routes
      /\ Now.route = route /\ Now.leased = leased /\ Now.reg = reg
  BY DEF Regular, Now, States
<1>2. V = {c \in Bindings : RouteUses(route[c]) \cap cuts # {}}
  BY <1>1, DependentsAre
<1>3. \A c \in V : TransitCut(route[c], cuts) # <<>>
  BY DEF MayCut
<1>4. OpenHoles(V, cuts) = Withdraw(Now, rt, gone)
  BY DEF OpenHoles
<1>5. b \notin V
  <2> SUFFICES ASSUME b \in V PROVE FALSE
    OBVIOUS
  <2>1. PICK n \in cuts : n \in RouteUses(route[b])
    BY <1>2
  <2>2. b \in Dependents(Now, {n})
    BY <1>1, <2>1, DependentsAre
  <2>3. Preemptible(b, b, n)
    BY <2>1, <2>2 DEF MayCut
  <2>4. QED
    BY <2>3 DEF Preemptible
<1>6. ASSUME NEW c \in V
      PROVE  /\ o(c).route \in Seq(Good)
             /\ RouteTiles(route[c]) \subseteq RouteTiles(o(c).removed) \cup RouteTiles(o(c).route)
  <2> HIDE DEF V
  <2>1. c \in Bindings /\ RouteUses(route[c]) \cap cuts # {} /\ hole(c) # <<>>
    BY <1>2, <1>3 DEF V
  <2>2. route[c] \in Seq(Good)
    BY <1>1, <2>1 DEF Routes
  <2>3. IsHole(route[c], cuts, hole(c)[1], hole(c)[2])
    BY <2>1, <2>2, TransitCutIs
  <2> HIDE DEF hole
  <2>4. /\ IsOpened(route[c], hole(c)[1], hole(c)[2], o(c).route, o(c).removed)
        /\ RouteTiles(route[c]) \subseteq RouteTiles(o(c).removed) \cup RouteTiles(o(c).route)
    BY <2>2, <2>3, OpenedIs
  <2>5. QED
    BY <2>4 DEF IsOpened
<1> HIDE DEF V, o
<1>7. V \subseteq Bindings
  BY <1>2
<1>8. /\ rt \in Routes /\ \A c \in V : rt[c] = o(c).route /\ gone[c] = o(c).removed
      /\ \A c \in Bindings : c \notin V => rt[c] = route[c]
      /\ DOMAIN gone = V
  BY <1>1, <1>6, <1>7 DEF Routes
<1> HIDE DEF rt, gone
<1>9. /\ \A c \in Bindings : c \notin DOMAIN gone => RouteTiles(rt[c]) = RouteTiles(Now.route[c])
      /\ \A c \in DOMAIN gone : RouteTiles(Now.route[c]) \subseteq RouteTiles(gone[c]) \cup RouteTiles(rt[c])
  BY <1>1, <1>6, <1>8
<1>10. Regular(Withdraw(Now, rt, gone)) /\ Withdraw(Now, rt, gone).route = rt
  BY <1>1, <1>7, <1>8, <1>9, WithdrawKeeps
<1>11. QED
  BY <1>4, <1>5, <1>8, <1>10 DEF V

-----------------------------------------------------------------------------
(* Repairs                                                                 *)

\* fill is the path p across the hole.
IsFill(gap, p, fill) ==
    /\ fill \in Seq(Good)
    /\ Len(fill) = IF gap.dst \in Pins THEN Len(p) + 1 ELSE Len(p)
    /\ \A i \in 1..Len(p) : fill[i] = Hop(Leaves(gap.in, p, i), p[i], i # 1, FALSE)
    /\ gap.dst \in Pins => fill[Len(p) + 1] = Ground(PathEnd(gap.in, p), Len(p) # 0)

\* The fragments of a mended hole, spelled out.
LEMMA FillIs ==
    ASSUME NEW gap, gap.in \in DstNodes, NEW p \in Paths(gap.in)
    PROVE  IsFill(gap, p, Fill(gap, p))
<1> DEFINE H(i) == Hop(Leaves(gap.in, p, i), p[i], i # 1, FALSE)
           hops == [i \in 1..Len(p) |-> H(i)]
           g == Ground(PathEnd(gap.in, p), p # <<>>)
           end == IF gap.dst \in Pins THEN <<g>> ELSE <<>>
<1>1. /\ p \in Seq(SrcNodes) /\ Len(p) \in Nat
      /\ \A i \in 1..Len(p) : p[i] \in SrcNodes /\ Leaves(gap.in, p, i) \in FanIn[p[i]]
      /\ PathEnd(gap.in, p) = IF Len(p) = 0 THEN gap.in ELSE Landing[p[Len(p)]]
  BY PathFacts
<1>2. Fill(gap, p) = hops \o end
  BY DEF Fill, Leaves
<1>3. \A i \in 1..Len(p) : H(i) \in Good
  BY <1>1, Constructors
<1>4. /\ hops \in Seq(Good) /\ Len(hops) = Len(p)
      /\ \A i \in 1..Len(p) : hops[i] = H(i)
  <2> HIDE DEF H
  <2> QED
    BY <1>1, <1>3
<1>5. PathEnd(gap.in, p) \in DstNodes
  <2>1. CASE Len(p) = 0
    BY <1>1, <2>1
  <2>2. CASE Len(p) # 0
    <3>1. p[Len(p)] \in SrcNodes
      BY <1>1, <2>2
    <3>2. QED
      BY <1>1, <2>2, <3>1, FabricAssumption
  <2>3. QED
    BY <2>1, <2>2
<1>6. g \in Good
  BY <1>5, Constructors
<1>7. p # <<>> <=> Len(p) # 0
  BY <1>1
<1>8. g = Ground(PathEnd(gap.in, p), Len(p) # 0)
  BY <1>7 DEF Ground
<1> HIDE DEF hops, g
<1>9. CASE gap.dst \notin Pins
  <2>1. hops \o end = hops
    BY <1>4, <1>9
  <2>2. QED
    BY <1>2, <1>4, <1>9, <2>1 DEF IsFill
<1>10. CASE gap.dst \in Pins
  <2>2. <<g>> \in Seq(Good) /\ Len(<<g>>) = 1
    BY <1>6
  <2>3. /\ hops \o <<g>> \in Seq(Good) /\ Len(hops \o <<g>>) = Len(p) + 1
        /\ \A i \in 1..Len(p) : (hops \o <<g>>)[i] = hops[i]
        /\ (hops \o <<g>>)[Len(p) + 1] = g
    BY <1>1, <1>4, <2>2
  <2>4. QED
    BY <1>2, <1>4, <1>8, <1>10, <2>3 DEF IsFill
<1>11. QED
  BY <1>9, <1>10

\* The first index with a property.
LEMMA FirstOfIs ==
    ASSUME NEW I, I \subseteq Nat, I # {}
    PROVE  FirstOf(I) \in I /\ \A j \in I : FirstOf(I) <= j
<1>1. \E m \in I : \A y \in I : m <= y
  BY Least
<1>2. QED
  BY <1>1 DEF FirstOf

\* q is r with fill in the place of its fragment i.
IsPatch(r, i, fill, q) ==
    /\ q \in Seq(Good) /\ Len(q) = Len(r) - 1 + Len(fill)
    /\ \A j \in 1..(i - 1) : q[j] = r[j]
    /\ \A j \in 1..Len(fill) : q[i - 1 + j] = fill[j]
    /\ \A j \in 1..(Len(r) - i) : q[i - 1 + Len(fill) + j] = r[i + j]

\* Where a route first has the hole.
HoleAt(r, gap) == FirstOf({j \in DOMAIN r : r[j] = gap})

\* The position of a hole, where the route has it.
LEMMA HoleAtIs ==
    ASSUME NEW r \in Seq(Good), NEW gap, \E i \in DOMAIN r : r[i] = gap
    PROVE  HoleAt(r, gap) \in 1..Len(r) /\ r[HoleAt(r, gap)] = gap
<1> DEFINE I == {j \in DOMAIN r : r[j] = gap}
<1>1. DOMAIN r = 1..Len(r) /\ Len(r) \in Nat
  OBVIOUS
<1>2. I \subseteq Nat /\ I # {}
  BY <1>1
<1>3. FirstOf(I) \in I
  <2> HIDE DEF I
  <2> QED
    BY <1>2, FirstOfIs
<1>4. QED
  BY <1>1, <1>3 DEF HoleAt

\* A route with its hole replaced by the fill, spelled out.
LEMMA PatchIs ==
    ASSUME NEW r \in Seq(Good), NEW gap, \E i \in DOMAIN r : r[i] = gap, NEW fill \in Seq(Good)
    PROVE  IsPatch(r, HoleAt(r, gap), fill, Patch(r, gap, fill))
<1> DEFINE i == HoleAt(r, gap)
           a == SubSeq(r, 1, i - 1)
           z == SubSeq(r, i + 1, Len(r))
           q == Patch(r, gap, fill)
           n == Len(r)
           m == Len(fill)
<1>1. i \in 1..n /\ n \in Nat /\ m \in Nat
  BY HoleAtIs
<1>2. q = a \o fill \o z
  BY DEF Patch, HoleAt
<1> HIDE DEF i
<1>3. /\ a \in Seq(Good) /\ Len(a) = i - 1 /\ \A j \in 1..(i - 1) : a[j] = r[j]
      /\ z \in Seq(Good) /\ Len(z) = n - i /\ \A j \in 1..(n - i) : z[j] = r[i + j]
  <2>1. i + 1 \in Nat /\ i + 1 >= 1 /\ i + 1 <= n + 1 /\ i - 1 \in Nat /\ i - 1 <= n
    BY <1>1
  <2>2. QED
    BY <1>1, <2>1
<1> HIDE DEF a, z, q
<1> DEFINE f == a \o fill
<1>4. /\ f \in Seq(Good) /\ Len(f) = i - 1 + m
      /\ \A j \in 1..(i - 1) : f[j] = a[j]
      /\ \A j \in 1..m : f[i - 1 + j] = fill[j]
  <2>1. f \in Seq(Good) /\ Len(f) = Len(a) + Len(fill)
        /\ \A j \in 1..(Len(a) + Len(fill)) : f[j] = IF j <= Len(a) THEN a[j] ELSE fill[j - Len(a)]
    BY ONLY <1>3, fill \in Seq(Good), ConcatProperties
  <2> HIDE DEF f
  <2>2. ASSUME NEW j \in 1..(i - 1) PROVE f[j] = a[j]
    <3>1. j \in 1..(i - 1 + m) /\ j <= i - 1
      BY <1>1
    <3>2. QED
      BY <1>3, <2>1, <3>1
  <2>3. ASSUME NEW j \in 1..m PROVE f[i - 1 + j] = fill[j]
    <3>1. i - 1 + j \in 1..(i - 1 + m) /\ ~(i - 1 + j <= i - 1) /\ (i - 1 + j) - (i - 1) = j
      BY <1>1
    <3>2. QED
      BY <1>1, <1>3, <2>1, <3>1
  <2>4. QED
    BY <1>3, <2>1, <2>2, <2>3
<1> HIDE DEF f
<1>5. /\ q \in Seq(Good) /\ Len(q) = n - 1 + m
      /\ \A j \in 1..(i - 1 + m) : q[j] = f[j]
      /\ \A j \in 1..(n - i) : q[i - 1 + m + j] = z[j]
  <2>0. q = f \o z
    BY <1>2 DEF f
  <2>1. f \o z \in Seq(Good) /\ Len(f \o z) = Len(f) + Len(z)
        /\ \A j \in 1..(Len(f) + Len(z)) : (f \o z)[j] = IF j <= Len(f) THEN f[j] ELSE z[j - Len(f)]
    BY ONLY <1>3, <1>4, ConcatProperties
  <2>2. ASSUME NEW j \in 1..(i - 1 + m) PROVE q[j] = f[j]
    BY <1>1, <1>3, <1>4, <2>0, <2>1
  <2>3. ASSUME NEW j \in 1..(n - i) PROVE q[i - 1 + m + j] = z[j]
    <3>1. /\ i - 1 + m + j \in 1..(i - 1 + m + (n - i)) /\ ~(i - 1 + m + j <= i - 1 + m)
          /\ (i - 1 + m + j) - (i - 1 + m) = j
      BY <1>1
    <3>2. (f \o z)[i - 1 + m + j] = z[(i - 1 + m + j) - (i - 1 + m)]
      BY <1>3, <1>4, <2>1, <3>1
    <3>3. QED
      BY <2>0, <3>1, <3>2
  <2>4. QED
    BY <1>1, <1>3, <1>4, <2>0, <2>1, <2>2, <2>3
<1>6. \A j \in 1..(i - 1) : q[j] = r[j]
  BY <1>1, <1>3, <1>4, <1>5
<1>7. ASSUME NEW j \in 1..m PROVE q[i - 1 + j] = fill[j]
  <2>1. i - 1 + j \in 1..(i - 1 + m)
    BY <1>1
  <2>2. QED
    BY <1>4, <1>5, <2>1
<1>8. QED
  BY <1>3, <1>5, <1>6, <1>7 DEF IsPatch, i, q

\* A repair replaces one fragment of every twin.
LEMMA CloseHolesKeeps ==
    ASSUME Regular(Now), NEW gap, NEW T \in SUBSET Bindings,
           \A c \in T : \E i \in DOMAIN route[c] : route[c][i] = gap,
           NEW fill \in Seq(Good)
    PROVE  /\ Regular(CloseHoles(T, gap, fill))
           /\ CloseHoles(T, gap, fill).leased = leased \cup RouteOwned(fill)
           /\ CloseHoles(T, gap, fill).route =
                 [c \in Bindings |-> IF c \in T THEN Patch(route[c], gap, fill) ELSE route[c]]
<1> DEFINE rt == [c \in Bindings |-> IF c \in T THEN Patch(route[c], gap, fill) ELSE route[c]]
           after == [route |-> rt, leased |-> leased \cup RouteOwned(fill), reg |-> reg]
           removed == [c \in T |-> route[c]]
<1>1. reg = Entries(route, Bindings) /\ route \in Routes /\ leased \subseteq Nodes
  BY DEF Regular, Now, States
<1>2. \A c \in T : Patch(route[c], gap, fill) \in Seq(Good)
  <2> SUFFICES ASSUME NEW c \in T PROVE Patch(route[c], gap, fill) \in Seq(Good)
    OBVIOUS
  <2>1. route[c] \in Seq(Good) /\ \E i \in DOMAIN route[c] : route[c][i] = gap
    BY <1>1 DEF Routes
  <2>2. IsPatch(route[c], HoleAt(route[c], gap), fill, Patch(route[c], gap, fill))
    BY <2>1, PatchIs
  <2>3. QED
    BY <2>2 DEF IsPatch
<1>3. CloseHoles(T, gap, fill) = [after EXCEPT !.reg = Rebuild(after, removed)]
  BY DEF CloseHoles
<1>4. rt \in Routes /\ \A c \in Bindings : c \notin T => rt[c] = route[c]
  BY <1>1, <1>2 DEF Routes
<1>5. after.route = rt /\ after.reg = Entries(route, Bindings) /\ after.leased = leased \cup RouteOwned(fill)
  BY <1>1
<1>6. DOMAIN removed = T /\ \A c \in T : removed[c] = route[c]
  OBVIOUS
<1>7. CloseHoles(T, gap, fill) = [route |-> rt, leased |-> leased \cup RouteOwned(fill),
                                  reg |-> Rebuild(after, removed)]
  BY <1>3
<1>8. RouteOwned(fill) \subseteq Nodes
  BY RouteOnTiles
<1> HIDE DEF rt, after, removed
<1>9. Rebuild(after, removed) = Entries(rt, Bindings)
  BY <1>1, <1>4, <1>5, <1>6, RebuildExact
<1>10. Entries(rt, Bindings) \subseteq Tiles \X Bindings
  BY <1>4, EntriesArePairs
<1>11. QED
  BY <1>1, <1>4, <1>7, <1>8, <1>9, <1>10 DEF Regular, States, rt

\* The hole a binding repairs first.
LEMMA FirstGapIs ==
    ASSUME NEW r \in Seq(Good), HasGap(r)
    PROVE  /\ FirstGap(r) \in 1..Len(r) /\ r[FirstGap(r)].kind = "gap"
           /\ r[FirstGap(r)] \in Good
           /\ r[FirstGap(r)].in \in DstNodes /\ r[FirstGap(r)].dst \in DstNodes \cup Pins
<1> DEFINE I == {i \in DOMAIN r : r[i].kind = "gap"}
<1>1. DOMAIN r = 1..Len(r) /\ Len(r) \in Nat
  OBVIOUS
<1>2. I \subseteq Nat /\ I # {}
  BY <1>1 DEF HasGap
<1>3. FirstOf(I) \in I
  <2> HIDE DEF I
  <2> QED
    BY <1>2, FirstOfIs
<1>4. FirstGap(r) \in 1..Len(r) /\ r[FirstGap(r)].kind = "gap"
  BY <1>1, <1>3 DEF FirstGap
<1>5. r[FirstGap(r)] \in Good
  BY <1>4
<1>6. QED
  BY <1>4, <1>5, GoodFragment DEF Shape

-----------------------------------------------------------------------------
(* Every step keeps the fragments those of the fabric and the indexes exact *)

\* Every unrouted tree takes its registrations with it.
LEMMA SourceTreeKeeps ==
    ASSUME Regular(Now), NEW s \in Sources, UnrouteSourceTree(s)
    PROVE  /\ \E st : Regular(st) /\ Install(st)
           /\ route' = [b \in Bindings |-> IF SourceOf[b] = s THEN <<>> ELSE route[b]]
<1> DEFINE tree == {b \in Bindings : SourceOf[b] = s /\ route[b] # <<>>}
           bare(b) == [i \in 1..Len(route[b]) |-> [route[b][i] EXCEPT !.shared = FALSE]]
           removed == [b \in tree |-> bare(b)]
           rt == [b \in Bindings |-> IF b \in tree THEN <<>> ELSE route[b]]
           cut == [Now EXCEPT !.route = rt]
           gone == UNION {RouteOwned(removed[b]) : b \in tree}
           st == [route |-> rt, leased |-> leased \ gone, reg |-> Rebuild(cut, removed)]
<1>1. reg = Entries(route, Bindings) /\ route \in Routes /\ leased \subseteq Nodes
  BY DEF Regular, Now, States
<1>2. cut.route = rt /\ cut.reg = Entries(route, Bindings)
  BY <1>1 DEF Now
<1>3. Install(st)
  BY <1>2 DEF UnrouteSourceTree
<1>4. rt \in Routes /\ DOMAIN removed = tree /\ tree \subseteq Bindings
      /\ \A b \in Bindings : b \notin tree => rt[b] = route[b]
  BY <1>1 DEF Routes
<1>5. ASSUME NEW b \in tree PROVE RouteTiles(route[b]) = RouteTiles(removed[b])
  <2>1. removed[b] = bare(b)
    OBVIOUS
  <2>2. route[b] \in Seq(Good)
    BY <1>1, <1>4 DEF Routes
  <2>3. Len(bare(b)) = Len(route[b]) /\ Len(route[b]) \in Nat
    BY <2>2
  <2>4. \A f : FragmentTiles([f EXCEPT !.shared = FALSE]) = FragmentTiles(f) \/ f \notin Fragment
    BY DEF FragmentTiles, FromTile, ToTile, Fragment
  <2>5. \A i \in 1..Len(route[b]) : bare(b)[i] = [route[b][i] EXCEPT !.shared = FALSE] /\ route[b][i] \in Fragment
    BY <2>2 DEF Good
  <2> HIDE DEF bare
  <2>6. \A i \in 1..Len(route[b]) : FragmentTiles(bare(b)[i]) = FragmentTiles(route[b][i])
    BY <2>4, <2>5
  <2>7. RouteTiles(route[b]) = RouteTiles(bare(b))
    BY <2>3, <2>6 DEF RouteTiles
  <2>8. QED
    BY <2>1, <2>7
<1> HIDE DEF removed, cut, gone
<1>6. Rebuild(cut, removed) = Entries(rt, Bindings)
  <2> HIDE DEF rt, tree
  <2>1. /\ \A b \in Bindings : b \notin DOMAIN removed => RouteTiles(rt[b]) = RouteTiles(route[b])
        /\ \A b \in DOMAIN removed : RouteTiles(route[b]) \subseteq RouteTiles(removed[b]) \cup RouteTiles(rt[b])
    BY <1>4, <1>5
  <2>2. QED
    BY <1>1, <1>2, <1>4, <2>1, RebuildExact
<1>7. Entries(rt, Bindings) \subseteq Tiles \X Bindings
  BY <1>4, EntriesArePairs
<1>8. Regular(st)
  <2> HIDE DEF rt
  <2> QED
    BY <1>1, <1>4, <1>6, <1>7 DEF Regular, States
<1>9. rt = [b \in Bindings |-> IF SourceOf[b] = s THEN <<>> ELSE route[b]]
  OBVIOUS
<1>10. route' = rt
  BY <1>3 DEF Install
<1>11. QED
  BY <1>3, <1>8, <1>9, <1>10

\* A search or a preemption commits a regular route.
LEMMA RouteStepKeeps ==
    ASSUME Regular(Now), NEW b \in Bindings, RouteStep(b)
    PROVE  \E st : Regular(st) /\ Install(st)
<1>1. route \in Routes /\ Now.route = route
  BY DEF Regular, Now, States
<1>2. PICK s \in Starts(b) : \E p \in Paths(s.node), done \in BOOLEAN :
         /\ Reaches(s.node, p, done, PinOf[b])
         /\ Install(Commit(Now, b, s.prefix \o Suffix(s.node, p, done, PinOf[b]), SuffixNodes(p, done, PinOf[b])))
  BY DEF RouteStep
<1>3. PICK p \in Paths(s.node), done \in BOOLEAN :
         /\ Reaches(s.node, p, done, PinOf[b])
         /\ Install(Commit(Now, b, s.prefix \o Suffix(s.node, p, done, PinOf[b]), SuffixNodes(p, done, PinOf[b])))
  BY <1>2
<1> DEFINE q == Suffix(s.node, p, done, PinOf[b])
           new == SuffixNodes(p, done, PinOf[b])
<1>4. PinOf[b] \in Pins
  BY BindingAssumption
<1>5. q \in Seq(Good)
  BY <1>3, <1>4, SuffixIs DEF Spells
<1>6. new \in SUBSET Nodes
  BY <1>4, SuffixNodesAre
<1>7. s.prefix \in Seq(Good) /\ (route[b] # <<>> => s.prefix = route[b])
  BY <1>1, StartsAre
<1> HIDE DEF q, new
<1>8. s.prefix \o q \in Seq(Good) /\ RouteTiles(s.prefix) \subseteq RouteTiles(s.prefix \o q)
  BY <1>5, <1>7, TilesOfJoin
<1>9. RouteTiles(Now.route[b]) \subseteq RouteTiles(s.prefix \o q)
  <2>1. RouteTiles(<<>>) = {}
    BY DEF RouteTiles
  <2>2. QED
    BY <1>1, <1>7, <1>8, <2>1
<1>10. Regular(Commit(Now, b, s.prefix \o q, new))
  BY <1>6, <1>8, <1>9, CommitKeeps
<1>11. QED
  BY <1>3, <1>10 DEF q, new

\* A preemption installs a regular state.
LEMMA PreemptKeeps ==
    ASSUME Regular(Now), NEW b \in Bindings, Preempt(b)
    PROVE  \E st : Regular(st) /\ Install(st)
<1>1. route \in Routes /\ Now.route = route
  BY DEF Regular, Now, States
<1> DEFINE Cuts(p, done) == SuffixNodes(p, done, PinOf[b]) \cap leased
           Holed(p, done) == OpenHoles(Dependents(Now, Cuts(p, done)), Cuts(p, done))
<1>2. PICK s \in Starts(b) : \E p \in Paths(s.node), done \in BOOLEAN :
         /\ Reaches(s.node, p, done, PinOf[b])
         /\ MayCut(b, Cuts(p, done))
         /\ Install(Commit(Holed(p, done), b, s.prefix \o Suffix(s.node, p, done, PinOf[b]),
                           SuffixNodes(p, done, PinOf[b])))
  BY DEF Preempt
<1>3. PICK p \in Paths(s.node), done \in BOOLEAN :
         /\ Reaches(s.node, p, done, PinOf[b])
         /\ MayCut(b, Cuts(p, done))
         /\ Install(Commit(Holed(p, done), b, s.prefix \o Suffix(s.node, p, done, PinOf[b]),
                           SuffixNodes(p, done, PinOf[b])))
  BY <1>2
<1> DEFINE q == Suffix(s.node, p, done, PinOf[b])
           new == SuffixNodes(p, done, PinOf[b])
           cuts == new \cap leased
           open == OpenHoles(Dependents(Now, cuts), cuts)
<1>4. PinOf[b] \in Pins
  BY BindingAssumption
<1>5. q \in Seq(Good)
  BY <1>3, <1>4, SuffixIs DEF Spells
<1>6. new \in SUBSET Nodes
  BY <1>4, SuffixNodesAre
<1>7. s.prefix \in Seq(Good) /\ (route[b] # <<>> => s.prefix = route[b])
  BY <1>1, StartsAre
<1>a. MayCut(b, cuts) /\ Install(Commit(open, b, s.prefix \o q, new))
  BY <1>3
<1> HIDE DEF q, new, cuts
<1>b. Regular(open) /\ open.route[b] = route[b]
  BY <1>a, OpenHolesKeeps
<1> HIDE DEF open
<1>8. s.prefix \o q \in Seq(Good) /\ RouteTiles(s.prefix) \subseteq RouteTiles(s.prefix \o q)
  BY <1>5, <1>7, TilesOfJoin
<1>9. RouteTiles(open.route[b]) \subseteq RouteTiles(s.prefix \o q)
  <2>1. RouteTiles(<<>>) = {}
    BY DEF RouteTiles
  <2>2. QED
    BY <1>b, <1>7, <1>8, <2>1
<1>10. Regular(Commit(open, b, s.prefix \o q, new))
  BY <1>b, <1>6, <1>8, <1>9, CommitKeeps
<1>11. QED
  BY <1>a, <1>10

\* A repair of a hole.
LEMMA RepairGapKeeps ==
    ASSUME Regular(Now), NEW b \in Bindings, RepairGap(b)
    PROVE  \E st : Regular(st) /\ Install(st)
<1> DEFINE gap == route[b][FirstGap(route[b])]
<1>1. route \in Routes
  BY DEF Regular, Now, States
<1>2. HasGap(route[b])
  BY DEF RepairGap
<1>3. PICK p \in Paths(gap.in) : Install(CloseHoles(Twins(b, gap), gap, Fill(gap, p)))
  BY DEF RepairGap
<1>4. route[b] \in Seq(Good)
  BY <1>1 DEF Routes
<1>5. gap.in \in DstNodes
  BY <1>2, <1>4, FirstGapIs
<1>6. Twins(b, gap) \in SUBSET Bindings
      /\ \A c \in Twins(b, gap) : \E i \in DOMAIN route[c] : route[c][i] = gap
  BY DEF Twins, Siblings
<1> HIDE DEF gap
<1>7. Fill(gap, p) \in Seq(Good)
  BY <1>5, FillIs DEF IsFill
<1>8. Regular(CloseHoles(Twins(b, gap), gap, Fill(gap, p)))
  BY <1>6, <1>7, CloseHolesKeeps
<1>9. QED
  BY <1>3, <1>8

\* A removal gives to no route what it did not use.
LEMMA UnrouteShrinks ==
    ASSUME Regular(Now), NEW b \in Bindings
    PROVE  Regular(Unroute(Now, b)) /\ Shrinks(route, Unroute(Now, b).route)
<1> DEFINE u == Promote(Now, b, {})
<1>1. Regular(Unroute(Now, b)) /\ Unroute(Now, b).route = [u.route EXCEPT ![b] = <<>>]
  BY UnrouteKeeps
<1>2. Now \in States /\ Now.route = route /\ route \in Routes
  BY DEF Regular, Now, States
<1>3. u \in States /\ \A d \in Bindings : SameFabric(route[d], u.route[d])
  BY <1>2, PromoteKeeps
<1> HIDE DEF u
<1>4. \A d \in Bindings : RouteUses(u.route[d]) = RouteUses(route[d])
  BY <1>2, <1>3, FabricOnly DEF States, Routes
<1>5. RouteUses(<<>>) = {}
  BY DEF RouteUses
<1>6. u.route \in Routes
  BY <1>3 DEF States
<1>7. QED
  BY <1>1, <1>4, <1>5, <1>6 DEF Shrinks, Routes

\* Every removal leaves a regular state and gives no route a new node.
LEMMA RemovalKeeps ==
    ASSUME Regular(Now)
    PROVE  /\ \A b \in Bindings : StepBack(b) \/ Discard(b) => \E st : Regular(st) /\ Install(st) /\ Shrinks(route, st.route)
           /\ \A S \in MoveSets : MoveSinks(S) => \E st : Regular(st) /\ Install(st) /\ Shrinks(route, st.route)
<1>1. route \in Routes /\ Now.route = route
  BY DEF Regular, Now, States
<1>2. ASSUME NEW b \in Bindings, StepBack(b) \/ Discard(b)
      PROVE  \E st : Regular(st) /\ Install(st) /\ Shrinks(route, st.route)
  <2>1. Regular(Unroute(Now, b)) /\ Shrinks(route, Unroute(Now, b).route)
    BY <1>1, UnrouteShrinks
  <2>2. route[b] \in Seq(Good)
    BY <1>1 DEF Routes
  <2>3. CASE Discard(b)
    BY <2>1, <2>3 DEF Discard
  <2>4. CASE StepBack(b)
    <3>1. CASE Len(route[b]) = 1
      BY <2>1, <2>4, <3>1 DEF StepBack
    <3>2. CASE Len(route[b]) # 1
      <4>1. Len(route[b]) - 1 \in 0..Len(Now.route[b])
        BY <1>1, <2>2, <2>4 DEF StepBack
      <4>2. Regular(Truncate(Now, b, Len(route[b]) - 1)) /\ Shrinks(route, Truncate(Now, b, Len(route[b]) - 1).route)
        BY <1>1, <4>1, TruncateKeeps, TruncateShrinks
      <4>3. QED
        BY <2>4, <3>2, <4>2 DEF StepBack
    <3>3. QED
      BY <3>1, <3>2
  <2>5. QED
    BY <1>2, <2>3, <2>4
<1>3. ASSUME NEW S \in MoveSets, MoveSinks(S)
      PROVE  \E st : Regular(st) /\ Install(st) /\ Shrinks(route, st.route)
  <2> DEFINE complete == {c \in S : IsComplete(route[c])}
             moved == PromoteAll(Now, S)
  <2>1. S \subseteq Bindings
    BY BindingAssumption
  <2>2. PICK b \in S : \E proof \in Proofs(b) : Install(DetachAll(moved, S, complete, proof))
    BY <1>3 DEF MoveSinks
  <2>3. PICK proof \in Proofs(b) : Install(DetachAll(moved, S, complete, proof))
    BY <2>2
  <2>4. proof.binding = b /\ proof.keep \in 0..Len(route[b])
    BY <1>1, <2>1, ProofsAreShort
  <2>5. Regular(moved) /\ \A d \in Bindings : SameFabric(Now.route[d], moved.route[d])
    BY PromoteAllKeeps
  <2> HIDE DEF moved, complete
  <2>6. proof.keep \in 0..Len(moved.route[proof.binding])
    BY <1>1, <2>1, <2>4, <2>5 DEF SameFabric
  <2>7. /\ Regular(DetachAll(moved, S, complete, proof))
        /\ Shrinks(moved.route, DetachAll(moved, S, complete, proof).route)
    BY <2>5, <2>6, DetachAllKeeps
  <2>8. Shrinks(route, DetachAll(moved, S, complete, proof).route)
    <3>1. \A d \in Bindings : RouteUses(moved.route[d]) = RouteUses(route[d])
      BY <1>1, <2>5, FabricOnly DEF Regular, States, Routes
    <3>2. QED
      BY <2>7, <3>1 DEF Shrinks
  <2>9. QED
    BY <2>3, <2>7, <2>8
<1>4. QED
  BY <1>2, <1>3

\* Every action installs a regular state.
LEMMA NextKeeps ==
    ASSUME Regular(Now), Next
    PROVE  \E st : Regular(st) /\ Install(st)
<1>1. CASE \E b \in Bindings : RouteStep(b) \/ Preempt(b) \/ RepairGap(b) \/ StepBack(b) \/ Discard(b)
  <2>1. PICK b \in Bindings : RouteStep(b) \/ Preempt(b) \/ RepairGap(b) \/ StepBack(b) \/ Discard(b)
    BY <1>1
  <2>2. QED
    BY <2>1, RouteStepKeeps, PreemptKeeps, RepairGapKeeps, RemovalKeeps
<1>2. CASE \E s \in Sources : UnrouteSourceTree(s)
  BY <1>2, SourceTreeKeeps
<1>3. CASE \E S \in MoveSets : MoveSinks(S)
  BY <1>3, RemovalKeeps
<1>4. QED
  BY <1>1, <1>2, <1>3 DEF Next

\* Whatever is committed, cut, repaired, transferred or moved, every fragment
\* is one the fabric has, and the index of every tile lists exactly the
\* bindings whose routes touch it: the invariant the owner queries rest on.
THEOREM RoutesAreFabric == Spec => []Regular(Now)
<1>1. Init => Regular(Now)
  <2> SUFFICES ASSUME Init PROVE Regular(Now)
    OBVIOUS
  <2>1. route \in Routes /\ leased = {} /\ reg = {}
    BY DEF Init, Routes
  <2>2. Entries(route, Bindings) = {}
    BY DEF Init, Entries, RouteTiles
  <2>3. QED
    BY <2>1, <2>2 DEF Regular, Now, States
<1>2. Regular(Now) /\ [Next]_vars => Regular(Now)'
  <2> SUFFICES ASSUME Regular(Now), [Next]_vars PROVE Regular(Now)'
    OBVIOUS
  <2>1. CASE Next
    <3>1. PICK st : Regular(st) /\ Install(st)
      BY <2>1, NextKeeps
    <3>2. route' = st.route /\ leased' = st.leased /\ reg' = st.reg /\ st \in States
      BY <3>1 DEF Install, Regular
    <3>3. Now' = st
      BY <3>2 DEF Now, States
    <3>4. QED
      BY <3>1, <3>3 DEF Regular, States, Entries
  <2>2. CASE UNCHANGED vars
    BY <2>2 DEF vars, Regular, Now, States, Entries
  <2>3. QED
    BY <2>1, <2>2
<1>3. QED
  BY <1>1, <1>2, PTL DEF Spec

\* No operation makes a fragment that the fabric does not have, leases what is
\* no node, or registers a binding outside the device.
THEOREM Typed == Spec => []TypeOK
<1>1. Regular(Now) => TypeOK
  <2> SUFFICES ASSUME Regular(Now) PROVE TypeOK
    OBVIOUS
  <2>1. route \in Routes /\ leased \subseteq Nodes /\ reg \subseteq Tiles \X Bindings
    BY DEF Regular, Now, States
  <2>2. Seq(Good) \subseteq Seq(Fragment)
    BY DEF Good
  <2>3. QED
    BY <2>1, <2>2 DEF TypeOK, Routes
<1>2. QED
  BY <1>1, RoutesAreFabric, PTL

\* No tile misses a binding that touches it and none lists one that does not,
\* although a removal rebuilds only the nets of what it removed.
THEOREM IndexesAreExact == Spec => []RegistrationExact
<1>1. Regular(Now) => RegistrationExact
  BY DEF Regular, Now, RegistrationExact
<1>2. QED
  BY <1>1, RoutesAreFabric, PTL
=============================================================================
