-------------------------- MODULE RouteTreeProofs --------------------------
(***************************************************************************)
(* That routes are physically continuous, whatever was cut out of them and *)
(* mended, and that their leases are sound: every used node is leased,     *)
(* owned by a replica that shares the fabric of its user, and driven by    *)
(* one source.  Continuous, UsedNodesLeased, NoOrphanLease, SingleDriver,  *)
(* SharedHopsOwned and HoleBoundariesHeld of RouteLeases.                  *)
(***************************************************************************)
EXTENDS RouteLeasesProofs

-----------------------------------------------------------------------------
(* Lines                                                                   *)

\* Kinds that can be neighbours.
LEMMA Neighbours ==
    ASSUME NEW f \in Good, NEW g \in Good, Follows(f, g)
    PROVE  /\ f.kind \in Jumps => g.kind \in {"hop", "ground", "gap"} /\ g.in \in DstNodes
           /\ f.kind = "gap" => g.kind \in {"hop", "ground", "pin"}
           /\ g.kind \in {"pin", "gap"} => f.kind # "pin"
           /\ g.kind = "pin" => f.kind \in {"ground", "gap"}
           /\ g.kind \in {"hop", "ground"} => f.kind \in Jumps \cup {"gap"}
           /\ g.kind = "gap" => f.kind \in Jumps
           /\ g.kind # "out"
<1>1. Shape(f) /\ Shape(g) /\ f.kind \in {"out", "hop", "ground", "pin", "gap"}
      /\ g.kind \in {"out", "hop", "ground", "pin", "gap"}
  BY GoodFragment
<1>2. f.kind \in Jumps => f.dst \in DstNodes
  BY <1>1, FabricAssumption DEF Shape, Jumps
<1>3. /\ Sources \cap (DstNodes \cup Pins) = {} /\ DstNodes \cap Pins = {}
  BY FabricAssumption DEF Nodes
<1>4. f.kind = "gap" => f.dst \in DstNodes \cup Pins
  BY <1>1 DEF Shape
<1>5. g.kind = "out" => g.in \in Sources
  BY <1>1 DEF Shape
<1>6. g.kind = "pin" => g.in \in Pins
  BY <1>1 DEF Shape
<1>7. g.kind # "out"
  BY <1>1, <1>2, <1>3, <1>4, <1>5 DEF Follows, Jumps
<1>8. f.kind \in Jumps => g.kind # "pin"
  BY <1>2, <1>3, <1>6 DEF Follows
<1>9. QED
  BY <1>1, <1>2, <1>7, <1>8 DEF Follows, Jumps

\* Following depends on the fabric only, not on ownership.
LEMMA FollowsFabric ==
    ASSUME NEW f, NEW g, NEW f2, NEW g2, Follows(f, g),
           SamePhysicalFragment(f, f2), SamePhysicalFragment(g, g2)
    PROVE  Follows(f2, g2)
BY DEF Follows, SamePhysicalFragment

\* Up to a jump, or whole, the fabric of a line is a line, also of another
\* binding of the source.
LEMMA LineHead ==
    ASSUME NEW b \in Bindings, NEW c \in Bindings, SourceOf[c] = SourceOf[b],
           NEW r \in Seq(Good), Line(b, r), NEW k \in 0..Len(r), k > 0 => r[k].kind \in Jumps,
           NEW q \in Seq(Good), SameFabric(SubSeq(r, 1, k), q)
    PROVE  Line(c, q)
<1> DEFINE a == SubSeq(r, 1, k)
<1>1. k \in Nat /\ Len(r) \in Nat /\ Len(a) = k /\ \A i \in 1..k : a[i] = r[i]
  OBVIOUS
<1>2. Len(q) = k /\ \A i \in 1..k : SamePhysicalFragment(r[i], q[i])
  BY <1>1 DEF SameFabric
<1> HIDE DEF a
<1>3. \A i \in 1..(k - 1) : Follows(q[i], q[i + 1])
  <2> SUFFICES ASSUME NEW i \in 1..(k - 1) PROVE Follows(q[i], q[i + 1])
    OBVIOUS
  <2>1. i \in 1..k /\ i + 1 \in 1..k /\ i \in 1..(Len(r) - 1)
    BY <1>1
  <2>2. Follows(r[i], r[i + 1])
    BY <2>1 DEF Line, Linked
  <2>3. QED
    BY <1>2, <2>1, <2>2, FollowsFabric
<1>4. ASSUME q # <<>> PROVE q[1].kind = "out" /\ q[1].in = SourceOf[c] /\ q[Len(q)].kind \in Jumps
  <2>1. k > 0 /\ 1 \in 1..k /\ k \in 1..k /\ r # <<>>
    BY <1>1, <1>2, <1>4
  <2>2. r[1].kind = "out" /\ r[1].in = SourceOf[b]
    BY <2>1 DEF Line
  <2>3. QED
    BY <1>2, <2>1, <2>2 DEF SamePhysicalFragment
<1>5. QED
  BY <1>2, <1>3, <1>4 DEF Line, Linked

\* So does being a line.
LEMMA LineFabric ==
    ASSUME NEW b \in Bindings, NEW r \in Seq(Good), Line(b, r), NEW q \in Seq(Good), SameFabric(r, q)
    PROVE  Line(b, q)
<1>1. Len(r) \in Nat /\ Len(q) = Len(r) /\ \A i \in 1..Len(r) : SamePhysicalFragment(r[i], q[i])
  BY DEF SameFabric
<1>2. \A i \in 1..(Len(r) - 1) : Follows(q[i], q[i + 1])
  <2> SUFFICES ASSUME NEW i \in 1..(Len(r) - 1) PROVE Follows(q[i], q[i + 1])
    OBVIOUS
  <2>1. i \in 1..Len(r) /\ i + 1 \in 1..Len(r)
    BY <1>1
  <2>2. Follows(r[i], r[i + 1])
    BY DEF Line, Linked
  <2>3. QED
    BY <1>1, <2>1, <2>2, FollowsFabric
<1>3. ASSUME q # <<>>
      PROVE  /\ q[1].kind = "out" /\ q[1].in = SourceOf[b]
             /\ \/ q[Len(q)].kind \in Jumps
                \/ q[Len(q)].kind = "pin" /\ q[Len(q)].in = PinOf[b]
  <2>1. r # <<>> /\ 1 \in 1..Len(r) /\ Len(r) \in 1..Len(r)
    BY <1>1, <1>3
  <2>2. QED
    BY <1>1, <2>1 DEF Line, SamePhysicalFragment
<1>4. QED
  BY <1>1, <1>2, <1>3 DEF Line, Linked

\* Only the last fragment of a line is a pin, in front of it is its ground or
\* a hole, and a ground is next to the last.
LEMMA LineKinds ==
    ASSUME NEW b \in Bindings, NEW r \in Seq(Good), Line(b, r), NEW i \in 1..Len(r)
    PROVE  /\ r[i].kind = "pin" => i = Len(r) /\ r[i].in = PinOf[b]
           /\ r[i].kind = "ground" => /\ i + 1 = Len(r) /\ r[i + 1].kind = "pin"
                                      /\ r[i].in \in Entry[PinOf[b]]
           /\ r[i].kind = "gap" => i < Len(r) /\ r[i + 1].kind \in {"hop", "ground", "pin"}
           /\ r[i].kind = "out" <=> i = 1
           /\ i > 1 => r[i - 1] \in Good /\ Follows(r[i - 1], r[i])
           /\ i < Len(r) => r[i + 1] \in Good /\ Follows(r[i], r[i + 1])
<1>1. Len(r) \in Nat /\ i \in Nat /\ r # <<>> /\ \A j \in 1..Len(r) : r[j] \in Good
  OBVIOUS
<1>2. i < Len(r) => i \in 1..(Len(r) - 1) /\ i + 1 \in 1..Len(r)
  BY <1>1
<1>3. i < Len(r) => r[i + 1] \in Good /\ Follows(r[i], r[i + 1])
  BY <1>1, <1>2 DEF Line, Linked
<1>4. i > 1 => i - 1 \in 1..(Len(r) - 1) /\ i - 1 \in 1..Len(r) /\ (i - 1) + 1 = i
  BY <1>1
<1>5. i > 1 => r[i - 1] \in Good /\ Follows(r[i - 1], r[i])
  BY <1>1, <1>4 DEF Line, Linked
<1>6. i = Len(r) => r[i].kind \in Jumps \/ (r[i].kind = "pin" /\ r[i].in = PinOf[b])
  BY <1>1 DEF Line
<1>7. i = 1 => r[i].kind = "out"
  BY <1>1 DEF Line
<1>8. i > 1 => r[i].kind # "out"
  BY <1>5, Neighbours
<1>9. r[i].kind = "pin" => i = Len(r) /\ r[i].in = PinOf[b]
  BY <1>3, <1>6 DEF Follows, Jumps
<1>10. ASSUME r[i].kind = "ground"
       PROVE  i + 1 = Len(r) /\ r[i + 1].kind = "pin" /\ r[i].in \in Entry[PinOf[b]]
  <2>1. i < Len(r)
    BY <1>1, <1>6, <1>10 DEF Jumps
  <2>2. r[i + 1].kind = "pin" /\ r[i].in \in Entry[r[i + 1].in]
    BY <1>3, <1>10, <2>1 DEF Follows
  <2>3. i + 1 = Len(r)
    <3>1. ASSUME i + 1 < Len(r) PROVE FALSE
      <4>1. i + 1 \in 1..(Len(r) - 1)
        BY <1>1, <3>1
      <4>2. Follows(r[i + 1], r[i + 1 + 1])
        BY <4>1 DEF Line, Linked
      <4>3. QED
        BY <2>2, <4>2 DEF Follows
    <3>2. QED
      BY <1>1, <2>1, <3>1
  <2>4. r[i + 1].in = PinOf[b]
    BY <1>1, <2>2, <2>3 DEF Line, Jumps
  <2>5. QED
    BY <2>2, <2>3, <2>4
<1>11. r[i].kind = "gap" => i < Len(r) /\ r[i + 1].kind \in {"hop", "ground", "pin"}
  BY <1>1, <1>3, <1>6, Neighbours DEF Jumps
<1>12. QED
  BY <1>1, <1>3, <1>5, <1>7, <1>8, <1>9, <1>10, <1>11

-----------------------------------------------------------------------------
(* Committed suffixes                                                      *)

\* Where s, a start of b, goes on from.
Resumes(b, s) ==
    /\ s.prefix \in Seq(Good) /\ Line(b, s.prefix)
    /\ s.prefix = <<>> => s.node = SourceOf[b]
    /\ s.prefix # <<>> => /\ s.prefix[Len(s.prefix)].kind \in Jumps
                          /\ s.prefix[Len(s.prefix)].dst = s.node

\* A line that ends in a jump goes on at its endpoint.
LEMMA EndpointIs ==
    ASSUME NEW r \in Seq(Good), r # <<>>, r[Len(r)].kind \in Jumps
    PROVE  Endpoint(r) = r[Len(r)].dst
<1> DEFINE jumps == {i \in 1..Len(r) : r[i].kind \in Jumps}
           m == CHOOSE i \in jumps : \A j \in jumps : j <= i
<1>1. Len(r) \in Nat /\ Len(r) \in jumps /\ jumps \subseteq 0..Len(r) /\ \A j \in jumps : j <= Len(r)
  OBVIOUS
<1>2. m \in jumps /\ \A j \in jumps : j <= m
  <2> HIDE DEF jumps
  <2> QED
    BY <1>1, LargestUpTo
<1>3. m = Len(r)
  BY <1>1, <1>2
<1>4. QED
  BY <1>1, <1>3 DEF Endpoint

\* An unfinished line ends in a jump.
LEMMA Unfinished ==
    ASSUME NEW b \in Bindings, NEW r \in Seq(Good), Line(b, r), r # <<>>, ~HasGap(r), ~IsComplete(r)
    PROVE  r[Len(r)].kind \in Jumps
<1>1. Len(r) \in Nat /\ Len(r) > 0 /\ 1 \in 1..Len(r) /\ r[1].kind = "out"
  BY DEF Line
<1>2. r[Len(r)].kind # "pin"
  BY <1>1 DEF IsComplete, Crossbar
<1>3. QED
  BY <1>2 DEF Line

\* A search starts where a line can be resumed.
LEMMA StartsResume ==
    ASSUME Regular(Now), Lines, NEW b \in Bindings, NEW s \in Starts(b)
    PROVE  Resumes(b, s)
<1>1. \A c \in Bindings : route[c] \in Seq(Good) /\ Line(c, route[c])
  BY DEF Regular, Now, States, Routes, Lines
<1>2. ~HasGap(route[b]) /\ ~IsComplete(route[b])
  BY DEF Starts
<1>3. CASE route[b] # <<>>
  <2>1. s.node = Endpoint(route[b]) /\ s.prefix = route[b]
    BY <1>2, <1>3 DEF Starts
  <2>2. route[b][Len(route[b])].kind \in Jumps
    BY <1>1, <1>2, <1>3, Unfinished
  <2>3. Endpoint(route[b]) = route[b][Len(route[b])].dst
    BY <1>1, <1>3, <2>2, EndpointIs
  <2>4. QED
    BY <1>1, <1>3, <2>1, <2>2, <2>3 DEF Resumes
<1>4. CASE route[b] = <<>> /\ s = [node |-> SourceOf[b], prefix |-> <<>>]
  <2>1. s.prefix = <<>> /\ s.node = SourceOf[b] /\ <<>> \in Seq(Good) /\ Len(<<>>) = 0
    BY <1>4
  <2>2. Line(b, <<>>)
    BY DEF Line, Linked
  <2>3. QED
    BY <2>1, <2>2 DEF Resumes
<1>5. CASE route[b] = <<>> /\ s # [node |-> SourceOf[b], prefix |-> <<>>]
  <2>1. PICK c \in Siblings(b) \ {b} :
           /\ IsComplete(route[c])
           /\ s \in {[node |-> route[c][k].dst, prefix |-> ReplicaPrefix(route[c], k)] :
                        k \in {i \in DOMAIN route[c] : route[c][i].kind \in Jumps}}
    BY <1>2, <1>5 DEF Starts
  <2>2. PICK k \in DOMAIN route[c] :
           /\ route[c][k].kind \in Jumps
           /\ s.node = route[c][k].dst /\ s.prefix = ReplicaPrefix(route[c], k)
    BY <2>1
  <2> DEFINE r == route[c]
             q == ReplicaPrefix(r, k)
  <2>3. c \in Bindings /\ SourceOf[b] = SourceOf[c] /\ r \in Seq(Good) /\ Line(c, r)
    BY <1>1, <2>1 DEF Siblings
  <2>4. ~HasGap(r) /\ k \in 1..Len(r) /\ k \in 0..Len(r) /\ k \in 1..k
    BY <2>1, <2>3 DEF IsComplete
  <2> HIDE DEF r
  <2>5. q \in Seq(Good) /\ Len(q) = k /\ \A i \in 1..k : SamePhysicalFragment(r[i], q[i])
    BY <2>3, <2>4, ReplicaPrefixIs
  <2>6. Len(SubSeq(r, 1, k)) = k /\ \A i \in 1..k : SubSeq(r, 1, k)[i] = r[i]
    BY <2>3, <2>4
  <2>7. SameFabric(SubSeq(r, 1, k), q)
    BY <2>5, <2>6 DEF SameFabric
  <2> HIDE DEF q
  <2>8. Line(b, q)
    BY <2>2, <2>3, <2>4, <2>5, <2>7, LineHead DEF r
  <2>9. q # <<>> /\ q[Len(q)].kind \in Jumps /\ q[Len(q)].dst = s.node
    BY <2>2, <2>4, <2>5 DEF SamePhysicalFragment, r
  <2>10. QED
    BY <2>2, <2>5, <2>8, <2>9 DEF Resumes, r, q
<1>6. QED
  BY <1>3, <1>4, <1>5

\* The suffix of a search is linked and goes on where it started.
LEMMA SuffixLinked ==
    ASSUME NEW n \in Sources \cup DstNodes, NEW p \in Paths(n), NEW done \in BOOLEAN, NEW q \in Pins,
           Reaches(n, p, done, q), NEW s, Spells(n, p, done, q, s), p # <<>> \/ done
    PROVE  /\ s # <<>> /\ Linked(s)
           /\ s[1].in = n /\ s[1].kind \in {"out", "hop", "ground"}
           /\ n \in Sources => s[1].kind = "out"
           /\ \/ s[Len(s)].kind \in Jumps
              \/ s[Len(s)].kind = "pin" /\ s[Len(s)].in = q
<1> DEFINE m == Len(p)
<1>1. /\ p \in Seq(SrcNodes) /\ m \in Nat
      /\ \A i \in 1..m : p[i] \in SrcNodes /\ Leaves(n, p, i) \in FanIn[p[i]]
      /\ PathEnd(n, p) = IF m = 0 THEN n ELSE Landing[p[m]]
  BY PathFacts
<1>2. s \in Seq(Good) /\ Len(s) = IF done THEN m + 2 ELSE m
  BY DEF Spells
<1>3. m = 0 => done
  BY <1>1
<1>a. m > 0 => 1 \in 1..m
  BY <1>1
<1>4. ASSUME NEW i \in 1..m
      PROVE  /\ s[i].in = Leaves(n, p, i) /\ s[i].dst = Landing[p[i]]
             /\ s[i].kind = IF Leaves(n, p, i) \in Sources THEN "out" ELSE "hop"
  <2>1. s[i] = Hop(Leaves(n, p, i), p[i], ~(i = 1 /\ n \in DstNodes), ~done /\ i = m)
    BY DEF Spells
  <2>2. QED
    BY <2>1 DEF Hop
<1>5. done => /\ s[m + 1].kind = "ground" /\ s[m + 1].in = PathEnd(n, p)
              /\ s[m + 2].kind = "pin" /\ s[m + 2].in = q
              /\ PathEnd(n, p) \in Entry[q]
  BY DEF Spells, Ground, Pin, Reaches
<1>6. ~(n \in Sources /\ n \in DstNodes) /\ Entry[q] \subseteq DstNodes
  BY FabricAssumption DEF Nodes
<1> HIDE DEF m
<1>7. s # <<>> /\ Len(s) \in Nat /\ Len(s) > 0
  BY <1>1, <1>2, <1>3
<1>8. ASSUME NEW i \in 1..(Len(s) - 1) PROVE Follows(s[i], s[i + 1])
  <2>1. CASE i < m
    <3>1. i \in 1..m /\ i + 1 \in 1..m /\ i + 1 # 1 /\ (i + 1) - 1 = i
      BY <1>1, <2>1
    <3>2. s[i + 1].in = Landing[p[i]]
      BY <1>4, <3>1 DEF Leaves
    <3>3. s[i].dst = Landing[p[i]] /\ s[i].kind \in Jumps
      BY <1>4, <3>1 DEF Jumps
    <3>4. QED
      BY <3>2, <3>3 DEF Follows, Jumps
  <2>2. CASE i = m
    <3>1. done /\ i \in 1..m /\ m # 0
      BY <1>1, <1>2, <2>2
    <3>2. s[i].dst = Landing[p[i]] /\ s[i].kind \in Jumps
      BY <1>4, <3>1 DEF Jumps
    <3>3. s[i + 1].in = Landing[p[i]]
      BY <1>1, <1>5, <2>2, <3>1
    <3>4. QED
      BY <3>2, <3>3 DEF Follows, Jumps
  <2>3. CASE i > m
    <3>1. done /\ i = m + 1 /\ i + 1 = m + 2
      BY <1>1, <1>2, <2>3
    <3>2. QED
      BY <1>5, <3>1 DEF Follows, Jumps
  <2>4. QED
    BY <1>1, <2>1, <2>2, <2>3
<1>9. s[1].in = n /\ s[1].kind \in {"out", "hop", "ground"} /\ (n \in Sources => s[1].kind = "out")
  <2>1. CASE m = 0
    BY <1>1, <1>3, <1>5, <1>6, <2>1
  <2>2. CASE m # 0
    BY <1>1, <1>4, <1>a, <2>2 DEF Leaves
  <2>3. QED
    BY <2>1, <2>2
<1>10. s[Len(s)].kind \in Jumps \/ (s[Len(s)].kind = "pin" /\ s[Len(s)].in = q)
  <2>1. CASE done
    BY <1>2, <1>5, <2>1
  <2>2. CASE ~done
    <3>1. Len(s) = m /\ m \in 1..m
      BY <1>1, <1>2, <1>3, <2>2
    <3>2. QED
      BY <1>4, <3>1 DEF Jumps
  <2>3. QED
    BY <2>1, <2>2
<1>11. QED
  BY <1>7, <1>8, <1>9, <1>10 DEF Linked

\* Two linked parts that fit.
LEMMA LinkedJoin ==
    ASSUME NEW r \in Seq(Good), NEW s \in Seq(Good), Linked(r), Linked(s),
           r # <<>> /\ s # <<>> => Follows(r[Len(r)], s[1])
    PROVE  Linked(r \o s)
<1> DEFINE m == Len(r)
           w == r \o s
<1>1. /\ m \in Nat /\ Len(s) \in Nat /\ Len(w) = m + Len(s)
      /\ \A i \in 1..m : w[i] = r[i]
      /\ \A i \in 1..Len(s) : w[m + i] = s[i]
  OBVIOUS
<1>a. (m = 0 => r = <<>>) /\ (Len(s) = 0 => s = <<>>)
  OBVIOUS
<1> HIDE DEF w
<1>2. ASSUME NEW i \in 1..(Len(w) - 1) PROVE Follows(w[i], w[i + 1])
  <2>1. CASE i < m
    <3>1. i \in 1..(m - 1) /\ i \in 1..m /\ i + 1 \in 1..m
      BY <1>1, <2>1
    <3>2. QED
      BY <1>1, <3>1 DEF Linked
  <2>2. CASE i = m
    <3>1. i \in 1..m /\ 1 \in 1..Len(s)
      BY <1>1, <2>2
    <3>2. w[i] = r[m] /\ w[i + 1] = s[1] /\ r # <<>> /\ s # <<>>
      BY <1>1, <2>2, <3>1
    <3>3. QED
      BY <3>2
  <2>3. CASE i > m
    <3>1. i - m \in 1..(Len(s) - 1) /\ i - m \in 1..Len(s) /\ (i - m) + 1 \in 1..Len(s)
      BY <1>1, <2>3
    <3>2. w[m + (i - m)] = s[i - m] /\ w[m + ((i - m) + 1)] = s[(i - m) + 1]
      BY <1>1, <3>1
    <3>3. m + (i - m) = i /\ m + ((i - m) + 1) = i + 1
      BY <1>1
    <3>4. w[i] = s[i - m] /\ w[i + 1] = s[(i - m) + 1]
      BY <3>2, <3>3
    <3>5. QED
      BY <3>1, <3>4 DEF Linked
  <2>4. QED
    BY <1>1, <2>1, <2>2, <2>3
<1>3. QED
  BY <1>2 DEF Linked, w

\* A committed route is a line.
LEMMA CommitLine ==
    ASSUME NEW b \in Bindings, NEW s, Resumes(b, s), NEW p \in Paths(s.node), NEW done \in BOOLEAN,
           Reaches(s.node, p, done, PinOf[b]), p # <<>> \/ done
    PROVE  Line(b, s.prefix \o Suffix(s.node, p, done, PinOf[b]))
<1> DEFINE r == s.prefix
           z == Suffix(s.node, p, done, PinOf[b])
           w == r \o z
<1>1. PinOf[b] \in Pins /\ SourceOf[b] \in Sources
  BY BindingAssumption
<1>2. r \in Seq(Good) /\ Line(b, r)
  BY DEF Resumes
<1>3. r # <<>> => /\ r[Len(r)].kind \in Jumps /\ r[Len(r)].dst = s.node
                  /\ s.node \in DstNodes
  <2> SUFFICES ASSUME r # <<>> PROVE r[Len(r)].kind \in Jumps /\ r[Len(r)].dst = s.node /\ s.node \in DstNodes
    OBVIOUS
  <2>1. r[Len(r)] \in Good /\ r[Len(r)].kind \in Jumps /\ r[Len(r)].dst = s.node
    BY <1>2 DEF Resumes
  <2>2. r[Len(r)].dst \in DstNodes
    BY <2>1, GoodFragment, FabricAssumption DEF Shape, Jumps
  <2>3. QED
    BY <2>1, <2>2
<1>4. s.node \in Sources \cup DstNodes /\ (r = <<>> => s.node = SourceOf[b])
  BY <1>1, <1>3 DEF Resumes
<1>5. Spells(s.node, p, done, PinOf[b], z)
  BY <1>1, SuffixIs
<1>6. z \in Seq(Good)
  BY <1>5 DEF Spells
<1> HIDE DEF z
<1>7. /\ z # <<>> /\ Linked(z)
      /\ z[1].in = s.node /\ z[1].kind \in {"out", "hop", "ground"}
      /\ s.node \in Sources => z[1].kind = "out"
      /\ \/ z[Len(z)].kind \in Jumps
         \/ z[Len(z)].kind = "pin" /\ z[Len(z)].in = PinOf[b]
  BY <1>1, <1>4, <1>5, SuffixLinked
<1> HIDE DEF r
<1>8. r # <<>> => Follows(r[Len(r)], z[1])
  BY <1>3, <1>7 DEF Follows, Jumps
<1>9. Linked(r \o z)
  BY <1>2, <1>6, <1>7, <1>8, LinkedJoin DEF Line
<1>10. /\ Len(w) = Len(r) + Len(z) /\ Len(r) \in Nat /\ Len(z) \in Nat /\ Len(z) > 0
       /\ \A i \in 1..Len(r) : w[i] = r[i]
       /\ \A i \in 1..Len(z) : w[Len(r) + i] = z[i]
  BY <1>2, <1>6, <1>7
<1> HIDE DEF w
<1>11. w[Len(w)] = z[Len(z)]
  BY <1>10
<1>12. w[1].kind = "out" /\ w[1].in = SourceOf[b]
  <2>1. CASE r = <<>>
    <3>1. Len(r) = 0 /\ 1 \in 1..Len(z)
      BY <1>10, <2>1
    <3>2. w[1] = z[1]
      BY <1>10, <3>1
    <3>3. QED
      BY <1>1, <1>4, <1>7, <2>1, <3>2
  <2>2. CASE r # <<>>
    <3>1. 1 \in 1..Len(r)
      BY <1>2, <1>10, <2>2
    <3>2. QED
      BY <1>2, <1>10, <2>2, <3>1 DEF Line
  <2>3. QED
    BY <2>1, <2>2
<1>13. QED
  BY <1>7, <1>9, <1>11, <1>12 DEF Line, w, r, z

-----------------------------------------------------------------------------
(* Holes                                                                   *)

\* With a hole in it a line is a line: what follows the hole is what it
\* promises to reach.
LEMMA OpenedLine ==
    ASSUME NEW b \in Bindings, NEW r \in Seq(Good), Line(b, r), NEW cuts, NEW low, NEW end,
           IsHole(r, cuts, low, end), NEW q, NEW gone, IsOpened(r, low, end, q, gone)
    PROVE  Line(b, q)
<1>1. /\ Len(r) \in Nat /\ low \in 2..Len(r) /\ end \in low..(Len(r) - 1)
      /\ low \in Nat /\ end \in Nat
      /\ low \in 1..Len(r) /\ end \in 1..Len(r) /\ end + 1 \in 1..Len(r)
  BY DEF IsHole
<1>2. q \in Seq(Good) /\ Len(q) = low + (Len(r) - end)
  BY DEF IsOpened
<1>3. \A j \in 1..(low - 1) : SamePhysicalFragment(r[j], q[j])
  <2>1. /\ Len(SubSeq(r, 1, low - 1)) = low - 1
        /\ \A j \in 1..(low - 1) : SubSeq(r, 1, low - 1)[j] = r[j] /\ SubSeq(q, 1, low - 1)[j] = q[j]
    BY <1>1, <1>2
  <2>2. QED
    BY <2>1 DEF IsOpened, SameFabric
<1>4. q[low] = Gap(r[low].in, HoleEnd(r, <<low, end>>))
  BY DEF IsOpened
<1>5. ASSUME NEW i \in 1..(Len(r) - end) PROVE SamePhysicalFragment(r[end + i], q[low + i])
  <2>1. end + i \in 1..Len(r)
    BY <1>1
  <2>2. r[end + i] \in Good /\ q[low + i] = Islanded(r[end + i])
    BY <2>1 DEF IsOpened
  <2>3. QED
    BY <2>2, IslandedIs
<1>6. r[low - 1].kind \in Jumps /\ r[low - 1].dst = r[low].in
  <2>1. r[low - 1] \in Good /\ r[low] \in Good /\ Follows(r[low - 1], r[low])
    BY <1>1, LineKinds
  <2>2. r[low].kind \in {"hop", "gap", "ground"}
    BY <1>1 DEF IsHole
  <2>3. r[low - 1].kind \in Jumps
    BY <2>1, <2>2, Neighbours DEF IsHole
  <2>4. QED
    BY <2>1, <2>3 DEF Follows
<1>7. /\ r[end + 1].kind \in Crossbar \cup {"pin"}
      /\ HoleEnd(r, <<low, end>>) = r[end + 1].in
  <2>1. r[end + 1].kind = "pin" => end + 1 = Len(r)
    BY <1>1, LineKinds
  <2>2. HoleEnd(r, <<low, end>>) = IF r[end + 1].kind = "pin" THEN r[end + 1].in ELSE r[end].dst
    BY DEF HoleEnd
  <2>3. CASE Terminal(r, end)
    BY <2>2, <2>3 DEF Terminal
  <2>4. CASE ~Terminal(r, end)
    <3>1. r[end + 1].kind \in Crossbar /\ r[end].dst = r[end + 1].in
      BY <2>4 DEF IsHole
    <3>2. QED
      BY <2>2, <3>1 DEF Crossbar
  <2>5. QED
    BY <2>3, <2>4
<1>8. ASSUME NEW i \in 1..(Len(q) - 1) PROVE Follows(q[i], q[i + 1])
  <2>1. CASE i < low - 1
    <3>1. i \in 1..(low - 1) /\ i + 1 \in 1..(low - 1) /\ i \in 1..(Len(r) - 1)
      BY <1>1, <2>1
    <3>2. Follows(r[i], r[i + 1])
      BY <3>1 DEF Line, Linked
    <3>3. QED
      BY <1>3, <3>1, <3>2, FollowsFabric
  <2>2. CASE i = low - 1
    <3>1. i \in 1..(low - 1) /\ i + 1 = low
      BY <1>1, <2>2
    <3>2. q[i].kind \in Jumps /\ q[i].dst = r[low].in
      BY <1>3, <1>6, <2>2, <3>1 DEF SamePhysicalFragment
    <3>3. q[i + 1].in = r[low].in
      BY <1>4, <3>1 DEF Gap
    <3>4. QED
      BY <3>2, <3>3 DEF Follows, Jumps
  <2>3. CASE i = low
    <3>1. 1 \in 1..(Len(r) - end)
      BY <1>1
    <3>2. q[i + 1].kind = r[end + 1].kind /\ q[i + 1].in = r[end + 1].in
      BY <1>5, <2>3, <3>1 DEF SamePhysicalFragment
    <3>3. q[i].kind = "gap" /\ q[i].dst = r[end + 1].in
      BY <1>4, <1>7, <2>3 DEF Gap
    <3>4. QED
      BY <1>7, <3>2, <3>3 DEF Follows, Crossbar
  <2>4. CASE i > low
    <3> DEFINE t == i - low
    <3>1. /\ t \in 1..(Len(r) - end) /\ t + 1 \in 1..(Len(r) - end)
          /\ low + t = i /\ low + (t + 1) = i + 1
          /\ end + t \in 1..(Len(r) - 1) /\ end + (t + 1) = (end + t) + 1
      BY <1>1, <1>2, <2>4
    <3> HIDE DEF t
    <3>2. Follows(r[end + t], r[(end + t) + 1])
      BY <3>1 DEF Line, Linked
    <3>3. SamePhysicalFragment(r[end + t], q[i]) /\ SamePhysicalFragment(r[end + (t + 1)], q[i + 1])
      BY <1>5, <3>1
    <3>4. QED
      BY <3>1, <3>2, <3>3, FollowsFabric
  <2>5. QED
    BY <1>1, <2>1, <2>2, <2>3, <2>4
<1>9. q[1].kind = "out" /\ q[1].in = SourceOf[b]
  <2>1. 1 \in 1..(low - 1) /\ r # <<>>
    BY <1>1
  <2>2. QED
    BY <1>3, <2>1 DEF Line, SamePhysicalFragment
<1>10. q[Len(q)].kind \in Jumps \/ (q[Len(q)].kind = "pin" /\ q[Len(q)].in = PinOf[b])
  <2>1. Len(r) - end \in 1..(Len(r) - end) /\ low + (Len(r) - end) = Len(q) /\ end + (Len(r) - end) = Len(r)
    BY <1>1, <1>2
  <2>2. SamePhysicalFragment(r[end + (Len(r) - end)], q[low + (Len(r) - end)])
    BY <1>5, <2>1
  <2>3. SamePhysicalFragment(r[Len(r)], q[Len(q)]) /\ r # <<>>
    BY <1>1, <2>1, <2>2
  <2>4. QED
    BY <2>3 DEF Line, SamePhysicalFragment
<1>11. QED
  BY <1>8, <1>9, <1>10 DEF Line, Linked

\* What closes a hole is linked, from where the hole begins to where it ends.
LEMMA FillLinked ==
    ASSUME NEW gap, gap.in \in DstNodes, NEW p \in Paths(gap.in), Closes(gap, p),
           NEW fill, IsFill(gap, p, fill)
    PROVE  /\ Len(fill) \in Nat \ {0} /\ Linked(fill)
           /\ fill[1].in = gap.in /\ fill[1].kind \in {"hop", "ground"}
           /\ IF gap.dst \in Pins
              THEN fill[Len(fill)].kind = "ground" /\ fill[Len(fill)].in \in Entry[gap.dst]
              ELSE fill[Len(fill)].kind = "hop" /\ fill[Len(fill)].dst = gap.dst
<1> DEFINE m == Len(p)
           n == Len(fill)
<1>1. /\ p \in Seq(SrcNodes) /\ m \in Nat
      /\ \A i \in 1..m : p[i] \in SrcNodes /\ Leaves(gap.in, p, i) \in FanIn[p[i]]
      /\ PathEnd(gap.in, p) = IF m = 0 THEN gap.in ELSE Landing[p[m]]
  BY PathFacts
<1>2. fill \in Seq(Good) /\ n = IF gap.dst \in Pins THEN m + 1 ELSE m
  BY DEF IsFill
<1>3. gap.dst \notin Pins => m > 0 /\ Landing[p[m]] = gap.dst
  BY <1>1 DEF Closes
<1>4. ASSUME NEW i \in 1..m
      PROVE  /\ fill[i].in = Leaves(gap.in, p, i) /\ fill[i].dst = Landing[p[i]] /\ fill[i].kind = "hop"
  <2>1. fill[i] = Hop(Leaves(gap.in, p, i), p[i], i # 1, FALSE)
    BY DEF IsFill
  <2>2. Leaves(gap.in, p, i) \in DstNodes
    <3>1. CASE i = 1
      BY <3>1 DEF Leaves
    <3>2. CASE i # 1
      <4>1. i - 1 \in 1..m
        BY <1>1, <3>2
      <4>2. QED
        BY <1>1, <3>2, <4>1, FabricAssumption DEF Leaves
    <3>3. QED
      BY <3>1, <3>2
  <2>3. Leaves(gap.in, p, i) \notin Sources
    BY <2>2, FabricAssumption DEF Nodes
  <2>4. QED
    BY <2>1, <2>3 DEF Hop
<1>5. gap.dst \in Pins => /\ fill[m + 1].kind = "ground" /\ fill[m + 1].in = PathEnd(gap.in, p)
                          /\ PathEnd(gap.in, p) \in Entry[gap.dst]
  BY DEF IsFill, Ground, Closes
<1>6. n \in Nat \ {0}
  BY <1>1, <1>2, <1>3
<1> HIDE DEF m, n
<1>7. ASSUME NEW i \in 1..(n - 1) PROVE Follows(fill[i], fill[i + 1])
  <2>1. i \in 1..m /\ fill[i].kind = "hop" /\ fill[i].dst = Landing[p[i]]
    BY <1>1, <1>2, <1>4, <1>6
  <2>2. CASE i < m
    <3>1. i + 1 \in 1..m /\ i + 1 # 1 /\ (i + 1) - 1 = i
      BY <1>1, <2>1, <2>2
    <3>2. fill[i + 1].in = Landing[p[i]]
      BY <1>4, <3>1 DEF Leaves
    <3>3. QED
      BY <2>1, <3>2 DEF Follows, Jumps
  <2>3. CASE i = m
    <3>1. gap.dst \in Pins /\ m # 0
      BY <1>1, <1>2, <2>1, <2>3
    <3>2. fill[i + 1].in = Landing[p[i]]
      BY <1>1, <1>5, <2>3, <3>1
    <3>3. QED
      BY <2>1, <3>2 DEF Follows, Jumps
  <2>4. QED
    BY <1>1, <2>1, <2>2, <2>3
<1>8. fill[1].in = gap.in /\ fill[1].kind \in {"hop", "ground"}
  <2>1. CASE m = 0
    BY <1>1, <1>3, <1>5, <2>1
  <2>2. CASE m # 0
    <3>1. 1 \in 1..m
      BY <1>1, <2>2
    <3>2. QED
      BY <1>4, <3>1 DEF Leaves
  <2>3. QED
    BY <2>1, <2>2
<1>9. IF gap.dst \in Pins
      THEN fill[n].kind = "ground" /\ fill[n].in \in Entry[gap.dst]
      ELSE fill[n].kind = "hop" /\ fill[n].dst = gap.dst
  <2>1. CASE gap.dst \in Pins
    BY <1>2, <1>5, <2>1
  <2>2. CASE gap.dst \notin Pins
    <3>1. n = m /\ m \in 1..m
      BY <1>1, <1>2, <1>3, <2>2
    <3>2. QED
      BY <1>3, <1>4, <2>2, <3>1
  <2>3. QED
    BY <2>1, <2>2
<1>10. QED
  BY <1>6, <1>7, <1>8, <1>9 DEF Linked, n

\* A line whose hole is closed is a line.
LEMMA PatchLine ==
    ASSUME NEW b \in Bindings, NEW r \in Seq(Good), Line(b, r), NEW gap, gap.kind = "gap",
           NEW h \in 1..Len(r), r[h] = gap,
           NEW p \in Paths(gap.in), Closes(gap, p), NEW fill, IsFill(gap, p, fill),
           NEW q, IsPatch(r, h, fill, q)
    PROVE  Line(b, q)
<1> DEFINE m == Len(fill)
           L == Len(r)
<1>1. gap \in Good /\ gap.in \in DstNodes
  <2>1. gap \in Good
    OBVIOUS
  <2>2. QED
    BY <2>1, GoodFragment DEF Shape
<1>2. /\ m \in Nat \ {0} /\ Linked(fill)
      /\ fill[1].in = gap.in /\ fill[1].kind \in {"hop", "ground"}
      /\ IF gap.dst \in Pins
         THEN fill[m].kind = "ground" /\ fill[m].in \in Entry[gap.dst]
         ELSE fill[m].kind = "hop" /\ fill[m].dst = gap.dst
  BY <1>1, FillLinked
<1>3. /\ q \in Seq(Good) /\ Len(q) = L - 1 + m
      /\ \A j \in 1..(h - 1) : q[j] = r[j]
      /\ \A j \in 1..m : q[h - 1 + j] = fill[j]
      /\ \A j \in 1..(L - h) : q[h - 1 + m + j] = r[h + j]
  BY DEF IsPatch
<1>4. /\ L \in Nat /\ h \in Nat /\ h > 1 /\ h < L
      /\ r[h - 1].kind \in Jumps /\ r[h - 1].dst = gap.in
      /\ r[h + 1] \in Good /\ r[h + 1].in = gap.dst
  <2>1. L \in Nat /\ h \in Nat
    OBVIOUS
  <2>2. h # 1
    BY LineKinds
  <2>3. r[h - 1] \in Good /\ Follows(r[h - 1], r[h])
    BY <2>1, <2>2, LineKinds
  <2>4. h < L
    BY LineKinds
  <2>5. r[h + 1] \in Good /\ Follows(r[h], r[h + 1])
    BY <2>1, <2>4, LineKinds
  <2>6. r[h - 1].kind \in Jumps
    BY <1>1, <2>3, Neighbours
  <2>7. QED
    BY <2>1, <2>2, <2>3, <2>4, <2>5, <2>6 DEF Follows
<1>5. Follows(r[h - 1], fill[1])
  BY <1>2, <1>4 DEF Follows, Jumps
<1>6. Follows(fill[m], r[h + 1])
  <2>1. CASE gap.dst \in Pins
    <3>1. r[h + 1].kind = "pin"
      <4>1. Shape(r[h + 1]) /\ r[h + 1].kind \in {"out", "hop", "ground", "pin", "gap"}
        BY <1>4, GoodFragment
      <4>2. r[h + 1].in \notin Sources /\ r[h + 1].in \notin DstNodes
        BY <1>4, <2>1, FabricAssumption DEF Nodes
      <4>3. QED
        BY <4>1, <4>2 DEF Shape
    <3>2. QED
      BY <1>2, <1>4, <2>1, <3>1 DEF Follows, Jumps
  <2>2. CASE gap.dst \notin Pins
    BY <1>2, <1>4, <2>2 DEF Follows, Jumps
  <2>3. QED
    BY <2>1, <2>2
<1> HIDE DEF m, L
<1>7. ASSUME NEW i \in 1..(Len(q) - 1) PROVE Follows(q[i], q[i + 1])
  <2>1. CASE i < h - 1
    <3>1. i \in 1..(h - 1) /\ i + 1 \in 1..(h - 1) /\ i \in 1..(L - 1)
      BY <1>4, <2>1
    <3>2. QED
      BY <1>3, <3>1 DEF Line, Linked, L
  <2>2. CASE i = h - 1
    <3>1. i \in 1..(h - 1) /\ 1 \in 1..m /\ h - 1 + 1 = i + 1
      BY <1>2, <1>4, <2>2
    <3>2. q[i] = r[h - 1] /\ q[i + 1] = fill[1]
      BY <1>3, <2>2, <3>1
    <3>3. QED
      BY <1>5, <3>2
  <2>3. CASE i > h - 1 /\ i < h - 1 + m
    <3> DEFINE t == i - (h - 1)
    <3>1. t \in 1..(m - 1) /\ t \in 1..m /\ t + 1 \in 1..m /\ h - 1 + t = i /\ h - 1 + (t + 1) = i + 1
      BY <1>2, <1>4, <2>3
    <3> HIDE DEF t
    <3>2. q[i] = fill[t] /\ q[i + 1] = fill[t + 1]
      BY <1>3, <3>1
    <3>3. QED
      BY <1>2, <3>1, <3>2 DEF Linked, m
  <2>4. CASE i = h - 1 + m
    <3>1. m \in 1..m /\ 1 \in 1..(L - h) /\ h - 1 + m + 1 = i + 1
      BY <1>2, <1>4, <2>4
    <3>2. q[i] = fill[m] /\ q[i + 1] = r[h + 1]
      BY <1>3, <2>4, <3>1
    <3>3. QED
      BY <1>6, <3>2
  <2>5. CASE i > h - 1 + m
    <3> DEFINE t == i - (h - 1 + m)
    <3>1. /\ t \in 1..(L - h) /\ t + 1 \in 1..(L - h)
          /\ h - 1 + m + t = i /\ h - 1 + m + (t + 1) = i + 1
          /\ h + t \in 1..(L - 1) /\ h + (t + 1) = (h + t) + 1
      BY <1>2, <1>3, <1>4, <2>5
    <3> HIDE DEF t
    <3>2. q[i] = r[h + t] /\ q[i + 1] = r[(h + t) + 1]
      BY <1>3, <3>1
    <3>3. QED
      BY <3>1, <3>2 DEF Line, Linked, L
  <2>6. QED
    BY <1>2, <1>4, <2>1, <2>2, <2>3, <2>4, <2>5
<1>8. q[1].kind = "out" /\ q[1].in = SourceOf[b]
  <2>1. 1 \in 1..(h - 1) /\ r # <<>>
    BY <1>4 DEF L
  <2>2. QED
    BY <1>3, <2>1 DEF Line
<1>9. q[Len(q)] = r[L]
  <2>1. L - h \in 1..(L - h) /\ h - 1 + m + (L - h) = Len(q) /\ h + (L - h) = L
    BY <1>2, <1>3, <1>4
  <2>2. q[h - 1 + m + (L - h)] = r[h + (L - h)]
    BY <1>3, <2>1
  <2>3. QED
    BY <2>1, <2>2
<1>10. q[Len(q)].kind \in Jumps \/ (q[Len(q)].kind = "pin" /\ q[Len(q)].in = PinOf[b])
  BY <1>4, <1>9 DEF Line, L
<1>11. QED
  BY <1>7, <1>8, <1>10 DEF Line, Linked

-----------------------------------------------------------------------------
(* Cuts                                                                    *)

\* Before the pin of a complete line are its ground and the jump to it.
LEMMA RetainedIsJump ==
    ASSUME NEW b \in Bindings, NEW r \in Seq(Good), Line(b, r), IsComplete(r)
    PROVE  /\ RetainedPrefix(r) \in 1..Len(r)
           /\ r[RetainedPrefix(r)].kind \in Jumps
<1> DEFINE L == Len(r)
<1>1. L \in Nat /\ L > 0 /\ L \in 1..L /\ r[L].kind = "pin" /\ r # <<>>
      /\ \A i \in 1..L : r[i].kind # "gap" /\ r[i] \in Good
  BY DEF IsComplete, HasGap
<1>2. r[1].kind = "out"
  BY <1>1 DEF Line
<1>3. L > 1
  BY <1>1, <1>2
<1>4. r[L - 1].kind = "ground"
  <2>1. Follows(r[L - 1], r[L]) /\ r[L - 1] \in Good
    BY <1>1, <1>3, LineKinds
  <2>2. L - 1 \in 1..L
    BY <1>1, <1>3
  <2>3. QED
    BY <1>1, <2>1, <2>2, Neighbours
<1>5. L > 2
  BY <1>1, <1>2, <1>3, <1>4
<1>6. r[L - 2].kind \in Jumps
  <2>1. L - 1 \in 1..L /\ L - 1 > 1 /\ (L - 1) - 1 = L - 2 /\ L - 2 \in 1..L
    BY <1>1, <1>5
  <2>2. Follows(r[L - 2], r[L - 1]) /\ r[L - 2] \in Good
    BY <2>1, LineKinds
  <2>3. r[L - 1] \in Good /\ r[L - 2].kind # "gap"
    BY <1>1, <2>1
  <2>4. QED
    BY <1>4, <2>2, <2>3, Neighbours
<1>7. RetainedPrefix(r) = L - 2
  <2>1. L - 1 > 0 /\ (L - 1) - 1 = L - 2
    BY <1>1, <1>5
  <2>2. QED
    BY <1>1, <1>4, <2>1 DEF RetainedPrefix
<1>8. QED
  BY <1>1, <1>5, <1>6, <1>7

\* A proof ends at a jump: the retained fabric holds no ground.
LEMMA ProofIsJump ==
    ASSUME NEW b \in Bindings, route \in Routes, Line(b, route[b]), NEW proof \in Proofs(b),
           proof.keep # 0
    PROVE  route[b][proof.keep].kind \in Jumps
<1> DEFINE r == route[b]
           k == proof.keep
           L == Len(r)
<1>1. r \in Seq(Good) /\ Line(b, r) /\ L \in Nat
  BY DEF Routes
<1>2. k \in 1..RetainedPrefix(r) /\ r[k].kind \in Crossbar
  BY DEF Proofs
<1> HIDE DEF r, k
<1>3. RetainedPrefix(r) \in 0..L
  BY <1>1, RetainedPrefixIs
<1>4. k \in 1..L
  BY <1>1, <1>2, <1>3
<1>5. ASSUME r[k].kind = "ground" PROVE FALSE
  <2>1. k + 1 = L /\ r[L].kind = "pin"
    BY <1>1, <1>4, <1>5, LineKinds
  <2>2. L - 1 = k /\ L > 0 /\ r # <<>> /\ L - 1 > 0
    BY <1>1, <1>4, <2>1
  <2>3. RetainedPrefix(r) = k - 1
    BY <1>5, <2>1, <2>2 DEF RetainedPrefix
  <2>4. QED
    BY <1>2, <1>3, <2>3
<1>6. QED
  BY <1>2, <1>5 DEF Crossbar, Jumps, r, k

\* A shared run ends at a jump: the terminal of one sink is not that of another.
LEMMA LiveSharedIsJump ==
    ASSUME SeparateTerminals, NEW st \in States, LinesOf(st), NEW b \in Bindings, NEW excluded,
           LiveSharedPrefix(st, b, excluded) # 0
    PROVE  st.route[b][LiveSharedPrefix(st, b, excluded)].kind \in Jumps
<1> DEFINE k == LiveSharedPrefix(st, b, excluded)
           r == st.route[b]
<1>1. PICK c \in Siblings(b) \ (excluded \cup {b}) : k \in SharedRuns(st, b, c)
  BY LiveSharedPrefixIs
<1> DEFINE q == st.route[c]
<1>2. /\ c \in Bindings /\ c # b /\ SourceOf[b] = SourceOf[c]
      /\ r \in Seq(Good) /\ q \in Seq(Good) /\ Line(b, r) /\ Line(c, q)
  BY DEF Siblings, States, Routes, LinesOf
<1>3. k \in 0..CommonLength(r, q) /\ \A i \in 1..k : r[i].shared
  BY <1>1 DEF SharedRuns
<1>4. k # 0
  OBVIOUS
<1> HIDE DEF k, r, q
<1>5. CommonLength(r, q) \in Nat /\ \A i \in Nat : Agree(r, q, i) <=> i <= CommonLength(r, q)
  BY <1>2, Common
<1>6. k \in Nat /\ k \in 1..k
  BY <1>3, <1>4, <1>5
<1>7. Agree(r, q, k)
  BY <1>3, <1>5, <1>6
<1>8. k \in 1..Len(r) /\ k \in 1..Len(q) /\ SamePhysicalFragment(r[k], q[k]) /\ r[k].shared
  BY <1>2, <1>3, <1>6, <1>7 DEF Agree
<1>9. r[k] \in Good
  BY <1>2, <1>8
<1>10. Shape(r[k]) /\ r[k].kind \in {"out", "hop", "ground", "pin", "gap"}
  BY <1>9, GoodFragment
<1>11. r[k].kind # "gap"
  BY <1>8, <1>10 DEF Shape, Gap
<1>12. r[k].kind # "pin"
  <2> SUFFICES ASSUME r[k].kind = "pin" PROVE FALSE
    OBVIOUS
  <2>1. r[k].in = PinOf[b]
    BY <1>2, <1>8, LineKinds
  <2>2. q[k].in = PinOf[c]
    BY <1>2, <1>8, LineKinds DEF SamePhysicalFragment
  <2>3. QED
    BY <1>2, <1>8, <2>1, <2>2 DEF SeparateTerminals, SamePhysicalFragment
<1>13. r[k].kind # "ground"
  <2> SUFFICES ASSUME r[k].kind = "ground" PROVE FALSE
    OBVIOUS
  <2>1. r[k].in \in Entry[PinOf[b]]
    BY <1>2, <1>8, LineKinds
  <2>2. q[k].in \in Entry[PinOf[c]]
    BY <1>2, <1>8, LineKinds DEF SamePhysicalFragment
  <2>3. QED
    BY <1>2, <1>8, <2>1, <2>2 DEF SeparateTerminals, SamePhysicalFragment
<1>14. QED
  BY <1>10, <1>11, <1>12, <1>13 DEF Jumps, k, r

\* Cut after a jump, or whole, a line is a line.
LEMMA TruncateLine ==
    ASSUME NEW st, Regular(st), LinesOf(st), NEW b \in Bindings, NEW k \in 0..Len(st.route[b]),
           k # 0 => st.route[b][k].kind \in Jumps
    PROVE  LinesOf(Truncate(st, b, k))
<1> DEFINE q == CutAt(st, b, k).kept
           rt == st.route
<1>1. st \in States /\ rt \in Routes /\ rt[b] \in Seq(Good) /\ Line(b, rt[b])
  BY DEF Regular, States, Routes, LinesOf
<1>2. Truncate(st, b, k).route = [rt EXCEPT ![b] = q]
  BY TruncateKeeps
<1>3. q \in Seq(Good) /\ SameFabric(SubSeq(rt[b], 1, k), q)
  BY <1>1, CutAtKeeps
<1> HIDE DEF q
<1>4. Line(b, q)
  BY <1>1, <1>3, LineHead
<1>5. QED
  BY <1>1, <1>2, <1>4 DEF LinesOf, Routes

\* Changing who owns what keeps the lines.
LEMMA SameFabricLines ==
    ASSUME NEW st \in States, LinesOf(st), NEW u \in States,
           \A d \in Bindings : SameFabric(st.route[d], u.route[d])
    PROVE  LinesOf(u)
<1> SUFFICES ASSUME NEW d \in Bindings PROVE Line(d, u.route[d])
  BY DEF LinesOf
<1>1. st.route[d] \in Seq(Good) /\ u.route[d] \in Seq(Good) /\ Line(d, st.route[d])
  BY DEF States, Routes, LinesOf
<1>2. QED
  BY <1>1, LineFabric

\* Unrouting a binding leaves lines.
LEMMA UnrouteLine ==
    ASSUME NEW st, Regular(st), LinesOf(st), NEW b \in Bindings
    PROVE  LinesOf(Unroute(st, b))
<1> DEFINE u == Promote(st, b, {})
<1>1. st \in States
  BY DEF Regular
<1>2. u \in States /\ \A d \in Bindings : SameFabric(st.route[d], u.route[d])
  BY <1>1, PromoteKeeps
<1>3. LinesOf(u)
  BY <1>1, <1>2, SameFabricLines
<1>4. Unroute(st, b).route = [u.route EXCEPT ![b] = <<>>]
  BY UnrouteKeeps
<1>5. Line(b, <<>>)
  <2>1. Len(<<>>) = 0
    OBVIOUS
  <2>2. QED
    BY <2>1 DEF Line, Linked
<1> HIDE DEF u
<1>6. QED
  BY <1>2, <1>3, <1>4, <1>5 DEF LinesOf, States, Routes

\* A detachment cuts after a jump.
LEMMA DetachIsTruncate ==
    ASSUME SeparateTerminals, NEW st, Regular(st), LinesOf(st), NEW b \in Bindings, NEW excluded,
           NEW complete \in BOOLEAN, complete => IsComplete(st.route[b]),
           NEW proven \in 0..Len(st.route[b]), proven # 0 => st.route[b][proven].kind \in Jumps,
           st.route[b] # <<>>
    PROVE  \E m \in 0..Len(st.route[b]) :
              /\ m # 0 => st.route[b][m].kind \in Jumps
              /\ Detach(st, b, excluded, complete, proven) = Truncate(st, b, m)
<1> DEFINE r == st.route[b]
           k == KeptLength(st, b, excluded, complete, proven)
<1>1. st \in States /\ r \in Seq(Good) /\ Line(b, r)
  BY DEF Regular, States, Routes, LinesOf
<1>2. PICK m \in 0..Len(r) :
         /\ m = proven \/ m = LiveSharedPrefix(st, b, excluded) \/ (complete /\ m = RetainedPrefix(r))
         /\ k = IF m = Len(r) /\ m > 1 /\ r[m].kind = "pin" THEN m - 1 ELSE m
  BY <1>1, KeptLengthIs
<1>3. m # 0 => r[m].kind \in Jumps
  <2>1. CASE m = proven
    BY <2>1
  <2>2. CASE m = LiveSharedPrefix(st, b, excluded)
    BY <1>1, <2>2, LiveSharedIsJump
  <2>3. CASE complete /\ m = RetainedPrefix(r)
    BY <1>1, <2>3, RetainedIsJump
  <2>4. QED
    BY <1>2, <2>1, <2>2, <2>3
<1>4. k = m
  BY <1>2, <1>3 DEF Jumps
<1>5. Detach(st, b, excluded, complete, proven) = Truncate(st, b, m)
  BY <1>4 DEF Detach
<1>6. QED
  BY <1>3, <1>5

\* A moved sink is cut back to a landing from which its route can go on.
LEMMA DetachLine ==
    ASSUME SeparateTerminals, NEW st, Regular(st), LinesOf(st), NEW b \in Bindings, NEW excluded,
           NEW complete \in BOOLEAN, complete => IsComplete(st.route[b]),
           NEW proven \in 0..Len(st.route[b]), proven # 0 => st.route[b][proven].kind \in Jumps
    PROVE  LinesOf(Detach(st, b, excluded, complete, proven))
<1>1. CASE st.route[b] = <<>>
  BY <1>1 DEF Detach
<1>2. CASE st.route[b] # <<>>
  <2>1. PICK m \in 0..Len(st.route[b]) :
           /\ m # 0 => st.route[b][m].kind \in Jumps
           /\ Detach(st, b, excluded, complete, proven) = Truncate(st, b, m)
    BY <1>2, DetachIsTruncate
  <2>2. QED
    BY <2>1, TruncateLine
<1>3. QED
  BY <1>1, <1>2

\* So is each sink of an instance in its turn,
LEMMA DetachTurnLine ==
    ASSUME SeparateTerminals, NEW st, Regular(st), LinesOf(st), NEW S,
           NEW complete, \A d \in Bindings : d \in complete => IsComplete(st.route[d]), NEW proof,
           proof.keep \in 0..Len(st.route[proof.binding]),
           proof.keep # 0 => st.route[proof.binding][proof.keep].kind \in Jumps,
           NEW k \in 1..N, NEW u \in Detached(st, S, k - 1), LinesOf(u)
    PROVE  LinesOf(DetachTurn(u, S, complete, proof, k))
<1> DEFINE b == BindingOrder[k]
           done == b \in complete
           proven == IF b = proof.binding THEN proof.keep ELSE 0
<1>1. b \in Bindings /\ Regular(u) /\ u \in States
  BY OrderFacts DEF Detached
<1>2. u.route[b] = st.route[b] /\ u.route[b] \in Seq(Good)
  BY <1>1, OrderFacts DEF Detached, States, Routes
<1>3. /\ proven \in 0..Len(u.route[b]) /\ (proven # 0 => u.route[b][proven].kind \in Jumps)
      /\ done \in BOOLEAN /\ (done => IsComplete(u.route[b]))
  BY <1>1, <1>2
<1>4. DetachTurn(u, S, complete, proof, k) = IF b \in S THEN Detach(u, b, S, done, proven) ELSE u
  BY DEF DetachTurn
<1> HIDE DEF b, done, proven
<1>5. QED
  BY <1>1, <1>3, <1>4, DetachLine

\* and all of them in the end.
LEMMA DetachAllLine ==
    ASSUME SeparateTerminals, NEW st, Regular(st), LinesOf(st), NEW S,
           NEW complete, \A d \in Bindings : d \in complete => IsComplete(st.route[d]), NEW proof,
           proof.keep \in 0..Len(st.route[proof.binding]),
           proof.keep # 0 => st.route[proof.binding][proof.keep].kind \in Jumps
    PROVE  LinesOf(DetachAll(st, S, complete, proof))
<1> DEFINE X == [k \in 0..N |-> {u \in Detached(st, S, k) : LinesOf(u)}]
<1>1. N \in Nat
  BY OrderFacts
<1>2. st \in X[0]
  BY <1>1 DEF Detached, Regular, Shrinks
<1>3. \A k \in 1..N : \A u \in X[k - 1] : DetachTurn(u, S, complete, proof, k) \in X[k]
  <2> SUFFICES ASSUME NEW k \in 1..N, NEW u \in X[k - 1]
               PROVE  DetachTurn(u, S, complete, proof, k) \in X[k]
    OBVIOUS
  <2>1. k - 1 \in 0..N /\ k \in 0..N
    BY <1>1
  <2>2. u \in Detached(st, S, k - 1) /\ LinesOf(u)
    BY <2>1
  <2>3. DetachTurn(u, S, complete, proof, k) \in Detached(st, S, k)
    BY <2>2, DetachTurnKeeps
  <2>4. LinesOf(DetachTurn(u, S, complete, proof, k))
    BY <2>2, DetachTurnLine
  <2>5. QED
    BY <2>1, <2>3, <2>4
<1>4. DetachAll(st, S, complete, proof) \in X[N]
  <2> HIDE DEF X
  <2> QED
    BY <1>2, <1>3, DetachAllEnds
<1>5. QED
  BY <1>1, <1>4

\* Completeness is a matter of fabric.
LEMMA SameComplete ==
    ASSUME NEW r \in Seq(Good), NEW q \in Seq(Good), SameFabric(r, q), IsComplete(r)
    PROVE  IsComplete(q)
<1>1. Len(q) = Len(r) /\ Len(r) \in Nat /\ \A i \in 1..Len(r) : r[i].kind = q[i].kind
  BY DEF SameFabric, SamePhysicalFragment
<1>2. Len(r) \in 1..Len(r)
  BY <1>1 DEF IsComplete
<1>3. QED
  BY <1>1, <1>2 DEF IsComplete, HasGap

-----------------------------------------------------------------------------
(* Every step keeps the lines                                              *)

\* A move of sinks keeps the lines.
LEMMA MoveSinksLine ==
    ASSUME SeparateTerminals, Regular(Now), Lines, NEW S \in MoveSets, MoveSinks(S)
    PROVE  Lines'
<1> DEFINE complete == {c \in S : IsComplete(route[c])}
           moved == PromoteAll(Now, S)
<1>1. route \in Routes /\ Now.route = route /\ S \subseteq Bindings /\ LinesOf(Now) /\ Now \in States
  BY BindingAssumption DEF Regular, Now, States, Lines, LinesOf
<1>2. PICK b \in S : \E proof \in Proofs(b) : Install(DetachAll(moved, S, complete, proof))
  BY DEF MoveSinks
<1>3. PICK proof \in Proofs(b) : Install(DetachAll(moved, S, complete, proof))
  BY <1>2
<1>4. b \in Bindings /\ route[b] \in Seq(Good) /\ Line(b, route[b])
  BY <1>1 DEF Routes, Lines
<1>5. /\ proof.binding = b /\ proof.keep \in 0..Len(route[b])
      /\ proof.keep # 0 => route[b][proof.keep].kind \in Jumps
  BY <1>1, <1>4, ProofsAreShort, ProofIsJump
<1>6. Regular(moved) /\ \A d \in Bindings : SameFabric(Now.route[d], moved.route[d])
  BY PromoteAllKeeps
<1>7. moved \in States /\ LinesOf(moved)
  BY <1>1, <1>6, SameFabricLines DEF Regular
<1> HIDE DEF moved
<1>8. proof.keep \in 0..Len(moved.route[proof.binding])
  BY <1>1, <1>4, <1>5, <1>6 DEF SameFabric
<1>9. proof.keep # 0 => moved.route[proof.binding][proof.keep].kind \in Jumps
  <2>1. proof.keep # 0 => proof.keep \in 1..Len(route[b])
    BY <1>4, <1>5
  <2>2. QED
    BY <1>1, <1>4, <1>5, <1>6, <2>1 DEF SameFabric, SamePhysicalFragment
<1>10. \A d \in Bindings : d \in complete => IsComplete(moved.route[d])
  <2> SUFFICES ASSUME NEW d \in Bindings, d \in complete PROVE IsComplete(moved.route[d])
    OBVIOUS
  <2>1. route[d] \in Seq(Good) /\ moved.route[d] \in Seq(Good)
        /\ SameFabric(route[d], moved.route[d]) /\ IsComplete(route[d])
    BY <1>1, <1>6, <1>7 DEF States, Routes
  <2>2. QED
    BY <2>1, SameComplete
<1> HIDE DEF complete
<1>11. LinesOf(DetachAll(moved, S, complete, proof))
  BY <1>6, <1>7, <1>8, <1>9, <1>10, DetachAllLine
<1>12. QED
  BY <1>3, <1>11 DEF Install, LinesOf, Lines

\* A step back removes whole tail fragments and keeps the lines.
LEMMA StepBackLine ==
    ASSUME Regular(Now), Lines, NEW b \in Bindings, StepBack(b)
    PROVE  Lines'
<1> DEFINE r == route[b]
<1>1. route \in Routes /\ Now.route = route /\ LinesOf(Now)
  BY DEF Regular, Now, States, Lines, LinesOf
<1>2. r \in Seq(Good) /\ Line(b, r) /\ r # <<>> /\ ~HasGap(r) /\ ~IsComplete(r)
  BY <1>1 DEF Routes, Lines, StepBack
<1>3. CASE Len(r) = 1
  <2>1. Install(Unroute(Now, b))
    BY <1>3 DEF StepBack
  <2>2. QED
    BY <1>1, <2>1, UnrouteLine DEF Install, LinesOf, Lines
<1>4. CASE Len(r) # 1
  <2>1. Install(Truncate(Now, b, Len(r) - 1))
    BY <1>4 DEF StepBack
  <2>a. Len(r) \in Nat /\ Len(r) # 0
    BY <1>2
  <2>b. Len(r) > 1 /\ Len(r) \in 1..Len(r) /\ Len(r) - 1 \in 1..Len(r) /\ Len(r) - 1 \in 0..Len(r)
    <3>1. \A n \in Nat : n # 0 /\ n # 1 => n > 1 /\ n \in 1..n /\ n - 1 \in 1..n /\ n - 1 \in 0..n
      OBVIOUS
    <3> HIDE DEF r
    <3>2. QED
      BY <1>4, <2>a, <3>1
  <2>2. /\ Len(r) \in Nat /\ Len(r) > 1 /\ Len(r) \in 1..Len(r) /\ Len(r) - 1 \in 1..Len(r)
        /\ Len(r) - 1 \in 0..Len(Now.route[b])
    BY <1>1, <2>a, <2>b
  <2>3. r[Len(r)].kind \in Jumps
    BY <1>2, Unfinished
  <2>4. r[Len(r) - 1].kind \in Jumps
    <3>1. Follows(r[Len(r) - 1], r[Len(r)]) /\ r[Len(r) - 1] \in Good /\ r[Len(r)] \in Good
      BY <1>2, <2>2, LineKinds
    <3>2. r[Len(r)].kind # "out"
      BY <3>1, Neighbours
    <3>3. r[Len(r) - 1].kind # "gap"
      BY <1>2, <2>2 DEF HasGap
    <3>4. QED
      BY <2>3, <3>1, <3>2, <3>3, Neighbours DEF Jumps
  <2>5. LinesOf(Truncate(Now, b, Len(r) - 1))
    BY <1>1, <2>2, <2>4, TruncateLine
  <2>6. QED
    BY <2>1, <2>5 DEF Install, LinesOf, Lines
<1>5. QED
  BY <1>3, <1>4

\* Unrouting a source tree keeps the lines of the other sources.
LEMMA SourceTreeLine ==
    ASSUME Regular(Now), Lines, NEW s \in Sources, UnrouteSourceTree(s)
    PROVE  Lines'
<1>1. route' = [b \in Bindings |-> IF SourceOf[b] = s THEN <<>> ELSE route[b]]
  BY SourceTreeKeeps
<1>2. ASSUME NEW b \in Bindings PROVE Line(b, <<>>)
  <2>1. Len(<<>>) = 0
    OBVIOUS
  <2>2. QED
    BY <2>1 DEF Line, Linked
<1>3. QED
  BY <1>1, <1>2 DEF Lines

\* A routing step resumes a line.
LEMMA RouteStepLine ==
    ASSUME Regular(Now), Lines, NEW b \in Bindings, RouteStep(b)
    PROVE  Lines'
<1>1. route \in Routes /\ Now.route = route
  BY DEF Regular, Now, States
<1>2. PICK s \in Starts(b) : \E p \in Paths(s.node), done \in BOOLEAN :
         /\ p # <<>> \/ done
         /\ Reaches(s.node, p, done, PinOf[b])
         /\ Install(Commit(Now, b, s.prefix \o Suffix(s.node, p, done, PinOf[b]), SuffixNodes(p, done, PinOf[b])))
  BY DEF RouteStep
<1>3. PICK p \in Paths(s.node), done \in BOOLEAN :
         /\ p # <<>> \/ done
         /\ Reaches(s.node, p, done, PinOf[b])
         /\ Install(Commit(Now, b, s.prefix \o Suffix(s.node, p, done, PinOf[b]), SuffixNodes(p, done, PinOf[b])))
  BY <1>2
<1> DEFINE r == s.prefix \o Suffix(s.node, p, done, PinOf[b])
<1>4. Line(b, r)
  BY <1>3, StartsResume, CommitLine
<1>5. route' = [route EXCEPT ![b] = r]
  BY <1>1, <1>3 DEF Install, Commit
<1> HIDE DEF r
<1>6. QED
  BY <1>1, <1>4, <1>5 DEF Lines, Routes

\* The routes of the victims with their holes are lines.
LEMMA OpenHolesLine ==
    ASSUME Regular(Now), Lines, NEW cuts, NEW b \in Bindings, MayCut(b, cuts)
    PROVE  LinesOf(OpenHoles(Dependents(Now, cuts), cuts))
<1> DEFINE V == Dependents(Now, cuts)
           hole(c) == TransitCut(route[c], cuts)
           o(c) == Opened(route[c], hole(c))
           opened == [c \in V |-> o(c)]
           rt == [c \in Bindings |-> IF c \in V THEN opened[c].route ELSE route[c]]
           gone == [c \in V |-> opened[c].removed]
<1>1. route \in Routes /\ Now.route = route
  BY DEF Regular, Now, States
<1>2. V = {c \in Bindings : RouteUses(route[c]) \cap cuts # {}}
  BY <1>1, DependentsAre
<1>3. \A c \in V : hole(c) # <<>>
  BY DEF MayCut
<1>4. OpenHoles(V, cuts).route = rt
  BY DEF OpenHoles, Withdraw
<1> HIDE DEF V
<1>5. ASSUME NEW c \in V PROVE Line(c, o(c).route)
  <2>1. c \in Bindings /\ RouteUses(route[c]) \cap cuts # {} /\ hole(c) # <<>>
    BY <1>2, <1>3
  <2>2. route[c] \in Seq(Good) /\ Line(c, route[c])
    BY <1>1, <2>1 DEF Routes, Lines
  <2>3. IsHole(route[c], cuts, hole(c)[1], hole(c)[2])
    BY <2>1, <2>2, TransitCutIs
  <2> HIDE DEF hole
  <2>4. IsOpened(route[c], hole(c)[1], hole(c)[2], o(c).route, o(c).removed)
    BY <2>2, <2>3, OpenedIs
  <2> HIDE DEF o
  <2>5. QED
    BY <2>1, <2>2, <2>3, <2>4, OpenedLine
<1> HIDE DEF o
<1>6. \A c \in Bindings : Line(c, rt[c])
  BY <1>5 DEF Lines
<1>7. QED
  BY <1>4, <1>6 DEF LinesOf, V

\* A preemption opens holes in lines and resumes one.
LEMMA PreemptLine ==
    ASSUME Regular(Now), Lines, NEW b \in Bindings, Preempt(b)
    PROVE  Lines'
<1> DEFINE Cuts(p, done) == SuffixNodes(p, done, PinOf[b]) \cap leased
           Holed(p, done) == OpenHoles(Dependents(Now, Cuts(p, done)), Cuts(p, done))
<1>1. PICK s \in Starts(b) : \E p \in Paths(s.node), done \in BOOLEAN :
         /\ p # <<>>
         /\ Reaches(s.node, p, done, PinOf[b])
         /\ MayCut(b, Cuts(p, done))
         /\ Install(Commit(Holed(p, done), b, s.prefix \o Suffix(s.node, p, done, PinOf[b]),
                           SuffixNodes(p, done, PinOf[b])))
  BY DEF Preempt
<1>2. PICK p \in Paths(s.node), done \in BOOLEAN :
         /\ p # <<>>
         /\ Reaches(s.node, p, done, PinOf[b])
         /\ MayCut(b, Cuts(p, done))
         /\ Install(Commit(Holed(p, done), b, s.prefix \o Suffix(s.node, p, done, PinOf[b]),
                           SuffixNodes(p, done, PinOf[b])))
  BY <1>1
<1> DEFINE r == s.prefix \o Suffix(s.node, p, done, PinOf[b])
           cuts == SuffixNodes(p, done, PinOf[b]) \cap leased
           open == OpenHoles(Dependents(Now, cuts), cuts)
<1>3. Line(b, r)
  BY <1>2, StartsResume, CommitLine
<1>4. LinesOf(open) /\ Regular(open)
  BY <1>2, OpenHolesLine, OpenHolesKeeps
<1>5. open.route \in Routes /\ route' = [open.route EXCEPT ![b] = r]
  BY <1>2, <1>4 DEF Install, Commit, Regular, States
<1> HIDE DEF r, open
<1>6. QED
  BY <1>3, <1>4, <1>5 DEF Lines, LinesOf, Routes

\* A repair fills the hole of a line and of each replica.
LEMMA RepairGapLine ==
    ASSUME Regular(Now), Lines, NEW b \in Bindings, RepairGap(b)
    PROVE  Lines'
<1> DEFINE gap == route[b][FirstGap(route[b])]
           T == Twins(b, gap)
<1>1. route \in Routes
  BY DEF Regular, Now, States
<1>2. PICK p \in Paths(gap.in) : Closes(gap, p) /\ Install(CloseHoles(T, gap, Fill(gap, p)))
  BY DEF RepairGap
<1>3. gap.in \in DstNodes /\ gap.kind = "gap"
  BY <1>1, FirstGapIs DEF RepairGap, Routes
<1>4. T \in SUBSET Bindings
      /\ \A c \in T : \E i \in DOMAIN route[c] : route[c][i] = gap
  BY DEF Twins, Siblings
<1> HIDE DEF gap, T
<1> DEFINE fill == Fill(gap, p)
<1>5. IsFill(gap, p, fill) /\ fill \in Seq(Good)
  BY <1>3, FillIs DEF IsFill
<1> HIDE DEF fill
<1>6. CloseHoles(T, gap, fill).route =
         [c \in Bindings |-> IF c \in T THEN Patch(route[c], gap, fill) ELSE route[c]]
  BY DEF CloseHoles
<1>7. ASSUME NEW c \in T PROVE Line(c, Patch(route[c], gap, fill))
  <2>1. c \in Bindings /\ route[c] \in Seq(Good) /\ Line(c, route[c])
        /\ \E i \in DOMAIN route[c] : route[c][i] = gap
    BY <1>1, <1>4 DEF Routes, Lines
  <2>2. HoleAt(route[c], gap) \in 1..Len(route[c]) /\ route[c][HoleAt(route[c], gap)] = gap
    BY <2>1, HoleAtIs
  <2>3. IsPatch(route[c], HoleAt(route[c], gap), fill, Patch(route[c], gap, fill))
    BY <1>5, <2>1, PatchIs
  <2>4. QED
    BY <1>2, <1>3, <1>5, <2>1, <2>2, <2>3, PatchLine
<1>8. route' = [c \in Bindings |-> IF c \in T THEN Patch(route[c], gap, fill) ELSE route[c]]
  BY <1>2, <1>6 DEF Install, fill
<1>9. QED
  BY <1>7, <1>8 DEF Lines

\* Every action keeps the lines.
LEMMA NextLine ==
    ASSUME MoveSets # {} => SeparateTerminals, Regular(Now), Lines, Next
    PROVE  Lines'
<1>1. ASSUME NEW b \in Bindings, Discard(b) PROVE Lines'
  <2>1. LinesOf(Now)
    BY DEF Lines, LinesOf, Now
  <2>2. LinesOf(Unroute(Now, b))
    BY <2>1, UnrouteLine
  <2>3. QED
    BY <1>1, <2>2 DEF Discard, Install, LinesOf, Lines
<1>2. CASE \E b \in Bindings : RouteStep(b) \/ Preempt(b) \/ RepairGap(b) \/ StepBack(b) \/ Discard(b)
  BY <1>1, <1>2, RouteStepLine, PreemptLine, RepairGapLine, StepBackLine
<1>3. CASE \E s \in Sources : UnrouteSourceTree(s)
  BY <1>3, SourceTreeLine
<1>4. CASE \E S \in MoveSets : MoveSinks(S)
  BY <1>4, MoveSinksLine
<1>5. QED
  BY <1>2, <1>3, <1>4 DEF Next

\* A line runs as Continuous says.
LEMMA LinesContinue ==
    ASSUME route \in Routes, Lines
    PROVE  Continuous
<1> SUFFICES ASSUME NEW b \in Bindings
             PROVE  LET r == route[b] IN
                    /\ r # <<>> => r[1].kind = "out" /\ r[1].in = SourceOf[b]
                    /\ \A i \in 1..(Len(r) - 1) :
                          CASE r[i].kind \in Jumps  -> r[i].dst = r[i + 1].in
                            [] r[i].kind = "gap"    -> r[i].dst = r[i + 1].in
                            [] r[i].kind = "ground" -> r[i + 1].kind = "pin" /\ r[i].in \in Entry[r[i + 1].in]
                            [] r[i].kind = "pin"    -> FALSE
  BY DEF Continuous
<1> DEFINE r == route[b]
<1>1. r \in Seq(Good) /\ Line(b, r)
  BY DEF Routes, Lines
<1> HIDE DEF r
<1>2. ASSUME NEW i \in 1..(Len(r) - 1)
      PROVE  CASE r[i].kind \in Jumps  -> r[i].dst = r[i + 1].in
               [] r[i].kind = "gap"    -> r[i].dst = r[i + 1].in
               [] r[i].kind = "ground" -> r[i + 1].kind = "pin" /\ r[i].in \in Entry[r[i + 1].in]
               [] r[i].kind = "pin"    -> FALSE
  <2>1. Follows(r[i], r[i + 1]) /\ r[i] \in Good
    BY <1>1 DEF Line, Linked
  <2>2. r[i].kind \in {"out", "hop", "ground", "pin", "gap"}
    BY <2>1, GoodFragment
  <2>3. CASE r[i].kind \in Jumps
    BY <2>1, <2>3 DEF Follows, Jumps
  <2>4. CASE r[i].kind = "gap"
    BY <2>1, <2>4 DEF Follows, Jumps
  <2>5. CASE r[i].kind = "ground"
    BY <2>1, <2>5 DEF Follows, Jumps
  <2>6. QED
    BY <2>1, <2>2, <2>3, <2>4, <2>5 DEF Follows, Jumps
<1>3. QED
  BY <1>1, <1>2 DEF Line, r

\* Where no sinks of one source that end on one DST are moved, every route runs from its
\* source without a break: a fork continues the prefix it copied, a hole is
\* where the cut hop was and leads to what follows it, a repair ends there, and
\* what a removal or a moved sink leaves behind can be continued.
THEOREM RoutesAreContinuous == (MoveSets # {} => SeparateTerminals) => (Spec => []Continuous)
<1> SUFFICES ASSUME MoveSets # {} => SeparateTerminals PROVE Spec => []Continuous
  OBVIOUS
<1>1. Spec => []Regular(Now)
  BY RoutesAreFabric
<1>2. Init => Lines
  <2> SUFFICES ASSUME Init, NEW b \in Bindings PROVE Line(b, route[b])
    BY DEF Lines
  <2>1. route[b] = <<>> /\ Len(<<>>) = 0
    BY DEF Init
  <2>2. QED
    BY <2>1 DEF Line, Linked
<1>3. Regular(Now) /\ Lines /\ [Next]_vars => Lines'
  <2> SUFFICES ASSUME Regular(Now), Lines, [Next]_vars PROVE Lines'
    OBVIOUS
  <2>1. CASE Next
    BY <2>1, NextLine
  <2>2. CASE UNCHANGED vars
    BY <2>2 DEF vars, Lines
  <2>3. QED
    BY <2>1, <2>2
<1>4. Regular(Now) /\ Lines => Continuous
  BY LinesContinue DEF Regular, Now, States
<1>5. QED
  BY <1>1, <1>2, <1>3, <1>4, PTL DEF Spec

-----------------------------------------------------------------------------
(* What a route needs and what it gives                                    *)

\* Which fragments need which node.
LEMMA NeedFacts ==
    ASSUME NEW r, NEW i, NEW w \in Needs(r, i)
    PROVE  /\ w \in {"src", "landing", "in"}
           /\ w \in {"src", "landing"} => r[i].kind \in Jumps
           /\ w = "in" => \/ r[i].kind = "pin"
                          \/ r[i].kind \in {"hop", "ground"} /\ i > 1 /\ r[i - 1].kind = "gap"
BY DEF Needs

\* Agreement up to a fragment is inherited, and composes.
LEMMA AgreeFacts ==
    /\ \A r \in Seq(Good) : \A i \in 1..Len(r) : Agree(r, r, i)
    /\ \A r, q \in Seq(Good) : \A i \in Nat : Agree(r, q, i) => Agree(q, r, i)
    /\ \A r, q, p \in Seq(Good) : \A i \in Nat : Agree(r, q, i) /\ Agree(q, p, i) => Agree(r, p, i)
    /\ \A r, q \in Seq(Good) : \A i, j \in Nat : j <= i /\ Agree(r, q, i) => Agree(r, q, j)
    /\ \A r, q \in Seq(Good) : \A i \in 1..Len(r) : Agree(r, q, i) =>
          i \in 1..Len(q) /\ SamePhysicalFragment(r[i], q[i])
<1>1. \A r \in Seq(Good) : Len(r) \in Nat
  OBVIOUS
<1>2. \A r, q, p \in Seq(Good) : \A i \in Nat : Agree(r, q, i) /\ Agree(q, p, i) => Agree(r, p, i)
  BY <1>1 DEF Agree, SamePhysicalFragment
<1>3. \A r \in Seq(Good) : \A i \in 1..Len(r) : Agree(r, r, i)
  BY <1>1 DEF Agree, SamePhysicalFragment
<1>4. \A r, q \in Seq(Good) : \A i \in Nat : Agree(r, q, i) => Agree(q, r, i)
  BY <1>1 DEF Agree, SamePhysicalFragment
<1>5. \A r, q \in Seq(Good) : \A i, j \in Nat : j <= i /\ Agree(r, q, i) => Agree(r, q, j)
  <2> SUFFICES ASSUME NEW r \in Seq(Good), NEW q \in Seq(Good), NEW i \in Nat, NEW j \in Nat,
                      j <= i, Agree(r, q, i)
               PROVE  Agree(r, q, j)
    OBVIOUS
  <2>1. \A k \in 1..j : k \in 1..i
    OBVIOUS
  <2>2. j <= Len(r) /\ j <= Len(q)
    BY <1>1 DEF Agree
  <2>3. QED
    BY <2>1, <2>2 DEF Agree
<1>6. \A r, q \in Seq(Good) : \A i \in 1..Len(r) : Agree(r, q, i) =>
         i \in 1..Len(q) /\ SamePhysicalFragment(r[i], q[i])
  <2> SUFFICES ASSUME NEW r \in Seq(Good), NEW q \in Seq(Good), NEW i \in 1..Len(r), Agree(r, q, i)
               PROVE  i \in 1..Len(q) /\ SamePhysicalFragment(r[i], q[i])
    OBVIOUS
  <2>1. i \in Nat /\ i \in 1..i /\ 1 <= i
    OBVIOUS
  <2>2. QED
    BY <1>1, <2>1 DEF Agree
<1>7. QED
  BY <1>2, <1>3, <1>4, <1>5, <1>6

\* Needs are a matter of fabric.
LEMMA NeedsAgree ==
    ASSUME NEW r \in Seq(Good), NEW q \in Seq(Good), NEW i \in 1..Len(r), Agree(r, q, i)
    PROVE  Needs(q, i) = Needs(r, i)
<1>1. i \in Nat /\ r[i].kind = q[i].kind
  BY AgreeFacts DEF SamePhysicalFragment
<1>2. i > 1 => r[i - 1].kind = q[i - 1].kind
  <2> SUFFICES ASSUME i > 1 PROVE r[i - 1].kind = q[i - 1].kind
    OBVIOUS
  <2>1. i - 1 \in 1..i
    BY <1>1
  <2>2. QED
    BY <2>1 DEF Agree, SamePhysicalFragment
<1>3. QED
  BY <1>1, <1>2 DEF Needs

\* What a fragment gives it owns.
LEMMA GivesOwns ==
    ASSUME NEW r \in Seq(Good), Linked(r), NEW i \in 1..Len(r), NEW w, Gives(r, i, w)
    PROVE  NodeOf(r[i], w) \in RouteOwned(r)
<1>1. Len(r) \in Nat /\ i \in Nat /\ r[i] \in Good
  OBVIOUS
<1>2. Owned(r[i]) \subseteq RouteOwned(r)
  BY DEF RouteOwned
<1>3. r[i].kind \in {"out", "hop", "ground", "pin", "gap"}
  BY GoodFragment
<1>4. CASE w = "src"
  BY <1>2, <1>4 DEF Gives, Owned, NodeOf, Jumps
<1>5. CASE w = "in"
  BY <1>2, <1>3, <1>5 DEF Gives, Owned, OwnsIn, NodeOf, Jumps
<1>6. CASE w = "landing" /\ r[i].ownsLanding
  BY <1>2, <1>6 DEF Gives, Owned, OwnedLanding, NodeOf, Jumps
<1>7. CASE w = "landing" /\ ~r[i].ownsLanding
  <2>1. r[i].kind \in Jumps /\ i < Len(r) /\ OwnsIn(r[i + 1])
    BY <1>7 DEF Gives
  <2>2. i \in 1..(Len(r) - 1) /\ i + 1 \in 1..Len(r)
    BY <1>1, <2>1
  <2>3. r[i].dst = r[i + 1].in
    BY <2>1, <2>2 DEF Linked, Follows
  <2>4. r[i + 1].in \in Owned(r[i + 1]) /\ Owned(r[i + 1]) \subseteq RouteOwned(r)
    BY <2>1, <2>2 DEF OwnsIn, Owned, RouteOwned, Jumps
  <2>5. QED
    BY <1>7, <2>3, <2>4 DEF NodeOf
<1>8. QED
  BY <1>4, <1>5, <1>6, <1>7 DEF Gives

\* What a route uses it needs at some fragment.
LEMMA UsesNeeds ==
    ASSUME NEW b \in Bindings, NEW r \in Seq(Good), Line(b, r), NEW n \in RouteUses(r)
    PROVE  \E i \in 1..Len(r) : \E w \in Needs(r, i) : n = NodeOf(r[i], w)
<1>1. PICK i \in 1..Len(r) : n \in Uses(r[i])
  BY DEF RouteUses
<1>2. Len(r) \in Nat /\ i \in Nat /\ r[i] \in Good /\ r[i].kind \in {"out", "hop", "ground", "pin", "gap"}
  BY GoodFragment
<1>3. CASE r[i].kind \in Jumps /\ n \in {r[i].src, r[i].dst}
  <2>1. "src" \in Needs(r, i) /\ "landing" \in Needs(r, i)
    BY <1>3 DEF Needs
  <2>2. NodeOf(r[i], "src") = r[i].src /\ NodeOf(r[i], "landing") = r[i].dst
    BY DEF NodeOf
  <2>3. QED
    BY <1>3, <2>1, <2>2
<1>4. CASE r[i].kind = "pin"
  <2>1. "in" \in Needs(r, i) /\ n = r[i].in
    BY <1>1, <1>4 DEF Needs, Uses
  <2>2. NodeOf(r[i], "in") = r[i].in
    BY DEF NodeOf
  <2>3. QED
    BY <2>1, <2>2
<1>5. CASE r[i].kind \in {"hop", "ground"} /\ n = r[i].in
  <2>1. i > 1
    BY <1>2, <1>5, LineKinds
  <2>2. i - 1 \in 1..Len(r) /\ r[i - 1] \in Good /\ Follows(r[i - 1], r[i]) /\ (i - 1) + 1 = i
    BY <1>2, <2>1, LineKinds
  <2>3. r[i - 1].kind \in Jumps \cup {"gap"}
    BY <1>2, <1>5, <2>2, Neighbours
  <2>4. CASE r[i - 1].kind = "gap"
    <3>1. "in" \in Needs(r, i)
      BY <1>5, <2>1, <2>4 DEF Needs
    <3>2. NodeOf(r[i], "in") = r[i].in
      BY DEF NodeOf
    <3>3. QED
      BY <1>5, <3>1, <3>2
  <2>5. CASE r[i - 1].kind \in Jumps
    <3>1. "landing" \in Needs(r, i - 1)
      BY <2>5 DEF Needs
    <3>2. NodeOf(r[i - 1], "landing") = r[i - 1].dst
      BY DEF NodeOf
    <3>3. r[i - 1].dst = r[i].in
      BY <2>2, <2>5 DEF Follows
    <3>4. QED
      BY <1>5, <2>2, <3>1, <3>2, <3>3
  <2>6. QED
    BY <2>3, <2>4, <2>5
<1>6. QED
  BY <1>1, <1>2, <1>3, <1>4, <1>5 DEF Uses, Jumps

\* What a fragment owns it uses.
LEMMA OwnedUsed ==
    ASSUME NEW r \in Seq(Good)
    PROVE  RouteOwned(r) \subseteq RouteUses(r)
<1> SUFFICES ASSUME NEW i \in 1..Len(r) PROVE Owned(r[i]) \subseteq Uses(r[i])
  BY DEF RouteOwned, RouteUses
<1>1. r[i].kind \in {"out", "hop", "ground", "pin", "gap"}
  BY GoodFragment
<1>2. QED
  BY <1>1 DEF Owned, OwnedLanding, Uses, Jumps

-----------------------------------------------------------------------------
(* Transfer                                                                *)

\* The flags after a transfer.
LEMMA TransferFlags ==
    ASSUME NEW r \in Seq(Good), NEW q \in Seq(Good), NEW k, k = CommonLength(r, q)
    PROVE  /\ \A i \in 1..Len(r) :
                /\ r[i].kind = "gap" => Given(r, q, k, i) = r[i]
                /\ i <= k /\ r[i].kind # "gap" => Given(r, q, k, i).shared /\ ~Given(r, q, k, i).ownsLanding
                /\ i > k => /\ Given(r, q, k, i).shared = r[i].shared
                            /\ Given(r, q, k, i).ownsLanding = r[i].ownsLanding
                            /\ i = k + 1 /\ LandingMoves(r, q, k) => ~Given(r, q, k, i).ownsDst
                            /\ ~(i = k + 1 /\ LandingMoves(r, q, k)) => Given(r, q, k, i) = r[i]
           /\ \A i \in 1..Len(q) :
                /\ i > k => Taken(r, q, k, i) = q[i]
                /\ i <= k /\ r[i].kind = "gap" => Taken(r, q, k, i) = q[i]
                /\ i <= k /\ r[i].kind # "gap" =>
                      /\ Taken(r, q, k, i).shared = (q[i].shared /\ r[i].shared)
                      /\ Taken(r, q, k, i).ownsDst = (q[i].ownsDst \/ (~r[i].shared /\ r[i].ownsDst))
                      /\ Taken(r, q, k, i).ownsLanding =
                            (q[i].ownsLanding \/ r[i].ownsLanding \/ (i = k /\ LandingMoves(r, q, k)))
<1>1. k \in Nat /\ \A i \in 1..Len(r) : r[i] \in Fragment
  BY Common, GoodFragment
<1>2. \A i \in 1..Len(q) : q[i] \in Fragment
  BY GoodFragment
<1>3. ASSUME NEW i \in 1..Len(r)
      PROVE  /\ r[i].kind = "gap" => Given(r, q, k, i) = r[i]
             /\ i <= k /\ r[i].kind # "gap" => Given(r, q, k, i).shared /\ ~Given(r, q, k, i).ownsLanding
             /\ i > k => /\ Given(r, q, k, i).shared = r[i].shared
                         /\ Given(r, q, k, i).ownsLanding = r[i].ownsLanding
                         /\ i = k + 1 /\ LandingMoves(r, q, k) => ~Given(r, q, k, i).ownsDst
                         /\ ~(i = k + 1 /\ LandingMoves(r, q, k)) => Given(r, q, k, i) = r[i]
  <2>1. r[i] \in Fragment /\ i \in Nat /\ k \in Nat
    BY <1>1
  <2>2. CASE i <= k /\ r[i].kind # "gap"
    <3>1. Given(r, q, k, i) = [r[i] EXCEPT !.ownsLanding = FALSE, !.shared = TRUE]
      BY <2>2 DEF Given
    <3>2. Given(r, q, k, i).shared /\ ~Given(r, q, k, i).ownsLanding
      BY <2>1, <3>1 DEF Fragment
    <3>3. ~(i > k)
      BY <2>1, <2>2
    <3>4. QED
      BY <2>2, <3>2, <3>3
  <2>3. CASE ~(i <= k /\ r[i].kind # "gap") /\ i = k + 1 /\ LandingMoves(r, q, k)
    <3>1. Given(r, q, k, i) = [r[i] EXCEPT !.ownsDst = FALSE]
      BY <2>3 DEF Given
    <3>2. r[i].kind # "gap"
      BY <2>3 DEF LandingMoves
    <3>3. /\ Given(r, q, k, i).shared = r[i].shared /\ ~Given(r, q, k, i).ownsDst
          /\ Given(r, q, k, i).ownsLanding = r[i].ownsLanding
      BY <2>1, <3>1 DEF Fragment
    <3>4. QED
      BY <2>1, <2>3, <3>2, <3>3
  <2>4. CASE ~(i <= k /\ r[i].kind # "gap") /\ ~(i = k + 1 /\ LandingMoves(r, q, k))
    <3>1. Given(r, q, k, i) = r[i]
      BY <2>4 DEF Given
    <3>2. QED
      BY <2>1, <2>4, <3>1
  <2>5. QED
    BY <2>2, <2>3, <2>4
<1>4. ASSUME NEW i \in 1..Len(q)
      PROVE  /\ i > k => Taken(r, q, k, i) = q[i]
             /\ i <= k /\ r[i].kind = "gap" => Taken(r, q, k, i) = q[i]
             /\ i <= k /\ r[i].kind # "gap" =>
                   /\ Taken(r, q, k, i).shared = (q[i].shared /\ r[i].shared)
                   /\ Taken(r, q, k, i).ownsDst = (q[i].ownsDst \/ (~r[i].shared /\ r[i].ownsDst))
                   /\ Taken(r, q, k, i).ownsLanding =
                         (q[i].ownsLanding \/ r[i].ownsLanding \/ (i = k /\ LandingMoves(r, q, k)))
  <2>1. q[i] \in Fragment /\ i \in Nat
    BY <1>2
  <2>2. CASE i > k \/ r[i].kind = "gap"
    BY <1>1, <2>1, <2>2 DEF Taken
  <2>3. CASE ~(i > k \/ r[i].kind = "gap")
    <3> DEFINE sh == q[i].shared /\ r[i].shared
               od == q[i].ownsDst \/ (~r[i].shared /\ r[i].ownsDst)
               ol == q[i].ownsLanding \/ r[i].ownsLanding \/ (i = k /\ LandingMoves(r, q, k))
    <3>1. Taken(r, q, k, i) = [q[i] EXCEPT !.ownsLanding = ol, !.shared = sh, !.ownsDst = od]
      BY <2>1, <2>3 DEF Taken, Fragment
    <3> HIDE DEF sh, od, ol
    <3>2. /\ Taken(r, q, k, i).shared = sh /\ Taken(r, q, k, i).ownsDst = od
          /\ Taken(r, q, k, i).ownsLanding = ol
      BY <2>1, <3>1 DEF Fragment
    <3>3. QED
      BY <2>3, <3>2 DEF sh, od, ol
  <2>4. QED
    BY <2>2, <2>3
<1>5. QED
  BY <1>3, <1>4

\* r2 and q2 are r and its sibling q after q took over what r owns in front.
Moved(r, q, r2, q2) ==
    /\ r2 = TransferPrefix(r, q).removed /\ q2 = TransferPrefix(r, q).sibling

\* What a transfer makes of the two routes, fragment by fragment.
LEMMA MovedIs ==
    ASSUME NEW r \in Seq(Good), NEW q \in Seq(Good), NEW r2, NEW q2, Moved(r, q, r2, q2),
           NEW k, k = CommonLength(r, q)
    PROVE  /\ k \in Nat /\ Agree(r, q, k) /\ r2 \in Seq(Good) /\ q2 \in Seq(Good)
           /\ Len(r2) = Len(r) /\ \A i \in 1..Len(r) : r2[i] = Given(r, q, k, i) /\ SamePhysicalFragment(r[i], r2[i])
           /\ Len(q2) = Len(q) /\ \A i \in 1..Len(q) : q2[i] = Taken(r, q, k, i) /\ SamePhysicalFragment(q[i], q2[i])
<1>1. k \in Nat /\ Agree(r, q, k)
  BY Common
<1> DEFINE g == [i \in 1..Len(r) |-> Given(r, q, k, i)]
           t == [i \in 1..Len(q) |-> Taken(r, q, k, i)]
<1>2. r2 = g /\ q2 = t
  BY DEF Moved, TransferPrefix
<1>3. r2 \in Seq(Good) /\ q2 \in Seq(Good) /\ SameFabric(r, r2) /\ SameFabric(q, q2)
  BY TransferKeeps DEF Moved
<1>4. QED
  BY <1>1, <1>2, <1>3 DEF SameFabric

\* The sibling gives what it gave.
LEMMA SiblingGains ==
    ASSUME NEW r \in Seq(Good), NEW q \in Seq(Good), NEW r2, NEW q2, Moved(r, q, r2, q2),
           NEW i \in 1..Len(q), NEW w, Gives(q, i, w)
    PROVE  Gives(q2, i, w)
<1> DEFINE k == CommonLength(r, q)
<1>1. /\ k \in Nat /\ Len(q) \in Nat /\ i \in Nat /\ Len(q2) = Len(q)
      /\ \A j \in 1..Len(q) : q2[j] = Taken(r, q, k, j) /\ q2[j].kind = q[j].kind
  BY MovedIs DEF SamePhysicalFragment
<1> HIDE DEF k
<1>2. ASSUME NEW j \in 1..Len(q)
      PROVE  /\ q2[j].kind = q[j].kind
             /\ ~q[j].shared => ~q2[j].shared
             /\ q[j].ownsDst => q2[j].ownsDst
             /\ q[j].ownsLanding => q2[j].ownsLanding
  <2>1. j \in Nat
    OBVIOUS
  <2>2. CASE j <= k /\ r[j].kind # "gap"
    <3>1. /\ q2[j].shared = (q[j].shared /\ r[j].shared)
          /\ q2[j].ownsDst = (q[j].ownsDst \/ (~r[j].shared /\ r[j].ownsDst))
          /\ q2[j].ownsLanding = (q[j].ownsLanding \/ r[j].ownsLanding \/ (j = k /\ LandingMoves(r, q, k)))
      BY <1>1, <2>2, TransferFlags DEF k
    <3>2. QED
      BY <1>1, <3>1
  <2>3. CASE ~(j <= k /\ r[j].kind # "gap")
    <3>1. q2[j] = q[j]
      BY <1>1, <2>1, <2>3, TransferFlags DEF k
    <3>2. QED
      BY <3>1
  <2>4. QED
    BY <2>2, <2>3
<1>3. \A j \in 1..Len(q) : OwnsIn(q[j]) => OwnsIn(q2[j])
  BY <1>2 DEF OwnsIn
<1>4. i < Len(q) => i + 1 \in 1..Len(q)
  BY <1>1
<1>5. CASE w = "src"
  BY <1>2, <1>5 DEF Gives
<1>6. CASE w = "in"
  BY <1>2, <1>3, <1>6 DEF Gives
<1>7. CASE w = "landing"
  BY <1>1, <1>2, <1>3, <1>4, <1>7 DEF Gives
<1>8. QED
  BY <1>5, <1>6, <1>7 DEF Gives

\* The removed route gives what it still owns only.
LEMMA RemovedLoses ==
    ASSUME NEW r \in Seq(Good), NEW q \in Seq(Good), NEW r2, NEW q2, Moved(r, q, r2, q2),
           NEW i \in 1..Len(r), NEW w, Gives(r2, i, w)
    PROVE  Gives(r, i, w)
<1> DEFINE k == CommonLength(r, q)
<1>1. /\ k \in Nat /\ Len(r) \in Nat /\ i \in Nat /\ Len(r2) = Len(r)
      /\ \A j \in 1..Len(r) : r2[j] = Given(r, q, k, j) /\ r2[j].kind = r[j].kind
  BY MovedIs DEF SamePhysicalFragment
<1> HIDE DEF k
<1>2. ASSUME NEW j \in 1..Len(r)
      PROVE  /\ r2[j].kind = r[j].kind
             /\ ~r2[j].shared => ~r[j].shared
             /\ r2[j].ownsDst /\ ~r2[j].shared => r[j].ownsDst
             /\ r2[j].ownsLanding => r[j].ownsLanding
  <2>1. j \in Nat
    OBVIOUS
  <2>2. CASE r[j].kind = "gap"
    <3>1. r2[j] = r[j]
      BY <1>1, <2>2, TransferFlags DEF k
    <3>2. QED
      BY <3>1
  <2>3. CASE j <= k /\ r[j].kind # "gap"
    BY <1>1, <2>3, TransferFlags DEF k
  <2>4. CASE j > k
    BY <1>1, <2>4, TransferFlags DEF k
  <2>5. QED
    BY <1>1, <2>1, <2>2, <2>3, <2>4
<1>3. \A j \in 1..Len(r) : OwnsIn(r2[j]) => OwnsIn(r[j])
  BY <1>2 DEF OwnsIn
<1>4. i < Len(r) => i + 1 \in 1..Len(r)
  BY <1>1
<1>5. CASE w = "src"
  BY <1>2, <1>5 DEF Gives
<1>6. CASE w = "in"
  BY <1>2, <1>3, <1>6 DEF Gives
<1>7. CASE w = "landing"
  BY <1>1, <1>2, <1>3, <1>4, <1>7 DEF Gives
<1>8. QED
  BY <1>5, <1>6, <1>7 DEF Gives

\* In the common prefix the sibling gives what the removed route gave.
LEMMA SiblingTakes ==
    ASSUME NEW r \in Seq(Good), Linked(r), NEW q \in Seq(Good), NEW r2, NEW q2, Moved(r, q, r2, q2),
           NEW i \in 1..Len(r), i <= CommonLength(r, q), NEW w, Gives(r, i, w)
    PROVE  i \in 1..Len(q) /\ Gives(q2, i, w)
<1> DEFINE k == CommonLength(r, q)
<1>1. /\ k \in Nat /\ Len(r) \in Nat /\ Len(q) \in Nat /\ i \in Nat /\ Len(q2) = Len(q) /\ Agree(r, q, k)
      /\ \A j \in 1..Len(q) : q2[j] = Taken(r, q, k, j) /\ q2[j].kind = q[j].kind
      /\ i <= k
  BY MovedIs DEF SamePhysicalFragment
<1> HIDE DEF k
<1>a. k <= Len(q) /\ k <= Len(r) /\ \A j \in 1..k : SamePhysicalFragment(r[j], q[j])
  BY <1>1 DEF Agree
<1>2. ASSUME NEW j \in 1..k, r[j].kind # "gap"
      PROVE  /\ j \in 1..Len(q) /\ q2[j].kind = r[j].kind
             /\ ~r[j].shared => ~q2[j].shared
             /\ ~r[j].shared /\ r[j].ownsDst => q2[j].ownsDst
             /\ r[j].ownsLanding \/ (j = k /\ LandingMoves(r, q, k)) => q2[j].ownsLanding
  <2>1. j \in Nat /\ j <= k /\ j \in 1..Len(q)
    BY <1>1, <1>a
  <2>2. /\ q2[j].shared = (q[j].shared /\ r[j].shared)
        /\ q2[j].ownsDst = (q[j].ownsDst \/ (~r[j].shared /\ r[j].ownsDst))
        /\ q2[j].ownsLanding = (q[j].ownsLanding \/ r[j].ownsLanding \/ (j = k /\ LandingMoves(r, q, k)))
    BY <1>1, <1>2, <2>1, TransferFlags DEF k
  <2>3. q2[j].kind = r[j].kind
    BY <1>1, <1>a, <2>1 DEF SamePhysicalFragment
  <2>4. QED
    BY <2>1, <2>2, <2>3
<1>3. \A j \in 1..k : OwnsIn(r[j]) => OwnsIn(q2[j])
  BY <1>2 DEF OwnsIn
<1>4. i \in 1..k /\ i \in 1..Len(q) /\ r[i].kind # "gap"
  <2>1. i \in 1..k /\ i \in 1..Len(q)
    BY <1>1, <1>a
  <2>2. r[i].kind # "gap"
    BY DEF Gives, OwnsIn, Jumps
  <2>3. QED
    BY <2>1, <2>2
<1>5. CASE w = "src"
  BY <1>2, <1>4, <1>5 DEF Gives
<1>6. CASE w = "in"
  BY <1>2, <1>3, <1>4, <1>6 DEF Gives
<1>7. CASE w = "landing" /\ r[i].ownsLanding
  BY <1>2, <1>4, <1>7 DEF Gives
<1>8. CASE w = "landing" /\ ~r[i].ownsLanding /\ i < k
  <2>1. r[i].kind \in Jumps /\ OwnsIn(r[i + 1])
    BY <1>8 DEF Gives
  <2>2. i + 1 \in 1..k /\ i < Len(q)
    BY <1>1, <1>a, <1>8
  <2>3. OwnsIn(q2[i + 1]) /\ q2[i].kind \in Jumps
    BY <1>2, <1>3, <1>4, <2>1, <2>2
  <2>4. QED
    BY <1>1, <1>4, <1>8, <2>2, <2>3 DEF Gives
<1>9. CASE w = "landing" /\ ~r[i].ownsLanding /\ i = k
  <2>1. r[i].kind \in Jumps /\ i < Len(r) /\ OwnsIn(r[i + 1])
    BY <1>9 DEF Gives
  <2>2. i \in 1..(Len(r) - 1)
    BY <1>1, <2>1
  <2>3. r[i].dst = r[i + 1].in
    BY <2>1, <2>2 DEF Linked, Follows
  <2>4. q[k].kind = r[k].kind /\ q[k].dst = r[k].dst
    BY <1>4, <1>9, <1>a DEF SamePhysicalFragment
  <2>5. LandingMoves(r, q, k)
    BY <1>1, <1>9, <2>1, <2>3, <2>4 DEF LandingMoves, OwnsIn
  <2>6. q2[i].kind \in Jumps /\ q2[i].ownsLanding
    BY <1>2, <1>4, <1>9, <2>1, <2>5
  <2>7. QED
    BY <1>4, <1>9, <2>6 DEF Gives
<1>10. QED
  BY <1>1, <1>5, <1>6, <1>7, <1>8, <1>9 DEF Gives

\* There the removed route gives nothing any more.
LEMMA RemovedGivesNone ==
    ASSUME NEW r \in Seq(Good), Linked(r), NEW q \in Seq(Good), NEW r2, NEW q2, Moved(r, q, r2, q2),
           NEW i \in 1..Len(r), i <= CommonLength(r, q), NEW w
    PROVE  ~Gives(r2, i, w)
<1> DEFINE k == CommonLength(r, q)
<1>1. /\ k \in Nat /\ Len(r) \in Nat /\ i \in Nat /\ Len(r2) = Len(r) /\ Agree(r, q, k)
      /\ \A j \in 1..Len(r) : r2[j] = Given(r, q, k, j) /\ r2[j].kind = r[j].kind
      /\ i <= k
  BY MovedIs DEF SamePhysicalFragment
<1> HIDE DEF k
<1>2. ASSUME NEW j \in 1..Len(r), j <= k, r[j].kind # "gap" PROVE r2[j].shared /\ ~r2[j].ownsLanding
  BY <1>1, <1>2, TransferFlags DEF k
<1>3. ASSUME Gives(r2, i, w) PROVE FALSE
  <2>1. r[i].kind # "gap"
    BY <1>1, <1>3 DEF Gives, OwnsIn, Jumps
  <2>2. r2[i].shared /\ ~r2[i].ownsLanding
    BY <1>1, <1>2, <2>1
  <2>3. w = "landing" /\ r2[i].kind \in Jumps /\ i < Len(r) /\ OwnsIn(r2[i + 1])
    BY <1>1, <1>3, <2>2 DEF Gives, OwnsIn
  <2>4. i + 1 \in 1..Len(r) /\ r2[i + 1].kind # "gap" /\ ~r2[i + 1].shared
    BY <1>1, <2>3 DEF OwnsIn
  <2>5. i = k
    BY <1>1, <1>2, <2>4
  <2>6. Gives(r, i, w)
    BY <1>3, RemovedLoses
  <2>7. Gives(r2, i, w) /\ r[i].kind \in Jumps /\ i + 1 > k /\ i + 1 = k + 1
    BY <1>1, <1>3, <2>3, <2>5
  <2>8. LandingMoves(r, q, k)
    <3>1. ~LandingMoves(r, q, k) => r2[i + 1] = r[i + 1]
      BY <1>1, <2>4, <2>7, TransferFlags DEF k
    <3>2. SUFFICES ASSUME r2[i + 1] = r[i + 1] PROVE LandingMoves(r, q, k)
      BY <3>1
    <3>3. r[i].dst = r[i + 1].in
      <4>1. i \in 1..(Len(r) - 1)
        BY <1>1, <2>3
      <4>2. QED
        BY <2>7, <4>1 DEF Linked, Follows
    <3>4. SamePhysicalFragment(r[k], q[k])
      BY <1>1, <2>5 DEF Agree
    <3>5. QED
      BY <1>1, <2>3, <2>5, <2>7, <3>2, <3>3, <3>4 DEF LandingMoves, OwnsIn, SamePhysicalFragment
  <2>9. ~r2[i + 1].ownsDst
    BY <1>1, <2>4, <2>7, <2>8, TransferFlags DEF k
  <2>10. QED
    BY <2>3, <2>9 DEF OwnsIn
<1>4. QED
  BY <1>3

\* Behind it the removed route gives what is needed as before.
LEMMA RemovedKeeps ==
    ASSUME NEW r \in Seq(Good), NEW q \in Seq(Good), NEW r2, NEW q2, Moved(r, q, r2, q2),
           NEW i \in 1..Len(r), i > CommonLength(r, q), NEW w \in Needs(r, i), Gives(r, i, w)
    PROVE  Gives(r2, i, w)
<1> DEFINE k == CommonLength(r, q)
<1>1. /\ k \in Nat /\ Len(r) \in Nat /\ i \in Nat /\ Len(r2) = Len(r) /\ Agree(r, q, k)
      /\ \A j \in 1..Len(r) : r2[j] = Given(r, q, k, j) /\ r2[j].kind = r[j].kind
      /\ i > k
  BY MovedIs DEF SamePhysicalFragment
<1> HIDE DEF k
<1>2. r2[i].shared = r[i].shared /\ r2[i].ownsLanding = r[i].ownsLanding
  BY <1>1, TransferFlags DEF k
<1>3. i < Len(r) => r2[i + 1] = r[i + 1]
  <2> SUFFICES ASSUME i < Len(r) PROVE r2[i + 1] = r[i + 1]
    OBVIOUS
  <2>1. i + 1 \in 1..Len(r) /\ i + 1 > k /\ i + 1 # k + 1
    BY <1>1
  <2>2. QED
    BY <1>1, <2>1, TransferFlags DEF k
<1>4. w = "in" => r2[i] = r[i]
  <2> SUFFICES ASSUME w = "in", r2[i] # r[i] PROVE FALSE
    OBVIOUS
  <2>1. i = k + 1 /\ LandingMoves(r, q, k)
    BY <1>1, TransferFlags DEF k
  <2>2. i - 1 = k /\ k \in 1..k /\ SamePhysicalFragment(r[k], q[k])
    BY <1>1, <2>1 DEF Agree, LandingMoves
  <2>3. r[i - 1].kind \in Jumps /\ r[i].kind \in {"hop", "ground"}
    BY <2>1, <2>2 DEF LandingMoves, SamePhysicalFragment
  <2>4. QED
    BY <2>3, NeedFacts DEF Jumps
<1>5. QED
  BY <1>1, <1>2, <1>3, <1>4 DEF Gives

\* Routes of the same fabric agree everywhere.
LEMMA SameFabricAgree ==
    ASSUME NEW r \in Seq(Good), NEW q \in Seq(Good), SameFabric(r, q), NEW i \in 1..Len(r)
    PROVE  Agree(r, q, i) /\ Agree(q, r, i) /\ i \in 1..Len(q) /\ i \in Nat
<1>1. Len(r) \in Nat /\ Len(q) = Len(r) /\ \A j \in 1..i : j \in 1..Len(r)
  BY DEF SameFabric
<1>2. QED
  BY <1>1 DEF Agree, SameFabric, SamePhysicalFragment

-----------------------------------------------------------------------------
(* Promotion keeps every route held                                        *)

Threaded(rt) == \A d \in Bindings : Linked(rt[d])

\* What hand-over does to the two routes and to the others.
LEMMA HandOverIs ==
    ASSUME NEW rt \in Routes, NEW b \in Bindings, NEW c \in Bindings, b # c
    PROVE  /\ Moved(rt[b], rt[c], HandOver(rt, b, c)[b], HandOver(rt, b, c)[c])
           /\ \A e \in Bindings : e # b /\ e # c => HandOver(rt, b, c)[e] = rt[e]
BY DEF HandOver, Moved, Routes

\* A need that b met in front of a hand-over to c is met by c, or still by b.
LEMMA HandOverBacks ==
    ASSUME NEW rt \in Routes, Threaded(rt), NEW b \in Bindings, NEW c \in Bindings, b # c,
           NEW r \in Seq(Good), NEW i \in 1..Len(r), NEW w \in Needs(r, i),
           NEW e \in Bindings, Backs(rt[e], r, i, w)
    PROVE  \/ Backs(HandOver(rt, b, c)[e], r, i, w)
           \/ e = b /\ i <= CommonLength(rt[b], rt[c]) /\ Backs(HandOver(rt, b, c)[c], r, i, w)
<1> DEFINE rt2 == HandOver(rt, b, c)
<1>1. rt2 \in Routes /\ \A d \in Bindings : SameFabric(rt[d], rt2[d])
  BY HandOverKeeps
<1>2. \A d \in Bindings : rt[d] \in Seq(Good) /\ rt2[d] \in Seq(Good) /\ Linked(rt[d])
  BY <1>1 DEF Routes, Threaded
<1>3. Moved(rt[b], rt[c], rt2[b], rt2[c]) /\ \A d \in Bindings : d # b /\ d # c => rt2[d] = rt[d]
  BY HandOverIs
<1> HIDE DEF rt2
<1>4. i \in Nat /\ Agree(r, rt[e], i) /\ Gives(rt[e], i, w)
  BY DEF Backs
<1>5. i \in 1..Len(rt[e]) /\ Agree(rt[e], rt2[e], i)
  BY <1>1, <1>2, <1>4, AgreeFacts, SameFabricAgree
<1>6. Agree(r, rt2[e], i)
  BY <1>2, <1>4, <1>5, AgreeFacts
<1>7. Needs(rt[e], i) = Needs(r, i)
  BY <1>2, <1>4, NeedsAgree
<1>8. CASE e # b /\ e # c
  BY <1>3, <1>8 DEF rt2
<1>9. CASE e = c
  <2>1. Gives(rt2[e], i, w)
    BY <1>2, <1>3, <1>4, <1>5, <1>9, SiblingGains
  <2>2. QED
    BY <1>6, <2>1 DEF Backs, rt2
<1>10. CASE e = b /\ i > CommonLength(rt[b], rt[c])
  <2>1. Gives(rt2[e], i, w)
    BY <1>2, <1>3, <1>4, <1>5, <1>7, <1>10, RemovedKeeps
  <2>2. QED
    BY <1>6, <2>1 DEF Backs, rt2
<1>11. CASE e = b /\ i <= CommonLength(rt[b], rt[c])
  <2>1. i \in 1..Len(rt[c]) /\ Gives(rt2[c], i, w)
    BY <1>2, <1>3, <1>4, <1>5, <1>11, SiblingTakes
  <2>2. Agree(rt[b], rt[c], i)
    BY <1>2, <1>4, <1>11, Common
  <2>3. Agree(rt[c], rt2[c], i)
    BY <1>1, <1>2, <2>1, SameFabricAgree
  <2>4. Agree(r, rt2[c], i)
    BY <1>2, <1>4, <1>11, <2>2, <2>3, AgreeFacts
  <2>5. QED
    BY <1>11, <2>1, <2>4 DEF Backs, rt2
<1>12. CommonLength(rt[b], rt[c]) \in Nat
  BY <1>2, Common
<1>13. QED
  BY <1>4, <1>8, <1>9, <1>10, <1>11, <1>12

\* A hand-over leaves every used node owned by a replica that agrees with its
\* user.
LEMMA HandOverHeld ==
    ASSUME NEW rt \in Routes, Threaded(rt), Held(rt), NEW b \in Bindings, NEW c \in Bindings, b # c,
           SourceOf[c] = SourceOf[b]
    PROVE  Held(HandOver(rt, b, c)) /\ Threaded(HandOver(rt, b, c))
<1> DEFINE rt2 == HandOver(rt, b, c)
<1>1. rt2 \in Routes /\ \A d \in Bindings : SameFabric(rt[d], rt2[d])
  BY HandOverKeeps
<1>2. \A d \in Bindings : rt[d] \in Seq(Good) /\ rt2[d] \in Seq(Good) /\ Linked(rt[d])
  BY <1>1 DEF Routes, Threaded
<1> HIDE DEF rt2
<1>3. ASSUME NEW d \in Bindings, NEW i \in 1..Len(rt2[d]), NEW w \in Needs(rt2[d], i)
      PROVE  \E e \in Siblings(d) : Backs(rt2[e], rt2[d], i, w)
  <2>1. SameFabric(rt2[d], rt[d])
    BY <1>1, SameFabricFacts
  <2>2. /\ Agree(rt2[d], rt[d], i) /\ Agree(rt[d], rt2[d], i) /\ i \in 1..Len(rt[d]) /\ i \in Nat
    BY <1>2, <2>1, SameFabricAgree
  <2>3. w \in Needs(rt[d], i)
    BY <1>2, <2>2, NeedsAgree
  <2>4. PICK e \in Siblings(d) : Backs(rt[e], rt[d], i, w)
    BY <2>2, <2>3 DEF Held
  <2>5. e \in Bindings /\ Agree(rt[d], rt[e], i) /\ Gives(rt[e], i, w)
    BY <2>4 DEF Siblings, Backs
  <2>6. Agree(rt2[d], rt[e], i)
    BY <1>2, <2>2, <2>5, AgreeFacts
  <2>7. Backs(rt[e], rt2[d], i, w)
    BY <2>5, <2>6 DEF Backs
  <2>8. Backs(rt2[e], rt2[d], i, w) \/ (e = b /\ Backs(rt2[c], rt2[d], i, w))
    BY <1>2, <2>5, <2>7, HandOverBacks DEF rt2
  <2>9. e = b => c \in Siblings(d)
    BY <2>4 DEF Siblings
  <2>10. QED
    BY <2>4, <2>8, <2>9
<1>4. Threaded(rt2)
  <2> SUFFICES ASSUME NEW d \in Bindings, NEW i \in 1..(Len(rt2[d]) - 1)
               PROVE  Follows(rt2[d][i], rt2[d][i + 1])
    BY DEF Threaded, Linked
  <2>1. SameFabric(rt[d], rt2[d]) /\ Linked(rt[d]) /\ Len(rt2[d]) \in Nat
    BY <1>1, <1>2
  <2>2. i \in 1..Len(rt[d]) /\ i + 1 \in 1..Len(rt[d]) /\ i \in 1..(Len(rt[d]) - 1)
    BY <2>1 DEF SameFabric
  <2>3. QED
    BY <2>1, <2>2, FollowsFabric DEF SameFabric, Linked
<1>5. QED
  BY <1>3, <1>4 DEF Held, rt2

Ends == {"src", "landing", "in"}

\* Nothing that b still owns stands where c has the same fabric.
Spent(rt, b, c) ==
    \A i \in 1..Len(rt[b]) : Agree(rt[b], rt[c], i) => \A w \in Ends : ~Gives(rt[b], i, w)

\* After a hand-over to c nothing of b is left that c could take, and what is
\* spent for a sibling stays spent.
LEMMA HandOverSpends ==
    ASSUME NEW rt \in Routes, Threaded(rt), NEW b \in Bindings, NEW c \in Bindings, b # c
    PROVE  /\ Spent(HandOver(rt, b, c), b, c)
           /\ \A d \in Bindings \ {b} : Spent(rt, b, d) => Spent(HandOver(rt, b, c), b, d)
<1> DEFINE rt2 == HandOver(rt, b, c)
<1>1. rt2 \in Routes /\ \A d \in Bindings : SameFabric(rt[d], rt2[d])
  BY HandOverKeeps
<1>2. \A d \in Bindings : rt[d] \in Seq(Good) /\ rt2[d] \in Seq(Good) /\ Linked(rt[d])
  BY <1>1 DEF Routes, Threaded
<1>3. Moved(rt[b], rt[c], rt2[b], rt2[c])
  BY HandOverIs
<1> HIDE DEF rt2
<1>4. ASSUME NEW d \in Bindings, NEW i \in 1..Len(rt2[b]), Agree(rt2[b], rt2[d], i)
      PROVE  i \in 1..Len(rt[b]) /\ i \in Nat /\ Agree(rt[b], rt[d], i)
  <2>1. SameFabric(rt2[b], rt[b]) /\ SameFabric(rt2[d], rt[d])
    BY <1>1, SameFabricFacts
  <2>2. /\ Agree(rt[b], rt2[b], i) /\ i \in 1..Len(rt[b]) /\ i \in Nat
        /\ i \in 1..Len(rt2[d])
    BY <1>2, <1>4, <2>1, SameFabricAgree, AgreeFacts
  <2>3. Agree(rt2[d], rt[d], i)
    BY <1>2, <2>1, <2>2, SameFabricAgree
  <2>4. Agree(rt[b], rt2[d], i)
    BY <1>2, <1>4, <2>2, AgreeFacts
  <2>5. QED
    BY <1>2, <2>2, <2>3, <2>4, AgreeFacts
<1>5. Spent(rt2, b, c)
  <2> SUFFICES ASSUME NEW i \in 1..Len(rt2[b]), Agree(rt2[b], rt2[c], i), NEW w \in Ends
               PROVE  ~Gives(rt2[b], i, w)
    BY DEF Spent
  <2>1. i \in 1..Len(rt[b]) /\ i \in Nat /\ Agree(rt[b], rt[c], i)
    BY <1>4
  <2>2. i <= CommonLength(rt[b], rt[c])
    BY <1>2, <2>1, Common
  <2>3. QED
    BY <1>2, <1>3, <2>1, <2>2, RemovedGivesNone
<1>6. ASSUME NEW d \in Bindings \ {b}, Spent(rt, b, d) PROVE Spent(rt2, b, d)
  <2> SUFFICES ASSUME NEW i \in 1..Len(rt2[b]), Agree(rt2[b], rt2[d], i), NEW w \in Ends
               PROVE  ~Gives(rt2[b], i, w)
    BY DEF Spent
  <2>1. i \in 1..Len(rt[b]) /\ Agree(rt[b], rt[d], i)
    BY <1>4
  <2>2. ~Gives(rt[b], i, w)
    BY <1>6, <2>1 DEF Spent
  <2>3. QED
    BY <1>2, <1>3, <2>1, <2>2, RemovedLoses
<1>7. QED
  BY <1>5, <1>6 DEF rt2

\* A promotion keeps every route held, reaches the siblings only, and leaves
\* the promoted route nothing where a visited sibling has the same fabric.
LEMMA Promoted ==
    ASSUME NEW st \in States, Threaded(st.route), Held(st.route), NEW b \in Bindings, NEW excluded,
           st.route[b] # <<>>
    PROVE  /\ Threaded(Promote(st, b, excluded).route) /\ Held(Promote(st, b, excluded).route)
           /\ \A d \in Bindings : d \notin Siblings(b) => Promote(st, b, excluded).route[d] = st.route[d]
           /\ \A k \in 1..Turns : Visited(st, b, excluded, k) =>
                 Spent(Promote(st, b, excluded).route, b, AtTurn(k))
<1>1. PICK w \in [0..Turns -> Routes] : Promotes(st, b, excluded, w)
  BY Promoting DEF States
<1>2. /\ w[0] = st.route
      /\ \A k \in 1..Turns : w[k] = IF Visited(st, b, excluded, k) THEN HandOver(w[k - 1], b, AtTurn(k))
                                    ELSE w[k - 1]
      /\ Promote(st, b, excluded) = [st EXCEPT !.route = w[Turns]]
  BY <1>1 DEF Promotes
<1>3. Promote(st, b, excluded).route = w[Turns]
  BY <1>2 DEF States
<1> DEFINE V(k) == Visited(st, b, excluded, k)
           Ok(k) == /\ Threaded(w[k]) /\ Held(w[k])
                    /\ \A d \in Bindings : d \notin Siblings(b) => w[k][d] = st.route[d]
                    /\ \A j \in 1..Turns : j <= k /\ V(j) => Spent(w[k], b, AtTurn(j))
           T == {k \in Nat : k <= Turns => Ok(k)}
<1>4. Turns \in Nat /\ \A k \in 1..Turns : AtTurn(k) \in Bindings
  BY TurnsFacts
<1>5. \A k \in 1..Turns : V(k) => AtTurn(k) \in Siblings(b) /\ AtTurn(k) # b
  BY DEF Visited
<1> HIDE DEF V
<1>6. 0 \in T
  BY <1>2
<1>7. ASSUME NEW k \in Nat, k \in T PROVE k + 1 \in T
  <2> SUFFICES ASSUME k + 1 <= Turns PROVE Ok(k + 1)
    OBVIOUS
  <2> DEFINE c == AtTurn(k + 1)
  <2>1. k + 1 \in 1..Turns /\ k \in 0..Turns /\ (k + 1) - 1 = k /\ Ok(k)
    BY <1>4, <1>7
  <2>2. w[k] \in Routes /\ c \in Bindings
    BY <1>4, <2>1
  <2>3. CASE ~V(k + 1)
    <3>1. w[k + 1] = w[k]
      BY <1>2, <2>1, <2>3 DEF V
    <3>2. \A j \in 1..Turns : j <= k + 1 /\ V(j) => j <= k
      BY <2>1, <2>3
    <3>3. QED
      BY <2>1, <3>1, <3>2
  <2>4. CASE V(k + 1)
    <3>1. w[k + 1] = HandOver(w[k], b, c) /\ c \in Siblings(b) /\ c # b
      BY <1>2, <1>5, <2>1, <2>4 DEF V
    <3>2. Threaded(w[k + 1]) /\ Held(w[k + 1])
      BY <2>1, <2>2, <3>1, HandOverHeld DEF Siblings
    <3>3. \A d \in Bindings : d \notin Siblings(b) => w[k + 1][d] = st.route[d]
      <4> SUFFICES ASSUME NEW d \in Bindings, d \notin Siblings(b) PROVE w[k + 1][d] = st.route[d]
        OBVIOUS
      <4>1. d # b /\ d # c
        BY <3>1 DEF Siblings
      <4>2. w[k + 1][d] = w[k][d]
        BY <2>2, <3>1, <4>1, HandOverIs
      <4>3. QED
        BY <2>1, <4>2
    <3>4. \A j \in 1..Turns : j <= k + 1 /\ V(j) => Spent(w[k + 1], b, AtTurn(j))
      <4> SUFFICES ASSUME NEW j \in 1..Turns, j <= k + 1, V(j) PROVE Spent(w[k + 1], b, AtTurn(j))
        OBVIOUS
      <4>1. CASE j = k + 1
        <5>1. Spent(HandOver(w[k], b, c), b, c)
          BY <2>1, <2>2, <3>1, HandOverSpends
        <5>2. QED
          BY <3>1, <4>1, <5>1
      <4>2. CASE j # k + 1
        <5>1. j <= k /\ AtTurn(j) \in Bindings \ {b}
          BY <1>4, <1>5, <4>2
        <5>2. Spent(w[k], b, AtTurn(j))
          BY <2>1, <5>1
        <5>3. Spent(HandOver(w[k], b, c), b, AtTurn(j))
          BY <2>1, <2>2, <3>1, <5>1, <5>2, HandOverSpends
        <5>4. QED
          BY <3>1, <5>3
      <4>3. QED
        BY <4>1, <4>2
    <3>5. QED
      BY <3>2, <3>3, <3>4
  <2>5. QED
    BY <2>3, <2>4
<1>8. Turns \in T
  <2>1. Nat \subseteq T
    <3> HIDE DEF T
    <3> QED
      BY <1>6, <1>7, Induct
  <2>2. QED
    BY <1>4, <2>1
<1>9. Ok(Turns)
  BY <1>4, <1>8
<1>10. \A k \in 1..Turns : k <= Turns
  BY <1>4
<1>11. QED
  BY <1>3, <1>9, <1>10 DEF V

\* A promotion visits every sibling in both of its rounds.
LEMMA TurnOf ==
    ASSUME NEW d \in Bindings
    PROVE  \E k \in 1..N : k \in 1..Turns /\ k + N \in 1..Turns /\ AtTurn(k) = d /\ AtTurn(k + N) = d
                           /\ k <= N /\ ~(k + N <= N)
<1>1. PICK k \in 1..N : BindingOrder[k] = d
  BY OrderFacts
<1>2. N \in Nat /\ N = Len(BindingOrder) /\ Turns = 2 * N
  BY OrderFacts DEF N, Turns
<1>3. k \in Nat /\ k <= N /\ ~(k + N <= N) /\ (k + N) - N = k /\ 1 <= k
  BY <1>2
<1>4. k \in 1..Turns /\ k + N \in 1..Turns
  BY <1>2, <1>3
<1>5. AtTurn(k) = d /\ AtTurn(k + N) = d
  BY <1>1, <1>2, <1>3 DEF AtTurn
<1>6. QED
  BY <1>3, <1>4, <1>5

\* After its promotion no sibling depends on b, if none is to be removed too.
LEMMA PromotedFree ==
    ASSUME NEW st, Regular(st), Threaded(st.route), Held(st.route), NEW b \in Bindings, NEW excluded,
           \A d \in Siblings(b) : d \in excluded => d = b
    PROVE  Free(Promote(st, b, excluded).route, b)
<1> DEFINE P == Promote(st, b, excluded).route
<1>1. /\ st \in States /\ st.reg = Entries(st.route, Bindings) /\ st.route \in Routes
  BY DEF Regular, States
<1>2. P \in Routes /\ \A d \in Bindings : SameFabric(st.route[d], P[d])
  BY <1>1, PromoteKeeps DEF States
<1>3. \A d \in Bindings : st.route[d] \in Seq(Good) /\ P[d] \in Seq(Good)
  BY <1>1, <1>2 DEF Routes
<1>4. /\ st.route[b] = <<>> => P = st.route
      /\ st.route[b] # <<>> => /\ Held(P)
                               /\ \A k \in 1..Turns : Visited(st, b, excluded, k) => Spent(P, b, AtTurn(k))
  <2>1. ASSUME st.route[b] = <<>> PROVE P = st.route
    BY <2>1 DEF Promote
  <2>2. ASSUME st.route[b] # <<>>
        PROVE  /\ Held(P)
               /\ \A k \in 1..Turns : Visited(st, b, excluded, k) => Spent(P, b, AtTurn(k))
    BY <1>1, <2>2, Promoted
  <2>3. QED
    BY <2>1, <2>2
<1>5. Held(P)
  BY <1>4
<1> HIDE DEF P
<1> SUFFICES ASSUME NEW d \in Siblings(b) \ {b}, NEW i \in 1..Len(P[d]), NEW w \in Needs(P[d], i),
                    \A e \in Siblings(d) \ {b} : ~Backs(P[e], P[d], i, w)
             PROVE  FALSE
  BY DEF Free, P
<1>6. Backs(P[b], P[d], i, w) /\ d \in Bindings
  BY <1>5 DEF Held, Siblings
<1>7. w \in Ends /\ i \in Nat /\ 1 <= i
  BY NeedFacts DEF Ends
<1>8. /\ i \in 1..Len(P[b]) /\ Agree(P[d], P[b], i) /\ Agree(P[b], P[d], i) /\ Gives(P[b], i, w)
  <2>1. Agree(P[d], P[b], i) /\ Gives(P[b], i, w)
    BY <1>6 DEF Backs
  <2>2. i \in 1..Len(P[b])
    BY <1>3, <1>6, <2>1, AgreeFacts
  <2>3. QED
    BY <1>3, <1>6, <1>7, <2>1, <2>2, AgreeFacts
<1>9. st.route[b] # <<>> /\ st.route[d] # <<>>
  <2>1. Len(P[b]) = Len(st.route[b]) /\ Len(P[d]) = Len(st.route[d])
    BY <1>2, <1>6 DEF SameFabric
  <2>2. QED
    BY <1>3, <1>6, <1>8, <2>1
<1>10. FromTile(st.route[b][1]) = FromTile(st.route[d][1]) /\ 1 \in 1..Len(st.route[d])
  <2>1. SamePhysicalFragment(P[b][1], P[d][1])
    BY <1>3, <1>6, <1>7, <1>8 DEF Agree
  <2>2. 1 \in 1..Len(P[b]) /\ 1 \in 1..Len(P[d]) /\ Len(P[d]) \in Nat
    BY <1>3, <1>6, <1>7, <1>8
  <2>3. /\ SamePhysicalFragment(st.route[b][1], P[b][1]) /\ SamePhysicalFragment(st.route[d][1], P[d][1])
        /\ 1 \in 1..Len(st.route[d])
    BY <1>2, <1>6, <2>2 DEF SameFabric
  <2>4. QED
    BY <2>1, <2>3 DEF SamePhysicalFragment, FromTile
<1>11. d \in Listed(st, FromTile(st.route[b][1]))
  <2>1. FromTile(st.route[d][1]) \in RouteTiles(st.route[d])
    BY <1>10 DEF RouteTiles, FragmentTiles
  <2>2. QED
    BY <1>1, <1>6, <1>10, <2>1, EntriesOf DEF Listed
<1>12. PICK k \in 1..N : k \in 1..Turns /\ k + N \in 1..Turns /\ AtTurn(k) = d /\ AtTurn(k + N) = d
                         /\ k <= N /\ ~(k + N <= N)
  BY <1>6, TurnOf
<1>13. Visited(st, b, excluded, k) \/ Visited(st, b, excluded, k + N)
  <2>1. d # b /\ d \notin excluded /\ d \in Siblings(b)
    OBVIOUS
  <2>2. CASE NetOf[d] = NetOf[b]
    BY <1>9, <1>12, <2>1, <2>2 DEF Visited, N
  <2>3. CASE NetOf[d] # NetOf[b]
    BY <1>9, <1>11, <1>12, <2>1, <2>3 DEF Visited, N
  <2>4. QED
    BY <2>2, <2>3
<1>14. Spent(P, b, d)
  BY <1>4, <1>9, <1>12, <1>13
<1>15. QED
  BY <1>7, <1>8, <1>14 DEF Spent

\* Whether b is depended on is a matter of its siblings' routes.
LEMMA FreeIsLocal ==
    ASSUME NEW rt, NEW rt2, NEW b \in Bindings, Free(rt, b), \A d \in Siblings(b) : rt2[d] = rt[d]
    PROVE  Free(rt2, b)
<1> SUFFICES ASSUME NEW d \in Siblings(b) \ {b}, NEW i \in 1..Len(rt2[d]), NEW w \in Needs(rt2[d], i)
             PROVE  \E e \in Siblings(d) \ {b} : Backs(rt2[e], rt2[d], i, w)
  BY DEF Free
<1>1. rt2[d] = rt[d] /\ \A e \in Siblings(d) : rt2[e] = rt[e]
  BY DEF Siblings
<1>2. PICK e \in Siblings(d) \ {b} : Backs(rt[e], rt[d], i, w)
  BY <1>1 DEF Free
<1>3. QED
  BY <1>1, <1>2

-----------------------------------------------------------------------------
(* The sound states, and what a withdrawal needs to keep them              *)

\* What a sound state is, in parts.
LEMMA SoundFacts ==
    ASSUME NEW st, Sound(st)
    PROVE  /\ Regular(st) /\ LinesOf(st) /\ Held(st.route) /\ Single(st.route) /\ Threaded(st.route)
           /\ st \in States /\ st.route \in Routes /\ st.reg = Entries(st.route, Bindings)
           /\ st.leased = AllUses(st.route)
           /\ \A b \in Bindings : st.route[b] \in Seq(Good) /\ Line(b, st.route[b]) /\ Linked(st.route[b])
BY DEF Sound, Regular, States, LinesOf, Line, Threaded, Routes

\* A used node has an owner among the siblings of its user.
LEMMA HeldOwned ==
    ASSUME NEW rt \in Routes, \A b \in Bindings : Line(b, rt[b]), Held(rt), NEW d \in Bindings,
           NEW n \in RouteUses(rt[d])
    PROVE  \E e \in Siblings(d) : n \in RouteOwned(rt[e])
<1>1. \A b \in Bindings : rt[b] \in Seq(Good) /\ Linked(rt[b])
  BY DEF Routes, Line
<1>2. PICK i \in 1..Len(rt[d]) : \E w \in Needs(rt[d], i) : n = NodeOf(rt[d][i], w)
  BY <1>1, UsesNeeds
<1>3. PICK w \in Needs(rt[d], i) : n = NodeOf(rt[d][i], w)
  BY <1>2
<1>4. PICK e \in Siblings(d) : Backs(rt[e], rt[d], i, w)
  BY DEF Held
<1>5. e \in Bindings /\ Agree(rt[d], rt[e], i) /\ Gives(rt[e], i, w)
  BY <1>4 DEF Backs, Siblings
<1>6. i \in 1..Len(rt[e]) /\ SamePhysicalFragment(rt[d][i], rt[e][i])
  BY <1>1, <1>5, AgreeFacts
<1>7. NodeOf(rt[e][i], w) = n
  BY <1>3, <1>6 DEF NodeOf, SamePhysicalFragment
<1>8. QED
  BY <1>1, <1>5, <1>6, <1>7, GivesOwns

\* A withdrawal keeps a state sound when the routes it leaves are lines and held,
\* and every lease no route uses any more is one that a removed hop refers to.
LEMMA WithdrawSound ==
    ASSUME NEW st, Sound(st), NEW rt \in Routes, \A b \in Bindings : Line(b, rt[b]), Held(rt),
           \A b \in Bindings : RouteUses(rt[b]) \subseteq RouteUses(st.route[b]),
           NEW removed, Regular(Withdraw(st, rt, removed)), Withdraw(st, rt, removed).route = rt,
           \A n \in st.leased : n \in AllUses(rt) \/ \E c \in DOMAIN removed : n \in LeaseRefs(removed[c])
    PROVE  Sound(Withdraw(st, rt, removed))
<1> DEFINE u == Withdraw(st, rt, removed)
           cut == [st EXCEPT !.route = rt]
<1>1. /\ st \in States /\ st.leased = AllUses(st.route) /\ st.reg = Entries(st.route, Bindings)
      /\ Single(st.route) /\ \A b \in Bindings : st.route[b] \in Seq(Good)
  BY SoundFacts
<1>2. cut.route = rt /\ cut.reg = st.reg
  BY <1>1 DEF States
<1>3. \A b \in Bindings : rt[b] \in Seq(Good)
  BY DEF Routes
<1>4. ASSUME NEW n \in AllUses(rt) PROVE n \in VisiblyOwned(cut)
  <2>1. PICK d \in Bindings : n \in RouteUses(rt[d])
    BY DEF AllUses
  <2>2. PICK e \in Siblings(d) : n \in RouteOwned(rt[e])
    BY <2>1, HeldOwned
  <2>3. e \in Bindings /\ n \in RouteUses(st.route[e])
    BY <1>3, <2>2, OwnedUsed DEF Siblings
  <2>4. TileOf[n] \in RouteTiles(st.route[e])
    BY <1>1, <2>3, RouteOnTiles
  <2>5. <<TileOf[n], e>> \in cut.reg
    BY <1>1, <1>2, <2>3, <2>4, EntriesOf
  <2>6. QED
    BY <1>2, <2>2, <2>3, <2>5 DEF VisiblyOwned
<1>5. VisiblyOwned(cut) \subseteq AllUses(rt)
  BY <1>2, <1>3, OwnedUsed DEF VisiblyOwned, AllUses
<1>6. AllUses(rt) \subseteq st.leased
  BY <1>1 DEF AllUses
<1>7. u.leased = st.leased \ Released(cut, removed)
  BY DEF Withdraw
<1>8. u.leased = AllUses(rt)
  <2> HIDE DEF cut, u
  <2>1. \A n \in st.leased : n \notin AllUses(rt) => n \in Released(cut, removed)
    BY <1>5 DEF Released
  <2>2. \A n \in AllUses(rt) : n \notin Released(cut, removed)
    BY <1>4 DEF Released
  <2>3. QED
    BY <1>6, <1>7, <2>1, <2>2
<1>9. Single(rt)
  BY <1>1 DEF Single
<1>10. u.route = rt /\ Regular(u)
  OBVIOUS
<1> HIDE DEF u
<1>11. Sound(u)
  BY <1>8, <1>9, <1>10 DEF Sound, LinesOf
<1>12. QED
  BY <1>11 DEF u

\* What a removed fragment owns its release refers to.
LEMMA OwnedReferred ==
    ASSUME NEW r \in Seq(Good), NEW i \in 1..Len(r), r[i].kind = "pin" => i = Len(r)
    PROVE  Owned(r[i]) \subseteq LeaseRefs(r)
<1>1. r[i].kind \in {"out", "hop", "ground", "pin", "gap"}
  BY GoodFragment
<1> DEFINE refs(j) == OwnedLanding(r[j])
                      \cup (IF r[j].kind \in Jumps THEN {r[j].src} ELSE {})
                      \cup (IF r[j].kind \in {"hop", "ground"} /\ r[j].ownsDst THEN {r[j].in} ELSE {})
                      \cup (IF r[j].kind = "pin" /\ j = Len(r) THEN {r[j].in} ELSE {})
<1>2. refs(i) \subseteq LeaseRefs(r)
  BY DEF LeaseRefs
<1>3. Owned(r[i]) \subseteq refs(i)
  BY <1>1 DEF Owned
<1>4. QED
  BY <1>2, <1>3

\* A cut behind fragment k: the front gives what it gave, and the back refers
\* to what it owned, but for the landing that the front took over.
Halves(r, k, kept, gone) ==
    /\ r \in Seq(Good) /\ kept \in Seq(Good) /\ gone \in Seq(Good) /\ Len(r) \in Nat
    /\ Len(kept) = k /\ Len(gone) = Len(r) - k
    /\ \A i \in 1..k : SamePhysicalFragment(r[i], kept[i])
    /\ \A i \in 1..(Len(r) - k) : SamePhysicalFragment(r[k + i], gone[i])
    /\ \A i \in 1..k : \A w \in Ends : Gives(r, i, w) => Gives(kept, i, w)
    /\ \A i \in 1..(Len(r) - k) : \A n \in Owned(r[k + i]) : n \in Owned(gone[i]) \/ (k # 0 /\ n = kept[k].dst)

\* What KeepLanding leaves of the two halves of a route.
LEMMA CutIs ==
    ASSUME NEW r \in Seq(Good), NEW k \in 0..Len(r), Linked(r), k # 0 => r[k].kind \in Jumps,
           NEW cut, cut = KeepLanding(SubSeq(r, 1, k), SubSeq(r, k + 1, Len(r))),
           NEW kept, kept = cut.kept, NEW gone, gone = cut.removed
    PROVE  Halves(r, k, kept, gone)
<1> DEFINE front == SubSeq(r, 1, k)
           back == SubSeq(r, k + 1, Len(r))
<1>1. r \in Seq(Good) /\ Len(r) \in Nat /\ k \in Nat /\ k <= Len(r) /\ k \in 0..Len(r)
  OBVIOUS
<1>3. /\ front \in Seq(Good) /\ back \in Seq(Good)
      /\ Len(front) = k /\ \A i \in 1..k : front[i] = r[i]
      /\ Len(back) = Len(r) - k /\ \A i \in 1..(Len(r) - k) : back[i] = r[k + i]
  BY <1>1
<1>2. /\ kept \in Seq(Good) /\ gone \in Seq(Good)
      /\ SameFabric(front, kept) /\ SameFabric(back, gone)
  BY <1>3, KeepLandingKeeps
<1> DEFINE handed == /\ front # <<>> /\ back # <<>>
                     /\ front[Len(front)].kind \in Crossbar
                     /\ back[1].kind \in Crossbar
                     /\ front[Len(front)].dst = back[1].in
<1>4. /\ kept = IF handed THEN [front EXCEPT ![Len(front)].ownsLanding = TRUE] ELSE front
      /\ gone = IF handed THEN [back EXCEPT ![1].ownsDst = FALSE] ELSE back
  BY DEF KeepLanding
<1> HIDE DEF front, back
<1>5. Len(kept) = k /\ Len(gone) = Len(r) - k
  BY <1>2, <1>3 DEF SameFabric
<1>6. /\ \A i \in 1..k : SamePhysicalFragment(r[i], kept[i])
      /\ \A i \in 1..(Len(r) - k) : SamePhysicalFragment(r[k + i], gone[i])
  BY <1>2, <1>3 DEF SameFabric
<1>7. ASSUME NEW i \in 1..k
      PROVE  /\ kept[i].shared = r[i].shared /\ kept[i].ownsDst = r[i].ownsDst /\ kept[i].kind = r[i].kind
             /\ kept[i].ownsLanding = (r[i].ownsLanding \/ (handed /\ i = k))
  <2>1. front[i] \in Fragment /\ front[i] = r[i] /\ i \in 1..Len(front)
    BY <1>3, GoodFragment
  <2>2. CASE handed /\ i = k
    <3> HIDE DEF handed
    <3>1. kept[i] = [front[i] EXCEPT !.ownsLanding = TRUE]
      <4>1. kept = [front EXCEPT ![i].ownsLanding = TRUE]
        BY <1>3, <1>4, <2>2
      <4>2. QED
        BY ONLY <1>3, <2>1, <4>1
    <3>2. QED
      BY <2>1, <2>2, <3>1 DEF Fragment
  <2>3. CASE ~(handed /\ i = k)
    <3>1. kept[i] = front[i]
      <4> HIDE DEF handed
      <4>1. i # Len(front) \/ ~handed
        BY <1>3, <2>3
      <4>2. QED
        BY <1>4, <2>1, <4>1
    <3> HIDE DEF handed
    <3>2. front[i].ownsLanding \in BOOLEAN
      BY <2>1 DEF Fragment
    <3>3. QED
      BY <2>1, <2>3, <3>1, <3>2
  <2>4. QED
    BY <2>2, <2>3
<1>8. ASSUME NEW i \in 1..k, NEW w, Gives(r, i, w) PROVE Gives(kept, i, w)
  <2>0. i \in Nat /\ i <= k
    BY <1>1
  <2>1. CASE w # "landing" \/ r[i].ownsLanding
    BY <1>7, <1>8, <2>1 DEF Gives, OwnsIn
  <2>2. CASE w = "landing" /\ ~r[i].ownsLanding
    <3>1. r[i].kind \in Jumps /\ i < Len(r) /\ OwnsIn(r[i + 1])
      BY <1>8, <2>2 DEF Gives
    <3>2. CASE i < k
      <4>1. i + 1 \in 1..k /\ i < Len(kept)
        BY <1>1, <1>5, <2>0, <3>2
      <4>2. OwnsIn(kept[i + 1])
        BY <1>7, <3>1, <4>1 DEF OwnsIn
      <4>3. QED
        BY <1>7, <2>2, <3>1, <4>1, <4>2 DEF Gives
    <3>3. CASE i = k
      <4>1. 1 \in 1..(Len(r) - k) /\ front # <<>> /\ back # <<>> /\ k \in 1..k /\ i \in 1..(Len(r) - 1)
        <5>1. 1 \in 1..(Len(r) - k) /\ k \in 1..k /\ i \in 1..(Len(r) - 1)
          BY <1>1, <2>0, <3>1, <3>3
        <5>2. Len(front) # 0 /\ Len(back) # 0
          BY <1>1, <1>3, <2>0, <3>1, <3>3
        <5>3. QED
          BY <5>1, <5>2
      <4>2. back[1] = r[k + 1] /\ front[k] = r[k]
        BY <1>3, <4>1
      <4>3. r[i].dst = r[i + 1].in
        BY <3>1, <4>1 DEF Linked, Follows
      <4>4. handed
        BY <1>3, <3>1, <3>3, <4>1, <4>2, <4>3 DEF Crossbar, Jumps, OwnsIn
      <4>5. kept[i].ownsLanding /\ kept[i].kind \in Jumps
        BY <1>7, <3>1, <3>3, <4>4
      <4>6. QED
        BY <2>2, <4>5 DEF Gives
    <3>4. QED
      BY <1>1, <2>0, <3>2, <3>3
  <2>3. QED
    BY <2>1, <2>2
<1>9. ASSUME NEW i \in 1..(Len(r) - k)
      PROVE  \A n \in Owned(r[k + i]) : n \in Owned(gone[i]) \/ (k # 0 /\ n = kept[k].dst)
  <2>1. back[i] \in Fragment /\ back[i] = r[k + i] /\ i \in 1..Len(back)
    BY <1>3, GoodFragment
  <2>2. CASE handed /\ i = 1
    <3>1. gone[i] = [back[i] EXCEPT !.ownsDst = FALSE]
      <4> HIDE DEF handed
      <4>1. gone = [back EXCEPT ![i].ownsDst = FALSE]
        BY <1>3, <1>4, <2>2
      <4>2. QED
        BY ONLY <1>3, <2>1, <4>1
    <3>2. front[Len(front)].dst = back[1].in /\ front # <<>>
      BY <2>2
    <3>3. k # 0 /\ k \in 1..k
      <4>1. Len(front) # 0
        BY <1>3, <3>2
      <4>2. QED
        BY <1>1, <1>3, <4>1
    <3>4. kept[k].dst = r[k + i].in
      <4>1. front[k] = r[k] /\ front[k].dst = back[i].in
        BY <1>3, <2>2, <3>2, <3>3
      <4>2. SamePhysicalFragment(r[k], kept[k])
        BY <1>6, <3>3
      <4>3. QED
        BY <2>1, <4>1, <4>2 DEF SamePhysicalFragment
    <3> HIDE DEF handed
    <3>5. /\ gone[i].kind = r[k + i].kind /\ gone[i].shared = r[k + i].shared
          /\ gone[i].src = r[k + i].src /\ gone[i].dst = r[k + i].dst /\ gone[i].in = r[k + i].in
          /\ gone[i].ownsLanding = r[k + i].ownsLanding
      BY <2>1, <3>1 DEF Fragment
    <3>6. QED
      BY <3>3, <3>4, <3>5 DEF Owned, OwnedLanding
  <2>3. CASE ~(handed /\ i = 1)
    <3>1. gone[i] = back[i]
      <4> HIDE DEF handed
      <4>1. QED
        BY <1>4, <2>1, <2>3
    <3>2. QED
      BY <2>1, <3>1
  <2>4. QED
    BY <2>2, <2>3
<1>10. QED
  BY <1>1, <1>2, <1>5, <1>6, <1>8, <1>9 DEF Halves

\* The same for a cut of a binding's route.
LEMMA CutAtIs ==
    ASSUME NEW st \in States, NEW b \in Bindings, NEW k \in 0..Len(st.route[b]),
           NEW r, r = st.route[b], NEW kept, kept = CutAt(st, b, k).kept,
           NEW gone, gone = CutAt(st, b, k).removed, Linked(r), k # 0 => r[k].kind \in Jumps
    PROVE  Halves(r, k, kept, gone)
<1>1. r \in Seq(Good)
  BY DEF States, Routes
<1>2. CutAt(st, b, k) = KeepLanding(SubSeq(r, 1, k), SubSeq(r, k + 1, Len(r)))
  BY DEF CutAt
<1>3. QED
  BY <1>1, <1>2, CutIs

\* The same fabric uses the same nodes.
LEMMA SameUses ==
    ASSUME NEW f, NEW g, SamePhysicalFragment(f, g)
    PROVE  Uses(f) = Uses(g)
BY DEF SamePhysicalFragment, Uses

\* A route that no sibling depends on may be cut behind any of its jumps.
LEMMA FreeIsBeyond ==
    ASSUME NEW rt, NEW b \in Bindings, NEW k, Free(rt, b)
    PROVE  FreeBeyond(rt, b, k)
BY DEF Free, FreeBeyond

\* A route may be cut behind a jump when no sibling depends on what it owns
\* behind it: the leases it releases are those no route uses any more.
LEMMA TruncateSound ==
    ASSUME NEW st, Sound(st), NEW b \in Bindings, NEW k \in 0..Len(st.route[b]),
           k # 0 => st.route[b][k].kind \in Jumps, FreeBeyond(st.route, b, k)
    PROVE  Sound(Truncate(st, b, k))
<1> DEFINE r == st.route[b]
           kept == CutAt(st, b, k).kept
           gone == CutAt(st, b, k).removed
           rt == [st.route EXCEPT ![b] = kept]
           removed == [c \in {b} |-> gone]
<1>1. /\ Regular(st) /\ LinesOf(st) /\ Held(st.route) /\ st \in States /\ st.route \in Routes
      /\ st.leased = AllUses(st.route)
      /\ \A d \in Bindings : st.route[d] \in Seq(Good) /\ Line(d, st.route[d]) /\ Linked(st.route[d])
  BY SoundFacts
<1>2. /\ Regular(Truncate(st, b, k)) /\ Truncate(st, b, k) = Withdraw(st, rt, removed)
      /\ Truncate(st, b, k).route = rt
  <2>1. Truncate(st, b, k) = Withdraw(st, rt, removed)
    BY DEF Truncate, CutAt
  <2>2. Regular(Truncate(st, b, k)) /\ Truncate(st, b, k).route = rt
    <3>1. Truncate(st, b, k).route = rt
      BY <2>1 DEF Withdraw
    <3>2. Regular(Truncate(st, b, k))
      BY <1>1, TruncateKeeps
    <3>3. QED
      BY <3>1, <3>2
  <2>3. QED
    BY <2>1, <2>2
<1>3. \A d \in Bindings : Line(d, Truncate(st, b, k).route[d])
  BY <1>1, TruncateLine DEF LinesOf
<1>4. /\ r \in Seq(Good) /\ kept \in Seq(Good) /\ gone \in Seq(Good) /\ Len(r) \in Nat
      /\ Len(kept) = k /\ Len(gone) = Len(r) - k
      /\ \A i \in 1..k : SamePhysicalFragment(r[i], kept[i])
      /\ \A i \in 1..(Len(r) - k) : SamePhysicalFragment(r[k + i], gone[i])
      /\ \A i \in 1..k : \A w \in Ends : Gives(r, i, w) => Gives(kept, i, w)
      /\ \A i \in 1..(Len(r) - k) : \A n \in Owned(r[k + i]) : n \in Owned(gone[i]) \/ (k # 0 /\ n = kept[k].dst)
  <2>1. r = st.route[b] /\ kept = CutAt(st, b, k).kept /\ gone = CutAt(st, b, k).removed
    OBVIOUS
  <2>2. Linked(r) /\ (k # 0 => r[k].kind \in Jumps)
    BY <1>1
  <2> HIDE DEF r, kept, gone
  <2>3. Halves(r, k, kept, gone)
    BY <1>1, <2>1, <2>2, CutAtIs
  <2>4. QED
    BY <2>3 DEF Halves
<1>5. /\ rt \in Routes /\ rt[b] = kept /\ \A d \in Bindings : d # b => rt[d] = st.route[d]
  BY <1>1, <1>4 DEF Routes
<1>6. Line(b, r) /\ (k # 0 => r[k].kind \in Jumps) /\ k \in Nat /\ k <= Len(r)
  BY <1>1, <1>4
<1>7. DOMAIN removed = {b} /\ removed[b] = gone
  OBVIOUS
<1> HIDE DEF r, kept, gone, rt, removed
<1>8. RouteUses(kept) \subseteq RouteUses(r)
  <2> SUFFICES ASSUME NEW i \in 1..Len(kept) PROVE Uses(kept[i]) \subseteq RouteUses(r)
    BY DEF RouteUses
  <2>1. i \in 1..k /\ i \in 1..Len(r)
    BY <1>4, <1>6
  <2>2. QED
    BY <1>4, <2>1, SameUses DEF RouteUses
<1>9. Held(rt)
  <2> SUFFICES ASSUME NEW d \in Bindings, NEW i \in 1..Len(rt[d]), NEW w \in Needs(rt[d], i)
               PROVE  \E e \in Siblings(d) : Backs(rt[e], rt[d], i, w)
    BY DEF Held
  <2>1. CASE d # b
    <3>1. rt[d] = st.route[d]
      BY <1>5, <2>1
    <3>2. PICK e \in Siblings(d) : Backs(st.route[e], st.route[d], i, w)
      BY <1>1, <3>1 DEF Held
    <3>3. CASE e # b
      <4>1. rt[e] = st.route[e]
        BY <1>5, <3>3 DEF Siblings
      <4>2. QED
        BY <3>1, <3>2, <4>1
    <3>4. CASE e = b
      <4>1. d \in Siblings(b) \ {b}
        BY <2>1, <3>2, <3>4 DEF Siblings
      <4>2. CASE i > k
        <5>1. PICK e2 \in Siblings(d) \ {b} : Backs(st.route[e2], st.route[d], i, w)
          BY <3>1, <4>1, <4>2 DEF FreeBeyond
        <5>2. rt[e2] = st.route[e2]
          BY <1>5, <5>1 DEF Siblings
        <5>3. QED
          BY <3>1, <5>1, <5>2
      <4>3. CASE ~(i > k)
        <5>1. Agree(st.route[d], r, i) /\ Gives(r, i, w)
          BY <3>2, <3>4 DEF Backs, r
        <5>2. st.route[d] \in Seq(Good) /\ i \in Nat /\ i \in 1..Len(st.route[d])
          BY <1>1, <3>1
        <5>3. i \in 1..k
          BY <1>6, <4>3, <5>2
        <5>4. \A j \in 1..i : j \in 1..k
          BY <1>6, <5>3
        <5>5. i <= Len(kept) /\ i <= Len(r)
          BY <1>4, <1>6, <5>3
        <5>6. Agree(r, kept, i)
          BY <1>4, <5>4, <5>5 DEF Agree
        <5>7. Agree(st.route[d], kept, i)
          BY <1>4, <5>1, <5>2, <5>6, AgreeFacts
        <5>8. w \in Ends
          BY <3>1, <5>2, NeedFacts DEF Ends
        <5>9. Gives(kept, i, w)
          BY <1>4, <5>1, <5>3, <5>8
        <5>10. QED
          BY <1>5, <3>1, <3>2, <3>4, <5>7, <5>9 DEF Backs
      <4>4. QED
        BY <4>2, <4>3
    <3>5. QED
      BY <3>3, <3>4
  <2>2. CASE d = b
    <3>1. rt[d] = kept /\ i \in 1..k /\ i \in Nat /\ i \in 1..Len(r)
      BY <1>4, <1>5, <1>6, <2>2
    <3>2. Agree(kept, r, i) /\ Agree(r, kept, i)
      <4>1. \A j \in 1..i : j \in 1..k
        BY <1>6, <3>1
      <4>2. i <= Len(kept) /\ i <= Len(r)
        BY <1>4, <1>6, <3>1
      <4>3. Agree(r, kept, i)
        BY <1>4, <4>1, <4>2 DEF Agree
      <4>4. QED
        BY <1>4, <3>1, <4>3, AgreeFacts
    <3>3. w \in Needs(r, i)
      BY <1>4, <3>1, <3>2, NeedsAgree
    <3>4. PICK e \in Siblings(b) : Backs(st.route[e], r, i, w)
      BY <1>1, <3>1, <3>3 DEF Held, r
    <3>5. e \in Bindings /\ Agree(r, st.route[e], i) /\ Gives(st.route[e], i, w)
      BY <3>4 DEF Backs, Siblings
    <3>6. CASE e = b
      <4>1. Gives(kept, i, w)
        <5>1. w \in Ends
          BY NeedFacts DEF Ends
        <5>2. Gives(r, i, w)
          BY <3>5, <3>6 DEF r
        <5>3. QED
          BY <1>4, <3>1, <5>1, <5>2
      <4>2. Agree(kept, kept, i)
        BY <1>4, <3>1, <3>2, AgreeFacts
      <4>3. Backs(rt[b], rt[d], i, w)
        BY <1>5, <3>1, <4>1, <4>2 DEF Backs
      <4>4. QED
        BY <2>2, <3>4, <3>6, <4>3
    <3>7. CASE e # b
      <4>1. Agree(kept, st.route[e], i)
        BY <1>1, <1>4, <3>1, <3>2, <3>5, AgreeFacts
      <4>2. rt[e] = st.route[e]
        BY <1>5, <3>5, <3>7
      <4>3. Backs(rt[e], rt[d], i, w)
        BY <3>1, <3>5, <4>1, <4>2 DEF Backs
      <4>4. QED
        BY <2>2, <3>4, <4>3
    <3>8. QED
      BY <3>6, <3>7
  <2>3. QED
    BY <2>1, <2>2
<1>10. ASSUME NEW n \in st.leased, n \notin AllUses(rt) PROVE n \in LeaseRefs(gone)
  <2>1. PICK d \in Bindings : n \in RouteUses(st.route[d])
    BY <1>1 DEF AllUses
  <2>2. PICK e \in Siblings(d) : n \in RouteOwned(st.route[e])
    BY <1>1, <2>1, HeldOwned
  <2>3. e = b
    <3>1. e \in Bindings /\ n \in RouteUses(st.route[e])
      BY <1>1, <2>2, OwnedUsed DEF Siblings
    <3>2. n \notin RouteUses(rt[e])
      BY <1>10, <3>1 DEF AllUses
    <3>3. QED
      BY <1>5, <3>1, <3>2
  <2>4. PICK i \in 1..Len(r) : n \in Owned(r[i])
    BY <2>2, <2>3 DEF RouteOwned, r
  <2>5. n \notin RouteUses(kept)
    BY <1>5, <1>10 DEF AllUses
  <2>6. i > k
    <3> SUFFICES ASSUME ~(i > k) PROVE FALSE
      OBVIOUS
    <3>1. i \in 1..k /\ i \in 1..Len(kept)
      BY <1>4, <1>6
    <3>2. Uses(kept[i]) = Uses(r[i]) /\ Uses(kept[i]) \subseteq RouteUses(kept)
      BY <1>4, <3>1, SameUses DEF RouteUses
    <3>3. n \in Uses(r[i])
      <4>1. r[i].kind \in {"out", "hop", "ground", "pin", "gap"}
        BY <1>4, GoodFragment
      <4>2. QED
        BY <2>4, <4>1 DEF Owned, OwnedLanding, Uses, Jumps
    <3>4. QED
      BY <2>5, <3>2, <3>3
  <2>7. /\ i - k \in 1..(Len(r) - k) /\ k + (i - k) = i /\ i - k \in 1..Len(gone)
        /\ i = Len(r) => i - k = Len(gone)
    BY <1>4, <1>6, <2>6
  <2>8. n \in Owned(gone[i - k])
    <3>1. n \in Owned(gone[i - k]) \/ (k # 0 /\ n = kept[k].dst)
      BY <1>4, <2>4, <2>7
    <3>2. ASSUME k # 0 PROVE n # kept[k].dst
      <4>1. k \in 1..k /\ k \in 1..Len(kept)
        BY <1>4, <1>6, <3>2
      <4>2. kept[k].kind \in Jumps
        BY <1>4, <1>6, <3>2, <4>1 DEF SamePhysicalFragment
      <4>3. kept[k].dst \in RouteUses(kept)
        BY <4>1, <4>2 DEF RouteUses, Uses, Jumps
      <4>4. QED
        BY <2>5, <4>3
    <3>3. QED
      BY <3>1, <3>2
  <2>9. gone[i - k].kind = "pin" => i - k = Len(gone)
    <3>1. gone[i - k].kind = r[i].kind
      BY <1>4, <2>7 DEF SamePhysicalFragment
    <3>2. r[i].kind = "pin" => i = Len(r)
      BY <1>4, <1>6, LineKinds
    <3>3. QED
      BY <2>7, <3>1, <3>2
  <2>10. QED
    BY <1>4, <2>7, <2>8, <2>9, OwnedReferred
<1>11. \A d \in Bindings : RouteUses(rt[d]) \subseteq RouteUses(st.route[d])
  BY <1>5, <1>8 DEF r
<1>12. Sound(Withdraw(st, rt, removed))
  BY <1>2, <1>3, <1>5, <1>7, <1>9, <1>10, <1>11, WithdrawSound
<1>13. QED
  BY <1>2, <1>12

-----------------------------------------------------------------------------
(* Removals keep the state sound                                           *)

\* What is used is a matter of fabric, not of flags.
LEMMA SameUsesAll ==
    ASSUME NEW rt \in Routes, NEW rt2 \in Routes, \A d \in Bindings : SameFabric(rt[d], rt2[d])
    PROVE  AllUses(rt2) = AllUses(rt) /\ (Single(rt) => Single(rt2))
<1>1. \A d \in Bindings : RouteUses(rt2[d]) = RouteUses(rt[d])
  BY FabricOnly DEF Routes
<1>2. QED
  BY <1>1 DEF AllUses, Single

\* A promotion keeps the state sound, whatever is to be removed.
LEMMA PromoteSound ==
    ASSUME NEW st, Sound(st), NEW b \in Bindings, NEW excluded,
           \A d \in Siblings(b) : d \in excluded => d = b
    PROVE  /\ Sound(Promote(st, b, excluded)) /\ Free(Promote(st, b, excluded).route, b)
           /\ \A d \in Bindings : d \notin Siblings(b) => Promote(st, b, excluded).route[d] = st.route[d]
           /\ \A d \in Bindings : SameFabric(st.route[d], Promote(st, b, excluded).route[d])
<1> DEFINE u == Promote(st, b, excluded)
<1>1. /\ Regular(st) /\ LinesOf(st) /\ Held(st.route) /\ Single(st.route) /\ Threaded(st.route)
      /\ st \in States /\ st.route \in Routes /\ st.reg = Entries(st.route, Bindings)
      /\ st.leased = AllUses(st.route)
  BY SoundFacts
<1>2. /\ u \in States /\ u.leased = st.leased /\ u.reg = st.reg
      /\ \A d \in Bindings : SameFabric(st.route[d], u.route[d])
  BY <1>1, PromoteKeeps
<1>3. Free(u.route, b)
  BY <1>1, PromotedFree
<1>4. CASE st.route[b] = <<>>
  <2>1. u = st
    BY <1>4 DEF Promote
  <2>2. QED
    BY <1>2, <1>3, <2>1
<1>5. CASE st.route[b] # <<>>
  <2>1. Held(u.route) /\ \A d \in Bindings : d \notin Siblings(b) => u.route[d] = st.route[d]
    BY <1>1, <1>5, Promoted
  <2> HIDE DEF u
  <2>2. u.route \in Routes
    BY <1>2 DEF States
  <2>3. u.reg = Entries(u.route, Bindings)
    BY <1>1, <1>2, <2>2, SameEntries
  <2>4. u.leased = AllUses(u.route) /\ Single(u.route)
    BY <1>1, <1>2, <2>2, SameUsesAll
  <2>5. LinesOf(u)
    BY <1>1, <1>2, SameFabricLines
  <2>6. Sound(u)
    BY <1>2, <2>1, <2>3, <2>4, <2>5 DEF Sound, Regular
  <2>7. QED
    BY <1>2, <1>3, <2>1, <2>6 DEF u
<1>6. QED
  BY <1>4, <1>5

\* unrouteNetRoute is a promotion and a cut in front of the first fragment.
LEMMA UnrouteIsTruncate ==
    ASSUME NEW st \in States, NEW b \in Bindings
    PROVE  Unroute(st, b) = Truncate(Promote(st, b, {}), b, 0)
<1> DEFINE u == Promote(st, b, {})
           r == u.route[b]
<1>1. u \in States
  BY PromoteKeeps
<1> HIDE DEF u
<1>2. r \in Seq(Good) /\ Len(r) \in Nat
  BY <1>1 DEF States, Routes
<1> HIDE DEF r
<1>3. SubSeq(r, 1, 0) = <<>>
  BY <1>2
<1>4. SubSeq(r, 0 + 1, Len(r)) = r
  BY <1>2
<1>5. KeepLanding(<<>>, r) = [kept |-> <<>>, removed |-> r]
  BY DEF KeepLanding
<1> DEFINE cut == KeepLanding(SubSeq(r, 1, 0), SubSeq(r, 0 + 1, Len(r)))
<1>6. cut = [kept |-> <<>>, removed |-> r]
  BY <1>3, <1>4, <1>5
<1> HIDE DEF cut
<1>7. cut.kept = <<>> /\ cut.removed = r
  BY <1>6
<1>8. Truncate(u, b, 0) = Withdraw(u, [u.route EXCEPT ![b] = cut.kept], [c \in {b} |-> cut.removed])
  BY DEF Truncate, cut, r
<1>9. Unroute(st, b) = Withdraw(u, [u.route EXCEPT ![b] = <<>>], [c \in {b} |-> r])
  BY DEF Unroute, u, r
<1>10. QED
  BY <1>7, <1>8, <1>9 DEF u

\* So does the removal of a route: it is promoted first.
LEMMA UnrouteSound ==
    ASSUME NEW st, Sound(st), NEW b \in Bindings
    PROVE  Sound(Unroute(st, b))
<1> DEFINE u == Promote(st, b, {})
<1>1. Sound(u) /\ Free(u.route, b)
  BY PromoteSound
<1>2. st \in States /\ Unroute(st, b) = Truncate(u, b, 0)
  BY SoundFacts, UnrouteIsTruncate
<1> HIDE DEF u
<1>3. u.route[b] \in Seq(Good) /\ 0 \in 0..Len(u.route[b])
  BY <1>1, SoundFacts
<1>4. Sound(Truncate(u, b, 0))
  BY <1>1, <1>3, FreeIsBeyond, TruncateSound
<1>5. QED
  BY <1>2, <1>4

\* A route may step back over a hop that no sibling depends on.
LEMMA StepBackSound ==
    ASSUME Sound(Now), NEW b \in Bindings, FreeBeyond(route, b, Len(route[b]) - 1), StepBack(b)
    PROVE  \E st : Sound(st) /\ Install(st)
<1>1. Now.route = route /\ Regular(Now) /\ LinesOf(Now)
  BY DEF Now, Sound
<1>2. Lines
  BY <1>1 DEF Lines, LinesOf
<1>3. CASE Len(route[b]) = 1
  <2>1. Install(Unroute(Now, b))
    BY <1>3 DEF StepBack
  <2>2. QED
    BY <2>1, UnrouteSound
<1>4. CASE Len(route[b]) # 1
  <2> DEFINE r == route[b]
             k == Len(r) - 1
  <2>1. Install(Truncate(Now, b, k))
    BY <1>4 DEF StepBack
  <2>2. r \in Seq(Good) /\ Line(b, r)
    BY <1>1, SoundFacts
  <2>3. r # <<>> /\ ~HasGap(r) /\ ~IsComplete(r)
    BY DEF StepBack
  <2> HIDE DEF r
  <2>4. Len(r) \in Nat /\ Len(r) # 0
    BY <2>2, <2>3
  <2>a. Len(r) # 1
    BY <1>4 DEF r
  <2>5. k \in 0..Len(r) /\ k \in 1..(Len(r) - 1) /\ k + 1 = Len(r)
    BY ONLY <2>4, <2>a
  <2>6. r[Len(r)].kind \in Jumps
    BY <2>2, <2>3, Unfinished
  <2>7. r[k].kind \in Jumps
    <3>1. Follows(r[k], r[k + 1])
      BY <2>2, <2>5 DEF Line, Linked
    <3>2. r[k] \in Good /\ r[k + 1] \in Good /\ r[k + 1].kind \in Jumps
      BY <2>2, <2>4, <2>5, <2>6
    <3>3. r[k].kind \in Jumps \cup {"gap"}
      BY <3>1, <3>2, Neighbours DEF Jumps
    <3>4. r[k].kind # "gap"
      BY <2>3, <2>4, <2>5 DEF HasGap
    <3>5. QED
      BY <3>3, <3>4
  <2>8. FreeBeyond(Now.route, b, k)
    BY <1>1 DEF r
  <2>9. Sound(Truncate(Now, b, k))
    BY <1>1, <2>5, <2>7, <2>8, TruncateSound DEF r
  <2>10. QED
    BY <2>1, <2>9
<1>5. QED
  BY <1>3, <1>4

\* A moved sink that nothing depends on may drop its route down to the prefix it
\* shares with the replicas that stay.
LEMMA DetachSound ==
    ASSUME SeparateTerminals, NEW st, Sound(st), NEW b \in Bindings, NEW excluded, Free(st.route, b),
           NEW complete \in BOOLEAN, complete => IsComplete(st.route[b]),
           NEW proven \in 0..Len(st.route[b]), proven # 0 => st.route[b][proven].kind \in Jumps
    PROVE  Sound(Detach(st, b, excluded, complete, proven))
<1>1. Regular(st) /\ LinesOf(st)
  BY SoundFacts
<1>2. CASE st.route[b] = <<>>
  BY <1>2 DEF Detach
<1>3. CASE st.route[b] # <<>>
  <2>1. PICK m \in 0..Len(st.route[b]) :
           /\ m # 0 => st.route[b][m].kind \in Jumps
           /\ Detach(st, b, excluded, complete, proven) = Truncate(st, b, m)
    BY <1>1, <1>3, DetachIsTruncate
  <2>2. QED
    BY <2>1, FreeIsBeyond, TruncateSound
<1>4. QED
  BY <1>2, <1>3

\* No two bindings of S leave one source.
\* Once every member of S is promoted nothing depends on any of them.
LEMMA PromoteAllSound ==
    ASSUME NEW st, Sound(st), NEW S \in SUBSET Bindings, Apart(S)
    PROVE  /\ Sound(PromoteAll(st, S)) /\ \A b \in S : Free(PromoteAll(st, S).route, b)
           /\ \A d \in Bindings : SameFabric(st.route[d], PromoteAll(st, S).route[d])
<1> DEFINE Ok(u, k) == /\ Sound(u)
                       /\ \A j \in 1..N : j <= k /\ BindingOrder[j] \in S => Free(u.route, BindingOrder[j])
           X == [k \in 0..N |-> {u \in States : Ok(u, k)}]
<1>1. N \in Nat /\ \A k \in 1..N : BindingOrder[k] \in Bindings
  BY OrderFacts
<1>2. st \in X[0]
  <2>1. st \in States /\ \A j \in 1..N : ~(j <= 0)
    BY <1>1, SoundFacts
  <2>2. QED
    BY <1>1, <2>1
<1>3. ASSUME NEW k \in 1..N, NEW u \in States, Ok(u, k - 1) PROVE Ok(PromoteTurn(u, S, k), k)
  <2> DEFINE b == BindingOrder[k]
             v == Promote(u, b, S)
  <2>1. k \in Nat /\ \A j \in 1..N : j <= k => j = k \/ j <= k - 1
    BY <1>1
  <2>2. CASE b \notin S
    <3>1. PromoteTurn(u, S, k) = u
      BY <2>2 DEF PromoteTurn
    <3>2. QED
      BY <1>3, <2>1, <2>2, <3>1
  <2>3. CASE b \in S
    <3>1. PromoteTurn(u, S, k) = v /\ b \in Bindings
      BY <1>1, <2>3 DEF PromoteTurn
    <3> HIDE DEF b
    <3>2. \A d \in Siblings(b) : d \in S => d = b
      BY <2>3 DEF Apart, Siblings
    <3>3. /\ Sound(v) /\ Free(v.route, b)
          /\ \A d \in Bindings : d \notin Siblings(b) => v.route[d] = u.route[d]
      BY <1>3, <3>1, <3>2, PromoteSound
    <3> HIDE DEF v
    <3>4. ASSUME NEW j \in 1..N, j <= k, BindingOrder[j] \in S PROVE Free(v.route, BindingOrder[j])
      <4>1. CASE BindingOrder[j] = b
        BY <3>3, <4>1
      <4>2. CASE BindingOrder[j] # b
        <5> DEFINE c == BindingOrder[j]
        <5>1. c \in Bindings /\ j <= k - 1
          BY <1>1, <2>1, <3>4, <4>2 DEF b
        <5>2. Free(u.route, c)
          BY <1>3, <3>4, <5>1
        <5>3. \A d \in Siblings(c) : v.route[d] = u.route[d]
          <6> SUFFICES ASSUME NEW d \in Siblings(c) PROVE v.route[d] = u.route[d]
            OBVIOUS
          <6>1. d \in Bindings /\ d \notin Siblings(b)
            BY <2>3, <3>4, <4>2 DEF Siblings, Apart
          <6>2. QED
            BY <3>3, <6>1
        <5> HIDE DEF c
        <5>4. Free(v.route, c)
          BY <5>1, <5>2, <5>3, FreeIsLocal
        <5>5. QED
          BY <5>4 DEF c
      <4>3. QED
        BY <4>1, <4>2
    <3>5. QED
      BY <3>1, <3>3, <3>4
  <2>4. QED
    BY <2>2, <2>3
<1> HIDE DEF Ok
<1>4. \A k \in 1..N : \A u \in X[k - 1] : PromoteTurn(u, S, k) \in X[k]
  <2> SUFFICES ASSUME NEW k \in 1..N, NEW u \in X[k - 1] PROVE PromoteTurn(u, S, k) \in X[k]
    OBVIOUS
  <2>1. k - 1 \in 0..N /\ k \in 0..N
    BY <1>1
  <2>2. u \in States /\ Ok(u, k - 1)
    BY <2>1
  <2>3. Ok(PromoteTurn(u, S, k), k)
    BY <1>3, <2>2
  <2>4. PromoteTurn(u, S, k) \in States
    BY <2>3, SoundFacts DEF Ok
  <2>5. QED
    BY <2>1, <2>3, <2>4
<1>5. PromoteAll(st, S) \in X[N]
  <2> HIDE DEF X
  <2> QED
    BY <1>2, <1>4, PromoteAllEnds
<1>6. Ok(PromoteAll(st, S), N)
  BY <1>1, <1>5
<1>7. \A b \in S : Free(PromoteAll(st, S).route, b)
  <2> SUFFICES ASSUME NEW b \in S PROVE Free(PromoteAll(st, S).route, b)
    OBVIOUS
  <2>1. PICK j \in 1..N : BindingOrder[j] = b
    BY OrderFacts
  <2>2. j <= N
    BY <1>1
  <2>3. QED
    BY <1>6, <2>1, <2>2 DEF Ok
<1>8. \A d \in Bindings : SameFabric(st.route[d], PromoteAll(st, S).route[d])
  BY SoundFacts, PromoteAllKeeps
<1>9. QED
  BY <1>6, <1>7, <1>8 DEF Ok

\* Then each may be cut back in turn.
LEMMA DetachAllSound ==
    ASSUME SeparateTerminals, NEW st, Sound(st), NEW S \in SUBSET Bindings, Apart(S),
           \A b \in S : Free(st.route, b),
           NEW complete, \A d \in Bindings : d \in complete => IsComplete(st.route[d]), NEW proof,
           proof.keep \in 0..Len(st.route[proof.binding]),
           proof.keep # 0 => st.route[proof.binding][proof.keep].kind \in Jumps
    PROVE  Sound(DetachAll(st, S, complete, proof))
<1> DEFINE Ok(u, k) == /\ u \in Detached(st, S, k) /\ Sound(u)
                       /\ \A j \in 1..N : j > k /\ BindingOrder[j] \in S => Free(u.route, BindingOrder[j])
           X == [k \in 0..N |-> {u \in States : Ok(u, k)}]
<1>1. N \in Nat /\ \A k \in 1..N : BindingOrder[k] \in Bindings
  BY OrderFacts
<1>2. st \in X[0]
  <2>1. st \in States /\ Regular(st)
    BY SoundFacts
  <2>2. st \in Detached(st, S, 0)
    BY <2>1 DEF Detached, Shrinks
  <2>3. QED
    BY <1>1, <2>1, <2>2
<1>3. ASSUME NEW k \in 1..N, NEW u \in States, Ok(u, k - 1) PROVE Ok(DetachTurn(u, S, complete, proof, k), k)
  <2> DEFINE b == BindingOrder[k]
             done == b \in complete
             proven == IF b = proof.binding THEN proof.keep ELSE 0
             v == Detach(u, b, S, done, proven)
  <2>1. k \in Nat /\ k > k - 1 /\ \A j \in 1..N : j > k => j > k - 1 /\ j # k
    BY <1>1
  <2>2. DetachTurn(u, S, complete, proof, k) = IF b \in S THEN v ELSE u
    BY DEF DetachTurn
  <2>3. DetachTurn(u, S, complete, proof, k) \in Detached(st, S, k)
    BY <1>3, DetachTurnKeeps, SoundFacts
  <2>4. b \in Bindings /\ u.route[b] = st.route[b] /\ u.route[b] \in Seq(Good)
    BY <1>1, <1>3, <2>1, SoundFacts DEF Detached
  <2>5. /\ proven \in 0..Len(u.route[b]) /\ (proven # 0 => u.route[b][proven].kind \in Jumps)
        /\ done \in BOOLEAN /\ (done => IsComplete(u.route[b]))
    BY <2>4
  <2>6. CASE b \notin S
    BY <1>3, <2>1, <2>2, <2>3, <2>6
  <2>7. CASE b \in S
    <3> HIDE DEF done, proven
    <3>1. Free(u.route, b)
      BY <1>3, <2>1, <2>7
    <3>2. Sound(v)
      BY <1>3, <2>4, <2>5, <3>1, DetachSound
    <3>3. OnlyAt(b, u.route, v.route)
      BY <1>3, <2>4, <2>5, SoundFacts, DetachKeeps
    <3>4. DetachTurn(u, S, complete, proof, k) = v
      BY <2>2, <2>7
    <3> HIDE DEF b, v
    <3>5. ASSUME NEW j \in 1..N, j > k, BindingOrder[j] \in S PROVE Free(v.route, BindingOrder[j])
      <4> DEFINE c == BindingOrder[j]
      <4>1. c \in Bindings /\ c # b /\ j > k - 1
        BY <1>1, <2>1, <3>5, OrderFacts DEF b
      <4>2. Free(u.route, c)
        BY <1>3, <3>5, <4>1
      <4>3. \A d \in Siblings(c) : v.route[d] = u.route[d]
        <5> SUFFICES ASSUME NEW d \in Siblings(c) PROVE v.route[d] = u.route[d]
          OBVIOUS
        <5>1. d \in Bindings /\ d # b
          BY <2>7, <3>5, <4>1 DEF Siblings, Apart
        <5>2. QED
          BY <3>3, <5>1 DEF OnlyAt
      <4> HIDE DEF c
      <4>4. Free(v.route, c)
        BY <4>1, <4>2, <4>3, FreeIsLocal
      <4>5. QED
        BY <4>4 DEF c
    <3>6. QED
      BY <2>3, <3>2, <3>4, <3>5
  <2>8. QED
    BY <2>6, <2>7
<1> HIDE DEF Ok
<1>4. \A k \in 1..N : \A u \in X[k - 1] : DetachTurn(u, S, complete, proof, k) \in X[k]
  <2> SUFFICES ASSUME NEW k \in 1..N, NEW u \in X[k - 1]
               PROVE  DetachTurn(u, S, complete, proof, k) \in X[k]
    OBVIOUS
  <2>1. k - 1 \in 0..N /\ k \in 0..N
    BY <1>1
  <2>2. u \in States /\ Ok(u, k - 1)
    BY <2>1
  <2>3. Ok(DetachTurn(u, S, complete, proof, k), k)
    BY <1>3, <2>2
  <2>4. DetachTurn(u, S, complete, proof, k) \in States
    BY <2>3, SoundFacts DEF Ok
  <2>5. QED
    BY <2>1, <2>3, <2>4
<1>5. DetachAll(st, S, complete, proof) \in X[N]
  <2> HIDE DEF X
  <2> QED
    BY <1>2, <1>4, DetachAllEnds
<1>6. QED
  BY <1>1, <1>5 DEF Ok

\* A move of sinks of different sources keeps the state sound.
LEMMA MoveSinksSound ==
    ASSUME SeparateTerminals, \A S \in MoveSets : Apart(S), Sound(Now), NEW S \in MoveSets, MoveSinks(S)
    PROVE  \E st : Sound(st) /\ Install(st)
<1> DEFINE complete == {c \in S : IsComplete(route[c])}
           moved == PromoteAll(Now, S)
<1>1. route \in Routes /\ Now.route = route /\ S \in SUBSET Bindings /\ Apart(S)
  BY BindingAssumption, SoundFacts DEF Now
<1>2. PICK b \in S : \E proof \in Proofs(b) : Install(DetachAll(moved, S, complete, proof))
  BY DEF MoveSinks
<1>3. PICK proof \in Proofs(b) : Install(DetachAll(moved, S, complete, proof))
  BY <1>2
<1>4. b \in Bindings /\ route[b] \in Seq(Good) /\ Line(b, route[b])
  BY <1>1, SoundFacts
<1>5. /\ proof.binding = b /\ proof.keep \in 0..Len(route[b])
      /\ proof.keep # 0 => route[b][proof.keep].kind \in Jumps
  BY <1>1, <1>4, ProofsAreShort, ProofIsJump
<1>6. /\ Sound(moved) /\ \A c \in S : Free(moved.route, c)
      /\ \A d \in Bindings : SameFabric(route[d], moved.route[d])
  BY <1>1, PromoteAllSound
<1> HIDE DEF moved
<1>7. \A d \in Bindings : route[d] \in Seq(Good) /\ moved.route[d] \in Seq(Good)
  BY <1>1, <1>6, SoundFacts
<1>8. proof.keep \in 0..Len(moved.route[proof.binding])
  BY <1>4, <1>5, <1>6 DEF SameFabric
<1>9. proof.keep # 0 => moved.route[proof.binding][proof.keep].kind \in Jumps
  <2>1. proof.keep # 0 => proof.keep \in 1..Len(route[b])
    BY <1>4, <1>5
  <2>2. QED
    BY <1>4, <1>5, <1>6, <2>1 DEF SameFabric, SamePhysicalFragment
<1>10. \A d \in Bindings : d \in complete => IsComplete(moved.route[d])
  <2> SUFFICES ASSUME NEW d \in Bindings, d \in complete PROVE IsComplete(moved.route[d])
    OBVIOUS
  <2>1. SameFabric(route[d], moved.route[d]) /\ IsComplete(route[d])
    BY <1>6
  <2>2. QED
    BY <1>7, <2>1, SameComplete
<1> HIDE DEF complete
<1>11. Sound(DetachAll(moved, S, complete, proof))
  BY <1>1, <1>6, <1>8, <1>9, <1>10, DetachAllSound
<1>12. QED
  BY <1>3, <1>11

\* So does the removal of a whole source tree.
LEMMA SourceTreeSound ==
    ASSUME Sound(Now), NEW s \in Sources, UnrouteSourceTree(s)
    PROVE  \E st : Sound(st) /\ Install(st)
<1> DEFINE tree == {b \in Bindings : SourceOf[b] = s /\ route[b] # <<>>}
           bare(b) == [i \in 1..Len(route[b]) |-> [route[b][i] EXCEPT !.shared = FALSE]]
           rt == [b \in Bindings |-> IF SourceOf[b] = s THEN <<>> ELSE route[b]]
<1>1. /\ Regular(Now) /\ LinesOf(Now) /\ Held(route) /\ Single(route) /\ route \in Routes
      /\ leased = AllUses(route) /\ \A b \in Bindings : route[b] \in Seq(Good) /\ Line(b, route[b])
  BY SoundFacts DEF Now
<1>2. route' = rt
  BY <1>1, SourceTreeKeeps
<1>3. PICK st : Regular(st) /\ Install(st)
  BY <1>1, SourceTreeKeeps
<1>4. st.route = rt /\ st.leased = leased'
  BY <1>2, <1>3 DEF Install
<1>5. Lines'
  BY <1>1, SourceTreeLine DEF LinesOf, Lines, Now
<1>6. leased' = leased \ UNION {RouteOwned(bare(b)) : b \in tree}
  <2> DEFINE removed == [b \in tree |-> bare(b)]
  <2>1. leased' = leased \ UNION {RouteOwned(removed[b]) : b \in tree}
    BY DEF UnrouteSourceTree, Install
  <2>2. \A b \in tree : removed[b] = bare(b)
    OBVIOUS
  <2>3. QED
    BY <2>1, <2>2
<1>7. ASSUME NEW b \in Bindings
      PROVE  RouteOwned(bare(b)) \subseteq RouteUses(route[b]) /\ RouteOwned(route[b]) \subseteq RouteOwned(bare(b))
  <2> DEFINE r == route[b]
  <2>1. r \in Seq(Good) /\ bare(b) = [i \in 1..Len(r) |-> [r[i] EXCEPT !.shared = FALSE]] /\ Len(r) \in Nat
    BY <1>1
  <2> HIDE DEF r
  <2>2. Len(bare(b)) = Len(r) /\ \A i \in 1..Len(r) : bare(b)[i] = [r[i] EXCEPT !.shared = FALSE]
    BY <2>1
  <2> HIDE DEF bare
  <2>3. ASSUME NEW i \in 1..Len(r)
        PROVE  Owned(bare(b)[i]) \subseteq Uses(r[i]) /\ Owned(r[i]) \subseteq Owned(bare(b)[i])
    <3>1. r[i] \in Fragment /\ r[i].kind \in {"out", "hop", "ground", "pin", "gap"}
      BY <2>1, GoodFragment
    <3>2. /\ bare(b)[i].kind = r[i].kind /\ bare(b)[i].in = r[i].in /\ bare(b)[i].src = r[i].src
          /\ bare(b)[i].dst = r[i].dst /\ bare(b)[i].ownsDst = r[i].ownsDst
          /\ bare(b)[i].ownsLanding = r[i].ownsLanding /\ ~bare(b)[i].shared
      BY <2>2, <3>1 DEF Fragment
    <3>3. QED
      BY <3>1, <3>2 DEF Owned, OwnedLanding, Uses, Jumps
  <2>4. QED
    BY <2>2, <2>3 DEF RouteOwned, RouteUses, r
<1> HIDE DEF bare
<1>8. \A b \in Bindings : rt[b] = IF SourceOf[b] = s THEN <<>> ELSE route[b]
  OBVIOUS
<1>9. RouteUses(<<>>) = {}
  BY DEF RouteUses
<1> HIDE DEF rt
<1>10. Single(rt)
  BY <1>1, <1>8, <1>9 DEF Single
<1>11. Held(rt)
  <2> SUFFICES ASSUME NEW d \in Bindings, NEW i \in 1..Len(rt[d]), NEW w \in Needs(rt[d], i)
               PROVE  \E e \in Siblings(d) : Backs(rt[e], rt[d], i, w)
    BY DEF Held
  <2>1. SourceOf[d] # s
    <3> SUFFICES ASSUME SourceOf[d] = s PROVE FALSE
      OBVIOUS
    <3>1. Len(rt[d]) = 0
      BY <1>8
    <3>2. QED
      BY <3>1
  <2>2. rt[d] = route[d] /\ \A e \in Siblings(d) : rt[e] = route[e]
    BY <1>8, <2>1 DEF Siblings
  <2>3. PICK e \in Siblings(d) : Backs(route[e], route[d], i, w)
    BY <1>1, <2>2 DEF Held
  <2>4. QED
    BY <2>2, <2>3
<1>12. leased' = AllUses(rt)
  <2>1. ASSUME NEW n \in AllUses(rt) PROVE n \in leased'
    <3>1. PICK d \in Bindings : n \in RouteUses(rt[d])
      BY <2>1 DEF AllUses
    <3>2. SourceOf[d] # s /\ n \in RouteUses(route[d])
      BY <1>8, <1>9, <3>1
    <3>3. \A b \in tree : n \notin RouteOwned(bare(b))
      BY <1>1, <1>7, <3>2 DEF Single
    <3>4. n \in leased
      BY <1>1, <3>2 DEF AllUses
    <3>5. QED
      BY <1>6, <3>3, <3>4
  <2>2. ASSUME NEW n \in leased', n \notin AllUses(rt) PROVE FALSE
    <3>1. PICK d \in Bindings : n \in RouteUses(route[d])
      BY <1>1, <1>6, <2>2 DEF AllUses
    <3>2. SourceOf[d] = s
      BY <1>8, <2>2, <3>1 DEF AllUses
    <3>3. PICK e \in Siblings(d) : n \in RouteOwned(route[e])
      BY <1>1, <3>1, HeldOwned
    <3>4. e \in Bindings /\ SourceOf[e] = s /\ n \in RouteOwned(bare(e))
      BY <1>7, <3>2, <3>3 DEF Siblings
    <3>5. route[e] # <<>>
      <4>1. RouteOwned(<<>>) = {}
        BY DEF RouteOwned
      <4>2. QED
        BY <3>3, <4>1
    <3>6. QED
      BY <1>6, <2>2, <3>4, <3>5
  <2>3. QED
    BY <2>1, <2>2
<1>13. LinesOf(st)
  BY <1>2, <1>4, <1>5 DEF Lines, LinesOf
<1>14. Sound(st)
  BY <1>3, <1>4, <1>10, <1>11, <1>12, <1>13 DEF Sound
<1>15. QED
  BY <1>3, <1>14

-----------------------------------------------------------------------------
(* Committing fabric keeps the state sound                                 *)

\* Joining routes, each part gives what it gave.
LEMMA JoinGives ==
    ASSUME NEW r \in Seq(Good), NEW s \in Seq(Good), NEW w
    PROVE  /\ \A i \in 1..Len(r) : Gives(r, i, w) => Gives(r \o s, i, w)
           /\ \A i \in 1..Len(s) : Gives(s, i, w) => Gives(r \o s, Len(r) + i, w)
<1> DEFINE z == r \o s
<1>1. /\ Len(r) \in Nat /\ Len(s) \in Nat /\ Len(z) = Len(r) + Len(s)
      /\ \A i \in 1..Len(r) : z[i] = r[i]
      /\ \A i \in 1..Len(s) : z[Len(r) + i] = s[i]
  OBVIOUS
<1> HIDE DEF z
<1>2. ASSUME NEW i \in 1..Len(r), Gives(r, i, w) PROVE Gives(z, i, w)
  <2>1. i < Len(r) => i + 1 \in 1..Len(r) /\ i < Len(z)
    BY <1>1
  <2>2. QED
    BY <1>1, <1>2, <2>1 DEF Gives
<1>3. ASSUME NEW i \in 1..Len(s), Gives(s, i, w) PROVE Gives(z, Len(r) + i, w)
  <2>1. /\ Len(r) + i \in 1..Len(z) /\ z[Len(r) + i] = s[i]
        /\ i < Len(s) => i + 1 \in 1..Len(s) /\ Len(r) + i < Len(z) /\ (Len(r) + i) + 1 = Len(r) + (i + 1)
    BY <1>1
  <2>2. i < Len(s) => z[(Len(r) + i) + 1] = s[i + 1]
    BY <1>1, <2>1
  <2>3. QED
    BY <1>3, <2>1, <2>2 DEF Gives
<1>4. QED
  BY <1>2, <1>3 DEF z

\* A new suffix owns all it uses but the DST it borrows, and nothing else.
LEMMA SuffixOwns ==
    ASSUME NEW n \in Sources \cup DstNodes, NEW p \in Paths(n), NEW done \in BOOLEAN, NEW q \in Pins,
           Reaches(n, p, done, q), NEW s, Spells(n, p, done, q, s)
    PROVE  /\ \A i \in 1..Len(s) : /\ s[i].kind # "gap"
                                   /\ s[i].kind \in Jumps => Gives(s, i, "src") /\ Gives(s, i, "landing")
                                   /\ s[i].kind = "pin" => Gives(s, i, "in")
           /\ SuffixNodes(p, done, q) \subseteq RouteUses(s)
           /\ \A x \in RouteUses(s) : x \in SuffixNodes(p, done, q) \/ (x = n /\ n \in DstNodes)
<1> DEFINE m == Len(p)
           new == SuffixNodes(p, done, q)
<1>1. /\ p \in Seq(SrcNodes) /\ m \in Nat
      /\ \A i \in 1..m : p[i] \in SrcNodes
      /\ PathEnd(n, p) = IF m = 0 THEN n ELSE Landing[p[m]]
  BY PathFacts
<1>2. s \in Seq(Good) /\ Len(s) = IF done THEN m + 2 ELSE m
  BY DEF Spells
<1>a. ~(n \in Sources /\ n \in DstNodes) /\ Entry[q] \subseteq DstNodes
  BY FabricAssumption DEF Nodes
<1>b. \A d \in DstNodes : d \notin Sources
  BY FabricAssumption DEF Nodes
<1>3. ASSUME NEW i \in 1..m
      PROVE  /\ s[i].in = Leaves(n, p, i) /\ s[i].src = p[i] /\ s[i].dst = Landing[p[i]]
             /\ s[i].kind = IF Leaves(n, p, i) \in Sources THEN "out" ELSE "hop"
             /\ ~s[i].shared /\ s[i].ownsDst = ~(i = 1 /\ n \in DstNodes)
             /\ s[i].ownsLanding = (~done /\ i = m)
  <2>1. s[i] = Hop(Leaves(n, p, i), p[i], ~(i = 1 /\ n \in DstNodes), ~done /\ i = m)
    BY DEF Spells
  <2>2. QED
    BY <2>1 DEF Hop
<1>4. done => /\ s[m + 1] = Ground(PathEnd(n, p), ~(m = 0 /\ n \in DstNodes))
              /\ s[m + 2] = Pin(q)
  BY DEF Spells
<1>5. done => /\ s[m + 1].kind = "ground" /\ s[m + 1].in = PathEnd(n, p) /\ ~s[m + 1].shared
              /\ s[m + 1].ownsDst = ~(m = 0 /\ n \in DstNodes)
              /\ s[m + 2].kind = "pin" /\ s[m + 2].in = q /\ ~s[m + 2].shared
  BY <1>4 DEF Ground, Pin
<1>6. /\ \A i \in 1..m : p[i] \in new /\ Landing[p[i]] \in new
      /\ done => q \in new
  BY DEF SuffixNodes
<1>7. ASSUME NEW x \in new PROVE (\E i \in 1..m : x \in {p[i], Landing[p[i]]}) \/ (done /\ x = q)
  BY <1>7 DEF SuffixNodes
<1> HIDE DEF m, new
<1>8. \A i \in 1..Len(s) : i \in 1..m \/ (done /\ i = m + 1) \/ (done /\ i = m + 2)
  BY <1>1, <1>2
<1>9. (m + 1 # m + 2) /\ (done => m + 1 \in 1..Len(s) /\ m + 2 \in 1..Len(s)) /\ \A i \in 1..m : i \in 1..Len(s)
  BY <1>1, <1>2
<1>10. ASSUME NEW i \in 1..m PROVE Gives(s, i, "src") /\ Gives(s, i, "landing")
  <2>1. s[i].kind \in Jumps /\ i \in Nat
    BY <1>3 DEF Jumps
  <2>2. Gives(s, i, "src")
    BY <1>3, <2>1 DEF Gives
  <2>3. CASE i < m
    <3>1. i + 1 \in 1..m /\ i + 1 # 1 /\ (i + 1) - 1 = i /\ i < Len(s)
      BY <1>1, <1>2, <2>3
    <3>2. Leaves(n, p, i + 1) = Landing[p[i]] /\ Landing[p[i]] \in DstNodes
      BY <1>1, <3>1, FabricAssumption DEF Leaves
    <3>3. OwnsIn(s[i + 1])
      BY <1>3, <1>b, <3>1, <3>2 DEF OwnsIn
    <3>4. QED
      BY <2>1, <2>2, <3>1, <3>3 DEF Gives
  <2>4. CASE i = m /\ done
    <3>1. i < Len(s) /\ m # 0
      BY <1>1, <1>2, <2>4
    <3>2. OwnsIn(s[i + 1])
      BY <1>5, <2>4, <3>1 DEF OwnsIn
    <3>3. QED
      BY <2>1, <2>2, <3>1, <3>2 DEF Gives
  <2>5. CASE i = m /\ ~done
    BY <1>3, <2>1, <2>2, <2>5 DEF Gives
  <2>6. QED
    BY <1>1, <2>1, <2>3, <2>4, <2>5
<1>11. \A i \in 1..Len(s) : /\ s[i].kind # "gap"
                            /\ s[i].kind \in Jumps => Gives(s, i, "src") /\ Gives(s, i, "landing")
                            /\ s[i].kind = "pin" => Gives(s, i, "in")
  <2> SUFFICES ASSUME NEW i \in 1..Len(s)
               PROVE  /\ s[i].kind # "gap"
                      /\ s[i].kind \in Jumps => Gives(s, i, "src") /\ Gives(s, i, "landing")
                      /\ s[i].kind = "pin" => Gives(s, i, "in")
    OBVIOUS
  <2>1. CASE i \in 1..m
    <3>1. s[i].kind \in Jumps
      BY <1>3, <2>1 DEF Jumps
    <3>2. QED
      BY <1>10, <2>1, <3>1 DEF Jumps
  <2>2. CASE done /\ i = m + 1
    BY <1>5, <2>2 DEF Jumps
  <2>3. CASE done /\ i = m + 2
    BY <1>5, <2>3 DEF Jumps, Gives
  <2>4. QED
    BY <1>8, <2>1, <2>2, <2>3
<1>12. new \subseteq RouteUses(s)
  <2> SUFFICES ASSUME NEW x \in new PROVE x \in RouteUses(s)
    OBVIOUS
  <2>1. \A i \in 1..m : p[i] \in Uses(s[i]) /\ Landing[p[i]] \in Uses(s[i])
    BY <1>3 DEF Uses
  <2>2. done => q \in Uses(s[m + 2])
    BY <1>5 DEF Uses
  <2>3. QED
    BY <1>7, <1>9, <2>1, <2>2 DEF RouteUses
<1>13. ASSUME NEW x \in RouteUses(s) PROVE x \in new \/ (x = n /\ n \in DstNodes)
  <2>1. PICK i \in 1..Len(s) : x \in Uses(s[i])
    BY DEF RouteUses
  <2>2. CASE i \in 1..m
    <3>1. x = p[i] \/ x = Landing[p[i]] \/ (x = Leaves(n, p, i) /\ s[i].kind = "hop")
      BY <1>3, <2>1, <2>2 DEF Uses
    <3>2. CASE x = Leaves(n, p, i) /\ s[i].kind = "hop"
      <4>1. i # 1 => i - 1 \in 1..m
        BY <1>1, <2>2
      <4>2. i # 1 => x \in new
        BY <1>6, <3>2, <4>1 DEF Leaves
      <4>3. i = 1 => x = n /\ n \notin Sources
        BY <1>3, <2>2, <3>2 DEF Leaves
      <4>4. QED
        BY <4>2, <4>3
    <3>3. QED
      BY <1>6, <2>2, <3>1, <3>2
  <2>3. CASE done /\ i = m + 1
    <3>1. x = PathEnd(n, p)
      BY <1>5, <2>1, <2>3 DEF Uses
    <3>2. m # 0 => m \in 1..m
      BY <1>1
    <3>3. m = 0 => n \in DstNodes
      BY <1>1, <1>a, <2>3 DEF Reaches
    <3>4. QED
      BY <1>1, <1>6, <3>1, <3>2, <3>3
  <2>4. CASE done /\ i = m + 2
    BY <1>5, <1>6, <2>1, <2>4 DEF Uses
  <2>5. QED
    BY <1>8, <2>1, <2>2, <2>3, <2>4
<1>14. QED
  BY <1>11, <1>12, <1>13 DEF new

\* The prefix b resumes from is its own route or the fabric of a sibling.
Stands(rt, b, s) ==
    /\ Resumes(b, s) /\ (rt[b] # <<>> => s.prefix = rt[b])
    /\ \E c \in Siblings(b) : s.prefix # <<>> => Agree(s.prefix, rt[c], Len(s.prefix))

\* What a route goes on from, its own end or a fork of a sibling, is a line whose
\* needs are backed.
LEMMA StartsStand ==
    ASSUME Sound(Now), NEW b \in Bindings, NEW s \in Starts(b)
    PROVE  Stands(route, b, s)
<1>1. Regular(Now) /\ route \in Routes /\ \A c \in Bindings : route[c] \in Seq(Good)
  BY SoundFacts DEF Now
<1>2. Lines
  BY SoundFacts DEF LinesOf, Lines, Now
<1>3. Resumes(b, s)
  BY <1>1, <1>2, StartsResume
<1>4. ~HasGap(route[b]) /\ ~IsComplete(route[b]) /\ b \in Siblings(b)
  BY DEF Starts, Siblings
<1>5. CASE route[b] # <<>>
  <2>1. s.prefix = route[b]
    BY <1>4, <1>5 DEF Starts
  <2>2. Len(route[b]) \in Nat /\ Len(route[b]) # 0
    BY <1>1, <1>5
  <2>3. Len(route[b]) \in 1..Len(route[b])
    BY <2>2
  <2>4. Agree(route[b], route[b], Len(route[b]))
    BY <1>1, <2>3, AgreeFacts
  <2>5. QED
    BY <1>3, <1>4, <2>1, <2>4 DEF Stands
<1>6. CASE route[b] = <<>> /\ s = [node |-> SourceOf[b], prefix |-> <<>>]
  BY <1>3, <1>4, <1>6 DEF Stands
<1>7. CASE route[b] = <<>> /\ s # [node |-> SourceOf[b], prefix |-> <<>>]
  <2>1. PICK c \in Siblings(b) \ {b} :
           /\ IsComplete(route[c])
           /\ s \in {[node |-> route[c][k].dst, prefix |-> ReplicaPrefix(route[c], k)] :
                        k \in {i \in DOMAIN route[c] : route[c][i].kind \in Jumps}}
    BY <1>4, <1>7 DEF Starts
  <2>2. PICK k \in DOMAIN route[c] : s.prefix = ReplicaPrefix(route[c], k)
    BY <2>1
  <2> DEFINE r == route[c]
             q == ReplicaPrefix(r, k)
  <2>3. c \in Bindings /\ r \in Seq(Good) /\ Len(r) \in Nat
    BY <1>1, <2>1 DEF Siblings
  <2>4. ~HasGap(r) /\ k \in 1..Len(r) /\ k \in 0..Len(r) /\ k \in Nat /\ k <= Len(r)
    BY <2>1, <2>3 DEF IsComplete
  <2>5. s.prefix = q
    BY <2>2
  <2> HIDE DEF r
  <2>6. q \in Seq(Good) /\ Len(q) = k /\ \A i \in 1..k : SamePhysicalFragment(r[i], q[i])
    BY <2>3, <2>4, ReplicaPrefixIs
  <2> HIDE DEF q
  <2>7. Agree(q, r, k)
    <3>1. Agree(r, q, k)
      BY <2>4, <2>6 DEF Agree
    <3>2. QED
      BY <2>3, <2>4, <2>6, <3>1, AgreeFacts
  <2>8. QED
    BY <1>3, <1>7, <2>1, <2>5, <2>6, <2>7 DEF Stands, r
<1>8. QED
  BY <1>5, <1>6, <1>7

\* In u the route of b has grown out of its own source's fabric by `new`.
Extends(st, u, b, new) ==
    /\ \A d \in Bindings : d # b => u.route[d] = st.route[d]
    /\ \E c \in Siblings(b) : RouteUses(u.route[b]) \subseteq RouteUses(st.route[c]) \cup new

\* A commit of fresh nodes keeps the state sound and gives its route nothing else.
LEMMA CommitSound ==
    ASSUME NEW st, Sound(st), NEW b \in Bindings, NEW s, Stands(st.route, b, s),
           NEW p \in Paths(s.node), NEW done \in BOOLEAN, Reaches(s.node, p, done, PinOf[b]),
           p # <<>> \/ done, SuffixNodes(p, done, PinOf[b]) \cap st.leased = {}
    PROVE  /\ Sound(Commit(st, b, s.prefix \o Suffix(s.node, p, done, PinOf[b]), SuffixNodes(p, done, PinOf[b])))
           /\ Extends(st, Commit(st, b, s.prefix \o Suffix(s.node, p, done, PinOf[b]),
                                 SuffixNodes(p, done, PinOf[b])), b, SuffixNodes(p, done, PinOf[b]))
<1> DEFINE a == s.prefix
           z == Suffix(s.node, p, done, PinOf[b])
           r == a \o z
           new == SuffixNodes(p, done, PinOf[b])
           rt == [st.route EXCEPT ![b] = r]
           u == Commit(st, b, r, new)
<1>1. /\ Regular(st) /\ LinesOf(st) /\ Held(st.route) /\ Single(st.route)
      /\ st \in States /\ st.route \in Routes /\ st.leased = AllUses(st.route)
      /\ \A d \in Bindings : st.route[d] \in Seq(Good) /\ Line(d, st.route[d])
  BY SoundFacts
<1>2. PinOf[b] \in Pins /\ SourceOf[b] \in Sources
  BY BindingAssumption
<1>3. Resumes(b, s) /\ a \in Seq(Good) /\ Line(b, a) /\ (st.route[b] # <<>> => a = st.route[b])
  BY DEF Stands, Resumes
<1>4. PICK c \in Siblings(b) : a # <<>> => Agree(a, st.route[c], Len(a))
  BY DEF Stands
<1>5. c \in Bindings /\ SourceOf[c] = SourceOf[b]
  BY DEF Siblings
<1>6. a # <<>> => /\ a[Len(a)].kind \in Jumps /\ a[Len(a)].dst = s.node
                  /\ s.node \in DstNodes /\ s.node \in RouteUses(a)
  <2> SUFFICES ASSUME a # <<>>
               PROVE  /\ a[Len(a)].kind \in Jumps /\ a[Len(a)].dst = s.node
                      /\ s.node \in DstNodes /\ s.node \in RouteUses(a)
    OBVIOUS
  <2>1. a[Len(a)].kind \in Jumps /\ a[Len(a)].dst = s.node
    BY <1>3 DEF Resumes
  <2>2. Len(a) \in 1..Len(a)
    <3>1. Len(a) \in Nat /\ Len(a) # 0
      BY <1>3
    <3>2. QED
      BY <3>1
  <2> HIDE DEF a
  <2>3. a[Len(a)] \in Good
    BY <1>3, <2>2
  <2>4. s.node \in DstNodes
    BY <2>1, <2>3, GoodFragment, FabricAssumption DEF Shape, Jumps
  <2>5. s.node \in Uses(a[Len(a)])
    BY <2>1 DEF Uses, Jumps
  <2>6. QED
    BY <2>1, <2>2, <2>4, <2>5 DEF RouteUses
<1>7. s.node \in Sources \cup DstNodes /\ (a = <<>> => s.node \notin DstNodes)
  <2>1. a = <<>> => s.node = SourceOf[b]
    BY <1>3 DEF Resumes
  <2>2. SourceOf[b] \notin DstNodes
    BY <1>2, FabricAssumption DEF Nodes
  <2>3. QED
    BY <1>2, <1>6, <2>1, <2>2
<1>8. Spells(s.node, p, done, PinOf[b], z)
  BY <1>2, SuffixIs
<1>9. z \in Seq(Good)
  BY <1>8 DEF Spells
<1>10. Line(b, r)
  BY <1>3, CommitLine
<1>11. new \in SUBSET Nodes
  BY <1>2, SuffixNodesAre
<1> HIDE DEF z
<1>12. /\ \A i \in 1..Len(z) : /\ z[i].kind # "gap"
                               /\ z[i].kind \in Jumps => Gives(z, i, "src") /\ Gives(z, i, "landing")
                               /\ z[i].kind = "pin" => Gives(z, i, "in")
       /\ new \subseteq RouteUses(z)
       /\ \A x \in RouteUses(z) : x \in new \/ (x = s.node /\ s.node \in DstNodes)
  BY <1>2, <1>7, <1>8, SuffixOwns
<1> HIDE DEF a, new
<1>13. r \in Seq(Good) /\ RouteTiles(a) \subseteq RouteTiles(r)
  BY <1>3, <1>9, TilesOfJoin
<1>14. /\ Len(a) \in Nat /\ Len(z) \in Nat /\ Len(r) = Len(a) + Len(z)
       /\ \A i \in 1..Len(a) : r[i] = a[i] /\ i \in 1..Len(r)
       /\ \A i \in 1..Len(z) : r[Len(a) + i] = z[i] /\ Len(a) + i \in 1..Len(r)
       /\ \A i \in 1..Len(r) : ~(i <= Len(a)) => i - Len(a) \in 1..Len(z) /\ Len(a) + (i - Len(a)) = i
  BY <1>3, <1>9
<1>15. /\ \A w : \A i \in 1..Len(a) : Gives(a, i, w) => Gives(r, i, w)
       /\ \A w : \A i \in 1..Len(z) : Gives(z, i, w) => Gives(r, Len(a) + i, w)
  BY <1>3, <1>9, JoinGives
<1> HIDE DEF r
<1>16. RouteUses(a) \subseteq RouteUses(st.route[c])
  <2> SUFFICES ASSUME NEW i \in 1..Len(a) PROVE Uses(a[i]) \subseteq RouteUses(st.route[c])
    BY DEF RouteUses
  <2>1. a # <<>>
    BY <1>14
  <2>2. i \in 1..Len(st.route[c]) /\ SamePhysicalFragment(a[i], st.route[c][i])
    <3>1. Agree(a, st.route[c], Len(a)) /\ Len(st.route[c]) \in Nat
      BY <1>1, <1>4, <1>5, <2>1
    <3>2. QED
      BY <1>14, <3>1 DEF Agree
  <2>3. QED
    BY <2>2, SameUses DEF RouteUses
<1>17. RouteUses(r) = RouteUses(a) \cup new
  <2>1. RouteUses(a) \subseteq RouteUses(r) /\ RouteUses(z) \subseteq RouteUses(r)
    BY <1>14 DEF RouteUses
  <2>2. ASSUME NEW i \in 1..Len(r) PROVE Uses(r[i]) \subseteq RouteUses(a) \cup RouteUses(z)
    <3>1. CASE i <= Len(a)
      <4>1. i \in 1..Len(a)
        BY <1>14, <3>1
      <4>2. QED
        BY <1>14, <4>1 DEF RouteUses
    <3>2. CASE ~(i <= Len(a))
      <4>1. i - Len(a) \in 1..Len(z) /\ r[i] = z[i - Len(a)]
        BY <1>14, <3>2
      <4>2. QED
        BY <4>1 DEF RouteUses
    <3>3. QED
      BY <3>1, <3>2
  <2>3. RouteUses(r) \subseteq RouteUses(a) \cup RouteUses(z)
    BY <2>2 DEF RouteUses
  <2>4. s.node \in DstNodes => s.node \in RouteUses(a)
    BY <1>6, <1>7
  <2>5. QED
    BY <1>12, <2>1, <2>3, <2>4
<1>18. /\ u.route = rt /\ u.leased = st.leased \cup new
       /\ rt[b] = r /\ (\A d \in Bindings : d # b => rt[d] = st.route[d]) /\ rt \in Routes
  <2>1. u.route = rt /\ u.leased = st.leased \cup new
    BY DEF Commit
  <2>2. rt[b] = r /\ (\A d \in Bindings : d # b => rt[d] = st.route[d]) /\ rt \in Routes
    BY <1>1, <1>13 DEF Routes
  <2>3. QED
    BY <2>1, <2>2
<1>19. Regular(u)
  <2>1. RouteTiles(st.route[b]) \subseteq RouteTiles(r)
    <3>1. RouteTiles(<<>>) = {}
      BY DEF RouteTiles
    <3>2. QED
      BY <1>3, <1>13, <3>1 DEF a
  <2>2. QED
    BY <1>1, <1>11, <1>13, <2>1, CommitKeeps
<1> HIDE DEF u, rt
<1>20. LinesOf(u)
  BY <1>1, <1>10, <1>18 DEF LinesOf
<1>21. RouteUses(st.route[b]) \subseteq RouteUses(r)
  <2>1. RouteUses(<<>>) = {}
    BY DEF RouteUses
  <2>2. QED
    BY <1>3, <1>17, <2>1 DEF a
<1>22. u.leased = AllUses(rt)
  <2>1. AllUses(rt) \subseteq st.leased \cup new
    BY <1>1, <1>5, <1>16, <1>17, <1>18 DEF AllUses
  <2>2. st.leased \subseteq AllUses(rt)
    BY <1>1, <1>18, <1>21 DEF AllUses
  <2>3. new \subseteq AllUses(rt)
    BY <1>17, <1>18 DEF AllUses
  <2>4. QED
    BY <1>18, <2>1, <2>2, <2>3
<1>23. Single(rt)
  <2>1. ASSUME NEW d \in Bindings, SourceOf[d] # SourceOf[b]
        PROVE  RouteUses(st.route[d]) \cap RouteUses(r) = {}
    <3>1. RouteUses(st.route[d]) \cap RouteUses(st.route[c]) = {}
      BY <1>1, <1>5, <2>1 DEF Single
    <3>2. RouteUses(st.route[d]) \subseteq st.leased
      BY <1>1 DEF AllUses
    <3>3. QED
      BY <1>16, <1>17, <3>1, <3>2 DEF new
  <2>2. QED
    BY <1>1, <1>18, <2>1 DEF Single
<1>24. Held(rt)
  <2> SUFFICES ASSUME NEW d \in Bindings, NEW i \in 1..Len(rt[d]), NEW w \in Needs(rt[d], i)
               PROVE  \E e \in Siblings(d) : Backs(rt[e], rt[d], i, w)
    BY DEF Held
  <2>0. w \in Ends /\ i \in Nat /\ 1 <= i
    BY NeedFacts DEF Ends
  <2>1. CASE d # b
    <3>1. rt[d] = st.route[d]
      BY <1>18, <2>1
    <3>2. PICK e \in Siblings(d) : Backs(st.route[e], st.route[d], i, w)
      BY <1>1, <3>1 DEF Held
    <3>3. CASE e # b
      BY <1>18, <3>1, <3>2, <3>3 DEF Siblings
    <3>4. CASE e = b
      <4>1. Agree(rt[d], st.route[b], i) /\ Gives(st.route[b], i, w)
        BY <3>1, <3>2, <3>4 DEF Backs
      <4>2. i \in 1..Len(st.route[b])
        BY <1>1, <3>1, <4>1, AgreeFacts
      <4>3. st.route[b] # <<>>
        BY <4>2
      <4>4. a = st.route[b]
        BY <1>3, <4>3
      <4>5. Gives(r, i, w)
        BY <1>15, <4>1, <4>2, <4>4
      <4>6. Agree(rt[d], r, i)
        <5>1. i <= Len(r) /\ \A j \in 1..i : j \in 1..Len(a)
          BY <1>14, <2>0, <4>2, <4>4
        <5>2. QED
          BY <1>14, <4>1, <4>4, <5>1 DEF Agree
      <4>7. QED
        BY <1>18, <3>2, <3>4, <4>5, <4>6 DEF Backs
    <3>5. QED
      BY <3>3, <3>4
  <2>2. CASE d = b /\ i <= Len(a)
    <3>1. rt[d] = r /\ i \in 1..Len(a) /\ a # <<>> /\ i \in 1..Len(r)
      BY <1>14, <1>18, <2>0, <2>2
    <3>2. Agree(r, a, i) /\ Agree(a, r, i)
      <4>1. \A j \in 1..i : j \in 1..Len(a)
        BY <1>14, <2>0, <3>1
      <4>2. Agree(r, a, i)
        BY <1>14, <3>1, <4>1, <2>2 DEF Agree, SamePhysicalFragment
      <4>3. QED
        BY <1>3, <1>13, <2>0, <4>2, AgreeFacts DEF a
    <3>3. Agree(a, st.route[c], i)
      BY <1>1, <1>3, <1>4, <1>5, <1>14, <2>0, <2>2, <3>1, AgreeFacts DEF a
    <3>4. Agree(r, st.route[c], i) /\ i \in 1..Len(st.route[c])
      BY <1>1, <1>3, <1>5, <1>13, <2>0, <3>1, <3>2, <3>3, AgreeFacts DEF a
    <3>5. w \in Needs(st.route[c], i)
      BY <1>1, <1>5, <1>13, <3>1, <3>4, NeedsAgree
    <3>6. PICK e \in Siblings(c) : Backs(st.route[e], st.route[c], i, w)
      BY <1>1, <1>5, <3>4, <3>5 DEF Held
    <3>7. e \in Siblings(d) /\ e \in Bindings /\ Agree(st.route[c], st.route[e], i) /\ Gives(st.route[e], i, w)
      BY <1>5, <2>2, <3>6 DEF Backs, Siblings
    <3>8. Agree(r, st.route[e], i) /\ i \in 1..Len(st.route[e])
      BY <1>1, <1>5, <1>13, <2>0, <3>1, <3>4, <3>7, AgreeFacts
    <3>9. CASE e # b
      <4>1. rt[e] = st.route[e]
        BY <1>18, <3>7, <3>9
      <4>2. Backs(rt[e], rt[d], i, w)
        BY <3>1, <3>7, <3>8, <4>1 DEF Backs
      <4>3. QED
        BY <3>7, <4>2
    <3>10. CASE e = b
      <4>1. a = st.route[b]
        BY <1>3, <3>8, <3>10
      <4>2. Gives(r, i, w)
        BY <1>15, <3>1, <3>7, <3>10, <4>1
      <4>3. Agree(r, r, i)
        BY <1>13, <3>1, AgreeFacts
      <4>4. Backs(rt[e], rt[d], i, w)
        BY <1>18, <3>1, <3>10, <4>2, <4>3 DEF Backs
      <4>5. QED
        BY <3>7, <4>4
    <3>11. QED
      BY <3>9, <3>10
  <2>3. CASE d = b /\ ~(i <= Len(a))
    <3> DEFINE j == i - Len(a)
    <3>1. rt[d] = r /\ i \in 1..Len(r) /\ j \in 1..Len(z) /\ r[i] = z[j] /\ Len(a) + j = i
      BY <1>14, <1>18, <2>3
    <3> HIDE DEF j
    <3>2. ~(i > 1 /\ r[i - 1].kind = "gap")
      <4> SUFFICES ASSUME i > 1 PROVE r[i - 1].kind # "gap"
        OBVIOUS
      <4>1. CASE i - 1 = Len(a)
        <5>1. Len(a) \in 1..Len(a) /\ a # <<>>
          BY <1>14, <2>0, <4>1
        <5>2. r[i - 1] = a[Len(a)]
          BY <1>14, <4>1, <5>1
        <5>3. QED
          BY <1>6, <5>1, <5>2 DEF Jumps
      <4>2. CASE i - 1 # Len(a)
        <5>1. j - 1 \in 1..Len(z) /\ Len(a) + (j - 1) = i - 1
          BY <1>14, <2>0, <3>1, <4>2
        <5>2. r[i - 1] = z[j - 1]
          BY <1>14, <5>1
        <5>3. QED
          BY <1>12, <5>1, <5>2
      <4>3. QED
        BY <4>1, <4>2
    <3>3. \/ w \in {"src", "landing"} /\ z[j].kind \in Jumps
          \/ w = "in" /\ z[j].kind = "pin"
      BY <3>1, <3>2, NeedFacts
    <3>4. Gives(z, j, w)
      BY <1>12, <3>1, <3>3
    <3>5. Gives(r, i, w)
      BY <1>15, <3>1, <3>4
    <3>6. Agree(r, r, i)
      BY <1>13, <3>1, AgreeFacts
    <3>7. Backs(rt[b], rt[d], i, w)
      BY <1>18, <3>1, <3>5, <3>6 DEF Backs
    <3>8. QED
      BY <2>3, <3>7 DEF Siblings
  <2>4. QED
    BY <2>1, <2>2, <2>3
<1>25. Sound(u)
  BY <1>18, <1>19, <1>20, <1>22, <1>23, <1>24 DEF Sound
<1>26. Extends(st, u, b, new)
  <2>1. RouteUses(rt[b]) \subseteq RouteUses(st.route[c]) \cup new
    BY <1>16, <1>17, <1>18
  <2>2. QED
    BY <1>18, <2>1 DEF Extends
<1>27. QED
  BY <1>25, <1>26 DEF u, r, a, z, new

\* May b take x without asking?  Nobody leases it, or its own source does.
Takes(b, x) == x \notin leased \/ \E c \in Siblings(b) : x \in RouteUses(route[c])

\* Routes that use nothing another source had.
Quiet(rt) == \A b \in Bindings : \A x \in RouteUses(rt[b]) : Takes(b, x)

\* What a route uses it may keep.
LEMMA KeepsOwn ==
    ASSUME NEW b \in Bindings, NEW x \in RouteUses(route[b])
    PROVE  Takes(b, x)
BY DEF Takes, Siblings

\* The routing step, which commits what its search finds, keeps the state sound
\* and takes free nodes only.
LEMMA RouteStepSound ==
    ASSUME Sound(Now), NEW b \in Bindings, RouteStep(b)
    PROVE  (\E st : Sound(st) /\ Install(st)) /\ Quiet(route')
<1>1. Now.route = route /\ Now.leased = leased
  BY DEF Now
<1>2. PICK s \in Starts(b) : \E p \in Paths(s.node), done \in BOOLEAN :
         /\ p # <<>> \/ done
         /\ Reaches(s.node, p, done, PinOf[b])
         /\ SuffixNodes(p, done, PinOf[b]) \cap leased = {}
         /\ Install(Commit(Now, b, s.prefix \o Suffix(s.node, p, done, PinOf[b]), SuffixNodes(p, done, PinOf[b])))
  BY DEF RouteStep
<1>3. PICK p \in Paths(s.node), done \in BOOLEAN :
         /\ p # <<>> \/ done
         /\ Reaches(s.node, p, done, PinOf[b])
         /\ SuffixNodes(p, done, PinOf[b]) \cap leased = {}
         /\ Install(Commit(Now, b, s.prefix \o Suffix(s.node, p, done, PinOf[b]), SuffixNodes(p, done, PinOf[b])))
  BY <1>2
<1>4. Stands(Now.route, b, s)
  BY <1>1, StartsStand
<1> DEFINE new == SuffixNodes(p, done, PinOf[b])
           u == Commit(Now, b, s.prefix \o Suffix(s.node, p, done, PinOf[b]), new)
<1>5. Sound(u) /\ Extends(Now, u, b, new)
  BY <1>1, <1>3, <1>4, CommitSound
<1>6. Install(u) /\ new \cap leased = {}
  BY <1>3
<1> HIDE DEF u, new
<1>7. route' = u.route
  BY <1>6 DEF Install
<1>8. Quiet(route')
  <2> SUFFICES ASSUME NEW d \in Bindings, NEW x \in RouteUses(route'[d]) PROVE Takes(d, x)
    BY DEF Quiet
  <2>1. CASE d # b
    BY <1>1, <1>5, <1>7, <2>1, KeepsOwn DEF Extends
  <2>2. CASE d = b
    <3>1. PICK c \in Siblings(b) : RouteUses(u.route[b]) \subseteq RouteUses(route[c]) \cup new
      BY <1>1, <1>5 DEF Extends
    <3>2. x \in RouteUses(route[c]) \/ x \in new
      BY <1>7, <2>2, <3>1
    <3>3. QED
      BY <1>6, <2>2, <3>1, <3>2 DEF Takes
  <2>3. QED
    BY <2>1, <2>2
<1>9. QED
  BY <1>5, <1>6, <1>8

\* And the removal of an incomplete route.
LEMMA DiscardSound ==
    ASSUME Sound(Now), NEW b \in Bindings, Discard(b)
    PROVE  \E st : Sound(st) /\ Install(st)
BY UnrouteSound DEF Discard

-----------------------------------------------------------------------------
(* A preemption keeps the state sound                                      *)

\* The front of an opened route gives what it gave, and what a removed hop
\* owned its release refers to, but for the landing that the front took over.
Holed(r, low, end, q, gone) ==
    /\ \A i \in 1..(low - 1) :
          SamePhysicalFragment(r[i], q[i]) /\ \A w \in Ends : Gives(r, i, w) => Gives(q, i, w)
    /\ q[low - 1].kind \in Jumps
    /\ \A i \in low..end : \A n \in Owned(r[i]) : n \in LeaseRefs(gone) \/ n = q[low - 1].dst

\* What opening a hole makes of a route and of the hops it removes.
LEMMA HoledIs ==
    ASSUME NEW b \in Bindings, NEW r \in Seq(Good), Line(b, r), NEW cuts, NEW hole,
           IsHole(r, cuts, hole[1], hole[2])
    PROVE  Holed(r, hole[1], hole[2], Opened(r, hole).route, Opened(r, hole).removed)
<1> DEFINE low == hole[1]
           end == hole[2]
           k == low - 1
           L == Len(r)
           head == SubSeq(r, 1, end)
           cut == KeepLanding(SubSeq(r, 1, k), SubSeq(r, low, end))
           gap == Gap(r[low].in, HoleEnd(r, hole))
           tail == [i \in 1..(L - end) |-> Islanded(r[end + i])]
           q == Opened(r, hole).route
           gone == Opened(r, hole).removed
<1>1. q = cut.kept \o <<gap>> \o tail /\ gone = cut.removed
  BY DEF Opened
<1>2. low \in 2..L /\ end \in low..(L - 1) /\ L \in Nat
  BY DEF IsHole
<1>3. /\ \A i \in low..end : r[i].kind \in {"hop", "gap", "ground"}
      /\ r[low].kind \in {"hop", "gap"}
      /\ r[low].kind = "hop" => r[low - 1].kind # "gap"
  <2>1. \A i \in low..end : r[i].kind \in {"hop", "gap", "ground"}
    BY DEF IsHole
  <2>2. UserOf(r, cuts, low) => r[low].kind = "hop"
    BY <1>2 DEF IsHole
  <2>3. \/ UserOf(r, cuts, low) /\ r[low - 1].kind # "gap"
        \/ r[low].kind = "gap"
    BY DEF IsHole
  <2> HIDE DEF low, end
  <2>4. QED
    BY <2>1, <2>2, <2>3
<1>4. IsOpened(r, low, end, q, gone)
  BY OpenedIs
<1> HIDE DEF low, end, q, gone, L
<1>5. L = Len(r) /\ low \in Nat /\ end \in Nat /\ k \in 1..end /\ k \in 1..L /\ low \in 1..L /\ k + 1 = low
      /\ end \in 1..L
  BY <1>2 DEF L
<1>6. r[k].kind \in Jumps
  <2>1. r[low - 1] \in Good /\ r[low] \in Good /\ Follows(r[low - 1], r[low])
    BY <1>2, <1>5, LineKinds
  <2>2. CASE r[low].kind = "gap"
    BY <2>1, <2>2, Neighbours
  <2>3. CASE r[low].kind = "hop"
    BY <1>3, <2>1, <2>3, Neighbours
  <2>4. QED
    BY <1>3, <2>2, <2>3
<1>7. head \in Seq(Good) /\ Len(head) = end /\ \A i \in 1..end : head[i] = r[i]
  BY <1>5
<1> HIDE DEF head
<1>8. SubSeq(head, 1, k) = SubSeq(r, 1, k) /\ SubSeq(head, k + 1, Len(head)) = SubSeq(r, low, end)
  <2> DEFINE x1 == SubSeq(head, 1, k)
             y1 == SubSeq(r, 1, k)
             x2 == SubSeq(head, low, end)
             y2 == SubSeq(r, low, end)
  <2>1. x1 \in Seq(Good) /\ Len(x1) = k /\ \A i \in 1..k : x1[i] = head[i]
    BY <1>5, <1>7
  <2>2. y1 \in Seq(Good) /\ Len(y1) = k /\ \A i \in 1..k : y1[i] = r[i]
    BY <1>5
  <2>3. x2 \in Seq(Good) /\ Len(x2) = end - low + 1
        /\ \A i \in 1..(end - low + 1) : x2[i] = head[low + i - 1]
    BY <1>2, <1>5, <1>7
  <2>4. y2 \in Seq(Good) /\ Len(y2) = end - low + 1
        /\ \A i \in 1..(end - low + 1) : y2[i] = r[low + i - 1]
    BY <1>2, <1>5
  <2>5. \A i \in 1..k : i \in 1..end
    BY <1>5
  <2>6. \A i \in 1..(end - low + 1) : low + i - 1 \in 1..end
    BY <1>2, <1>5
  <2> HIDE DEF x1, y1, x2, y2
  <2>7. x1 = y1
    <3>1. \A i \in 1..Len(x1) : x1[i] = y1[i]
      BY <1>7, <2>1, <2>2, <2>5
    <3>2. QED
      BY <2>1, <2>2, <3>1, SeqEqual
  <2>8. x2 = y2
    <3>1. \A i \in 1..Len(x2) : x2[i] = y2[i]
      BY <1>7, <2>3, <2>4, <2>6
    <3>2. QED
      BY <2>3, <2>4, <3>1, SeqEqual
  <2>9. QED
    BY <1>5, <1>7, <2>7, <2>8 DEF x1, y1, x2, y2
<1>9. Linked(head)
  <2> SUFFICES ASSUME NEW i \in 1..(Len(head) - 1) PROVE Follows(head[i], head[i + 1])
    BY DEF Linked
  <2>1. i \in 1..end /\ i + 1 \in 1..end /\ i \in 1..(Len(r) - 1)
    BY <1>2, <1>5, <1>7
  <2>2. QED
    BY <1>7, <2>1 DEF Line, Linked
<1>10. k \in 0..Len(head) /\ head[k].kind \in Jumps
  BY <1>5, <1>6, <1>7
<1> HIDE DEF k
<1>11. Halves(head, k, cut.kept, cut.removed)
  <2>1. cut = KeepLanding(SubSeq(head, 1, k), SubSeq(head, k + 1, Len(head)))
    BY <1>8
  <2> HIDE DEF cut
  <2>2. QED
    BY <1>7, <1>9, <1>10, <2>1, CutIs
<1> HIDE DEF cut
<1> DEFINE kept == cut.kept
<1>12. /\ kept \in Seq(Good) /\ gone \in Seq(Good) /\ Len(kept) = k /\ Len(gone) = end - k
       /\ \A i \in 1..k : SamePhysicalFragment(head[i], kept[i])
       /\ \A i \in 1..(end - k) : SamePhysicalFragment(head[k + i], gone[i])
       /\ \A i \in 1..k : \A w \in Ends : Gives(head, i, w) => Gives(kept, i, w)
       /\ \A i \in 1..(end - k) : \A n \in Owned(head[k + i]) : n \in Owned(gone[i]) \/ (k # 0 /\ n = kept[k].dst)
  BY <1>1, <1>7, <1>11 DEF Halves
<1> HIDE DEF kept
<1>13. gap \in Good
  <2>1. q[low] = Gap(r[low].in, HoleEnd(r, <<low, end>>)) /\ q \in Seq(Good) /\ Len(q) = low + (Len(r) - end)
    BY <1>4 DEF IsOpened
  <2>2. HoleEnd(r, hole) = HoleEnd(r, <<low, end>>)
    BY DEF HoleEnd, low, end
  <2>3. low \in 1..Len(q)
    BY <1>2, <1>5, <2>1
  <2>4. QED
    BY <2>1, <2>2, <2>3
<1>14. tail \in Seq(Good)
  <2> DEFINE n == L - end
             g(i) == Islanded(r[end + i])
  <2>0. n \in Nat
    BY <1>2, <1>5
  <2>1. \A i \in 1..n : r[end + i] \in Good
    BY <1>2, <1>5
  <2>2. \A i \in 1..n : g(i) \in Good
    BY <2>1, IslandedIs
  <2> HIDE DEF g, n
  <2>3. [i \in 1..n |-> g(i)] \in Seq(Good)
    BY <2>0, <2>2
  <2>4. QED
    BY <2>3 DEF n, g
<1> HIDE DEF gap, tail
<1> DEFINE f == kept \o <<gap>>
<1>15. <<gap>> \in Seq(Good) /\ f \in Seq(Good) /\ Len(f) = k + 1 /\ \A i \in 1..k : f[i] = kept[i]
  BY <1>5, <1>12, <1>13
<1>16. q = f \o tail
  BY <1>1 DEF kept
<1>17. ASSUME NEW i \in 1..k, NEW w \in Ends, Gives(kept, i, w) PROVE Gives(q, i, w)
  <2>1. i \in 1..Len(kept) /\ i \in 1..Len(f)
    BY <1>5, <1>12, <1>15
  <2>2. Gives(f, i, w)
    BY <1>12, <1>15, <1>17, <2>1, JoinGives
  <2> HIDE DEF f
  <2>3. QED
    BY <1>14, <1>15, <1>16, <2>1, <2>2, JoinGives
<1>18. \A i \in 1..k : q[i] = kept[i]
  <2> HIDE DEF f
  <2>1. \A i \in 1..k : i \in 1..Len(f)
    BY <1>5, <1>15
  <2>2. QED
    BY <1>14, <1>15, <1>16, <2>1
<1>19. ASSUME NEW i \in 1..k
       PROVE  SamePhysicalFragment(r[i], q[i]) /\ \A w \in Ends : Gives(r, i, w) => Gives(q, i, w)
  <2>1. i \in 1..end /\ i + 1 \in 1..end /\ i < Len(head)
    BY <1>2, <1>5, <1>7
  <2>2. head[i] = r[i] /\ head[i + 1] = r[i + 1]
    BY <1>7, <2>1
  <2>3. \A w : Gives(r, i, w) => Gives(head, i, w)
    BY <2>1, <2>2 DEF Gives
  <2>4. QED
    BY <1>12, <1>17, <1>18, <2>2, <2>3
<1>20. q[k].kind \in Jumps /\ q[k] = kept[k]
  BY <1>5, <1>6, <1>18, <1>19 DEF SamePhysicalFragment
<1>21. ASSUME NEW i \in low..end, NEW n \in Owned(r[i])
       PROVE  n \in LeaseRefs(gone) \/ n = q[k].dst
  <2> DEFINE j == i - k
  <2>0. i \in Nat /\ low <= i /\ i <= end /\ k \in Nat /\ 1 <= k /\ k + 1 = low /\ end \in Nat
    BY <1>2, <1>5
  <2>1. j \in 1..(end - k) /\ k + j = i /\ i \in 1..end /\ j \in 1..Len(gone)
    <3>1. j \in 1..(end - k) /\ k + j = i /\ i \in 1..end
      BY <2>0
    <3>2. Len(gone) = end - k
      BY <1>12
    <3>3. QED
      BY <3>1, <3>2
  <2> HIDE DEF j
  <2>2. n \in Owned(head[k + j]) /\ SamePhysicalFragment(r[i], gone[j])
    BY <1>7, <1>12, <2>1
  <2>3. gone[j].kind # "pin"
    BY <1>3, <2>2 DEF SamePhysicalFragment
  <2>4. Owned(gone[j]) \subseteq LeaseRefs(gone)
    BY <1>12, <2>1, <2>3, OwnedReferred
  <2>5. QED
    BY <1>12, <1>20, <2>1, <2>2, <2>4
<1>22. k = low - 1
  BY DEF k
<1>23. Holed(r, low, end, q, gone)
  BY <1>19, <1>20, <1>21, <1>22 DEF Holed
<1>24. QED
  BY <1>23 DEF low, end, q, gone

\* Every victim of a cut with its hole, rt the routes afterwards.
Cutting(cuts, rt, gone) ==
    LET hole(c) == TransitCut(route[c], cuts) IN
    /\ rt \in Routes /\ DOMAIN gone = Dependents(Now, cuts)
    /\ \A c \in Dependents(Now, cuts) :
          /\ IsHole(route[c], cuts, hole(c)[1], hole(c)[2])
          /\ IsOpened(route[c], hole(c)[1], hole(c)[2], rt[c], gone[c])
          /\ Holed(route[c], hole(c)[1], hole(c)[2], rt[c], gone[c])
    /\ \A c \in Bindings : c \notin Dependents(Now, cuts) => rt[c] = route[c]

\* Opening every hole of a preemption is one withdrawal of what was cut out.
LEMMA OpenHolesCut ==
    ASSUME Sound(Now), NEW cuts, NEW b \in Bindings, MayCut(b, cuts)
    PROVE  \E rt, gone : /\ OpenHoles(Dependents(Now, cuts), cuts) = Withdraw(Now, rt, gone)
                         /\ Cutting(cuts, rt, gone)
<1> DEFINE V == Dependents(Now, cuts)
           hole(c) == TransitCut(route[c], cuts)
           o(c) == Opened(route[c], hole(c))
           opened == [c \in V |-> o(c)]
           rt == [c \in Bindings |-> IF c \in V THEN opened[c].route ELSE route[c]]
           gone == [c \in V |-> opened[c].removed]
<1>1. Regular(Now) /\ Now.route = route /\ route \in Routes
      /\ \A c \in Bindings : route[c] \in Seq(Good) /\ Line(c, route[c])
  BY SoundFacts DEF Now
<1>2. V = {c \in Bindings : RouteUses(route[c]) \cap cuts # {}}
  BY <1>1, DependentsAre
<1>3. \A c \in V : hole(c) # <<>>
  BY DEF MayCut
<1>4. OpenHoles(V, cuts) = Withdraw(Now, rt, gone)
  BY DEF OpenHoles
<1> HIDE DEF V
<1>5. ASSUME NEW c \in V
      PROVE  /\ IsHole(route[c], cuts, hole(c)[1], hole(c)[2])
             /\ IsOpened(route[c], hole(c)[1], hole(c)[2], o(c).route, o(c).removed)
             /\ Holed(route[c], hole(c)[1], hole(c)[2], o(c).route, o(c).removed)
             /\ o(c).route \in Seq(Good)
  <2>1. c \in Bindings /\ RouteUses(route[c]) \cap cuts # {} /\ hole(c) # <<>>
    BY <1>2, <1>3
  <2>2. route[c] \in Seq(Good) /\ Line(c, route[c])
    BY <1>1, <2>1
  <2>3. IsHole(route[c], cuts, hole(c)[1], hole(c)[2])
    BY <2>1, <2>2, TransitCutIs
  <2> HIDE DEF hole
  <2>4. IsOpened(route[c], hole(c)[1], hole(c)[2], o(c).route, o(c).removed)
    BY <2>2, <2>3, OpenedIs
  <2>5. Holed(route[c], hole(c)[1], hole(c)[2], o(c).route, o(c).removed)
    BY <2>1, <2>2, <2>3, HoledIs
  <2> HIDE DEF o
  <2>6. QED
    BY <2>3, <2>4, <2>5 DEF IsOpened
<1> HIDE DEF o
<1>6. /\ rt \in Routes /\ \A c \in V : rt[c] = o(c).route /\ gone[c] = o(c).removed
      /\ \A c \in Bindings : c \notin V => rt[c] = route[c]
      /\ DOMAIN gone = V
  <2>1. V \subseteq Bindings
    BY <1>2
  <2>2. QED
    BY <1>1, <1>5, <2>1 DEF Routes
<1> HIDE DEF rt, gone
<1>7. Cutting(cuts, rt, gone)
  BY <1>5, <1>6 DEF Cutting, V
<1>8. OpenHoles(Dependents(Now, cuts), cuts) = Withdraw(Now, rt, gone)
  BY <1>4 DEF V
<1>9. QED
  BY <1>7, <1>8

\* What is needed in front of every cut of one's own keeps its owner.
LEMMA CutBacks ==
    ASSUME Sound(Now), NEW cuts, NEW rt, NEW gone, Cutting(cuts, rt, gone),
           NEW d \in Bindings, NEW i \in 1..Len(route[d]), NEW w \in Needs(route[d], i),
           \A j \in 1..i : Uses(route[d][j]) \cap cuts = {},
           NEW e \in Bindings, Backs(route[e], route[d], i, w)
    PROVE  Backs(rt[e], route[d], i, w)
<1> DEFINE r == route[d]
           q == route[e]
           low == TransitCut(q, cuts)[1]
           end == TransitCut(q, cuts)[2]
<1>1. \A c \in Bindings : route[c] \in Seq(Good) /\ Line(c, route[c])
  BY SoundFacts DEF Now
<1>2. Agree(r, q, i) /\ Gives(q, i, w) /\ w \in Ends /\ i \in Nat /\ 1 <= i
  BY NeedFacts DEF Backs, Ends
<1>3. CASE e \notin Dependents(Now, cuts)
  <2>1. rt[e] = q
    BY <1>3 DEF Cutting
  <2>2. QED
    BY <1>2, <2>1 DEF Backs
<1>4. CASE e \in Dependents(Now, cuts)
  <2>1. IsHole(q, cuts, low, end) /\ IsOpened(q, low, end, rt[e], gone[e]) /\ Holed(q, low, end, rt[e], gone[e])
    BY <1>4 DEF Cutting
  <2> HIDE DEF low, end
  <2>2. low \in Nat /\ low >= 2 /\ low <= Len(q) /\ end \in Nat /\ low <= end /\ end < Len(q) /\ Len(q) \in Nat
    <3>1. low \in 2..Len(q) /\ end \in low..(Len(q) - 1)
      BY <2>1 DEF IsHole
    <3>2. Len(q) \in Nat
      BY <1>1
    <3>3. QED
      BY <3>1, <3>2
  <2>3. rt[e] \in Seq(Good) /\ Len(rt[e]) = low + (Len(q) - end)
    BY <2>1 DEF IsOpened
  <2>4. i < low
    <3> SUFFICES ASSUME low <= i PROVE FALSE
      BY <1>2, <2>2
    <3>1. \A j \in 1..i : ~UserOf(q, cuts, j)
      <4> SUFFICES ASSUME NEW j \in 1..i PROVE Uses(q[j]) \cap cuts = {}
        BY DEF UserOf
      <4>1. SamePhysicalFragment(r[j], q[j])
        BY <1>2 DEF Agree
      <4>2. QED
        BY <4>1, SameUses
    <3>2. low \in 1..i
      BY <1>2, <2>2
    <3>3. q[low].kind = "gap" /\ UserOf(q, cuts, low + 1)
      BY <2>1, <3>1, <3>2 DEF IsHole
    <3>4. low = i
      <4>1. ~(low + 1 \in 1..i)
        BY <3>1, <3>3
      <4>2. QED
        BY <1>2, <2>2, <4>1
    <3>5. r[i].kind = "gap"
      <4>1. SamePhysicalFragment(r[i], q[i])
        BY <1>1, <1>2, AgreeFacts
      <4>2. QED
        BY <3>3, <3>4, <4>1 DEF SamePhysicalFragment
    <3>6. QED
      BY <3>5, NeedFacts DEF Jumps
  <2>5. \A j \in 1..i : j \in 1..(low - 1)
    BY <1>2, <2>2, <2>4
  <2>6. i \in 1..(low - 1) /\ i <= Len(rt[e])
    BY <1>2, <2>2, <2>3, <2>4
  <2>7. Gives(rt[e], i, w)
    BY <1>2, <2>1, <2>6 DEF Holed
  <2>8. Agree(q, rt[e], i)
    <3>1. i <= Len(q)
      BY <2>2, <2>4, <1>2
    <3>2. QED
      BY <2>1, <2>5, <2>6, <3>1 DEF Holed, Agree
  <2>9. Agree(r, rt[e], i)
    BY <1>1, <1>2, <2>3, <2>8, AgreeFacts
  <2>10. QED
    BY <2>7, <2>9 DEF Backs
<1>5. QED
  BY <1>3, <1>4

\* What is behind a hole gives all that it needs.
LEMMA IslandedGives ==
    ASSUME NEW q \in Seq(Good), NEW i \in 1..Len(q), NEW f \in Good, q[i] = Islanded(f), NEW w \in Needs(q, i)
    PROVE  Gives(q, i, w)
<1>1. f \in Fragment /\ f.kind \in {"out", "hop", "ground", "pin", "gap"}
  BY GoodFragment
<1>2. q[i].kind = f.kind
  BY IslandedIs DEF SamePhysicalFragment
<1>3. /\ f.kind # "gap" => ~q[i].shared
      /\ f.kind \in Jumps => q[i].ownsLanding
      /\ f.kind \in {"hop", "ground"} => q[i].ownsDst
  <2>1. CASE f.kind = "gap"
    BY <2>1 DEF Jumps
  <2>2. CASE f.kind = "pin"
    <3>1. q[i] = [f EXCEPT !.shared = FALSE]
      BY <2>2 DEF Islanded
    <3>2. ~q[i].shared
      BY <1>1, <3>1 DEF Fragment
    <3>3. QED
      BY <2>2, <3>2 DEF Jumps
  <2>3. CASE f.kind \in Crossbar
    <3> DEFINE od == f.kind # "out"
               ol == f.kind \in Jumps
    <3>1. q[i] = [f EXCEPT !.shared = FALSE, !.ownsDst = od, !.ownsLanding = ol]
      BY <2>3 DEF Islanded, Crossbar
    <3> HIDE DEF od, ol
    <3>2. q[i].shared = FALSE /\ q[i].ownsDst = od /\ q[i].ownsLanding = ol
      BY <1>1, <3>1 DEF Fragment
    <3>3. QED
      BY <3>2 DEF od, ol
  <2>4. QED
    BY <1>1, <2>1, <2>2, <2>3 DEF Crossbar
<1>4. QED
  BY <1>1, <1>2, <1>3, NeedFacts DEF Gives, OwnsIn, Jumps

\* An opened route uses what it used, but for the cut nodes; what else it
\* owned its release refers to.
LEMMA CutUses ==
    ASSUME Sound(Now), NEW cuts, NEW rt, NEW gone, Cutting(cuts, rt, gone), NEW c \in Bindings
    PROVE  /\ RouteUses(rt[c]) \subseteq RouteUses(route[c]) /\ RouteUses(rt[c]) \cap cuts = {}
           /\ \A n \in RouteOwned(route[c]) :
                 n \in RouteUses(rt[c]) \/ (c \in Dependents(Now, cuts) /\ n \in LeaseRefs(gone[c]))
<1> DEFINE r == route[c]
           q == rt[c]
           L == Len(r)
           low == TransitCut(r, cuts)[1]
           end == TransitCut(r, cuts)[2]
<1>1. Regular(Now) /\ r \in Seq(Good) /\ Line(c, r) /\ L \in Nat
  BY SoundFacts DEF Now
<1>2. Dependents(Now, cuts) = {d \in Bindings : RouteUses(route[d]) \cap cuts # {}}
  BY <1>1, DependentsAre DEF Now
<1>3. CASE c \notin Dependents(Now, cuts)
  <2>1. q = r
    BY <1>3 DEF Cutting
  <2>2. QED
    BY <1>1, <1>2, <1>3, <2>1, OwnedUsed
<1>4. CASE c \in Dependents(Now, cuts)
  <2>1. IsHole(r, cuts, low, end) /\ IsOpened(r, low, end, q, gone[c]) /\ Holed(r, low, end, q, gone[c])
    BY <1>4 DEF Cutting
  <2> HIDE DEF low, end
  <2>2. low \in 2..L /\ end \in low..(L - 1)
    BY <2>1 DEF IsHole
  <2>3. q \in Seq(Good) /\ Len(q) = low + (L - end)
        /\ q[low].kind = "gap" /\ \A i \in 1..(L - end) : q[low + i] = Islanded(r[end + i])
    BY <2>1 DEF IsOpened, Gap
  <2> HIDE DEF q, r, L
  <2>4. low \in Nat /\ low >= 2 /\ low <= L /\ end \in Nat /\ low <= end /\ end < L /\ L \in Nat
    BY <1>1, <2>2
  <2>5. ASSUME NEW i \in 1..(low - 1)
        PROVE  /\ i \in 1..L /\ i \in 1..Len(q) /\ ~(i \in low..end) /\ Uses(q[i]) = Uses(r[i])
    <3>1. i \in 1..L /\ i \in 1..Len(q) /\ ~(i \in low..end)
      BY <2>3, <2>4
    <3>2. SamePhysicalFragment(r[i], q[i])
      BY <2>1 DEF Holed
    <3>3. QED
      BY <3>1, <3>2, SameUses
  <2>6. ASSUME NEW i \in 1..(L - end)
        PROVE  /\ end + i \in 1..L /\ low + i \in 1..Len(q) /\ ~(end + i \in low..end)
               /\ Uses(q[low + i]) = Uses(r[end + i])
    <3>1. end + i \in 1..L /\ low + i \in 1..Len(q) /\ ~(end + i \in low..end)
      BY <2>3, <2>4
    <3>2. r[end + i] \in Good
      BY <1>1, <3>1 DEF L
    <3>3. SamePhysicalFragment(r[end + i], q[low + i])
      BY <2>3, <3>2, IslandedIs
    <3>4. QED
      BY <3>1, <3>3, SameUses
  <2>7. ASSUME NEW i \in 1..L, i \notin low..end
        PROVE  Uses(r[i]) \subseteq RouteUses(q) /\ Uses(r[i]) \cap cuts = {}
    <3>1. Uses(r[i]) \cap cuts = {}
      <4>1. i \in Nat /\ ~UserOf(r, cuts, i)
        BY <2>1, <2>7 DEF IsHole
      <4>2. QED
        BY <4>1 DEF UserOf, L
    <3>2. CASE i < low
      <4>1. i \in 1..(low - 1)
        BY <2>4, <3>2
      <4>2. QED
        BY <2>5, <3>1, <4>1 DEF RouteUses
    <3>3. CASE ~(i < low)
      <4>1. i - end \in 1..(L - end) /\ end + (i - end) = i
        BY <2>4, <2>7, <3>3
      <4>2. low + (i - end) \in 1..Len(q) /\ Uses(q[low + (i - end)]) = Uses(r[i])
        BY <2>6, <4>1
      <4>3. QED
        BY <3>1, <4>2 DEF RouteUses
    <3>4. QED
      BY <3>2, <3>3
  <2>8. ASSUME NEW j \in 1..Len(q)
        PROVE  Uses(q[j]) = {} \/ \E i \in 1..L : i \notin low..end /\ Uses(q[j]) = Uses(r[i])
    <3>1. CASE j < low
      <4>1. j \in 1..(low - 1)
        BY <2>4, <3>1
      <4>2. QED
        BY <2>5, <4>1
    <3>2. CASE j = low
      BY <2>3, <3>2 DEF Uses
    <3>3. CASE j > low
      <4>1. j - low \in 1..(L - end) /\ low + (j - low) = j
        BY <2>3, <2>4, <3>3
      <4>2. QED
        BY <2>6, <4>1
    <3>4. QED
      BY <2>4, <3>1, <3>2, <3>3
  <2>9. RouteUses(q) \subseteq RouteUses(r) /\ RouteUses(q) \cap cuts = {}
    <3> SUFFICES ASSUME NEW j \in 1..Len(q) PROVE Uses(q[j]) \subseteq RouteUses(r) /\ Uses(q[j]) \cap cuts = {}
      BY DEF RouteUses
    <3>1. CASE Uses(q[j]) = {}
      BY <3>1
    <3>2. CASE \E i \in 1..L : i \notin low..end /\ Uses(q[j]) = Uses(r[i])
      BY <2>7, <3>2 DEF RouteUses, L
    <3>3. QED
      BY <2>8, <3>1, <3>2
  <2>10. ASSUME NEW n \in RouteOwned(r) PROVE n \in RouteUses(q) \/ n \in LeaseRefs(gone[c])
    <3>1. PICK i \in 1..L : n \in Owned(r[i])
      BY DEF RouteOwned, L
    <3>2. CASE i \notin low..end
      <4>1. n \in Uses(r[i])
        <5>1. r[i].kind \in {"out", "hop", "ground", "pin", "gap"}
          BY <1>1, GoodFragment DEF L
        <5>2. QED
          BY <3>1, <5>1 DEF Owned, OwnedLanding, Uses, Jumps
      <4>2. QED
        BY <2>7, <3>2, <4>1
    <3>3. CASE i \in low..end
      <4>1. n \in LeaseRefs(gone[c]) \/ n = q[low - 1].dst
        BY <2>1, <3>1, <3>3 DEF Holed
      <4>2. q[low - 1].dst \in Uses(q[low - 1])
        BY <2>1 DEF Holed, Uses, Jumps
      <4>3. low - 1 \in 1..Len(q)
        BY <2>3, <2>4
      <4>4. QED
        BY <4>1, <4>2, <4>3 DEF RouteUses
    <3>4. QED
      BY <3>2, <3>3
  <2>11. QED
    BY <1>4, <2>9, <2>10 DEF q, r
<1>5. QED
  BY <1>3, <1>4

\* After a preemption opened its holes the state is sound and the nodes it wanted
\* are free.
LEMMA OpenHolesSound ==
    ASSUME Sound(Now), NEW cuts, NEW b \in Bindings, MayCut(b, cuts)
    PROVE  /\ Sound(OpenHoles(Dependents(Now, cuts), cuts))
           /\ OpenHoles(Dependents(Now, cuts), cuts).leased \subseteq leased \ cuts
<1> DEFINE V == Dependents(Now, cuts)
           u == OpenHoles(V, cuts)
<1>1. /\ Regular(Now) /\ LinesOf(Now) /\ Held(route) /\ leased = AllUses(route) /\ Now.route = route
      /\ Now.leased = leased
      /\ \A c \in Bindings : route[c] \in Seq(Good) /\ Line(c, route[c])
  BY SoundFacts DEF Now
<1>2. PICK rt, gone : u = Withdraw(Now, rt, gone) /\ Cutting(cuts, rt, gone)
  BY OpenHolesCut
<1>3. Regular(u) /\ LinesOf(u)
  <2>1. Lines
    BY <1>1 DEF Lines
  <2>2. QED
    BY <1>1, <2>1, OpenHolesKeeps, OpenHolesLine
<1>4. u.route = rt
  BY <1>2 DEF Withdraw
<1>5. /\ rt \in Routes /\ DOMAIN gone = V /\ \A c \in Bindings : rt[c] \in Seq(Good) /\ Line(c, rt[c])
  BY <1>2, <1>3, <1>4 DEF Cutting, LinesOf, Routes
<1>6. V = {c \in Bindings : RouteUses(route[c]) \cap cuts # {}}
  BY <1>1, DependentsAre
<1> HIDE DEF u, V
<1>7. ASSUME NEW d \in Bindings, NEW i \in 1..Len(rt[d]), NEW w \in Needs(rt[d], i)
      PROVE  \E e \in Siblings(d) : Backs(rt[e], rt[d], i, w)
  <2>1. CASE d \notin V
    <3>1. rt[d] = route[d]
      BY <1>2, <2>1 DEF Cutting, V
    <3>2. \A j \in 1..i : Uses(route[d][j]) \cap cuts = {}
      <4>1. \A j \in 1..i : j \in 1..Len(route[d])
        BY <1>1, <3>1
      <4>2. QED
        BY <1>6, <2>1, <4>1 DEF RouteUses
    <3>3. PICK e \in Siblings(d) : Backs(route[e], route[d], i, w)
      BY <1>1, <3>1 DEF Held
    <3>4. Backs(rt[e], route[d], i, w)
      BY <1>2, <3>1, <3>2, <3>3, CutBacks DEF Siblings
    <3>5. QED
      BY <3>1, <3>3, <3>4
  <2>2. CASE d \in V
    <3> DEFINE r == route[d]
               q == rt[d]
               low == TransitCut(r, cuts)[1]
               end == TransitCut(r, cuts)[2]
    <3>1. IsHole(r, cuts, low, end) /\ IsOpened(r, low, end, q, gone[d]) /\ Holed(r, low, end, q, gone[d])
      BY <1>2, <2>2 DEF Cutting, V
    <3> HIDE DEF low, end
    <3>2. low \in 2..Len(r) /\ end \in low..(Len(r) - 1)
      BY <3>1 DEF IsHole
    <3>3. q \in Seq(Good) /\ Len(q) = low + (Len(r) - end) /\ q[low].kind = "gap"
          /\ \A j \in 1..(Len(r) - end) : q[low + j] = Islanded(r[end + j])
      BY <3>1 DEF IsOpened, Gap
    <3>4. r \in Seq(Good) /\ Len(r) \in Nat
      BY <1>1
    <3> HIDE DEF r
    <3>5. low \in Nat /\ low >= 2 /\ low <= Len(r) /\ end \in Nat /\ low <= end /\ end < Len(r)
      BY <3>2, <3>4
    <3>6. i \in Nat /\ 1 <= i /\ i <= Len(q) /\ i \in 1..Len(q)
      BY <3>3, <3>4, <3>5
    <3>7. CASE i < low
      <4>1. \A j \in 1..i : j \in 1..(low - 1) /\ j \in 1..Len(r) /\ ~(j \in low..end)
        BY <3>5, <3>6, <3>7
      <4>2. \A j \in 1..i : SamePhysicalFragment(q[j], r[j])
        BY <3>1, <4>1 DEF Holed, SamePhysicalFragment
      <4>3. i \in 1..i /\ i \in 1..Len(r) /\ i <= Len(r)
        BY <3>5, <3>6, <3>7
      <4>4. Agree(q, r, i)
        BY <3>6, <4>2, <4>3 DEF Agree
      <4>5. w \in Needs(r, i)
        BY <3>3, <3>4, <3>6, <4>4, NeedsAgree
      <4>6. PICK e \in Siblings(d) : Backs(route[e], r, i, w)
        BY <1>1, <4>3, <4>5 DEF Held, r
      <4>7. \A j \in 1..i : Uses(r[j]) \cap cuts = {}
        <5> SUFFICES ASSUME NEW j \in 1..i PROVE Uses(r[j]) \cap cuts = {}
          OBVIOUS
        <5>1. j \in Nat /\ ~UserOf(r, cuts, j)
          BY <3>1, <4>1 DEF IsHole
        <5>2. QED
          BY <4>1, <5>1 DEF UserOf
      <4>8. e \in Bindings /\ Backs(rt[e], r, i, w)
        BY <1>2, <4>3, <4>5, <4>6, <4>7, CutBacks DEF Siblings, r
      <4>9. Agree(q, rt[e], i)
        <5>1. Agree(r, rt[e], i)
          BY <4>8 DEF Backs
        <5>2. QED
          BY <1>5, <3>3, <3>4, <3>6, <4>4, <4>8, <5>1, AgreeFacts
      <4>10. Backs(rt[e], q, i, w)
        BY <4>8, <4>9 DEF Backs
      <4>11. QED
        BY <4>6, <4>10
    <3>8. CASE i = low
      BY <3>3, <3>8, NeedFacts DEF Jumps
    <3>9. CASE i > low
      <4>1. i - low \in 1..(Len(r) - end) /\ low + (i - low) = i /\ end + (i - low) \in 1..Len(r)
        BY <3>3, <3>4, <3>5, <3>6, <3>9
      <4>2. q[i] = Islanded(r[end + (i - low)]) /\ r[end + (i - low)] \in Good
        BY <3>3, <3>4, <4>1
      <4>3. Gives(q, i, w)
        BY <3>3, <3>6, <4>2, IslandedGives
      <4>4. Agree(q, q, i)
        BY <3>3, <3>6, AgreeFacts
      <4>5. Backs(rt[d], rt[d], i, w) /\ d \in Siblings(d)
        BY <4>3, <4>4 DEF Backs, Siblings
      <4>6. QED
        BY <4>5
    <3>10. QED
      BY <3>5, <3>6, <3>7, <3>8, <3>9
  <2>3. QED
    BY <2>1, <2>2
<1>8. Held(rt)
  BY <1>7 DEF Held
<1>9. \A c \in Bindings : RouteUses(rt[c]) \subseteq RouteUses(Now.route[c])
  BY <1>1, <1>2, CutUses
<1>10. ASSUME NEW n \in leased, n \notin AllUses(rt) PROVE \E c \in DOMAIN gone : n \in LeaseRefs(gone[c])
  <2>1. PICK d \in Bindings : n \in RouteUses(route[d])
    BY <1>1 DEF AllUses
  <2>2. PICK e \in Siblings(d) : n \in RouteOwned(route[e])
    BY <1>1, <2>1, HeldOwned DEF Regular, States
  <2>3. e \in Bindings /\ n \notin RouteUses(rt[e])
    BY <1>10, <2>2 DEF AllUses, Siblings
  <2>4. e \in V /\ n \in LeaseRefs(gone[e])
    BY <1>2, <2>2, <2>3, CutUses DEF V
  <2>5. QED
    BY <1>5, <2>4
<1>11. Sound(Withdraw(Now, rt, gone))
  <2>1. Regular(Withdraw(Now, rt, gone)) /\ Withdraw(Now, rt, gone).route = rt
    BY <1>2, <1>3, <1>4
  <2>2. \A n \in Now.leased : n \in AllUses(rt) \/ \E c \in DOMAIN gone : n \in LeaseRefs(gone[c])
    BY <1>1, <1>10
  <2>3. QED
    BY <1>5, <1>8, <1>9, <2>1, <2>2, WithdrawSound
<1>12. u.leased \subseteq leased \ cuts
  <2>1. u.leased = AllUses(rt)
    BY <1>2, <1>4, <1>11 DEF Sound
  <2>2. \A c \in Bindings : RouteUses(rt[c]) \subseteq RouteUses(route[c]) /\ RouteUses(rt[c]) \cap cuts = {}
    BY <1>2, CutUses
  <2>3. QED
    BY <1>1, <2>1, <2>2 DEF AllUses
<1>13. QED
  BY <1>2, <1>11, <1>12 DEF u, V

\* Where a preemption starts it still stands after its holes are opened, since
\* no replica of its own source loses anything.
LEMMA PreemptFacts ==
    ASSUME Sound(Now), NEW b \in Bindings, NEW s \in Starts(b), NEW new, NEW u,
           MayCut(b, new \cap leased), Install(u)
    PROVE  LET cuts == new \cap leased
               V    == Dependents(Now, cuts)
               open == OpenHoles(V, cuts)
           IN  /\ MayCut(b, cuts) /\ Install(u) /\ Stands(open.route, b, s) /\ b \notin V
               /\ Sound(open) /\ open.leased \subseteq leased \ cuts
               /\ \A c \in Siblings(b) : c \notin V
               /\ \A c \in Bindings : c \notin V => open.route[c] = route[c]
<1> DEFINE cuts == new \cap leased
           V == Dependents(Now, cuts)
           open == OpenHoles(V, cuts)
<1>4. Sound(open) /\ open.leased \subseteq leased \ cuts
  BY OpenHolesSound
<1>6. /\ Regular(Now) /\ b \notin V /\ \A c \in Bindings : c \notin V => open.route[c] = route[c]
  BY SoundFacts, OpenHolesKeeps
<1>7. V = {c \in Bindings : RouteUses(route[c]) \cap cuts # {}}
  BY <1>6, DependentsAre DEF Now
<1>8. \A c \in Siblings(b) : c \notin V
  <2> SUFFICES ASSUME NEW c \in Siblings(b), c \in V PROVE FALSE
    OBVIOUS
  <2>1. PICK n \in cuts : n \in RouteUses(route[c])
    BY <1>7
  <2>2. c \in Dependents(Now, {n})
    BY <1>6, <2>1, DependentsAre DEF Now, Siblings
  <2>3. Preemptible(b, c, n)
    BY <2>1, <2>2 DEF MayCut
  <2>4. QED
    BY <2>3 DEF Preemptible, Siblings
<1>9. Stands(route, b, s)
  BY StartsStand
<1> HIDE DEF open, V
<1>10. Stands(open.route, b, s)
  <2>1. \A c \in Siblings(b) : open.route[c] = route[c]
    BY <1>6, <1>8 DEF Siblings
  <2>2. open.route[b] = route[b]
    BY <1>6
  <2>3. QED
    BY <1>9, <2>1, <2>2 DEF Stands
<1>11. QED
  BY <1>4, <1>6, <1>8, <1>10 DEF open, V

\* A preemption, which commits through the holes it opened, keeps the state sound.
LEMMA PreemptSound ==
    ASSUME Sound(Now), NEW b \in Bindings, Preempt(b)
    PROVE  \E st : Sound(st) /\ Install(st)
<1> DEFINE Cuts(p, done) == SuffixNodes(p, done, PinOf[b]) \cap leased
           Opens(p, done) == OpenHoles(Dependents(Now, Cuts(p, done)), Cuts(p, done))
<1>1. PICK s \in Starts(b) : \E p \in Paths(s.node), done \in BOOLEAN :
         /\ p # <<>>
         /\ Reaches(s.node, p, done, PinOf[b])
         /\ MayCut(b, Cuts(p, done))
         /\ Install(Commit(Opens(p, done), b, s.prefix \o Suffix(s.node, p, done, PinOf[b]),
                           SuffixNodes(p, done, PinOf[b])))
  BY DEF Preempt
<1>2. PICK p \in Paths(s.node), done \in BOOLEAN :
         /\ p # <<>>
         /\ Reaches(s.node, p, done, PinOf[b])
         /\ MayCut(b, Cuts(p, done))
         /\ Install(Commit(Opens(p, done), b, s.prefix \o Suffix(s.node, p, done, PinOf[b]),
                           SuffixNodes(p, done, PinOf[b])))
  BY <1>1
<1> DEFINE new == SuffixNodes(p, done, PinOf[b])
           cuts == new \cap leased
           V == Dependents(Now, cuts)
           open == OpenHoles(V, cuts)
           u == Commit(open, b, s.prefix \o Suffix(s.node, p, done, PinOf[b]), new)
<1>3. /\ MayCut(b, cuts) /\ Install(u) /\ Stands(open.route, b, s) /\ b \notin V
      /\ Sound(open) /\ open.leased \subseteq leased \ cuts
      /\ \A d \in Siblings(b) : d \notin V
      /\ \A d \in Bindings : d \notin V => open.route[d] = route[d]
  BY <1>2, PreemptFacts
<1>4. Sound(open) /\ open.leased \subseteq leased \ cuts /\ Stands(open.route, b, s)
  BY <1>3
<1>5. new \cap open.leased = {}
  <2> HIDE DEF open
  <2> QED
    BY <1>4
<1> HIDE DEF open, V, cuts
<1>6. Sound(Commit(open, b, s.prefix \o Suffix(s.node, p, done, PinOf[b]), new))
  BY <1>2, <1>4, <1>5, CommitSound
<1>7. QED
  BY <1>3, <1>6

-----------------------------------------------------------------------------
(* A repair keeps the state sound                                          *)

\* Every fragment of a patched route is one of the front, of the fill or of
\* the tail.
LEMMA PatchIndex ==
    ASSUME NEW r \in Seq(Good), NEW h \in 1..Len(r), NEW fill \in Seq(Good), NEW q, IsPatch(r, h, fill, q)
    PROVE  /\ q \in Seq(Good) /\ Len(q) = Len(r) - 1 + Len(fill)
           /\ \A i \in 1..(h - 1) : i \in 1..Len(q) /\ q[i] = r[i]
           /\ \A j \in 1..Len(fill) : h - 1 + j \in 1..Len(q) /\ q[h - 1 + j] = fill[j]
           /\ \A i \in (h + 1)..Len(r) : i - 1 + Len(fill) \in 1..Len(q) /\ q[i - 1 + Len(fill)] = r[i]
           /\ \A j \in 1..Len(q) : \/ j \in 1..(h - 1)
                                   \/ j - (h - 1) \in 1..Len(fill) /\ h - 1 + (j - (h - 1)) = j
                                   \/ /\ j + 1 - Len(fill) \in (h + 1)..Len(r)
                                      /\ j + 1 - Len(fill) - 1 + Len(fill) = j
<1> DEFINE m == Len(fill)
           L == Len(r)
<1>1. m \in Nat /\ L \in Nat /\ h \in Nat /\ 1 <= h /\ h <= L
  OBVIOUS
<1>2. /\ q \in Seq(Good) /\ Len(q) = L - 1 + m
      /\ \A j \in 1..(h - 1) : q[j] = r[j]
      /\ \A j \in 1..m : q[h - 1 + j] = fill[j]
      /\ \A j \in 1..(L - h) : q[h - 1 + m + j] = r[h + j]
  BY DEF IsPatch
<1> HIDE DEF m, L
<1>3. \A i \in 1..(h - 1) : i \in 1..Len(q) /\ q[i] = r[i]
  BY <1>1, <1>2
<1>4. \A j \in 1..m : h - 1 + j \in 1..Len(q) /\ q[h - 1 + j] = fill[j]
  BY <1>1, <1>2
<1>5. ASSUME NEW i \in (h + 1)..L PROVE i - 1 + m \in 1..Len(q) /\ q[i - 1 + m] = r[i]
  <2>1. i - h \in 1..(L - h) /\ h - 1 + m + (i - h) = i - 1 + m /\ h + (i - h) = i /\ i - 1 + m \in 1..Len(q)
    BY <1>1, <1>2
  <2>2. q[h - 1 + m + (i - h)] = r[h + (i - h)]
    BY <1>2, <2>1
  <2>3. QED
    BY <2>1, <2>2
<1>6. \A j \in 1..Len(q) : \/ j \in 1..(h - 1)
                           \/ j - (h - 1) \in 1..m /\ h - 1 + (j - (h - 1)) = j
                           \/ j + 1 - m \in (h + 1)..L /\ j + 1 - m - 1 + m = j
  BY <1>1, <1>2
<1>7. QED
  BY <1>2, <1>3, <1>4, <1>5, <1>6 DEF m, L

\* All replicas T of one source that carry the hole are patched where they
\* first have it.
Patching(gap, T, fill, rt) ==
    /\ gap \in Good /\ gap.kind = "gap" /\ fill \in Seq(Good) /\ rt \in Routes
    /\ \A c \in T : /\ HoleAt(route[c], gap) \in 1..Len(route[c])
                    /\ route[c][HoleAt(route[c], gap)] = gap
                    /\ \A j \in 1..Len(route[c]) : route[c][j] = gap => HoleAt(route[c], gap) <= j
                    /\ IsPatch(route[c], HoleAt(route[c], gap), fill, rt[c])
    /\ \A c \in Bindings : c \notin T => rt[c] = route[c]
    /\ \A d \in T : \A e \in Bindings :
          SourceOf[e] = SourceOf[d] /\ (\E i \in 1..Len(route[e]) : route[e][i] = gap) => e \in T

\* A hole is known by its ends.
LEMMA SameGap ==
    ASSUME NEW f \in Good, NEW g \in Good, g.kind = "gap", SamePhysicalFragment(f, g)
    PROVE  f = g
BY GoodFragment DEF SamePhysicalFragment, Shape

\* Two replicas that agree beyond a hole have it in the same place.
LEMMA TwinHoles ==
    ASSUME \A c \in Bindings : route[c] \in Seq(Good), NEW gap, NEW T \in SUBSET Bindings, NEW fill, NEW rt,
           Patching(gap, T, fill, rt), NEW d \in Bindings, NEW e \in Siblings(d), NEW i \in Nat,
           Agree(route[d], route[e], i), d \in T, HoleAt(route[d], gap) <= i
    PROVE  e \in T /\ HoleAt(route[e], gap) = HoleAt(route[d], gap)
<1> DEFINE h == HoleAt(route[d], gap)
           g == HoleAt(route[e], gap)
<1>1. /\ h \in 1..Len(route[d]) /\ route[d][h] = gap /\ gap \in Good /\ gap.kind = "gap"
      /\ \A j \in 1..Len(route[d]) : route[d][j] = gap => h <= j
  BY DEF Patching
<1>2. e \in Bindings /\ SourceOf[e] = SourceOf[d] /\ route[e] \in Seq(Good) /\ route[d] \in Seq(Good)
      /\ Len(route[e]) \in Nat /\ Len(route[d]) \in Nat
  BY DEF Siblings
<1>3. i <= Len(route[d]) /\ i <= Len(route[e]) /\ \A j \in 1..i : SamePhysicalFragment(route[d][j], route[e][j])
  BY DEF Agree
<1> HIDE DEF h
<1>4. h \in 1..i /\ h \in 1..Len(route[e])
  BY <1>1, <1>2, <1>3 DEF h
<1>5. route[e][h] = gap
  <2>1. route[e][h] \in Good
    BY <1>2, <1>4
  <2>2. SamePhysicalFragment(route[e][h], gap)
    BY <1>1, <1>3, <1>4 DEF SamePhysicalFragment
  <2>3. QED
    BY <1>1, <2>1, <2>2, SameGap
<1>6. e \in T
  BY <1>2, <1>4, <1>5 DEF Patching
<1>7. /\ g \in 1..Len(route[e]) /\ route[e][g] = gap
      /\ \A j \in 1..Len(route[e]) : route[e][j] = gap => g <= j
  BY <1>6 DEF Patching
<1> HIDE DEF g
<1>8. g <= h
  BY <1>4, <1>5, <1>7
<1>9. g \in 1..i /\ g \in 1..Len(route[d])
  BY <1>1, <1>2, <1>4, <1>7, <1>8
<1>10. route[d][g] = gap
  <2>1. route[d][g] \in Good
    BY <1>2, <1>9
  <2>2. SamePhysicalFragment(route[d][g], gap)
    BY <1>3, <1>7, <1>9
  <2>3. QED
    BY <1>1, <2>1, <2>2, SameGap
<1>11. h <= g
  BY <1>1, <1>9, <1>10
<1>12. g = h
  BY <1>4, <1>8, <1>9, <1>11
<1>13. QED
  BY <1>6, <1>12 DEF g, h

\* In front of the hole a patched route gives what it gave.
LEMMA PatchFront ==
    ASSUME NEW r \in Seq(Good), NEW h \in 1..Len(r), r[h].kind = "gap", NEW fill \in Seq(Good),
           NEW q, IsPatch(r, h, fill, q), NEW i \in 1..(h - 1), NEW w, Gives(r, i, w)
    PROVE  Gives(q, i, w)
<1>1. /\ q \in Seq(Good) /\ Len(q) \in Nat /\ Len(r) \in Nat
      /\ \A j \in 1..(h - 1) : j \in 1..Len(q) /\ q[j] = r[j]
  BY PatchIndex
<1>2. q[i] = r[i] /\ i \in Nat /\ h \in Nat /\ i < h
  BY <1>1
<1>3. ASSUME OwnsIn(r[i + 1]) PROVE i < Len(q) /\ q[i + 1] = r[i + 1]
  <2>1. i + 1 # h
    BY <1>3 DEF OwnsIn
  <2>2. i + 1 \in 1..(h - 1)
    BY <1>2, <2>1
  <2>3. i + 1 \in 1..Len(q) /\ q[i + 1] = r[i + 1]
    BY <1>1, <2>2
  <2>4. QED
    BY <1>1, <1>2, <2>3
<1>4. QED
  BY <1>2, <1>3 DEF Gives

\* And behind it.
LEMMA PatchTail ==
    ASSUME NEW r \in Seq(Good), NEW h \in 1..Len(r), NEW fill \in Seq(Good),
           NEW q, IsPatch(r, h, fill, q), NEW i \in (h + 1)..Len(r), NEW w, Gives(r, i, w)
    PROVE  Gives(q, i - 1 + Len(fill), w)
<1> DEFINE m == Len(fill)
           j == i - 1 + m
<1>1. /\ q \in Seq(Good) /\ Len(q) = Len(r) - 1 + m /\ Len(r) \in Nat /\ m \in Nat
      /\ \A k \in (h + 1)..Len(r) : k - 1 + m \in 1..Len(q) /\ q[k - 1 + m] = r[k]
  BY PatchIndex
<1>2. i \in Nat /\ h \in Nat /\ i <= Len(r) /\ h < i /\ i + 1 - 1 + m = j + 1 /\ j \in Nat
  BY <1>1
<1>3. q[j] = r[i]
  BY <1>1
<1> HIDE DEF m
<1>4. ASSUME i < Len(r) PROVE j < Len(q) /\ q[j + 1] = r[i + 1]
  <2>1. i + 1 \in (h + 1)..Len(r) /\ j < Len(q)
    BY <1>1, <1>2, <1>4
  <2>2. q[i + 1 - 1 + m] = r[i + 1]
    BY <1>1, <2>1
  <2>3. QED
    BY <1>2, <2>1, <2>2
<1> HIDE DEF j
<1>5. Gives(q, j, w)
  BY <1>3, <1>4 DEF Gives
<1>6. QED
  BY <1>5 DEF j, m

\* What a binding needs in front of the hole, or without one, is backed as before.
LEMMA PatchBacksFront ==
    ASSUME \A c \in Bindings : route[c] \in Seq(Good), NEW gap, NEW T \in SUBSET Bindings, NEW fill, NEW rt,
           Patching(gap, T, fill, rt), NEW d \in Bindings, NEW e \in Siblings(d), NEW i \in 1..Len(route[d]),
           NEW w, Backs(route[e], route[d], i, w), d \in T => i < HoleAt(route[d], gap)
    PROVE  Backs(rt[e], rt[d], i, w)
<1>1. e \in Bindings /\ d \in Siblings(e) /\ i \in Nat
  BY DEF Siblings
<1>2. Agree(route[d], route[e], i) /\ Gives(route[e], i, w) /\ Agree(route[e], route[d], i)
      /\ i \in 1..Len(route[e])
  BY <1>1, AgreeFacts DEF Backs
<1>3. e \in T => i < HoleAt(route[e], gap)
  <2> SUFFICES ASSUME e \in T, ~(i < HoleAt(route[e], gap)) PROVE FALSE
    OBVIOUS
  <2>1. HoleAt(route[e], gap) <= i
    <3>1. HoleAt(route[e], gap) \in 1..Len(route[e]) /\ Len(route[e]) \in Nat
      BY <1>1 DEF Patching
    <3>2. QED
      BY <1>1, <3>1
  <2>2. d \in T /\ HoleAt(route[d], gap) = HoleAt(route[e], gap)
    BY <1>1, <1>2, <2>1, TwinHoles
  <2>3. QED
    BY <2>2
<1>4. ASSUME NEW c \in Bindings, i \in 1..Len(route[c]), c \in T => i < HoleAt(route[c], gap)
      PROVE  i <= Len(rt[c]) /\ \A j \in 1..i : rt[c][j] = route[c][j]
  <2>1. Len(route[c]) \in Nat
    BY <1>1
  <2>2. CASE c \notin T
    <3>1. rt[c] = route[c]
      BY <2>2 DEF Patching
    <3>2. QED
      BY <1>4, <2>1, <3>1
  <2>3. CASE c \in T
    <3> DEFINE h == HoleAt(route[c], gap)
    <3>1. h \in 1..Len(route[c]) /\ IsPatch(route[c], h, fill, rt[c]) /\ i < h /\ fill \in Seq(Good)
      BY <1>4, <2>3 DEF Patching
    <3> HIDE DEF h
    <3>2. \A j \in 1..(h - 1) : j \in 1..Len(rt[c]) /\ rt[c][j] = route[c][j]
      BY <3>1, PatchIndex
    <3>3. \A j \in 1..i : j \in 1..(h - 1)
      BY <1>1, <2>1, <3>1
    <3>4. i \in 1..i /\ rt[c] \in Seq(Good)
      BY <1>1 DEF Patching, Routes
    <3>5. i \in 1..Len(rt[c]) /\ Len(rt[c]) \in Nat
      BY <3>2, <3>3, <3>4
    <3>6. QED
      BY <3>2, <3>3, <3>5
  <2>4. QED
    BY <2>2, <2>3
<1>5. Agree(rt[d], rt[e], i)
  BY <1>1, <1>2, <1>3, <1>4 DEF Agree
<1>6. Gives(rt[e], i, w)
  <2>1. CASE e \notin T
    <3>1. rt[e] = route[e]
      BY <1>1, <2>1 DEF Patching
    <3>2. QED
      BY <1>2, <3>1
  <2>2. CASE e \in T
    <3> DEFINE h == HoleAt(route[e], gap)
    <3>1. h \in 1..Len(route[e]) /\ IsPatch(route[e], h, fill, rt[e]) /\ fill \in Seq(Good) /\ i < h
          /\ route[e][h].kind = "gap"
      BY <1>3, <2>2 DEF Patching
    <3> HIDE DEF h
    <3>2. Len(route[e]) \in Nat
      BY <1>1
    <3>3. i \in 1..(h - 1)
      BY <1>1, <3>1, <3>2
    <3>4. QED
      BY <1>1, <1>2, <3>1, <3>3, PatchFront
  <2>3. QED
    BY <2>1, <2>2
<1>7. QED
  BY <1>5, <1>6 DEF Backs

\* What it needs behind the hole is backed by a twin.
LEMMA PatchBacksTail ==
    ASSUME \A c \in Bindings : route[c] \in Seq(Good), NEW gap, NEW T \in SUBSET Bindings, NEW fill, NEW rt,
           Patching(gap, T, fill, rt), NEW d \in T, NEW e \in Siblings(d),
           NEW i \in (HoleAt(route[d], gap) + 1)..Len(route[d]),
           NEW w, Backs(route[e], route[d], i, w)
    PROVE  /\ e \in T /\ HoleAt(route[e], gap) = HoleAt(route[d], gap)
           /\ Backs(rt[e], rt[d], i - 1 + Len(fill), w)
           /\ Agree(rt[d], rt[e], i - 1 + Len(fill))
<1> DEFINE h == HoleAt(route[d], gap)
           m == Len(fill)
           j == i - 1 + m
<1>1. /\ h \in 1..Len(route[d]) /\ IsPatch(route[d], h, fill, rt[d]) /\ fill \in Seq(Good)
      /\ d \in Bindings /\ e \in Bindings /\ route[d] \in Seq(Good) /\ route[e] \in Seq(Good)
  BY DEF Patching, Siblings
<1> HIDE DEF h
<1>2. Len(route[d]) \in Nat /\ h \in Nat /\ i \in Nat /\ h < i /\ h <= i /\ i <= Len(route[d]) /\ m \in Nat
      /\ i \in 1..Len(route[d])
  BY <1>1 DEF h
<1>3. Agree(route[d], route[e], i) /\ Gives(route[e], i, w)
  BY DEF Backs
<1>4. e \in T /\ HoleAt(route[e], gap) = h
  BY <1>1, <1>2, <1>3, TwinHoles DEF h
<1>5. h \in 1..Len(route[e]) /\ IsPatch(route[e], h, fill, rt[e])
  BY <1>4 DEF Patching
<1>6. i \in (h + 1)..Len(route[e])
  <2>1. i \in 1..Len(route[e]) /\ Len(route[e]) \in Nat
    BY <1>1, <1>2, <1>3, AgreeFacts
  <2>2. QED
    BY <1>2, <2>1
<1>7. Gives(rt[e], j, w)
  <2> HIDE DEF j
  <2>1. Gives(rt[e], i - 1 + Len(fill), w)
    BY <1>1, <1>3, <1>5, <1>6, PatchTail
  <2>2. QED
    BY <2>1 DEF j, m
<1>8. /\ \A k \in 1..(h - 1) : rt[d][k] = route[d][k]
      /\ \A k \in 1..m : h - 1 + k \in 1..Len(rt[d]) /\ rt[d][h - 1 + k] = fill[k]
      /\ \A k \in (h + 1)..Len(route[d]) : k - 1 + m \in 1..Len(rt[d]) /\ rt[d][k - 1 + m] = route[d][k]
      /\ \A k \in 1..Len(rt[d]) : \/ k \in 1..(h - 1)
                                  \/ k - (h - 1) \in 1..m /\ h - 1 + (k - (h - 1)) = k
                                  \/ /\ k + 1 - m \in (h + 1)..Len(route[d])
                                     /\ k + 1 - m - 1 + m = k
  <2> DEFINE r == route[d]
             q == rt[d]
  <2> HIDE DEF j, r, q
  <2>1. r \in Seq(Good) /\ h \in 1..Len(r) /\ fill \in Seq(Good) /\ IsPatch(r, h, fill, q)
    BY <1>1 DEF r, q
  <2>2. /\ \A k \in 1..(h - 1) : q[k] = r[k]
        /\ \A k \in 1..m : h - 1 + k \in 1..Len(q) /\ q[h - 1 + k] = fill[k]
        /\ \A k \in (h + 1)..Len(r) : k - 1 + m \in 1..Len(q) /\ q[k - 1 + m] = r[k]
        /\ \A k \in 1..Len(q) : \/ k \in 1..(h - 1)
                                \/ k - (h - 1) \in 1..m /\ h - 1 + (k - (h - 1)) = k
                                \/ k + 1 - m \in (h + 1)..Len(r) /\ k + 1 - m - 1 + m = k
    BY <2>1, PatchIndex
  <2>3. QED
    BY <2>2 DEF r, q
<1>9. /\ \A k \in 1..(h - 1) : rt[e][k] = route[e][k]
      /\ \A k \in 1..m : h - 1 + k \in 1..Len(rt[e]) /\ rt[e][h - 1 + k] = fill[k]
      /\ \A k \in (h + 1)..Len(route[e]) : k - 1 + m \in 1..Len(rt[e]) /\ rt[e][k - 1 + m] = route[e][k]
  <2> DEFINE r == route[e]
             q == rt[e]
  <2> HIDE DEF j, r, q
  <2>1. r \in Seq(Good) /\ h \in 1..Len(r) /\ fill \in Seq(Good) /\ IsPatch(r, h, fill, q)
    BY <1>1, <1>5 DEF r, q
  <2>2. /\ \A k \in 1..(h - 1) : q[k] = r[k]
        /\ \A k \in 1..m : h - 1 + k \in 1..Len(q) /\ q[h - 1 + k] = fill[k]
        /\ \A k \in (h + 1)..Len(r) : k - 1 + m \in 1..Len(q) /\ q[k - 1 + m] = r[k]
    BY <2>1, PatchIndex
  <2>3. QED
    BY <2>2 DEF r, q
<1>10. Len(rt[d]) \in Nat /\ Len(rt[e]) \in Nat /\ Len(route[e]) \in Nat
  BY <1>1 DEF Patching, Routes
<1>11. j \in 1..Len(rt[d]) /\ j \in 1..Len(rt[e]) /\ j \in Nat
  BY <1>2, <1>6, <1>8, <1>9
<1> HIDE DEF m
<1>12. ASSUME NEW k \in 1..j PROVE SamePhysicalFragment(rt[d][k], rt[e][k])
  <2>0. k \in Nat /\ 1 <= k /\ k <= j /\ k \in 1..Len(rt[d]) /\ k + 1 - m <= i
    BY <1>2, <1>10, <1>11 DEF m
  <2>1. CASE k \in 1..(h - 1)
    <3>1. k \in 1..i
      BY <1>2, <2>1
    <3>2. SamePhysicalFragment(route[d][k], route[e][k])
      BY <1>3, <3>1 DEF Agree
    <3>3. QED
      BY <1>8, <1>9, <2>1, <3>2
  <2>2. CASE k - (h - 1) \in 1..m /\ h - 1 + (k - (h - 1)) = k
    <3>1. rt[d][k] = fill[k - (h - 1)] /\ rt[e][k] = fill[k - (h - 1)]
      BY <1>8, <1>9, <2>2
    <3>2. QED
      BY <3>1 DEF SamePhysicalFragment
  <2>3. CASE k + 1 - m \in (h + 1)..Len(route[d]) /\ k + 1 - m - 1 + m = k
    <3> DEFINE t == k + 1 - m
    <3>1. t \in (h + 1)..Len(route[d]) /\ t - 1 + m = k /\ t <= i
      <4> HIDE DEF j
      <4>1. t \in (h + 1)..Len(route[d])
        BY <2>3
      <4>2. t - 1 + m = k
        BY <1>2, <2>0
      <4>3. t <= i
        BY <2>0
      <4>4. QED
        BY <4>1, <4>2, <4>3
    <3> HIDE DEF t
    <3>2. t \in (h + 1)..Len(route[e]) /\ t \in 1..i
      BY <1>2, <1>6, <1>10, <3>1
    <3>3. rt[d][k] = route[d][t] /\ rt[e][k] = route[e][t]
      BY <1>8, <1>9, <3>1, <3>2
    <3>4. SamePhysicalFragment(route[d][t], route[e][t])
      BY <1>3, <3>2 DEF Agree
    <3>5. QED
      BY <3>3, <3>4
  <2>4. QED
    BY <1>8, <2>0, <2>1, <2>2, <2>3
<1>13. Agree(rt[d], rt[e], j)
  BY <1>10, <1>11, <1>12 DEF Agree
<1>14. QED
  BY <1>4, <1>7, <1>13 DEF Backs, h, m

\* A hole begins where the jump in front of it lands and ends where the rest
\* goes on: both ends are needed.
LEMMA GapEnds ==
    ASSUME NEW d \in Bindings, NEW r \in Seq(Good), Line(d, r), NEW h \in 1..Len(r), r[h].kind = "gap"
    PROVE  /\ h > 1 /\ h < Len(r) /\ h - 1 \in 1..Len(r) /\ h + 1 \in 1..Len(r)
           /\ r[h - 1].kind \in Jumps /\ r[h - 1].dst = r[h].in /\ "landing" \in Needs(r, h - 1)
           /\ r[h + 1].kind \in {"hop", "ground", "pin"} /\ r[h + 1].in = r[h].dst /\ "in" \in Needs(r, h + 1)
           /\ r[h].dst \notin Pins => r[h + 1].kind \in {"hop", "ground"}
           /\ r[h].in \in RouteUses(r) /\ r[h].dst \in RouteUses(r)
<1>1. Len(r) \in Nat /\ h \in Nat /\ 1 <= h /\ h <= Len(r) /\ r[h] \in Good
  OBVIOUS
<1>2. h # 1 /\ h < Len(r)
  BY LineKinds
<1>3. h - 1 \in 1..Len(r) /\ h + 1 \in 1..Len(r) /\ h > 1 /\ h + 1 > 1 /\ (h + 1) - 1 = h
  BY <1>1, <1>2
<1>4. r[h - 1] \in Good /\ Follows(r[h - 1], r[h]) /\ r[h + 1] \in Good /\ Follows(r[h], r[h + 1])
  BY <1>2, <1>3, LineKinds
<1>5. r[h - 1].kind \in Jumps /\ r[h - 1].dst = r[h].in
  BY <1>1, <1>4, Neighbours DEF Follows
<1>6. r[h + 1].kind \in {"hop", "ground", "pin"} /\ r[h + 1].in = r[h].dst
  BY <1>1, <1>4, Neighbours DEF Follows
<1>7. "landing" \in Needs(r, h - 1) /\ "in" \in Needs(r, h + 1)
  BY <1>3, <1>5, <1>6 DEF Needs
<1>8. r[h].dst \notin Pins => r[h + 1].kind \in {"hop", "ground"}
  BY <1>4, <1>6, GoodFragment DEF Shape
<1>9. r[h].in \in Uses(r[h - 1]) /\ r[h].dst \in Uses(r[h + 1])
  BY <1>5, <1>6 DEF Uses, Jumps
<1>10. QED
  BY <1>2, <1>3, <1>5, <1>6, <1>7, <1>8, <1>9 DEF RouteUses

\* What closes a hole owns what it uses, but for the ends of the hole.
LEMMA FillGives ==
    ASSUME NEW gap, gap.in \in DstNodes, NEW p \in Paths(gap.in), Closes(gap, p),
           NEW fill, IsFill(gap, p, fill)
    PROVE  /\ \A i \in 1..Len(fill) :
                 /\ fill[i].kind \in {"hop", "ground"}
                 /\ fill[i].kind = "hop" => Gives(fill, i, "src")
                 /\ fill[i].kind = "hop" => \/ Gives(fill, i, "landing")
                                            \/ i = Len(fill) /\ fill[i].dst = gap.dst /\ gap.dst \notin Pins
                 /\ fill[i].kind = "hop" => /\ i \in 1..Len(p) /\ fill[i].in = Leaves(gap.in, p, i)
                                            /\ fill[i].src = p[i] /\ fill[i].dst = Landing[p[i]]
                 /\ IF i = 1 THEN fill[i].in = gap.in ELSE OwnsIn(fill[i])
           /\ \A x \in RouteUses(fill) :
                 x \in RouteOwned(fill) \/ x = gap.in \/ (x = gap.dst /\ gap.dst \notin Pins)
<1> DEFINE m == Len(fill)
           n == Len(p)
<1>1. /\ m \in Nat \ {0} /\ Linked(fill)
      /\ fill[1].in = gap.in
      /\ IF gap.dst \in Pins
         THEN fill[m].kind = "ground" /\ fill[m].in \in Entry[gap.dst]
         ELSE fill[m].kind = "hop" /\ fill[m].dst = gap.dst
  BY FillLinked
<1>2. /\ fill \in Seq(Good) /\ m = IF gap.dst \in Pins THEN n + 1 ELSE n
      /\ \A i \in 1..n : fill[i] = Hop(Leaves(gap.in, p, i), p[i], i # 1, FALSE)
      /\ gap.dst \in Pins => fill[n + 1] = Ground(PathEnd(gap.in, p), n # 0)
  BY DEF IsFill
<1>3. n \in Nat /\ \A i \in 1..n : p[i] \in SrcNodes /\ Leaves(gap.in, p, i) \in FanIn[p[i]]
  BY PathFacts
<1>4. \A i \in 1..n : Leaves(gap.in, p, i) \in DstNodes
  <2> SUFFICES ASSUME NEW i \in 1..n PROVE Leaves(gap.in, p, i) \in DstNodes
    OBVIOUS
  <2>1. CASE i = 1
    BY <2>1 DEF Leaves
  <2>2. CASE i # 1
    <3>1. i - 1 \in 1..n
      BY <1>3, <2>2
    <3>2. QED
      BY <1>3, <2>2, <3>1, FabricAssumption DEF Leaves
  <2>3. QED
    BY <2>1, <2>2
<1>5. ASSUME NEW i \in 1..n
      PROVE  /\ fill[i].kind = "hop" /\ fill[i].in = Leaves(gap.in, p, i)
             /\ fill[i].src = p[i] /\ fill[i].dst = Landing[p[i]]
             /\ ~fill[i].shared /\ fill[i].ownsDst = (i # 1)
  <2>1. Leaves(gap.in, p, i) \notin Sources
    BY <1>4, FabricAssumption DEF Nodes
  <2> DEFINE own == i # 1
             from == Leaves(gap.in, p, i)
  <2>2. fill[i] = Hop(from, p[i], own, FALSE)
    BY <1>2
  <2> HIDE DEF own, from
  <2>3. /\ fill[i].in = from /\ fill[i].src = p[i] /\ fill[i].dst = Landing[p[i]]
        /\ fill[i].shared = FALSE /\ fill[i].ownsDst = own
    BY <2>2 DEF Hop
  <2>4. fill[i].kind = "hop"
    <3>1. from \notin Sources
      BY <2>1 DEF from
    <3>2. QED
      BY <2>2, <3>1 DEF Hop
  <2>5. QED
    BY <2>3, <2>4 DEF own, from
<1>6. gap.dst \in Pins => /\ fill[n + 1].kind = "ground" /\ ~fill[n + 1].shared
                          /\ fill[n + 1].ownsDst = (n # 0)
  BY <1>2 DEF Ground
<1> HIDE DEF m, n
<1>7. ASSUME NEW i \in 1..m
      PROVE  /\ fill[i].kind \in {"hop", "ground"}
             /\ fill[i].kind = "hop" => i \in 1..n
             /\ IF i = 1 THEN fill[i].in = gap.in ELSE OwnsIn(fill[i])
  <2>1. CASE i \in 1..n
    BY <1>1, <1>5, <2>1 DEF OwnsIn
  <2>2. CASE i \notin 1..n
    <3>1. gap.dst \in Pins /\ i = n + 1 /\ (i = 1 <=> n = 0)
      BY <1>1, <1>2, <1>3, <2>2
    <3>2. QED
      BY <1>1, <1>6, <3>1 DEF OwnsIn
  <2>3. QED
    BY <2>1, <2>2
<1>8. ASSUME NEW i \in 1..m, fill[i].kind = "hop"
      PROVE  /\ Gives(fill, i, "src")
             /\ Gives(fill, i, "landing") \/ (i = m /\ fill[i].dst = gap.dst /\ gap.dst \notin Pins)
  <2>1. i \in 1..n /\ ~fill[i].shared
    BY <1>5, <1>7, <1>8
  <2>2. Gives(fill, i, "src")
    BY <1>8, <2>1 DEF Gives, Jumps
  <2>3. CASE i = m
    BY <1>1, <1>8, <2>2, <2>3
  <2>4. CASE i # m
    <3>1. i + 1 \in 1..m /\ i + 1 # 1 /\ i < m
      BY <1>1, <2>4
    <3>2. OwnsIn(fill[i + 1])
      BY <1>7, <3>1
    <3>3. Gives(fill, i, "landing")
      BY <1>8, <3>1, <3>2 DEF Gives, Jumps, m
    <3>4. QED
      BY <2>2, <3>3
  <2>5. QED
    BY <2>3, <2>4
<1>9. ASSUME NEW x \in RouteUses(fill)
      PROVE  x \in RouteOwned(fill) \/ x = gap.in \/ (x = gap.dst /\ gap.dst \notin Pins)
  <2>1. PICK i \in 1..m : x \in Uses(fill[i])
    BY DEF RouteUses, m
  <2>2. i \in 1..Len(fill)
    BY DEF m
  <2>3. \/ x = fill[i].in
        \/ fill[i].kind = "hop" /\ x \in {fill[i].src, fill[i].dst}
    BY <1>7, <2>1 DEF Uses
  <2>4. CASE x = fill[i].in
    <3>1. CASE i = 1
      BY <1>7, <2>4, <3>1
    <3>2. CASE i # 1
      <4>1. x \in Owned(fill[i])
        BY <1>7, <2>4, <3>2 DEF OwnsIn, Owned
      <4>2. QED
        BY <2>2, <4>1 DEF RouteOwned
    <3>3. QED
      BY <3>1, <3>2
  <2>5. CASE fill[i].kind = "hop" /\ x = fill[i].src
    <3>1. Gives(fill, i, "src") /\ NodeOf(fill[i], "src") = x
      BY <1>8, <2>5 DEF NodeOf
    <3>2. QED
      BY <1>1, <1>2, <2>2, <3>1, GivesOwns
  <2>6. CASE fill[i].kind = "hop" /\ x = fill[i].dst
    <3>1. NodeOf(fill[i], "landing") = x
      BY <2>6 DEF NodeOf
    <3>2. Gives(fill, i, "landing") => x \in RouteOwned(fill)
      BY <1>1, <1>2, <2>2, <3>1, GivesOwns
    <3>3. QED
      BY <1>8, <2>6, <3>2
  <2>7. QED
    BY <2>3, <2>4, <2>5, <2>6
<1>10. QED
  BY <1>5, <1>7, <1>8, <1>9 DEF m, n

\* Every twin of a patched hole has the needs of its route backed as before.
LEMMA PatchHeld ==
    ASSUME \A c \in Bindings : route[c] \in Seq(Good) /\ Line(c, route[c]), Held(route),
           NEW gap, NEW T \in SUBSET Bindings, NEW fill, NEW rt, Patching(gap, T, fill, rt),
           gap.in \in DstNodes, NEW p \in Paths(gap.in), Closes(gap, p), IsFill(gap, p, fill)
    PROVE  Held(rt)
<1>1. \A c \in Bindings : route[c] \in Seq(Good)
  OBVIOUS
<1>2. rt \in Routes /\ \A c \in Bindings : rt[c] \in Seq(Good)
  BY DEF Patching, Routes
<1> SUFFICES ASSUME NEW d \in Bindings, NEW j \in 1..Len(rt[d]), NEW w \in Needs(rt[d], j)
             PROVE  \E e \in Siblings(d) : Backs(rt[e], rt[d], j, w)
  BY DEF Held
<1>3. CASE d \notin T
  <2>1. rt[d] = route[d]
    BY <1>3 DEF Patching
  <2>2. PICK e \in Siblings(d) : Backs(route[e], route[d], j, w)
    BY <2>1 DEF Held
  <2>3. Backs(rt[e], rt[d], j, w)
    BY <1>1, <1>3, <2>1, <2>2, PatchBacksFront
  <2>4. QED
    BY <2>2, <2>3
<1>4. CASE d \in T
  <2> DEFINE r == route[d]
             q == rt[d]
             h == HoleAt(r, gap)
             m == Len(fill)
  <2>1. /\ h \in 1..Len(r) /\ r[h] = gap /\ gap \in Good /\ gap.kind = "gap" /\ fill \in Seq(Good)
        /\ IsPatch(r, h, fill, q)
    BY <1>4 DEF Patching
  <2>2. r \in Seq(Good) /\ Line(d, r) /\ q \in Seq(Good) /\ Len(r) \in Nat /\ Len(q) \in Nat /\ m \in Nat
    BY <1>1, <1>2, <2>1
  <2> HIDE DEF h, m
  <2>3. /\ h > 1 /\ h < Len(r) /\ h - 1 \in 1..Len(r) /\ h + 1 \in 1..Len(r)
        /\ r[h - 1].kind \in Jumps
        /\ r[h + 1].kind \in {"hop", "ground", "pin"} /\ r[h + 1].in = gap.dst /\ "in" \in Needs(r, h + 1)
        /\ gap.dst \notin Pins => r[h + 1].kind \in {"hop", "ground"}
    <3> HIDE DEF r
    <3>1. QED
      BY <2>1, <2>2, GapEnds
  <2>4. /\ Len(q) = Len(r) - 1 + m
        /\ \A i \in 1..(h - 1) : i \in 1..Len(q) /\ q[i] = r[i]
        /\ \A i \in 1..m : h - 1 + i \in 1..Len(q) /\ q[h - 1 + i] = fill[i]
        /\ \A i \in (h + 1)..Len(r) : i - 1 + m \in 1..Len(q) /\ q[i - 1 + m] = r[i]
        /\ \A i \in 1..Len(q) : \/ i \in 1..(h - 1)
                                \/ i - (h - 1) \in 1..m /\ h - 1 + (i - (h - 1)) = i
                                \/ i + 1 - m \in (h + 1)..Len(r) /\ i + 1 - m - 1 + m = i
    <3> HIDE DEF r, q
    <3>1. QED
      BY <2>1, <2>2, PatchIndex DEF m
  <2>5. h \in Nat /\ j \in Nat /\ 1 <= j /\ j <= Len(q) /\ h <= Len(r) /\ Len(r) \in Nat /\ m \in Nat
    <3>1. h \in 1..Len(r) /\ Len(r) \in Nat /\ Len(q) \in Nat /\ j \in 1..Len(q)
      BY <2>1, <2>2
    <3> HIDE DEF r, q
    <3>2. h \in Nat /\ h <= Len(r) /\ j \in Nat /\ 1 <= j /\ j <= Len(q)
      BY <3>1
    <3>3. QED
      BY <2>2, <3>1, <3>2
  <2>6. /\ \A i \in 1..m : /\ fill[i].kind \in {"hop", "ground"}
                           /\ fill[i].kind = "hop" => Gives(fill, i, "src")
                           /\ fill[i].kind = "hop" =>
                                 Gives(fill, i, "landing") \/ (i = m /\ fill[i].dst = gap.dst /\ gap.dst \notin Pins)
    BY FillGives DEF m
  <2>7. CASE j \in 1..(h - 1)
    <3>1. q[j] = r[j] /\ j \in 1..Len(r)
      <4>1. q[j] = r[j]
        BY <2>4, <2>7
      <4> HIDE DEF r, q
      <4>2. j \in 1..Len(r)
        BY <2>5, <2>7
      <4>3. QED
        BY <4>1, <4>2
    <3>2. j > 1 => q[j - 1] = r[j - 1]
      <4>1. j > 1 => j - 1 \in 1..(h - 1)
        BY <2>5, <2>7
      <4>2. QED
        BY <2>4, <4>1
    <3>3. w \in Needs(r, j)
      BY <3>1, <3>2 DEF Needs
    <3>4. PICK e \in Siblings(d) : Backs(route[e], r, j, w)
      BY <3>1, <3>3 DEF Held
    <3>5. j < h
      BY <2>5, <2>7
    <3>6. Backs(rt[e], rt[d], j, w)
      BY <1>1, <3>1, <3>4, <3>5, PatchBacksFront DEF h
    <3>7. QED
      BY <3>4, <3>6
  <2>8. CASE j - (h - 1) \in 1..m /\ h - 1 + (j - (h - 1)) = j
    <3> DEFINE t == j - (h - 1)
    <3>1. t \in 1..m /\ q[j] = fill[t] /\ h - 1 + t = j /\ t \in Nat /\ t \in 1..Len(fill)
      BY <2>4, <2>8 DEF m
    <3> HIDE DEF t
    <3>2. q[j - 1].kind # "gap"
      <4>1. CASE t = 1
        <5>1. j - 1 = h - 1 /\ h - 1 \in 1..(h - 1)
          BY <2>3, <2>5, <3>1, <4>1
        <5>2. q[j - 1] = r[h - 1]
          BY <2>4, <5>1
        <5>3. QED
          BY <2>3, <5>2 DEF Jumps
      <4>2. CASE t # 1
        <5>1. t - 1 \in 1..m /\ h - 1 + (t - 1) = j - 1
          BY <2>2, <2>5, <3>1, <4>2
        <5>2. q[j - 1] = fill[t - 1]
          BY <2>4, <5>1
        <5>3. QED
          BY <2>6, <5>1, <5>2
      <4>3. QED
        BY <4>1, <4>2
    <3>3. fill[t].kind = "hop" /\ w \in {"src", "landing"}
      BY <2>6, <3>1, <3>2, NeedFacts DEF Jumps
    <3>4. CASE Gives(fill, t, w)
      <4>1. t < m => j < Len(q) /\ q[j + 1] = fill[t + 1]
        <5> SUFFICES ASSUME t < m PROVE j < Len(q) /\ q[j + 1] = fill[t + 1]
          OBVIOUS
        <5>1. t + 1 \in 1..m /\ h - 1 + (t + 1) = j + 1
          BY <2>2, <2>5, <3>1
        <5>2. j + 1 \in 1..Len(q) /\ q[j + 1] = fill[t + 1]
          BY <2>4, <5>1
        <5>3. QED
          BY <2>2, <2>5, <5>2
      <4>2. Gives(q, j, w)
        <5> HIDE DEF q
        <5>1. QED
          BY <3>1, <3>4, <4>1 DEF Gives, m
      <4>3. Agree(q, q, j)
        BY <2>2, AgreeFacts
      <4>4. QED
        BY <4>2, <4>3 DEF Backs, Siblings
    <3>5. CASE ~Gives(fill, t, w)
      <4>1. w = "landing" /\ t = m /\ gap.dst \notin Pins
        BY <2>6, <3>1, <3>3, <3>5
      <4>2. r[h + 1].kind \in {"hop", "ground"}
        BY <2>3, <4>1
      <4> DEFINE i == h + 1
      <4>3. PICK e \in Siblings(d) : Backs(route[e], r, i, "in")
        BY <2>3 DEF Held
      <4>4. i \in (h + 1)..Len(r) /\ i - 1 + m = j + 1 /\ j + 1 \in Nat /\ j <= j + 1
        <5> HIDE DEF r, q
        <5>1. h < Len(r)
          BY <2>3
        <5>2. QED
          BY <2>5, <3>1, <4>1, <5>1
      <4>e. r[i] = r[h + 1]
        OBVIOUS
      <4> HIDE DEF i
      <4>5. Backs(rt[e], q, j + 1, "in") /\ Agree(q, rt[e], j + 1)
        <5>1. Backs(rt[e], rt[d], i - 1 + Len(fill), "in") /\ Agree(rt[d], rt[e], i - 1 + Len(fill))
          BY <1>1, <1>4, <4>3, <4>4, PatchBacksTail DEF h
        <5>2. QED
          BY <4>4, <5>1 DEF m
      <4>6. rt[e] \in Seq(Good) /\ Len(rt[e]) \in Nat
        BY <1>2 DEF Siblings
      <4>7. j + 1 \in 1..Len(q) /\ q[j + 1] = r[h + 1]
        BY <2>4, <4>4, <4>e
      <4>8. j \in 1..(j + 1) /\ j + 1 \in 1..(j + 1)
        BY <2>5
      <4>9. /\ SamePhysicalFragment(q[j], rt[e][j]) /\ SamePhysicalFragment(q[j + 1], rt[e][j + 1])
            /\ j + 1 <= Len(rt[e])
        BY <4>5, <4>8 DEF Agree
      <4>10. Gives(rt[e], j + 1, "in") /\ rt[e][j + 1].kind # "pin"
        BY <4>2, <4>5, <4>7, <4>9 DEF Backs, SamePhysicalFragment
      <4>11. OwnsIn(rt[e][j + 1])
        BY <4>10 DEF Gives
      <4>12. rt[e][j].kind \in Jumps /\ j < Len(rt[e])
        BY <2>5, <3>1, <3>3, <4>6, <4>9 DEF SamePhysicalFragment, Jumps
      <4>13. Gives(rt[e], j, "landing")
        BY <4>11, <4>12 DEF Gives
      <4>14. Agree(q, rt[e], j)
        BY <2>2, <2>5, <4>4, <4>5, <4>6, AgreeFacts
      <4>15. QED
        BY <4>1, <4>3, <4>13, <4>14 DEF Backs
    <3>6. QED
      BY <3>4, <3>5
  <2>9. CASE j + 1 - m \in (h + 1)..Len(r) /\ j + 1 - m - 1 + m = j
    <3> DEFINE i == j + 1 - m
    <3>1. i \in (h + 1)..Len(r) /\ i - 1 + m = j /\ q[j] = r[i]
      <4>1. i \in (h + 1)..Len(r)
        BY <2>9
      <4>2. i - 1 + m = j
        BY <2>2, <2>5
      <4> HIDE DEF i
      <4>3. QED
        BY <2>4, <4>1, <4>2
    <3> HIDE DEF i
    <3>2. i \in Nat /\ h < i /\ i <= Len(r) /\ i \in 1..Len(r) /\ i > 1
      <4>1. i \in (h + 1)..Len(r) /\ h \in Nat /\ Len(r) \in Nat /\ h >= 1
        BY <2>1, <2>5, <3>1
      <4> DEFINE z == Len(r)
      <4>2. i \in (h + 1)..z /\ h \in Nat /\ z \in Nat /\ h >= 1
        BY <4>1
      <4> HIDE DEF z
      <4>3. i \in Nat /\ h < i /\ i <= z /\ i \in 1..z /\ i > 1
        BY ONLY <4>2
      <4>4. QED
        BY <4>3 DEF z
    <3>3. i # h + 1 => q[j - 1] = r[i - 1]
      <4> SUFFICES ASSUME i # h + 1 PROVE q[j - 1] = r[i - 1]
        OBVIOUS
      <4>1. i - 1 \in (h + 1)..Len(r) /\ i - 1 - 1 + m = j - 1
        BY <2>2, <2>5, <3>1, <3>2
      <4>2. QED
        BY <2>4, <4>1
    <3>4. i = h + 1 => r[i - 1].kind = "gap"
      BY <2>1, <2>5
    <3>5. w \in Needs(r, i)
      BY <3>1, <3>2, <3>3, <3>4 DEF Needs
    <3>6. PICK e \in Siblings(d) : Backs(route[e], r, i, w)
      BY <3>2, <3>5 DEF Held
    <3>7. Backs(rt[e], rt[d], i - 1 + Len(fill), w)
      BY <1>1, <1>4, <3>1, <3>6, PatchBacksTail DEF h
    <3>8. QED
      BY <3>1, <3>6, <3>7 DEF m
  <2>10. QED
    BY <2>4, <2>7, <2>8, <2>9
<1>5. QED
  BY <1>3, <1>4

\* The twins of a hole are all the siblings that have it: the index of the
\* tile it begins on lists every one of them.
LEMMA TwinsAre ==
    ASSUME Regular(Now), NEW b \in Bindings, NEW gap
    PROVE  Twins(b, gap) = {c \in Siblings(b) : \E i \in DOMAIN route[c] : route[c][i] = gap}
<1>1. reg = Entries(route, Bindings) /\ route \in Routes
  BY DEF Regular, Now, States
<1>2. ASSUME NEW c \in Siblings(b), NEW i \in DOMAIN route[c], route[c][i] = gap
      PROVE  c \in Listed(Now, TileOf[gap.in])
  <2>1. c \in Bindings /\ route[c] \in Seq(Good)
    BY <1>1 DEF Siblings, Routes
  <2>2. i \in 1..Len(route[c])
    BY <2>1
  <2>3. TileOf[gap.in] \in FragmentTiles(route[c][i])
    BY <1>2 DEF FragmentTiles, FromTile
  <2>4. TileOf[gap.in] \in RouteTiles(route[c])
    BY <2>2, <2>3 DEF RouteTiles
  <2>5. <<TileOf[gap.in], c>> \in reg
    BY <1>1, <2>1, <2>4, EntriesOf
  <2>6. QED
    BY <2>1, <2>5 DEF Listed, Now
<1>3. QED
  BY <1>2 DEF Twins

\* What closes a hole uses its beginning and the path.
LEMMA FillUses ==
    ASSUME NEW gap, gap.in \in DstNodes, NEW p \in Paths(gap.in), Closes(gap, p),
           NEW fill, IsFill(gap, p, fill), NEW x \in RouteUses(fill)
    PROVE  x = gap.in \/ \E i \in 1..Len(p) : x = p[i] \/ x = Landing[p[i]]
<1>1. PICK j \in 1..Len(fill) : x \in Uses(fill[j])
  BY DEF RouteUses
<1>2. Len(p) \in Nat /\ PathEnd(gap.in, p) = IF Len(p) = 0 THEN gap.in ELSE Landing[p[Len(p)]]
  BY PathFacts
<1>3. /\ fill[j].kind \in {"hop", "ground"}
      /\ fill[j].kind = "hop" => /\ j \in 1..Len(p) /\ fill[j].in = Leaves(gap.in, p, j)
                                 /\ fill[j].src = p[j] /\ fill[j].dst = Landing[p[j]]
  BY FillGives
<1>4. CASE fill[j].kind = "hop"
  <2>1. x \in {fill[j].in, fill[j].src, fill[j].dst}
    BY <1>1, <1>4 DEF Uses
  <2>2. CASE j = 1
    BY <1>3, <1>4, <2>1, <2>2 DEF Leaves
  <2>3. CASE j # 1
    <3>1. j - 1 \in 1..Len(p)
      BY <1>2, <1>3, <1>4, <2>3
    <3>2. fill[j].in = Landing[p[j - 1]]
      BY <1>3, <1>4, <2>3 DEF Leaves
    <3>3. QED
      BY <1>3, <1>4, <2>1, <3>1, <3>2
  <2>4. QED
    BY <2>2, <2>3
<1>5. CASE fill[j].kind = "ground"
  <2>1. x = fill[j].in
    BY <1>1, <1>5 DEF Uses
  <2>2. j \notin 1..Len(p)
    <3>1. ASSUME j \in 1..Len(p) PROVE FALSE
      <4>1. fill[j] = Hop(Leaves(gap.in, p, j), p[j], j # 1, FALSE)
        BY <3>1 DEF IsFill
      <4>2. QED
        BY <1>5, <4>1 DEF Hop
    <3>2. QED
      BY <3>1
  <2>3. gap.dst \in Pins /\ j = Len(p) + 1 /\ fill[Len(p) + 1] = Ground(PathEnd(gap.in, p), Len(p) # 0)
    <3>1. Len(fill) = IF gap.dst \in Pins THEN Len(p) + 1 ELSE Len(p)
      BY DEF IsFill
    <3>2. gap.dst \in Pins /\ j = Len(p) + 1
      BY <1>2, <2>2, <3>1
    <3>3. QED
      BY <3>2 DEF IsFill
  <2>4. x = PathEnd(gap.in, p)
    BY <2>1, <2>3 DEF Ground
  <2>5. CASE Len(p) = 0
    BY <1>2, <2>4, <2>5
  <2>6. CASE Len(p) # 0
    <3>1. Len(p) \in 1..Len(p)
      BY <1>2, <2>6
    <3>2. QED
      BY <1>2, <2>4, <2>6, <3>1
  <2>7. QED
    BY <2>5, <2>6
<1>6. QED
  BY <1>3, <1>4, <1>5

\* A patched route uses what it used and what closes the hole.
LEMMA PatchUses ==
    ASSUME NEW r \in Seq(Good), NEW h \in 1..Len(r), r[h].kind = "gap", NEW fill \in Seq(Good),
           NEW q, IsPatch(r, h, fill, q)
    PROVE  RouteUses(q) = RouteUses(r) \cup RouteUses(fill)
<1>1. /\ Len(r) \in Nat /\ Len(fill) \in Nat /\ h \in Nat
      /\ \A i \in 1..(h - 1) : i \in 1..Len(q) /\ q[i] = r[i]
      /\ \A j \in 1..Len(fill) : h - 1 + j \in 1..Len(q) /\ q[h - 1 + j] = fill[j]
      /\ \A i \in (h + 1)..Len(r) : i - 1 + Len(fill) \in 1..Len(q) /\ q[i - 1 + Len(fill)] = r[i]
      /\ \A j \in 1..Len(q) : \/ j \in 1..(h - 1)
                              \/ j - (h - 1) \in 1..Len(fill) /\ h - 1 + (j - (h - 1)) = j
                              \/ /\ j + 1 - Len(fill) \in (h + 1)..Len(r)
                                 /\ j + 1 - Len(fill) - 1 + Len(fill) = j
  BY PatchIndex
<1>2. ASSUME NEW x \in RouteUses(q) PROVE x \in RouteUses(r) \cup RouteUses(fill)
  <2>1. PICK j \in 1..Len(q) : x \in Uses(q[j])
    BY DEF RouteUses
  <2>2. CASE j \in 1..(h - 1)
    <3>1. j \in 1..Len(r)
      BY <1>1, <2>2
    <3>2. QED
      BY <1>1, <2>1, <2>2, <3>1 DEF RouteUses
  <2>3. CASE j - (h - 1) \in 1..Len(fill) /\ h - 1 + (j - (h - 1)) = j
    <3>1. q[j] = fill[j - (h - 1)]
      BY <1>1, <2>3
    <3>2. QED
      BY <2>1, <2>3, <3>1 DEF RouteUses
  <2>4. CASE j + 1 - Len(fill) \in (h + 1)..Len(r) /\ j + 1 - Len(fill) - 1 + Len(fill) = j
    <3> DEFINE i == j + 1 - Len(fill)
    <3>1. i \in (h + 1)..Len(r) /\ i - 1 + Len(fill) = j
      BY <1>1, <2>4
    <3> HIDE DEF i
    <3>2. q[j] = r[i]
      BY <1>1, <3>1
    <3>3. i \in 1..Len(r)
      BY <1>1, <3>1
    <3>4. QED
      BY <2>1, <3>2, <3>3 DEF RouteUses
  <2>5. QED
    BY <1>1, <2>2, <2>3, <2>4
<1>3. ASSUME NEW x \in RouteUses(fill) PROVE x \in RouteUses(q)
  BY <1>1 DEF RouteUses
<1>4. ASSUME NEW x \in RouteUses(r) PROVE x \in RouteUses(q)
  <2>1. PICK i \in 1..Len(r) : x \in Uses(r[i])
    BY DEF RouteUses
  <2>2. i # h
    BY <2>1 DEF Uses
  <2>3. i \in 1..(h - 1) \/ i \in (h + 1)..Len(r)
    BY <1>1, <2>2
  <2>4. QED
    BY <1>1, <2>1, <2>3 DEF RouteUses
<1>5. QED
  BY <1>2, <1>3, <1>4

\* What may be crossed, and where it lands, belongs to the hole's own source
\* or to nobody.
LEMMA CrossableTakes ==
    ASSUME Regular(Now), NEW b \in Bindings, NEW n, NEW s \in SrcNodes, NEW end, Crossable(b, n, s, end)
    PROVE  Takes(b, s) /\ (Takes(b, Landing[s]) \/ Landing[s] = end)
<1>1. \A c \in Bindings : route[c] \in Seq(Good)
  BY DEF Regular, Now, States, Routes
<1>2. CASE SharedEdge(b, n, s)
  <2>1. PICK c \in Listed(Now, TileOf[n]) \cap Siblings(b) :
           /\ s \in RouteOwned(route[c])
           /\ \E i \in DOMAIN route[c] :
                 route[c][i].kind = "hop" /\ route[c][i].in = n /\ route[c][i].src = s
    BY <1>2 DEF SharedEdge
  <2>2. PICK i \in DOMAIN route[c] :
           route[c][i].kind = "hop" /\ route[c][i].in = n /\ route[c][i].src = s
    BY <2>1
  <2>3. c \in Siblings(b) /\ route[c] \in Seq(Good)
    BY <1>1, <2>1 DEF Siblings
  <2>4. i \in 1..Len(route[c]) /\ route[c][i] \in Good
    BY <2>2, <2>3
  <2>5. route[c][i].dst = Landing[s]
    BY <2>2, <2>4, GoodFragment DEF Shape
  <2>6. s \in Uses(route[c][i]) /\ Landing[s] \in Uses(route[c][i])
    BY <2>2, <2>5 DEF Uses
  <2>7. s \in RouteUses(route[c]) /\ Landing[s] \in RouteUses(route[c])
    BY <2>4, <2>6 DEF RouteUses
  <2>8. QED
    BY <2>3, <2>7 DEF Takes
<1>3. CASE s \notin leased /\ (Landing[s] \notin leased \/ Landing[s] = end)
  BY <1>3 DEF Takes
<1>4. QED
  BY <1>2, <1>3 DEF Crossable

\* A repair, which fills the hole in the binding and its twins, keeps the state
\* sound, and takes nothing another source has.
LEMMA RepairGapSound ==
    ASSUME Sound(Now), NEW b \in Bindings, RepairGap(b)
    PROVE  (\E st : Sound(st) /\ Install(st)) /\ Quiet(route')
<1> DEFINE gap == route[b][FirstGap(route[b])]
           T == Twins(b, gap)
           at(p, i) == IF i = 1 THEN gap.in ELSE Landing[p[i - 1]]
<1>1. /\ Regular(Now) /\ Held(route) /\ Single(route) /\ route \in Routes /\ leased = AllUses(route)
      /\ reg = Entries(route, Bindings)
      /\ \A c \in Bindings : route[c] \in Seq(Good) /\ Line(c, route[c]) /\ Linked(route[c])
  BY SoundFacts DEF Now
<1>2. HasGap(route[b])
  BY DEF RepairGap
<1>3. PICK p \in Paths(gap.in) :
         /\ Closes(gap, p)
         /\ \A i \in 1..Len(p) : Crossable(b, at(p, i), p[i], gap.dst)
         /\ Install(CloseHoles(T, gap, Fill(gap, p)))
  BY DEF RepairGap
<1>4. /\ FirstGap(route[b]) \in 1..Len(route[b]) /\ gap.kind = "gap" /\ gap \in Good /\ gap.in \in DstNodes
  BY <1>1, <1>2, FirstGapIs
<1>5. T = {c \in Siblings(b) : \E i \in DOMAIN route[c] : route[c][i] = gap}
  BY <1>1, TwinsAre
<1>6. FirstGap(route[b]) \in DOMAIN route[b]
  BY <1>1, <1>4
<1>7. b \in T
  BY <1>5, <1>6 DEF Siblings
<1>8. gap.in \in RouteUses(route[b]) /\ gap.dst \in RouteUses(route[b])
  BY <1>1, <1>4, GapEnds
<1> HIDE DEF gap
<1>9. T \in SUBSET Bindings /\ \A c \in T : \E i \in DOMAIN route[c] : route[c][i] = gap
  BY <1>5 DEF Siblings
<1> HIDE DEF T
<1> DEFINE fill == Fill(gap, p)
           rt == [c \in Bindings |-> IF c \in T THEN Patch(route[c], gap, fill) ELSE route[c]]
           st == CloseHoles(T, gap, fill)
<1>10. IsFill(gap, p, fill) /\ fill \in Seq(Good)
  BY <1>4, FillIs DEF IsFill
<1>i. Install(st)
  BY <1>3
<1> HIDE DEF fill
<1>11. Regular(st) /\ st.leased = leased \cup RouteOwned(fill) /\ st.route = rt
  <2>1. st.route = rt
    BY DEF CloseHoles
  <2> HIDE DEF rt
  <2>2. Regular(CloseHoles(T, gap, fill))
    BY <1>1, <1>9, <1>10, CloseHolesKeeps
  <2>3. CloseHoles(T, gap, fill).leased = leased \cup RouteOwned(fill)
    BY DEF CloseHoles
  <2>4. QED
    BY <2>1, <2>2, <2>3
<1>12. rt \in Routes
  BY <1>11 DEF Regular, States
<1> HIDE DEF st
<1>13. Patching(gap, T, fill, rt)
  <2>1. ASSUME NEW c \in T
        PROVE  /\ HoleAt(route[c], gap) \in 1..Len(route[c])
               /\ route[c][HoleAt(route[c], gap)] = gap
               /\ \A j \in 1..Len(route[c]) : route[c][j] = gap => HoleAt(route[c], gap) <= j
               /\ IsPatch(route[c], HoleAt(route[c], gap), fill, rt[c])
    <3>1. c \in Bindings /\ route[c] \in Seq(Good) /\ \E i \in DOMAIN route[c] : route[c][i] = gap
      BY <1>1, <1>9
    <3>2. HoleAt(route[c], gap) \in 1..Len(route[c]) /\ route[c][HoleAt(route[c], gap)] = gap
      BY <3>1, HoleAtIs
    <3>3. IsPatch(route[c], HoleAt(route[c], gap), fill, Patch(route[c], gap, fill))
      BY <1>10, <3>1, PatchIs
    <3>4. rt[c] = Patch(route[c], gap, fill)
      BY <3>1
    <3> DEFINE I == {j \in DOMAIN route[c] : route[c][j] = gap}
    <3>5. I \subseteq Nat /\ I # {} /\ DOMAIN route[c] = 1..Len(route[c]) /\ HoleAt(route[c], gap) = FirstOf(I)
      BY <3>1 DEF HoleAt
    <3>6. \A j \in 1..Len(route[c]) : route[c][j] = gap => j \in I
      BY <3>5
    <3> HIDE DEF I
    <3>7. \A j \in I : HoleAt(route[c], gap) <= j
      BY <3>5, FirstOfIs
    <3>8. QED
      BY <3>2, <3>3, <3>4, <3>6, <3>7
  <2>2. \A c \in Bindings : c \notin T => rt[c] = route[c]
    OBVIOUS
  <2>3. ASSUME NEW d \in T, NEW e \in Bindings, SourceOf[e] = SourceOf[d],
               \E i \in 1..Len(route[e]) : route[e][i] = gap
        PROVE  e \in T
    <3>1. e \in Siblings(b)
      BY <1>5, <2>3 DEF Siblings
    <3>2. DOMAIN route[e] = 1..Len(route[e])
      BY <1>1
    <3>3. QED
      BY <1>5, <2>3, <3>1, <3>2
  <2> HIDE DEF rt
  <2>4. QED
    BY <1>4, <1>10, <1>12, <2>1, <2>2, <2>3 DEF Patching
<1> HIDE DEF rt
<1>14. Held(rt)
  BY <1>1, <1>3, <1>4, <1>9, <1>10, <1>13, PatchHeld
<1>15. LinesOf(st)
  <2>1. Lines'
    <3>1. Lines
      BY <1>1 DEF Lines
    <3>2. QED
      BY <1>1, <3>1, RepairGapLine
  <2>2. route' = st.route
    BY <1>i DEF Install
  <2>3. QED
    BY <2>1, <2>2 DEF Lines, LinesOf
<1>16. \A c \in Bindings : RouteUses(rt[c]) = IF c \in T THEN RouteUses(route[c]) \cup RouteUses(fill)
                                              ELSE RouteUses(route[c])
  <2>1. ASSUME NEW c \in Bindings, c \in T PROVE RouteUses(rt[c]) = RouteUses(route[c]) \cup RouteUses(fill)
    <3>1. /\ HoleAt(route[c], gap) \in 1..Len(route[c])
          /\ route[c][HoleAt(route[c], gap)] = gap
          /\ IsPatch(route[c], HoleAt(route[c], gap), fill, rt[c])
      BY <1>13, <2>1 DEF Patching
    <3>2. QED
      BY <1>1, <1>4, <1>10, <3>1, PatchUses
  <2>2. ASSUME NEW c \in Bindings, c \notin T PROVE rt[c] = route[c]
    BY <1>13, <2>2 DEF Patching
  <2>3. QED
    BY <2>1, <2>2
<1>17. \A x \in RouteUses(fill) : x \in RouteOwned(fill) \/ x = gap.in \/ x = gap.dst
  BY <1>3, <1>4, <1>10, FillGives
<1>18. RouteOwned(fill) \subseteq RouteUses(fill)
  BY <1>10, OwnedUsed
<1>19. st.leased = AllUses(st.route)
  <2>1. AllUses(rt) = AllUses(route) \cup RouteUses(fill)
    <3>1. b \in Bindings /\ b \in T
      BY <1>7
    <3>2. RouteUses(rt[b]) = RouteUses(route[b]) \cup RouteUses(fill)
      BY <1>16, <3>1
    <3>3. ASSUME NEW c \in Bindings
          PROVE  /\ RouteUses(rt[c]) \subseteq RouteUses(route[c]) \cup RouteUses(fill)
                 /\ RouteUses(route[c]) \subseteq RouteUses(rt[c])
      BY <1>16, <3>3
    <3>4. AllUses(rt) \subseteq AllUses(route) \cup RouteUses(fill)
      BY <3>3, Zenon DEF AllUses
    <3>5. AllUses(route) \subseteq AllUses(rt)
      BY <3>3, Zenon DEF AllUses
    <3>6. RouteUses(fill) \subseteq AllUses(rt)
      BY <3>1, <3>2, Zenon DEF AllUses
    <3>7. QED
      BY <3>4, <3>5, <3>6
  <2>2. gap.in \in AllUses(route) /\ gap.dst \in AllUses(route)
    BY <1>8 DEF AllUses
  <2>3. QED
    BY <1>1, <1>11, <1>17, <1>18, <2>1, <2>2
<1>20. \A x \in RouteUses(fill) : Takes(b, x)
  <2>1. \A n \in {gap.in, gap.dst} : Takes(b, n)
    <3>1. b \in Siblings(b)
      BY DEF Siblings
    <3>2. QED
      BY <1>8, <3>1 DEF Takes
  <2>2. \A i \in 1..Len(p) : p[i] \in SrcNodes
    BY PathFacts
  <2>3. \A i \in 1..Len(p) : Takes(b, p[i]) /\ Takes(b, Landing[p[i]])
    <3> SUFFICES ASSUME NEW i \in 1..Len(p) PROVE Takes(b, p[i]) /\ Takes(b, Landing[p[i]])
      OBVIOUS
    <3> DEFINE n == at(p, i)
    <3>1. Crossable(b, n, p[i], gap.dst) /\ p[i] \in SrcNodes
      BY <1>3, <2>2
    <3> HIDE DEF n
    <3>2. Takes(b, p[i]) /\ (Takes(b, Landing[p[i]]) \/ Landing[p[i]] = gap.dst)
      BY <1>1, <3>1, CrossableTakes
    <3>3. QED
      BY <2>1, <3>2
  <2>4. QED
    BY <1>3, <1>4, <1>10, <2>1, <2>3, FillUses
<1>21. Single(rt)
  <2>1. ASSUME NEW c \in Bindings, NEW d \in Bindings, SourceOf[c] # SourceOf[d], NEW x,
               x \in RouteUses(rt[c]), x \in RouteUses(fill), d \notin T, x \in RouteUses(rt[d]), c \in T
        PROVE  FALSE
    <3>1. x \in RouteUses(route[d])
      BY <1>16, <2>1
    <3>2. x \in leased
      BY <1>1, <3>1 DEF AllUses
    <3>3. PICK e \in Siblings(b) : x \in RouteUses(route[e])
      BY <1>20, <2>1, <3>2 DEF Takes
    <3>4. e \in Bindings /\ SourceOf[e] # SourceOf[d]
      BY <1>5, <2>1, <3>3 DEF Siblings
    <3>5. QED
      BY <1>1, <3>1, <3>3, <3>4 DEF Single
  <2>2. \A c, d \in T : SourceOf[c] = SourceOf[d]
    BY <1>5 DEF Siblings
  <2>3. SUFFICES ASSUME NEW c \in Bindings, NEW d \in Bindings, SourceOf[c] # SourceOf[d], NEW x,
                        x \in RouteUses(rt[c]), x \in RouteUses(rt[d])
                 PROVE  FALSE
    BY DEF Single
  <2>4. CASE x \in RouteUses(route[c]) /\ x \in RouteUses(route[d])
    BY <1>1, <2>3, <2>4 DEF Single
  <2>5. CASE x \notin RouteUses(route[c])
    <3>1. c \in T /\ x \in RouteUses(fill) /\ d \notin T
      BY <1>16, <2>2, <2>3, <2>5
    <3>2. QED
      BY <2>1, <2>3, <3>1
  <2>6. CASE x \notin RouteUses(route[d])
    <3>1. d \in T /\ x \in RouteUses(fill) /\ c \notin T
      BY <1>16, <2>2, <2>3, <2>6
    <3>2. QED
      BY <2>1, <2>3, <3>1
  <2>7. QED
    BY <2>4, <2>5, <2>6
<1>22. Sound(st)
  BY <1>11, <1>14, <1>15, <1>19, <1>21 DEF Sound
<1>23. route' = rt
  BY <1>i, <1>11 DEF Install
<1> HIDE DEF rt
<1>24. Quiet(route')
  <2> SUFFICES ASSUME NEW c \in Bindings, NEW x \in RouteUses(route'[c]) PROVE Takes(c, x)
    BY DEF Quiet
  <2>1. CASE x \in RouteUses(route[c])
    BY <2>1, KeepsOwn
  <2>2. CASE x \notin RouteUses(route[c])
    <3>1. c \in T /\ x \in RouteUses(fill)
      BY <1>16, <1>23, <2>2
    <3>2. Siblings(c) = Siblings(b)
      BY <1>5, <3>1 DEF Siblings
    <3>3. QED
      BY <1>20, <3>1, <3>2 DEF Takes
  <2>3. QED
    BY <2>1, <2>2
<1>25. QED
  BY <1>i, <1>22, <1>24

-----------------------------------------------------------------------------
(* The theorems about leases                                               *)

\* Every action takes a sound state to a sound state.
LEMMA NextSound ==
    ASSUME MovesApart, Sound(Now), Next,
           \A b \in Bindings : StepBack(b) => FreeBeyond(route, b, Len(route[b]) - 1)
    PROVE  \E st : Sound(st) /\ Install(st)
<1>1. CASE \E b \in Bindings : RouteStep(b) \/ Preempt(b) \/ RepairGap(b) \/ StepBack(b) \/ Discard(b)
  <2>1. PICK b \in Bindings : RouteStep(b) \/ Preempt(b) \/ RepairGap(b) \/ StepBack(b) \/ Discard(b)
    BY <1>1
  <2>2. CASE StepBack(b)
    BY <2>2, StepBackSound
  <2>3. QED
    BY <2>1, <2>2, RouteStepSound, PreemptSound, RepairGapSound, DiscardSound
<1>2. CASE \E s \in Sources : UnrouteSourceTree(s)
  BY <1>2, SourceTreeSound
<1>3. CASE \E S \in MoveSets : MoveSinks(S)
  <2>1. PICK S \in MoveSets : MoveSinks(S)
    BY <1>3
  <2>2. SeparateTerminals /\ \A A \in MoveSets : Apart(A)
    BY <2>1 DEF MovesApart
  <2>3. QED
    BY <2>1, <2>2, MoveSinksSound
<1>4. QED
  BY <1>1, <1>2, <1>3 DEF Next

\* Soundness of the state a step leads to.
LEMMA NextState == Sound(Now)' = Sound([route |-> route', leased |-> leased', reg |-> reg'])
BY DEF Now

\* Through every commit, fork, preemption, repair, removal and move the leases
\* are exactly the nodes the routes use, a replica that has the same fabric
\* up to there owns each of them, and no node serves two sources.
THEOREM StatesAreSound == MovesApart => (Spec /\ StepsBackAlone => []LeasesSound)
<1> SUFFICES ASSUME MovesApart PROVE Spec /\ StepsBackAlone => []LeasesSound
  OBVIOUS
<1>1. Init => Sound(Now)
  <2> SUFFICES ASSUME Init PROVE Sound(Now)
    OBVIOUS
  <2>1. /\ route \in Routes /\ leased = {} /\ reg = {}
        /\ \A b \in Bindings : route[b] = <<>> /\ Len(route[b]) = 0 /\ RouteUses(route[b]) = {}
    BY DEF Init, Routes, RouteUses
  <2>2. Entries(route, Bindings) = {}
    BY DEF Init, Entries, RouteTiles
  <2>3. Regular(Now)
    BY <2>1, <2>2 DEF Regular, Now, States
  <2>4. LinesOf(Now)
    BY <2>1 DEF LinesOf, Line, Linked, Now
  <2>5. Held(route) /\ Single(route)
    <3>1. \A d \in Bindings : 1..Len(route[d]) = {}
      BY <2>1
    <3>2. Held(route)
      BY <3>1, Zenon DEF Held
    <3>3. Single(route)
      BY <2>1 DEF Single
    <3>4. QED
      BY <3>2, <3>3
  <2>6. leased = AllUses(route)
    BY <2>1 DEF AllUses
  <2>7. QED
    BY <2>3, <2>4, <2>5, <2>6 DEF Sound, Now
<1>2. /\ Sound(Now) /\ [Next]_vars
      /\ [\A b \in Bindings : StepBack(b) => FreeBeyond(route, b, Len(route[b]) - 1)]_vars
      => Sound(Now)'
  <2> SUFFICES ASSUME Sound(Now), [Next]_vars,
                      [\A b \in Bindings : StepBack(b) => FreeBeyond(route, b, Len(route[b]) - 1)]_vars
               PROVE  Sound(Now)'
    OBVIOUS
  <2>0. Sound(Now)' = Sound([route |-> route', leased |-> leased', reg |-> reg'])
    BY NextState
  <2>1. CASE Next /\ ~UNCHANGED vars
    <3>1. PICK st : Sound(st) /\ Install(st)
      BY <2>1, NextSound
    <3>2. route' = st.route /\ leased' = st.leased /\ reg' = st.reg /\ st \in States
      BY <3>1, SoundFacts DEF Install
    <3>3. [route |-> route', leased |-> leased', reg |-> reg'] = st
      BY <3>2 DEF States
    <3>4. QED
      BY <2>0, <3>1, <3>3
  <2>2. CASE UNCHANGED vars
    <3>1. [route |-> route', leased |-> leased', reg |-> reg'] = Now
      BY <2>2 DEF vars, Now
    <3>2. QED
      BY <2>0, <3>1
  <2>3. QED
    BY <2>1, <2>2
<1>3. Sound(Now) <=> LeasesSound
  BY DEF LeasesSound
<1>4. QED
  BY <1>1, <1>2, <1>3, PTL DEF Spec, StepsBackAlone

\* A binding without siblings steps back over nothing that others need, so
\* where only such bindings step back no run needs a hypothesis.
THEOREM LeasesAreSound == ReplicasApart => (Spec => []LeasesSound)
<1> SUFFICES ASSUME ReplicasApart PROVE Spec => []LeasesSound
  OBVIOUS
<1>1. MovesApart
  BY DEF ReplicasApart
<1>2. [Next]_vars => [\A b \in Bindings : StepBack(b) => FreeBeyond(route, b, Len(route[b]) - 1)]_vars
  BY DEF ReplicasApart, StepBack, FreeBeyond
<1>3. Spec => StepsBackAlone
  BY <1>2, PTL DEF Spec, StepsBackAlone
<1>4. QED
  BY <1>1, <1>3, StatesAreSound, PTL

\* No replica uses a node without a lease, whichever of its siblings held the
\* owning flag when another was cut, moved or unrouted.
THEOREM UsedAreLeased == MovesApart => (Spec /\ StepsBackAlone => []UsedNodesLeased)
<1> SUFFICES ASSUME MovesApart PROVE Spec /\ StepsBackAlone => []UsedNodesLeased
  OBVIOUS
<1>1. LeasesSound => UsedNodesLeased
  BY SoundFacts DEF LeasesSound, UsedNodesLeased, AllUses, Now
<1>2. QED
  BY <1>1, StatesAreSound, PTL

\* Every lease has an owner that could release it.
THEOREM LeasesAreOwned == MovesApart => (Spec /\ StepsBackAlone => []NoOrphanLease)
<1> SUFFICES ASSUME MovesApart PROVE Spec /\ StepsBackAlone => []NoOrphanLease
  OBVIOUS
<1>1. ASSUME LeasesSound PROVE NoOrphanLease
  <2>1. route \in Routes /\ Held(route) /\ leased = AllUses(route) /\ \A b \in Bindings : Line(b, route[b])
    BY <1>1, SoundFacts DEF LeasesSound, Now
  <2>2. SUFFICES ASSUME NEW n \in leased PROVE \E b \in Bindings : n \in RouteOwned(route[b])
    BY DEF NoOrphanLease
  <2>3. PICK d \in Bindings : n \in RouteUses(route[d])
    BY <2>1, <2>2 DEF AllUses
  <2>4. QED
    BY <2>1, <2>3, HeldOwned DEF Siblings
<1>2. QED
  BY <1>1, StatesAreSound, PTL

\* No node is driven by two sources, not even where one took it from another.
THEOREM DriversAreSingle == MovesApart => (Spec /\ StepsBackAlone => []SingleDriver)
<1> SUFFICES ASSUME MovesApart PROVE Spec /\ StepsBackAlone => []SingleDriver
  OBVIOUS
<1>1. ASSUME LeasesSound PROVE SingleDriver
  <2>1. Single(Now.route) /\ Now.route = route
    BY <1>1, SoundFacts DEF LeasesSound, Now
  <2>2. QED
    BY <2>1 DEF SingleDriver, Single
<1>2. QED
  BY <1>1, StatesAreSound, PTL

\* A shared hop always finds a sibling that owns its SRC.
THEOREM SharedHopsHaveOwners == MovesApart => (Spec /\ StepsBackAlone => []SharedHopsOwned)
<1> SUFFICES ASSUME MovesApart PROVE Spec /\ StepsBackAlone => []SharedHopsOwned
  OBVIOUS
<1>1. ASSUME LeasesSound PROVE SharedHopsOwned
  <2>1. /\ route \in Routes /\ Held(route)
        /\ \A b \in Bindings : route[b] \in Seq(Good) /\ Line(b, route[b])
    BY <1>1, SoundFacts DEF LeasesSound, Now
  <2>2. SUFFICES ASSUME NEW b \in Bindings, NEW i \in DOMAIN route[b], route[b][i].kind \in Jumps
                 PROVE  \E c \in Siblings(b) : route[b][i].src \in RouteOwned(route[c])
    BY DEF SharedHopsOwned
  <2>3. i \in 1..Len(route[b])
    BY <2>1
  <2>4. route[b][i].src \in RouteUses(route[b])
    BY <2>2, <2>3 DEF RouteUses, Uses, Jumps
  <2>5. QED
    BY <2>1, <2>4, HeldOwned
<1>2. QED
  BY <1>1, StatesAreSound, PTL

\* As long as a hole is open its source keeps both of its ends, and the index
\* of their tiles shows it: no other source took them, and no removal of a
\* sibling dropped them.
THEOREM HolesKeepTheirEnds == MovesApart => (Spec /\ StepsBackAlone => []HoleBoundariesHeld)
<1> SUFFICES ASSUME MovesApart PROVE Spec /\ StepsBackAlone => []HoleBoundariesHeld
  OBVIOUS
<1>1. ASSUME LeasesSound PROVE HoleBoundariesHeld
  <2>1. /\ route \in Routes /\ Held(route) /\ Single(route) /\ reg = Entries(route, Bindings)
        /\ \A b \in Bindings : route[b] \in Seq(Good) /\ Line(b, route[b])
    BY <1>1, SoundFacts DEF LeasesSound, Now
  <2>2. SUFFICES ASSUME NEW b \in Bindings, NEW i \in DOMAIN route[b], route[b][i].kind = "gap",
                        NEW n \in {route[b][i].in, route[b][i].dst}
                 PROVE  Owners(Now, n) # {} /\ Owners(Now, n) \subseteq Siblings(b)
    BY DEF HoleBoundariesHeld
  <2>3. i \in 1..Len(route[b])
    BY <2>1
  <2>4. n \in RouteUses(route[b])
    BY <2>1, <2>2, <2>3, GapEnds
  <2>5. PICK e \in Siblings(b) : n \in RouteOwned(route[e])
    BY <2>1, <2>4, HeldOwned
  <2>6. e \in Bindings /\ route[e] \in Seq(Good)
    BY <2>1 DEF Siblings
  <2>7. n \in RouteUses(route[e])
    BY <2>5, <2>6, OwnedUsed
  <2>8. TileOf[n] \in RouteTiles(route[e])
    BY <2>6, <2>7, RouteOnTiles
  <2>9. <<TileOf[n], e>> \in reg
    BY <2>1, <2>6, <2>8, EntriesOf
  <2>10. e \in Owners(Now, n)
    BY <2>5, <2>6, <2>9 DEF Owners, Listed, Now
  <2>11. ASSUME NEW c \in Owners(Now, n) PROVE c \in Siblings(b)
    <3>1. c \in Bindings /\ n \in RouteOwned(route[c])
      BY <2>11 DEF Owners, Listed, Now
    <3>2. n \in RouteUses(route[c])
      BY <2>1, <3>1, OwnedUsed
    <3>3. QED
      BY <2>1, <2>4, <3>1, <3>2 DEF Single, Siblings
  <2>12. QED
    BY <2>10, <2>11
<1>2. QED
  BY <1>1, StatesAreSound, PTL

-----------------------------------------------------------------------------
(* Exchange                                                                *)

\* Removals leave every route with nodes of its own.
LEMMA RemovalQuiet ==
    ASSUME Sound(Now),
           \/ \E b \in Bindings : StepBack(b) \/ Discard(b)
           \/ \E S \in MoveSets : MoveSinks(S)
           \/ \E s \in Sources : UnrouteSourceTree(s)
    PROVE  Quiet(route')
<1>1. Regular(Now) /\ Now.route = route
  BY SoundFacts DEF Now
<1>2. CASE \E s \in Sources : UnrouteSourceTree(s)
  <2>1. PICK s \in Sources : UnrouteSourceTree(s)
    BY <1>2
  <2>2. route' = [b \in Bindings |-> IF SourceOf[b] = s THEN <<>> ELSE route[b]]
    BY <1>1, <2>1, SourceTreeKeeps
  <2>3. RouteUses(<<>>) = {}
    BY DEF RouteUses
  <2>4. \A b \in Bindings : RouteUses(route'[b]) \subseteq RouteUses(route[b])
    BY <2>2, <2>3
  <2>5. QED
    BY <2>4, KeepsOwn DEF Quiet
<1>3. CASE ~ \E s \in Sources : UnrouteSourceTree(s)
  <2>1. PICK st : Install(st) /\ Shrinks(route, st.route)
    BY <1>1, <1>3, RemovalKeeps
  <2>2. route' = st.route
    BY <2>1 DEF Install
  <2>3. QED
    BY <2>1, <2>2, KeepsOwn DEF Quiet, Shrinks
<1>4. QED
  BY <1>2, <1>3

\* What c loses to b.
Lost(b, c) == RouteUses(route[c]) \cap RouteUses(route'[b])

\* Quiet routes take nothing from another source.
LEMMA QuietTakesNothing ==
    ASSUME Sound(Now), Quiet(route'), NEW b \in Bindings, NEW c \in Bindings, SourceOf[b] # SourceOf[c]
    PROVE  Lost(b, c) = {}
<1> SUFFICES ASSUME NEW x \in RouteUses(route[c]), x \in RouteUses(route'[b]) PROVE FALSE
  BY DEF Lost
<1>1. Single(route) /\ leased = AllUses(route)
  BY SoundFacts DEF Now
<1>2. x \in leased
  BY <1>1 DEF AllUses
<1>3. PICK e \in Siblings(b) : x \in RouteUses(route[e])
  BY <1>2 DEF Quiet, Takes
<1>4. QED
  BY <1>1, <1>3 DEF Single, Siblings

\* The victim keeps the fabric of its first and of its last fragment.
LEMMA OpenedEnds ==
    ASSUME NEW r \in Seq(Good), NEW cuts, NEW low, NEW end, IsHole(r, cuts, low, end),
           NEW q, NEW gone, IsOpened(r, low, end, q, gone), Holed(r, low, end, q, gone)
    PROVE  /\ Len(q) > 1
           /\ SamePhysicalFragment(q[1], r[1])
           /\ SamePhysicalFragment(q[Len(q)], r[Len(r)])
<1>1. Len(r) \in Nat /\ low \in 2..Len(r) /\ end \in low..(Len(r) - 1) /\ Len(q) = low + (Len(r) - end)
  BY DEF IsHole, IsOpened
<1>2. Len(q) > 1 /\ 1 \in 1..(low - 1) /\ Len(r) - end \in 1..(Len(r) - end)
      /\ end + (Len(r) - end) = Len(r) /\ Len(r) \in 1..Len(r)
  BY <1>1
<1>3. SamePhysicalFragment(r[1], q[1])
  BY <1>2 DEF Holed
<1>4. q[Len(q)] = Islanded(r[Len(r)])
  BY <1>1, <1>2 DEF IsOpened
<1>5. SamePhysicalFragment(r[Len(r)], q[Len(q)])
  BY <1>2, <1>4, IslandedIs
<1>6. QED
  BY <1>2, <1>3, <1>5 DEF SamePhysicalFragment

\* What the property grants to a preemption.
Transit(b, c) ==
    /\ NetOf[c] \notin Protected
    /\ \A n \in Lost(b, c) : TileOf[n] \notin EndpointTiles(c)
    /\ Len(route'[c]) > 1
    /\ SamePhysicalFragment(route'[c][1], route[c][1])
    /\ SamePhysicalFragment(route'[c][Len(route'[c])], route[c][Len(route[c])])

\* A preemption takes the nodes it cuts, from bindings that it may cut there.
LEMMA PreemptExchanges ==
    ASSUME Sound(Now), NEW a \in Bindings, Preempt(a),
           NEW b \in Bindings, NEW c \in Bindings, SourceOf[b] # SourceOf[c], Lost(b, c) # {}
    PROVE  Transit(b, c)
<1> DEFINE Cuts(p, done) == SuffixNodes(p, done, PinOf[a]) \cap leased
           Opens(p, done) == OpenHoles(Dependents(Now, Cuts(p, done)), Cuts(p, done))
<1>1. PICK s \in Starts(a) : \E p \in Paths(s.node), done \in BOOLEAN :
         /\ p # <<>>
         /\ Reaches(s.node, p, done, PinOf[a])
         /\ MayCut(a, Cuts(p, done))
         /\ Install(Commit(Opens(p, done), a, s.prefix \o Suffix(s.node, p, done, PinOf[a]),
                           SuffixNodes(p, done, PinOf[a])))
  BY DEF Preempt
<1>2. PICK p \in Paths(s.node), done \in BOOLEAN :
         /\ p # <<>>
         /\ Reaches(s.node, p, done, PinOf[a])
         /\ MayCut(a, Cuts(p, done))
         /\ Install(Commit(Opens(p, done), a, s.prefix \o Suffix(s.node, p, done, PinOf[a]),
                           SuffixNodes(p, done, PinOf[a])))
  BY <1>1
<1> DEFINE new == SuffixNodes(p, done, PinOf[a])
           cuts == new \cap leased
           V == Dependents(Now, cuts)
           open == OpenHoles(V, cuts)
           u == Commit(open, a, s.prefix \o Suffix(s.node, p, done, PinOf[a]), new)
<1>3. /\ MayCut(a, cuts) /\ Install(u) /\ Stands(open.route, a, s) /\ a \notin V
      /\ Sound(open) /\ open.leased \subseteq leased \ cuts
      /\ \A d \in Siblings(a) : d \notin V
      /\ \A d \in Bindings : d \notin V => open.route[d] = route[d]
  BY <1>2, PreemptFacts
<1>4. /\ Regular(Now) /\ Single(route) /\ leased = AllUses(route) /\ Now.route = route
      /\ \A d \in Bindings : route[d] \in Seq(Good)
  BY SoundFacts DEF Now
<1>5. PICK rt, gone : open = Withdraw(Now, rt, gone) /\ Cutting(cuts, rt, gone)
  BY <1>3, OpenHolesCut
<1>6. open.route = rt
  BY <1>5 DEF Withdraw
<1>7. new \cap open.leased = {}
  <2> HIDE DEF open
  <2> QED
    BY <1>3
<1> HIDE DEF open
<1>8. Extends(open, u, a, new)
  BY <1>2, <1>3, <1>7, CommitSound
<1>9. V = {d \in Bindings : RouteUses(route[d]) \cap cuts # {}}
  <2>1. Regular(Now)
    BY <1>4
  <2>2. QED
    BY <2>1, DependentsAre DEF Now
<1> HIDE DEF u, V, cuts, new
<1>10. route' = u.route
  BY <1>3 DEF Install
<1>11. PICK x : x \in RouteUses(route[c]) /\ x \in RouteUses(route'[b])
  BY DEF Lost
<1>12. \A d \in Bindings : RouteUses(rt[d]) \subseteq RouteUses(route[d])
  BY <1>5, CutUses
<1>13. b = a
  <2> SUFFICES ASSUME b # a PROVE FALSE
    OBVIOUS
  <2>1. route'[b] = rt[b]
    BY <1>6, <1>8, <1>10 DEF Extends
  <2>2. RouteUses(rt[b]) \subseteq RouteUses(route[b])
    BY <1>12
  <2>3. QED
    BY <1>4, <1>11, <2>1, <2>2 DEF Single
<1>14. \A y \in Lost(b, c) : y \in cuts /\ y \in RouteUses(route[c])
  <2> SUFFICES ASSUME NEW y \in RouteUses(route[c]), y \in RouteUses(route'[b]) PROVE y \in cuts
    BY DEF Lost
  <2>1. PICK d \in Siblings(a) : RouteUses(u.route[a]) \subseteq RouteUses(open.route[d]) \cup new
    BY <1>8 DEF Extends
  <2>2. d \in Bindings /\ SourceOf[d] # SourceOf[c] /\ open.route[d] = route[d]
    BY <1>3, <1>13, <2>1 DEF Siblings
  <2>3. y \in new
    BY <1>4, <1>10, <1>13, <2>1, <2>2 DEF Single
  <2>4. y \in leased
    BY <1>4 DEF AllUses
  <2>5. QED
    BY <2>3, <2>4 DEF cuts
<1>15. c \in V /\ c # a
  BY <1>9, <1>11, <1>13, <1>14 DEF Lost
<1>16. \A y \in Lost(b, c) : Preemptible(a, c, y)
  <2> SUFFICES ASSUME NEW y \in Lost(b, c) PROVE Preemptible(a, c, y)
    OBVIOUS
  <2>1. c \in Dependents(Now, {y})
    BY <1>4, <1>14, DependentsAre
  <2>2. QED
    BY <1>3, <1>14, <2>1 DEF MayCut
<1>17. route'[c] = rt[c]
  BY <1>6, <1>8, <1>10, <1>15 DEF Extends
<1>18. /\ Len(rt[c]) > 1
       /\ SamePhysicalFragment(rt[c][1], route[c][1])
       /\ SamePhysicalFragment(rt[c][Len(rt[c])], route[c][Len(route[c])])
  BY <1>4, <1>5, <1>15, OpenedEnds DEF Cutting, V
<1>19. QED
  BY <1>16, <1>17, <1>18 DEF Transit, Preemptible

\* No step takes a node from another source but a preemption, which takes it
\* as transit.
LEMMA StepExchanges ==
    ASSUME Sound(Now), Next, NEW b \in Bindings, NEW c \in Bindings, SourceOf[b] # SourceOf[c],
           Lost(b, c) # {}
    PROVE  Transit(b, c)
<1>1. CASE \E a \in Bindings : Preempt(a)
  BY <1>1, PreemptExchanges
<1>2. CASE ~ \E a \in Bindings : Preempt(a)
  <2>1. CASE \E a \in Bindings : RouteStep(a) \/ RepairGap(a)
    <3>1. Quiet(route')
      BY <2>1, RouteStepSound, RepairGapSound
    <3>2. QED
      BY <3>1, QuietTakesNothing
  <2>2. CASE ~ \E a \in Bindings : RouteStep(a) \/ RepairGap(a)
    <3>1. \/ \E a \in Bindings : StepBack(a) \/ Discard(a)
          \/ \E S \in MoveSets : MoveSinks(S)
          \/ \E s \in Sources : UnrouteSourceTree(s)
      BY <1>2, <2>2 DEF Next
    <3>2. Quiet(route')
      BY <3>1, RemovalQuiet
    <3>3. QED
      BY <3>2, QuietTakesNothing
  <2>3. QED
    BY <2>1, <2>2
<1>3. QED
  BY <1>1, <1>2

\* A node changes its source in one step only when it was foreign transit of an
\* unprotected net, away from the loser's endpoints, and the loser keeps its
\* takeoff and its end: whatever a search, a repair, a removal or a move does.
THEOREM OnlyTransitIsTaken == MovesApart => (Spec /\ StepsBackAlone => ExchangeIsTransit)
<1> SUFFICES ASSUME MovesApart PROVE Spec /\ StepsBackAlone => ExchangeIsTransit
  OBVIOUS
<1>1. LeasesSound /\ [Next]_vars =>
        [\A b, c \in Bindings :
           LET lost == RouteUses(route[c]) \cap RouteUses(route'[b]) IN
           SourceOf[b] # SourceOf[c] /\ lost # {} =>
             /\ NetOf[c] \notin Protected
             /\ \A n \in lost : TileOf[n] \notin EndpointTiles(c)
             /\ Len(route'[c]) > 1
             /\ SamePhysicalFragment(route'[c][1], route[c][1])
             /\ SamePhysicalFragment(route'[c][Len(route'[c])], route[c][Len(route[c])])]_vars
  <2> SUFFICES ASSUME Sound(Now), Next, NEW b \in Bindings, NEW c \in Bindings,
                      SourceOf[b] # SourceOf[c],
                      RouteUses(route[c]) \cap RouteUses(route'[b]) # {}
               PROVE  /\ NetOf[c] \notin Protected
                      /\ \A n \in RouteUses(route[c]) \cap RouteUses(route'[b]) :
                            TileOf[n] \notin EndpointTiles(c)
                      /\ Len(route'[c]) > 1
                      /\ SamePhysicalFragment(route'[c][1], route[c][1])
                      /\ SamePhysicalFragment(route'[c][Len(route'[c])], route[c][Len(route[c])])
    BY DEF LeasesSound
  <2>1. Lost(b, c) # {}
    BY DEF Lost
  <2>2. Transit(b, c)
    BY <2>1, StepExchanges
  <2>3. QED
    BY <2>2 DEF Transit, Lost
<1>2. QED
  BY <1>1, StatesAreSound, PTL DEF Spec, ExchangeIsTransit

=============================================================================
