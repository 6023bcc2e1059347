--------------------------- MODULE PnrPlanProofs ---------------------------
(***************************************************************************)
(* Proofs about PnrPlan, for every set of cells, every netlist and every   *)
(* ranking: path halving and unions keep a forest, every join that was     *)
(* asked for holds when packing starts, the runs partition the cells along *)
(* the trees of that forest, are sized as promised and come in order of    *)
(* criticality.                                                            *)
(***************************************************************************)
EXTENDS PnrPlan, InductionLemmas

-----------------------------------------------------------------------------
(* The forest.                                                             *)


N == Len(CellOrder)

\* p is a forest: rank numbers the cells so that every parent has a larger
\* number than its child, and top is the root every cell leads to.
Tree(p, rank, top) ==
    /\ p \in [Cells -> Cells]
    /\ rank \in [Cells -> 1..N] /\ \A c, d \in Cells : rank[c] = rank[d] => c = d
    /\ \A c \in Cells : p[c] # c => rank[c] < rank[p[c]]
    /\ top \in [Cells -> Cells]
    /\ \A c \in Cells : top[p[c]] = top[c] /\ p[top[c]] = top[c] /\ (p[c] = c => top[c] = c)

\* The traversal lists every cell once.
LEMMA Traversal ==
    /\ N \in Nat /\ DOMAIN CellOrder = 1..N /\ CellOrder \in [1..N -> Cells]
    /\ \A c \in Cells : Position(c) \in 1..N /\ CellOrder[Position(c)] = c
<1>1. N \in Nat /\ DOMAIN CellOrder = 1..N /\ CellOrder \in [1..N -> Cells]
  BY PlanInputs DEF N
<1>2. ASSUME NEW c \in Cells PROVE Position(c) \in 1..N /\ CellOrder[Position(c)] = c
  <2>1. \E i \in DOMAIN CellOrder : CellOrder[i] = c
    BY <1>1 DEF Cells, ToSet
  <2>2. QED
    BY <1>1, <2>1 DEF Position
<1>3. QED
  BY <1>1, <1>2

\* Before anything is joined every cell is a root.
LEMMA Singletons ==
    Tree([c \in Cells |-> c], [c \in Cells |-> Position(c)], [c \in Cells |-> c])
BY Traversal DEF Tree

\* A halving keeps the numbering and the roots, stays in the tree and, away
\* from the root, climbs.
LEMMA HalveKeeps ==
    ASSUME NEW p, NEW rank, NEW top, Tree(p, rank, top), NEW c \in Cells
    PROVE  LET st == Halve([parent |-> p, id |-> c]) IN
           /\ st \in [parent : [Cells -> Cells], id : Cells]
           /\ Tree(st.parent, rank, top)
           /\ top[st.id] = top[c]
           /\ IF p[c] = c THEN st = [parent |-> p, id |-> c] ELSE rank[c] < rank[st.id]
<1> DEFINE up == p[p[c]]
           q  == [p EXCEPT ![c] = up]
<1>1. Halve([parent |-> p, id |-> c]) = [parent |-> q, id |-> up]
  BY DEF Halve
<1>2. p \in [Cells -> Cells] /\ q \in [Cells -> Cells] /\ up \in Cells /\ top \in [Cells -> Cells]
      /\ rank \in [Cells -> 1..N] /\ N \in Nat
  BY Traversal DEF Tree
<1>3. \A d \in Cells : q[d] = IF d = c THEN up ELSE p[d]
  BY <1>2
<1>4. top[up] = top[c]
  BY <1>2 DEF Tree
<1>5. p[c] # c => rank[c] < rank[up]
  <2>1. \A d \in Cells : rank[d] \in Nat
    BY <1>2
  <2>2. p[c] # c => rank[c] < rank[p[c]]
    BY DEF Tree
  <2>3. up # p[c] => rank[p[c]] < rank[up]
    BY <1>2 DEF Tree
  <2>4. QED
    BY <1>2, <2>1, <2>2, <2>3
<1>6. p[c] = c => q = p /\ up = c
  BY <1>2
<1>7. Tree(q, rank, top)
  <2>1. \A d \in Cells : q[d] # d => rank[d] < rank[q[d]]
    BY <1>2, <1>3, <1>5, <1>6 DEF Tree
  <2>2. \A d \in Cells : top[q[d]] = top[d]
    BY <1>2, <1>3, <1>4 DEF Tree
  <2>3. \A d \in Cells : q[top[d]] = top[d]
    BY <1>2, <1>3, <1>6 DEF Tree
  <2>4. \A d \in Cells : q[d] = d => p[d] = d
    <3> SUFFICES ASSUME q[c] = c PROVE p[c] = c
      BY <1>3
    <3>1. rank[up] = rank[c] /\ rank[c] \in Nat
      BY <1>2, <1>3
    <3>2. QED
      BY <1>5, <3>1
  <2>5. QED
    BY <1>2, <2>1, <2>2, <2>3, <2>4 DEF Tree
<1>8. Halve([parent |-> p, id |-> c]).parent = q /\ Halve([parent |-> p, id |-> c]).id = up
  <2> HIDE DEF q, up
  <2> QED
    BY <1>1
<1>9. Halve([parent |-> p, id |-> c]) \in [parent : [Cells -> Cells], id : Cells]
  BY <1>1, <1>2
<1>10. p[c] = c => Halve([parent |-> p, id |-> c]) = [parent |-> p, id |-> c]
  BY <1>1, <1>6
<1> HIDE DEF q, up
<1>11. QED
  BY <1>4, <1>5, <1>7, <1>8, <1>9, <1>10

\* w lists the N halvings of root(c).
Walk(p, c, w) ==
    /\ w[0] = [parent |-> p, id |-> c]
    /\ \A k \in 1..N : w[k] = Halve(w[k - 1])
    /\ Find(p, c) = w[N]

\* root() is the last of N halvings.
LEMMA Halvings ==
    ASSUME NEW p \in [Cells -> Cells], NEW c \in Cells
    PROVE  \E w \in [0..N -> [parent : [Cells -> Cells], id : Cells]] : Walk(p, c, w)
<1> DEFINE St == [parent : [Cells -> Cells], id : Cells]
           x == [parent |-> p, id |-> c]
           F == [k \in 1..N |-> [st \in St |-> Halve(st)]]
           IsRun(w) == w = [k \in 0..N |-> IF k = 0 THEN x ELSE Halve(w[k - 1])]
<1>1. N \in Nat /\ x \in St
  BY Traversal
<1>2. \A st \in St : Halve(st) \in St
  BY DEF Halve
<1>3. F \in [1..N -> [St -> St]]
  BY <1>2
<1>4. PICK v \in [0..N -> St] : Iterates(N, x, F, v)
  <2> HIDE DEF F, St, x
  <2> QED
    BY <1>1, <1>3, Iteration
<1>5. \A k \in 1..N : v[k - 1] \in St /\ v[k] = Halve(v[k - 1])
  <2> SUFFICES ASSUME NEW k \in 1..N PROVE v[k - 1] \in St /\ v[k] = Halve(v[k - 1])
    OBVIOUS
  <2>1. k - 1 \in 0..N
    BY <1>1
  <2>2. v[k - 1] \in St
    BY <1>4, <2>1
  <2>3. F[k][v[k - 1]] = Halve(v[k - 1])
    BY <2>2
  <2>4. v[k] = F[k][v[k - 1]]
    BY <1>4 DEF Iterates
  <2>5. QED
    BY <2>2, <2>3, <2>4
<1>6. \E w : IsRun(w)
  <2> HIDE DEF St, F, x
  <2>1. \A k \in 0..N : v[k] = IF k = 0 THEN x ELSE Halve(v[k - 1])
    BY <1>1, <1>4, <1>5 DEF Iterates
  <2>2. IsRun(v)
    BY <1>4, <2>1
  <2>3. QED
    BY <2>2
<1> DEFINE w == CHOOSE g : IsRun(g)
<1>7. IsRun(w)
  <2> HIDE DEF IsRun
  <2> QED
    BY <1>6
<1>8. Find(p, c) = w[N]
  BY DEF Find, N
<1>9. w[0] = x /\ \A k \in 1..N : w[k] = Halve(w[k - 1])
  <2> HIDE DEF w, x
  <2> QED
    BY <1>1, <1>7
<1>10. w = v
  <2> HIDE DEF w, x
  <2>0. w = [k \in 0..N |-> w[k]] /\ v = [k \in 0..N |-> v[k]]
    BY <1>4, <1>7
  <2> DEFINE S == {k \in Nat : k <= N => w[k] = v[k]}
  <2>1. 0 \in S
    BY <1>4, <1>9 DEF Iterates
  <2>2. ASSUME NEW k \in Nat, k \in S PROVE k + 1 \in S
    <3> SUFFICES ASSUME k + 1 <= N PROVE w[k + 1] = v[k + 1]
      OBVIOUS
    <3>1. k + 1 \in 1..N /\ w[k] = v[k] /\ (k + 1) - 1 = k
      BY <1>1, <2>2
    <3>2. QED
      BY <1>5, <1>9, <3>1
  <2>3. Nat \subseteq S
    <3> HIDE DEF S
    <3> QED
      BY <2>1, <2>2, Induct
  <2>4. \A k \in 0..N : w[k] = v[k]
    BY <1>1, <2>3
  <2>5. QED
    BY <2>0, <2>4
<1>11. Walk(p, c, w)
  <2> HIDE DEF w
  <2> QED
    BY <1>8, <1>9 DEF Walk
<1>12. QED
  BY <1>4, <1>10, <1>11

\* root() finds the root and leaves the same trees.
LEMMA FindTree ==
    ASSUME NEW p, NEW rank, NEW top, Tree(p, rank, top), NEW c \in Cells
    PROVE  Tree(Find(p, c).parent, rank, top) /\ Find(p, c).id = top[c]
<1>1. N \in Nat /\ p \in [Cells -> Cells] /\ rank \in [Cells -> 1..N]
      /\ \A e \in Cells : rank[e] \in Nat
  BY Traversal DEF Tree
<1>2. PICK w \in [0..N -> [parent : [Cells -> Cells], id : Cells]] : Walk(p, c, w)
  BY <1>1, Halvings
<1> DEFINE Good(st, k) == /\ Tree(st.parent, rank, top) /\ top[st.id] = top[c]
                          /\ st.parent[st.id] = st.id \/ rank[st.id] > k
           S == {k \in Nat : k <= N => Good(w[k], k)}
<1>3. 0 \in S
  <2>1. w[0].parent = p /\ w[0].id = c
    BY <1>2 DEF Walk
  <2>2. rank[c] > 0
    BY <1>1
  <2>3. QED
    BY <2>1, <2>2
<1>4. ASSUME NEW k \in Nat, k \in S PROVE k + 1 \in S
  <2> SUFFICES ASSUME k + 1 <= N PROVE Good(w[k + 1], k + 1)
    OBVIOUS
  <2> DEFINE q == w[k].parent
             d == w[k].id
  <2>1. k \in 0..N /\ k + 1 \in 1..N /\ (k + 1) - 1 = k
    BY <1>1
  <2>2. w[k] \in [parent : [Cells -> Cells], id : Cells] /\ Good(w[k], k)
    BY <1>1, <1>2, <1>4, <2>1
  <2>3. w[k] = [parent |-> q, id |-> d] /\ d \in Cells
    BY <2>2
  <2>4. w[k + 1] = Halve([parent |-> q, id |-> d])
    BY <1>2, <2>1, <2>3 DEF Walk
  <2>5. Tree(q, rank, top) /\ top[d] = top[c] /\ (q[d] = d \/ rank[d] > k)
    BY <2>2
  <2>6. w[k + 1] \in [parent : [Cells -> Cells], id : Cells]
    BY <1>2, <2>1
  <2> HIDE DEF q, d
  <2>7. /\ Tree(w[k + 1].parent, rank, top) /\ top[w[k + 1].id] = top[c]
        /\ IF q[d] = d THEN w[k + 1] = [parent |-> q, id |-> d] ELSE rank[d] < rank[w[k + 1].id]
    BY <2>3, <2>4, <2>5, HalveKeeps
  <2>8. CASE q[d] = d
    <3>1. w[k + 1].parent = q /\ w[k + 1].id = d
      BY <2>7, <2>8
    <3>2. QED
      BY <2>7, <2>8, <3>1
  <2>9. CASE q[d] # d
    <3>1. w[k + 1].id \in Cells
      BY <2>6
    <3>2. rank[w[k + 1].id] \in Nat /\ rank[d] \in Nat
      BY <1>1, <2>3, <3>1
    <3>3. rank[w[k + 1].id] > k + 1
      BY <2>5, <2>7, <2>9, <3>2
    <3>4. QED
      BY <2>7, <3>3
  <2>10. QED
    BY <2>8, <2>9
<1>5. N \in S
  <2> HIDE DEF S
  <2> QED
    BY <1>1, <1>3, <1>4, Induct
<1>6. Good(w[N], N) /\ w[N] \in [parent : [Cells -> Cells], id : Cells]
  BY <1>1, <1>2, <1>5
<1>7. w[N].id \in Cells
  BY <1>6
<1>8. ~(rank[w[N].id] > N)
  BY <1>1, <1>7
<1>9. top[w[N].id] = w[N].id
  BY <1>6, <1>7, <1>8 DEF Tree
<1>10. QED
  BY <1>2, <1>6, <1>9 DEF Walk

\* The roots once b's tree hangs under a's root.
Merged(top, a, b) == [c \in Cells |-> IF top[c] = top[b] THEN top[a] ELSE top[c]]

\* join() hangs the second tree under the first one's root and leaves every
\* other tree as it was.
LEMMA JoinTree ==
    ASSUME NEW p, NEW rank, NEW top, Tree(p, rank, top), NEW a \in Cells, NEW b \in Cells
    PROVE  \E r : Tree(Join(p, a, b), r, Merged(top, a, b))
<1> DEFINE first  == Find(p, a)
           second == Find(first.parent, b)
           q == second.parent
           x == top[a]
           y == top[b]
           joined == [q EXCEPT ![y] = x]
           over == [c \in Cells |-> IF top[c] = y THEN x ELSE top[c]]
           r == [c \in Cells |-> IF c = x THEN N
                                 ELSE IF rank[c] > rank[x] THEN rank[c] - 1 ELSE rank[c]]
<1>1. Tree(first.parent, rank, top) /\ first.id = x
  BY FindTree
<1>2. Tree(q, rank, top) /\ second.id = y
  <2> HIDE DEF first, q
  <2>1. Tree(second.parent, rank, top) /\ second.id = y
    BY <1>1, FindTree
  <2>2. QED
    BY <2>1 DEF q
<1>3. Join(p, a, b) = joined
  <2>1. Join(p, a, b) = [second.parent EXCEPT ![second.id] = first.id]
    BY DEF Join
  <2> HIDE DEF second, first, x, y
  <2>2. QED
    BY <1>1, <1>2, <2>1
<1> HIDE DEF q, first, second
<1>4. /\ q \in [Cells -> Cells] /\ top \in [Cells -> Cells] /\ rank \in [Cells -> 1..N]
      /\ N \in Nat /\ x \in Cells /\ y \in Cells
      /\ q[x] = x /\ q[y] = y /\ top[x] = x /\ top[y] = y
  BY <1>2, Traversal DEF Tree
<1>5. \A c \in Cells : /\ joined[c] = IF c = y THEN x ELSE q[c]
                       /\ over[c] = IF top[c] = y THEN x ELSE top[c]
                       /\ r[c] = IF c = x THEN N ELSE IF rank[c] > rank[x] THEN rank[c] - 1 ELSE rank[c]
  BY <1>4
<1>6. joined \in [Cells -> Cells] /\ over \in [Cells -> Cells]
  BY <1>4
<1>7. \A c \in Cells : over[joined[c]] = over[c] /\ joined[over[c]] = over[c]
                       /\ (joined[c] = c => over[c] = c)
  <2> SUFFICES ASSUME NEW c \in Cells
               PROVE  over[joined[c]] = over[c] /\ joined[over[c]] = over[c]
                      /\ (joined[c] = c => over[c] = c)
    OBVIOUS
  <2> HIDE DEF joined, over, r, x, y
  <2>1. /\ top[q[c]] = top[c] /\ q[top[c]] = top[c] /\ (q[c] = c => top[c] = c)
        /\ q[c] \in Cells /\ top[c] \in Cells
    BY <1>2, <1>4 DEF Tree
  <2>2. QED
    BY <1>4, <1>5, <2>1
<1>8. ASSUME x = y PROVE Tree(joined, rank, over)
  <2> HIDE DEF joined, over, r, x, y
  <2>1. \A c \in Cells : joined[c] = q[c]
    BY <1>4, <1>5, <1>8
  <2>2. QED
    BY <1>2, <1>4, <1>6, <1>7, <2>1 DEF Tree
<1>9. ASSUME x # y PROVE Tree(joined, r, over)
  <2> HIDE DEF joined, over, x, y
  <2>1. \A c, d \in Cells : rank[c] = rank[d] => c = d
    BY <1>2 DEF Tree
  <2>2. \A c \in Cells : rank[c] \in 1..N
    BY <1>4
  <2>3. r \in [Cells -> 1..N]
    <3> SUFFICES ASSUME NEW c \in Cells PROVE r[c] \in 1..N
      OBVIOUS
    <3>1. rank[c] \in 1..N /\ rank[x] \in 1..N
      BY <1>4, <2>2
    <3>2. QED
      BY <1>4, <1>5, <3>1
  <2> HIDE DEF r
  <2>4. ASSUME NEW c \in Cells, NEW d \in Cells, r[c] = r[d] PROVE c = d
    <3>1. rank[c] \in 1..N /\ rank[d] \in 1..N /\ rank[x] \in 1..N
      BY <1>4, <2>2
    <3>2. (rank[c] = rank[d] => c = d) /\ (rank[c] = rank[x] => c = x) /\ (rank[d] = rank[x] => d = x)
      BY <1>4, <2>1
    <3>3. QED
      BY <1>4, <1>5, <2>4, <3>1, <3>2
  <2>5. ASSUME NEW c \in Cells, joined[c] # c PROVE r[c] < r[joined[c]]
    <3>1. c # x
      BY <1>4, <1>5, <1>9, <2>5
    <3>2. rank[c] \in 1..N /\ rank[x] \in 1..N /\ rank[c] # rank[x]
      BY <1>4, <2>1, <2>2, <3>1
    <3>3. r[c] < N
      BY <1>4, <1>5, <3>1, <3>2
    <3>4. CASE joined[c] = x
      BY <1>4, <1>5, <3>3, <3>4
    <3>5. CASE joined[c] # x
      <4>1. joined[c] = q[c] /\ q[c] # c
        BY <1>5, <2>5, <3>5
      <4>2. rank[c] < rank[q[c]] /\ q[c] \in Cells
        BY <1>2, <1>4, <4>1 DEF Tree
      <4>3. rank[q[c]] \in 1..N /\ rank[q[c]] # rank[x]
        BY <1>4, <2>1, <2>2, <3>5, <4>1, <4>2
      <4>4. /\ r[c] = IF rank[c] > rank[x] THEN rank[c] - 1 ELSE rank[c]
            /\ r[q[c]] = IF rank[q[c]] > rank[x] THEN rank[q[c]] - 1 ELSE rank[q[c]]
        BY <1>5, <3>1, <3>5, <4>1, <4>2
      <4>5. QED
        BY <3>2, <4>1, <4>2, <4>3, <4>4
    <3>6. QED
      BY <3>4, <3>5
  <2>6. QED
    BY <1>6, <1>7, <2>3, <2>4, <2>5 DEF Tree
<1>10. QED
  <2> HIDE DEF joined, over, r
  <2>1. \E s : Tree(joined, s, over)
    BY <1>8, <1>9
  <2>2. over = Merged(top, a, b)
    BY DEF over, Merged
  <2>3. QED
    BY <1>3, <2>1, <2>2

-----------------------------------------------------------------------------
(* What is joined.                                                         *)


IsForest(p) == \E rank, top : Tree(p, rank, top)

\* The two ends of a join are in one tree.
Same(p, e) == Root(p, e[1]) = Root(p, e[2])

\* In a forest root() leads to a root.
LEMMA ForestRoots ==
    ASSUME NEW p, IsForest(p)
    PROVE  /\ p \in [Cells -> Cells]
           /\ \A c \in Cells : Root(p, c) \in Cells /\ p[Root(p, c)] = Root(p, c)
<1>1. PICK rank, top : Tree(p, rank, top)
  BY DEF IsForest
<1>2. \A c \in Cells : Root(p, c) = top[c]
  BY <1>1, FindTree DEF Root
<1>3. QED
  BY <1>1, <1>2 DEF Tree

\* A join keeps the forest, joins what it was asked to and separates nothing.
LEMMA JoinForest ==
    ASSUME NEW p, IsForest(p), NEW a \in Cells, NEW b \in Cells
    PROVE  /\ IsForest(Join(p, a, b))
           /\ Root(Join(p, a, b), a) = Root(Join(p, a, b), b)
           /\ \A c, d \in Cells : Root(p, c) = Root(p, d) =>
                 Root(Join(p, a, b), c) = Root(Join(p, a, b), d)
<1>1. PICK rank, top : Tree(p, rank, top)
  BY DEF IsForest
<1> DEFINE over == Merged(top, a, b)
           q == Join(p, a, b)
<1>2. PICK r : Tree(q, r, over)
  BY <1>1, JoinTree
<1>3. \A c \in Cells : Root(p, c) = top[c]
  BY <1>1, FindTree DEF Root
<1> HIDE DEF q
<1>4. \A c \in Cells : Root(q, c) = over[c]
  <2> HIDE DEF over
  <2> QED
    BY <1>2, FindTree DEF Root
<1>5. IsForest(q)
  BY <1>2 DEF IsForest
<1>6. Root(q, a) = Root(q, b)
  BY <1>4 DEF Merged
<1>7. \A c, d \in Cells : Root(p, c) = Root(p, d) => Root(q, c) = Root(q, d)
  BY <1>3, <1>4 DEF Merged
<1>8. QED
  BY <1>5, <1>6, <1>7 DEF q

\* w lists what has been collected after each cell of the traversal.
Collects(S, w) ==
    /\ w[0] = <<>>
    /\ \A k \in 1..N : w[k] = IF CellOrder[k] \in S THEN Append(w[k - 1], CellOrder[k]) ELSE w[k - 1]
    /\ InOrder(S) = w[N]

\* Collecting in traversal order has such a list, of sequences over S.
LEMMA Collecting ==
    ASSUME NEW S \in SUBSET Cells
    PROVE  \E w \in [0..N -> Seq(S)] : Collects(S, w)
<1> DEFINE G(k, s) == IF CellOrder[k] \in S THEN Append(s, CellOrder[k]) ELSE s
           F == [k \in 1..N |-> [s \in Seq(S) |-> G(k, s)]]
           IsRun(w) == w = [k \in 0..N |-> IF k = 0 THEN <<>> ELSE G(k, w[k - 1])]
<1>1. N \in Nat /\ <<>> \in Seq(S)
  BY Traversal
<1>2. \A k \in 1..N, s \in Seq(S) : G(k, s) \in Seq(S)
  OBVIOUS
<1>3. F \in [1..N -> [Seq(S) -> Seq(S)]]
  <2> HIDE DEF G
  <2> QED
    BY <1>2
<1>4. PICK v \in [0..N -> Seq(S)] : Iterates(N, <<>>, F, v)
  <2> HIDE DEF F
  <2> QED
    BY <1>1, <1>3, Iteration
<1>5. \A k \in 1..N : v[k] = G(k, v[k - 1])
  <2> SUFFICES ASSUME NEW k \in 1..N PROVE v[k] = G(k, v[k - 1])
    OBVIOUS
  <2>1. k - 1 \in 0..N
    BY <1>1
  <2>2. v[k - 1] \in Seq(S)
    BY <1>4, <2>1
  <2> HIDE DEF G
  <2>3. F[k][v[k - 1]] = G(k, v[k - 1])
    BY <2>2
  <2>4. v[k] = F[k][v[k - 1]]
    BY <1>4 DEF Iterates
  <2>5. QED
    BY <2>3, <2>4
<1>6. \E w : IsRun(w)
  <2> HIDE DEF F, G
  <2>1. \A k \in 0..N : v[k] = IF k = 0 THEN <<>> ELSE G(k, v[k - 1])
    BY <1>1, <1>4, <1>5 DEF Iterates
  <2>2. IsRun(v)
    BY <1>4, <2>1
  <2>3. QED
    BY <2>2
<1> DEFINE w == CHOOSE g : IsRun(g)
<1>7. IsRun(w)
  <2> HIDE DEF IsRun
  <2> QED
    BY <1>6
<1>8. InOrder(S) = w[N]
  BY DEF InOrder, N
<1>9. w[0] = <<>> /\ \A k \in 1..N : w[k] = G(k, w[k - 1])
  <2> HIDE DEF w, G
  <2> QED
    BY <1>1, <1>7
<1> DEFINE T == {k \in Nat : k <= N => w[k] \in Seq(S)}
<1>10. 0 \in T
  BY <1>1, <1>9
<1>11. ASSUME NEW k \in Nat, k \in T PROVE k + 1 \in T
  <2> HIDE DEF w, G
  <2> SUFFICES ASSUME k + 1 <= N PROVE w[k + 1] \in Seq(S)
    OBVIOUS
  <2>1. k + 1 \in 1..N /\ w[k] \in Seq(S) /\ (k + 1) - 1 = k
    BY <1>1, <1>11
  <2>2. w[k + 1] = G(k + 1, w[k])
    BY <1>9, <2>1
  <2>3. G(k + 1, w[k]) \in Seq(S)
    BY <1>2, <2>1
  <2>4. QED
    BY <2>2, <2>3
<1>12. \A k \in 0..N : w[k] \in Seq(S)
  <2>1. Nat \subseteq T
    <3> HIDE DEF T
    <3> QED
      BY <1>10, <1>11, Induct
  <2> HIDE DEF w, G
  <2>2. QED
    BY <1>1, <2>1
<1>13. w \in [0..N -> Seq(S)]
  <2> HIDE DEF w, G
  <2> QED
    BY <1>7, <1>12
<1>14. Collects(S, w)
  <2> HIDE DEF w
  <2> QED
    BY <1>8, <1>9 DEF Collects
<1>15. QED
  BY <1>13, <1>14

\* The cells of S in traversal order: each of them, and no other.
LEMMA InOrderLists ==
    ASSUME NEW S \in SUBSET Cells
    PROVE  InOrder(S) \in Seq(S) /\ \A c \in S : \E j \in DOMAIN InOrder(S) : InOrder(S)[j] = c
<1>1. N \in Nat
  BY Traversal
<1>2. PICK w \in [0..N -> Seq(S)] : Collects(S, w)
  BY Collecting
<1> DEFINE Has(s, c) == \E j \in DOMAIN s : s[j] = c
           T == {k \in Nat : k <= N => \A i \in 1..k : CellOrder[i] \in S => Has(w[k], CellOrder[i])}
<1>3. 0 \in T
  OBVIOUS
<1>4. \A s \in Seq(S), c \in S : Has(Append(s, c), c) /\ \A d : Has(s, d) => Has(Append(s, c), d)
  <2> SUFFICES ASSUME NEW s \in Seq(S), NEW c \in S
               PROVE  Has(Append(s, c), c) /\ \A d : Has(s, d) => Has(Append(s, c), d)
    OBVIOUS
  <2>1. /\ DOMAIN Append(s, c) = 1..(Len(s) + 1) /\ Len(s) \in Nat /\ DOMAIN s = 1..Len(s)
        /\ Append(s, c)[Len(s) + 1] = c
        /\ \A j \in 1..Len(s) : Append(s, c)[j] = s[j] /\ j \in 1..(Len(s) + 1)
    OBVIOUS
  <2>2. QED
    BY <2>1
<1>5. ASSUME NEW k \in Nat, k \in T PROVE k + 1 \in T
  <2> SUFFICES ASSUME k + 1 <= N, NEW i \in 1..(k + 1), CellOrder[i] \in S
               PROVE  Has(w[k + 1], CellOrder[i])
    OBVIOUS
  <2> HIDE DEF Has
  <2>1. k \in 0..N /\ k + 1 \in 1..N /\ (k + 1) - 1 = k
    BY <1>1
  <2>2. /\ w[k] \in Seq(S)
        /\ w[k + 1] = IF CellOrder[k + 1] \in S THEN Append(w[k], CellOrder[k + 1]) ELSE w[k]
    BY <1>2, <2>1 DEF Collects
  <2>3. i \in 1..k => Has(w[k], CellOrder[i])
    BY <1>1, <1>5
  <2>4. i \in 1..k \/ i = k + 1
    OBVIOUS
  <2>5. QED
    BY <1>4, <2>2, <2>3, <2>4
<1>6. N \in T
  <2> HIDE DEF T
  <2> QED
    BY <1>1, <1>3, <1>5, Induct
<1>7. InOrder(S) = w[N] /\ w[N] \in Seq(S)
  BY <1>1, <1>2 DEF Collects
<1>8. \A c \in S : Has(w[N], c)
  <2> HIDE DEF Has
  <2> SUFFICES ASSUME NEW c \in S PROVE Has(w[N], c)
    OBVIOUS
  <2>1. Position(c) \in 1..N /\ CellOrder[Position(c)] = c
    BY Traversal
  <2>2. QED
    BY <1>1, <1>6, <2>1
<1>9. QED
  BY <1>7, <1>8


\* A collected cell's timing is stood for by a collected cell.
LEMMA RankedCell == \A c \in Cells : Ranked(c) \in Cells
BY PlanInputs DEF Ranked

\* A set of cells has a first one in traversal order.
LEMMA FirstMemberIn ==
    ASSUME NEW S \in SUBSET Cells, S # {}
    PROVE  FirstOf(S) \in S
<1> DEFINE T == {Position(c) : c \in S}
<1>1. T \subseteq Nat /\ T # {}
  BY Traversal
<1>2. PICK m \in T : \A y \in T : m <= y
  <2> HIDE DEF T
  <2> QED
    BY <1>1, Least
<1>3. \E c \in S : \A d \in S : Position(c) <= Position(d)
  BY <1>2
<1>4. QED
  BY <1>3 DEF FirstOf

\* Of a set of cells one has the largest value of a measure.
LEMMA LargestCell ==
    ASSUME NEW S \in SUBSET Cells, S # {}, NEW f \in [Cells -> Int]
    PROVE  \E c \in S : \A d \in S : f[d] <= f[c]
<1> DEFINE g == [c \in S |-> f[c]]
           T == {g[c] : c \in S}
<1>1. IsFiniteSet(S)
  BY PlanInputs, FS_Subset
<1>2. T \subseteq Int /\ T # {}
  OBVIOUS
<1>3. IsFiniteSet(T)
  <2>1. g \in Surjection(S, T)
    BY DEF Surjection
  <2> HIDE DEF T
  <2>2. QED
    BY <1>1, <2>1, FS_Surjection
<1>4. PICK m \in T : \A y \in T : y <= m
  <2> HIDE DEF T
  <2> QED
    BY <1>2, <1>3, Largest
<1>5. QED
  BY <1>4

\* A clock source has a consumer no other consumer is more critical than, and
\* it is the one its cone is joined with.
LEMMA ConsumerChosen ==
    ASSUME deficit \in [Cells -> Deficits], NEW s \in ClockSources
    PROVE  /\ ClockConsumer(s) \in Consumers(s) /\ ClockConsumer(s) \in Cells
           /\ \A d \in Consumers(s) : ~MoreCritical(d, ClockConsumer(s))
<1> DEFINE C == Consumers(s)
           f == [c \in Cells |-> deficit[Ranked(c)]]
           h == [c \in Cells |-> Delay[Ranked(c)]]
<1>1. C \subseteq Cells /\ C # {}
  BY PlanInputs DEF Consumers, ClockSources
<1>2. f \in [Cells -> Int] /\ h \in [Cells -> Int]
  BY RankedCell, PlanInputs
<1>3. PICK a \in C : \A d \in C : f[d] <= f[a]
  <2> HIDE DEF C, f
  <2> QED
    BY <1>1, <1>2, LargestCell
<1> DEFINE E == {c \in C : f[c] = f[a]}
<1>4. PICK b \in E : \A d \in E : h[d] <= h[b]
  <2>1. E \subseteq Cells /\ E # {}
    BY <1>1
  <2> HIDE DEF E, h
  <2> QED
    BY <1>2, <2>1, LargestCell
<1>5. b \in C /\ \A d \in C : ~MoreCritical(d, b)
  <2> SUFFICES ASSUME NEW d \in C PROVE b \in C /\ ~MoreCritical(d, b)
    BY <1>4
  <2>1. f[d] <= f[b] /\ (f[d] = f[b] => h[d] <= h[b]) /\ b \in Cells /\ d \in Cells /\ b \in C
    BY <1>1, <1>3, <1>4
  <2>2. f[d] \in Int /\ f[b] \in Int /\ h[d] \in Int /\ h[b] \in Int
    BY <1>2, <2>1
  <2>3. MoreCritical(d, b) <=> f[d] > f[b] \/ (f[d] = f[b] /\ h[d] > h[b])
    BY <2>1 DEF MoreCritical
  <2> HIDE DEF f, h
  <2>4. QED
    BY <2>1, <2>2, <2>3
<1> DEFINE B == {c \in C : \A d \in C : ~MoreCritical(d, c)}
<1>6. B \subseteq Cells /\ B # {}
  BY <1>1, <1>5
<1>7. ClockConsumer(s) = FirstOf(B)
  BY DEF ClockConsumer
<1>8. FirstOf(B) \in B
  <2> HIDE DEF B
  <2> QED
    BY <1>6, FirstMemberIn
<1>9. QED
  BY <1>1, <1>7, <1>8

\* The cone holds its source and every driver of what it holds.
LEMMA ConeClosed ==
    ASSUME NEW s \in ClockSources
    PROVE  /\ s \in Cone(s) /\ Cone(s) \subseteq Cells
           /\ \A e \in Feeds : e[2] \in Cone(s) => e[1] \in Cone(s)
<1>1. s \in Cells
  BY PlanInputs DEF ClockSources
<1>2. ASSUME NEW e \in Feeds, e[2] \in Cone(s) PROVE e[1] \in Cone(s)
  <2>1. e[1] \in Cells
    BY PlanInputs
  <2>2. ASSUME NEW S \in SUBSET Cells, s \in S, Closed(S) PROVE e[1] \in S
    BY <1>2, <2>2 DEF Cone, Closed, Drivers
  <2>3. QED
    BY <2>1, <2>2 DEF Cone
<1>3. QED
  BY <1>1, <1>2 DEF Cone

-----------------------------------------------------------------------------
\* The joins of the first phase.
Chains == BunchJoins \o ChainJoins

\* A pair is one of a sequence of joins.
Asked(s, e) == \E i \in DOMAIN s : s[i] = e

\* What two lists of joins ask for is what either asks for.
LEMMA AskedConcat ==
    ASSUME NEW S, NEW s \in Seq(S), NEW t \in Seq(S)
    PROVE  s \o t \in Seq(S) /\ \A e : Asked(s \o t, e) <=> Asked(s, e) \/ Asked(t, e)
<1>1. /\ s \o t \in Seq(S) /\ DOMAIN (s \o t) = 1..(Len(s) + Len(t))
      /\ Len(s) \in Nat /\ Len(t) \in Nat /\ DOMAIN s = 1..Len(s) /\ DOMAIN t = 1..Len(t)
      /\ \A i \in 1..(Len(s) + Len(t)) : (s \o t)[i] = IF i <= Len(s) THEN s[i] ELSE t[i - Len(s)]
  OBVIOUS
<1>2. ASSUME NEW e PROVE Asked(s \o t, e) => Asked(s, e) \/ Asked(t, e)
  <2> SUFFICES ASSUME NEW i \in 1..(Len(s) + Len(t)), (s \o t)[i] = e PROVE Asked(s, e) \/ Asked(t, e)
    BY <1>1 DEF Asked
  <2>1. CASE i <= Len(s)
    BY <1>1, <2>1 DEF Asked
  <2>2. CASE ~(i <= Len(s))
    <3>1. i - Len(s) \in 1..Len(t)
      BY <1>1, <2>2
    <3>2. QED
      BY <1>1, <2>2, <3>1 DEF Asked
  <2>3. QED
    BY <2>1, <2>2
<1>3. ASSUME NEW e, Asked(s, e) PROVE Asked(s \o t, e)
  <2>1. PICK i \in 1..Len(s) : s[i] = e
    BY <1>1, <1>3 DEF Asked
  <2>2. i \in 1..(Len(s) + Len(t)) /\ i <= Len(s)
    BY <1>1
  <2>3. QED
    BY <1>1, <2>1, <2>2 DEF Asked
<1>4. ASSUME NEW e, Asked(t, e) PROVE Asked(s \o t, e)
  <2>1. PICK i \in 1..Len(t) : t[i] = e
    BY <1>1, <1>4 DEF Asked
  <2>2. i + Len(s) \in 1..(Len(s) + Len(t)) /\ ~(i + Len(s) <= Len(s)) /\ (i + Len(s)) - Len(s) = i
    BY <1>1
  <2>3. QED
    BY <1>1, <2>1, <2>2 DEF Asked
<1>5. QED
  BY <1>1, <1>2, <1>3, <1>4

\* What the first phase is asked to join.
LEMMA ChainsAsked ==
    /\ Chains \in Seq(Cells \X Cells)
    /\ \A c \in Bunched : c # FirstMember(c) => Asked(Chains, <<c, FirstMember(c)>>)
    /\ \A c \in Bunched : Asked(Chains, <<c, RegOf[BunchOf[c]]>>)
    /\ \A e \in Strict : Asked(Chains, <<e[2], e[1]>>)
<1> DEFINE P == Cells \X Cells
           L == {c \in Bunched : c # FirstMember(c)}
           members == InOrder(L)
           all == InOrder(Bunched)
           A == [i \in DOMAIN members |-> <<members[i], FirstMember(members[i])>>]
           B == [i \in DOMAIN all |-> <<all[i], RegOf[BunchOf[all[i]]]>>]
           C == {<<e[2], e[1]>> : e \in Strict}
<1>1. Bunched \in SUBSET Cells /\ L \in SUBSET Cells
  BY DEF Bunched
<1>2. /\ members \in Seq(L) /\ \A c \in L : \E j \in DOMAIN members : members[j] = c
      /\ all \in Seq(Bunched) /\ \A c \in Bunched : \E j \in DOMAIN all : all[j] = c
  <2> HIDE DEF L
  <2> QED
    BY <1>1, InOrderLists
<1>3. \A c \in Bunched : FirstMember(c) \in Cells /\ RegOf[BunchOf[c]] \in Cells
  <2> SUFFICES ASSUME NEW c \in Bunched PROVE FirstMember(c) \in Cells /\ RegOf[BunchOf[c]] \in Cells
    OBVIOUS
  <2>1. BunchOf[c] \in Bunches /\ c \in Cells
    BY PlanInputs DEF Bunched
  <2> DEFINE D == {d \in Cells : BunchOf[d] = BunchOf[c]}
  <2>2. D \in SUBSET Cells /\ D # {}
    BY <2>1
  <2>3. FirstOf(D) \in D
    <3> HIDE DEF D
    <3> QED
      BY <2>2, FirstMemberIn
  <2>4. QED
    BY <2>1, <2>3, PlanInputs DEF FirstMember
<1>4. A \in Seq(P) /\ \A c \in L : Asked(A, <<c, FirstMember(c)>>)
  <2> HIDE DEF members
  <2>1. Len(members) \in Nat /\ DOMAIN members = 1..Len(members) /\ \A i \in 1..Len(members) : members[i] \in L
    BY <1>2
  <2>2. \A i \in 1..Len(members) : <<members[i], FirstMember(members[i])>> \in P
    BY <1>1, <1>3, <2>1
  <2>3. A \in [1..Len(members) -> P]
    BY <2>1, <2>2
  <2>4. A \in Seq(P)
    BY <2>1, <2>3
  <2>5. QED
    BY <1>2, <2>4 DEF Asked
<1>5. B \in Seq(P) /\ \A c \in Bunched : Asked(B, <<c, RegOf[BunchOf[c]]>>)
  <2> HIDE DEF all
  <2>1. Len(all) \in Nat /\ DOMAIN all = 1..Len(all) /\ \A i \in 1..Len(all) : all[i] \in Bunched
    BY <1>2
  <2>2. \A i \in 1..Len(all) : <<all[i], RegOf[BunchOf[all[i]]]>> \in P
    BY <1>1, <1>3, <2>1
  <2>3. B \in [1..Len(all) -> P]
    BY <2>1, <2>2
  <2>4. B \in Seq(P)
    BY <2>1, <2>3
  <2>5. QED
    BY <1>2, <2>4 DEF Asked
<1>6. ChainJoins \in Seq(P) /\ \A e \in Strict : Asked(ChainJoins, <<e[2], e[1]>>)
  <2>1. C \subseteq P
    BY PlanInputs
  <2>2. IsFiniteSet(C)
    BY <2>1, PlanInputs, FS_Product, FS_Subset
  <2>3. ChainJoins = SetToSeq(C)
    BY DEF ChainJoins
  <2>4. ChainJoins \in Seq(C) /\ \A e \in C : Asked(ChainJoins, e)
    <3> HIDE DEF C
    <3> QED
      BY <2>2, <2>3, Listing DEF Asked
  <2>5. ChainJoins \in Seq(P)
    <3> HIDE DEF C, P
    <3> QED
      BY <2>1, <2>4
  <2>6. QED
    BY <2>4, <2>5
<1>7. Chains = (A \o B) \o ChainJoins
  BY DEF Chains, BunchJoins
<1>8. QED
  <2> HIDE DEF A, B, P
  <2>1. A \o B \in Seq(P) /\ \A e : Asked(A \o B, e) <=> Asked(A, e) \/ Asked(B, e)
    BY <1>4, <1>5, AskedConcat
  <2>2. Chains \in Seq(P) /\ \A e : Asked(Chains, e) <=> Asked(A \o B, e) \/ Asked(ChainJoins, e)
    BY <1>6, <1>7, <2>1, AskedConcat
  <2>3. QED
    BY <1>4, <1>5, <1>6, <2>1, <2>2 DEF P


\* The types, the forest included.
Typed ==
    /\ runCells \in 0..MaxRunCells /\ deficit \in [Cells -> Deficits]
    /\ phase \in {"start", "chains", "clocks", "pack", "done", "refused"}
    /\ IF phase \in {"start", "chains", "refused"}
       THEN todo \in Seq(Cells \X Cells) ELSE todo \subseteq Cells \X Cells
    /\ IsForest(parent)

\* A join that was asked for is made or still to make, and none is to make
\* once its phase is over.
Joined ==
    /\ phase = "chains" => \A e \in Cells \X Cells : Asked(Chains, e) => Same(parent, e) \/ Asked(todo, e)
    /\ phase \in {"clocks", "pack", "done"} =>
          \A e \in Cells \X Cells : Asked(Chains, e) => Same(parent, e)
    /\ phase = "clocks" => \A e \in ClockJoins : Same(parent, e) \/ e \in todo
    /\ phase \in {"pack", "done"} => \A e \in ClockJoins : Same(parent, e)

JInv == Typed /\ Joined

\* The clock joins are pairs of collected cells.
LEMMA ClockJoinsTyped ==
    ASSUME deficit \in [Cells -> Deficits]
    PROVE  ClockJoins \subseteq Cells \X Cells
BY ConsumerChosen, ConeClosed DEF ClockJoins

\* The clock joins do not depend on what is joined.
LEMMA ClockJoinsFixed == deficit' = deficit => ClockJoins' = ClockJoins
BY DEF ClockJoins, ClockConsumer, FirstOf, Consumers, MoreCritical, Ranked

\* At the start every cell is its own tree and no join was asked for.
LEMMA Init_JInv == Init => JInv
<1> SUFFICES ASSUME Init PROVE JInv
  OBVIOUS
<1>1. IsForest(parent)
  BY Singletons DEF Init, IsForest
<1>2. QED
  BY <1>1 DEF Init, JInv, Typed, Joined

\* Each step of the planner makes the joins it asks for.
LEMMA Next_JInv == JInv /\ [Next]_vars => JInv'
<1> SUFFICES ASSUME JInv, [Next]_vars PROVE JInv'
  OBVIOUS
<1>1. CASE Refuse
  BY <1>1 DEF Refuse, JInv, Typed, Joined
<1>2. CASE Begin
  BY <1>2, ChainsAsked DEF Begin, JInv, Typed, Joined, Chains
<1>3. CASE JoinChain
  <2> DEFINE a == Head(todo)[1]
             b == Head(todo)[2]
  <2>1. /\ phase = "chains" /\ phase' = phase /\ todo # <<>> /\ todo' = Tail(todo)
        /\ parent' = Join(parent, a, b) /\ UNCHANGED <<runCells, deficit>>
    BY <1>3 DEF JoinChain
  <2>2. todo \in Seq(Cells \X Cells) /\ IsForest(parent)
    BY <2>1 DEF JInv, Typed
  <2>3. /\ Head(todo) \in Cells \X Cells /\ todo' \in Seq(Cells \X Cells)
        /\ \A e : Asked(todo, e) => e = Head(todo) \/ Asked(todo', e)
    <3>1. /\ Len(todo) \in Nat /\ Len(todo) # 0 /\ Head(todo) = todo[1] /\ DOMAIN todo = 1..Len(todo)
          /\ DOMAIN todo' = 1..(Len(todo) - 1)
          /\ \A i \in 1..(Len(todo) - 1) : todo'[i] = todo[i + 1]
          /\ Head(todo) \in Cells \X Cells /\ todo' \in Seq(Cells \X Cells)
      BY <2>1, <2>2
    <3>2. ASSUME NEW i \in 1..Len(todo), i # 1 PROVE Asked(todo', todo[i])
      <4>1. i - 1 \in 1..(Len(todo) - 1) /\ (i - 1) + 1 = i
        BY <3>1, <3>2
      <4>2. QED
        BY <3>1, <4>1 DEF Asked
    <3>3. ASSUME NEW e, Asked(todo, e) PROVE e = Head(todo) \/ Asked(todo', e)
      <4>1. PICK i \in 1..Len(todo) : todo[i] = e
        BY <3>1, <3>3 DEF Asked
      <4>2. QED
        BY <3>1, <3>2, <4>1
    <3>4. QED
      BY <3>1, <3>3
  <2>4. a \in Cells /\ b \in Cells /\ Head(todo) = <<a, b>>
    BY <2>3
  <2> HIDE DEF a, b
  <2>5. /\ IsForest(parent') /\ Same(parent', Head(todo))
        /\ \A e \in Cells \X Cells : Same(parent, e) => Same(parent', e)
    <3>1. /\ IsForest(parent') /\ Root(parent', a) = Root(parent', b)
          /\ \A c, d \in Cells : Root(parent, c) = Root(parent, d) => Root(parent', c) = Root(parent', d)
      BY <2>1, <2>2, <2>4, JoinForest
    <3>2. Same(parent', <<a, b>>)
      BY <3>1 DEF Same
    <3>3. QED
      BY <2>4, <3>1, <3>2 DEF Same
  <2>6. Typed'
    BY <2>1, <2>3, <2>5 DEF JInv, Typed
  <2>7. Joined'
    BY <2>1, <2>3, <2>5 DEF JInv, Joined
  <2>8. QED
    BY <2>6, <2>7 DEF JInv
<1>4. CASE FindClocks
  <2>1. \A e : ~Asked(<<>>, e)
    BY DEF Asked
  <2>2. deficit' = deficit /\ ClockJoins \subseteq Cells \X Cells
    BY <1>4, ClockJoinsTyped DEF FindClocks, JInv, Typed
  <2>3. ClockJoins' = ClockJoins
    BY <2>2, ClockJoinsFixed
  <2>4. Typed'
    BY <1>4, <2>2 DEF FindClocks, JInv, Typed
  <2>5. Joined'
    BY <1>4, <2>1, <2>3 DEF FindClocks, JInv, Joined
  <2>6. QED
    BY <2>4, <2>5 DEF JInv
<1>5. CASE JoinClock
  <2>1. PICK e \in todo : parent' = Join(parent, e[1], e[2]) /\ todo' = todo \ {e}
    BY <1>5 DEF JoinClock
  <2>2. phase = "clocks" /\ phase' = phase /\ UNCHANGED <<runCells, deficit>>
    BY <1>5 DEF JoinClock
  <2>3. todo \subseteq Cells \X Cells /\ IsForest(parent)
    BY <2>2 DEF JInv, Typed
  <2>4. e[1] \in Cells /\ e[2] \in Cells
    BY <2>1, <2>3
  <2>5. /\ IsForest(parent') /\ Same(parent', e)
        /\ \A d \in Cells \X Cells : Same(parent, d) => Same(parent', d)
    BY <2>1, <2>3, <2>4, JoinForest DEF Same
  <2>6. ClockJoins' = ClockJoins /\ ClockJoins \subseteq Cells \X Cells
    BY <2>2, ClockJoinsFixed, ClockJoinsTyped DEF JInv, Typed
  <2>7. Typed'
    BY <2>1, <2>2, <2>3, <2>5 DEF JInv, Typed
  <2>8. Joined'
    BY <2>1, <2>2, <2>5, <2>6 DEF JInv, Joined
  <2>9. QED
    BY <2>7, <2>8 DEF JInv
<1>6. CASE Order \/ Pack \/ Finish \/ UNCHANGED vars
  <2>1. /\ UNCHANGED <<runCells, deficit, todo, parent>>
        /\ \/ phase = "clocks" /\ todo = {} /\ phase' = "pack"
           \/ phase = "pack" /\ phase' \in {"pack", "done"}
           \/ phase' = phase
    BY <1>6 DEF Order, Pack, Finish, vars
  <2>2. ClockJoins' = ClockJoins
    BY <2>1, ClockJoinsFixed
  <2>3. Typed'
    BY <2>1 DEF JInv, Typed
  <2>4. Joined'
    BY <2>1, <2>2 DEF JInv, Joined
  <2>5. QED
    BY <2>3, <2>4 DEF JInv
<1>7. QED
  BY <1>1, <1>2, <1>3, <1>4, <1>5, <1>6 DEF Next

-----------------------------------------------------------------------------
(* Groups and runs.                                                        *)

Peers(c) == {d \in Cells : Root(parent, d) = Root(parent, c)}
GroupCells == {Peers(c) : c \in Cells}

\* Before packing there is nothing to pack.
Empty == phase \in {"start", "chains", "clocks", "refused"} => runs = <<>> /\ ordered = <<>>

\* While packing, what is packed and what waits are sequences of sets of cells.
Shape ==
    /\ \E S : ordered \in Seq(S)
    /\ \E S : runs \in Seq(S)
    /\ \A i \in DOMAIN ordered : ordered[i].cells \in GroupCells
    /\ \A i \in DOMAIN runs : runs[i].cells \subseteq Cells

\* They are disjoint and together hold every cell.
Disjoint ==
    /\ \A i, j \in DOMAIN ordered : i # j => ordered[i].cells \cap ordered[j].cells = {}
    /\ \A i, j \in DOMAIN runs : i # j => runs[i].cells \cap runs[j].cells = {}
    /\ \A i \in DOMAIN ordered, j \in DOMAIN runs : ordered[i].cells \cap runs[j].cells = {}

Held ==
    \A c \in Cells : \/ \E i \in DOMAIN ordered : c \in ordered[i].cells
                     \/ \E i \in DOMAIN runs : c \in runs[i].cells

\* A run above the target is one group, and a run was opened only for a group
\* that did not fit the run before it.
Sizes ==
    /\ \A i \in DOMAIN runs : Cardinality(runs[i].cells) > runCells => runs[i].cells \in GroupCells
    /\ \A i \in DOMAIN runs : i < Len(runs) =>
          \E X \in GroupCells : /\ X \subseteq runs[i + 1].cells
                                /\ Cardinality(runs[i].cells \cup X) > runCells

Partition == phase \in {"pack", "done"} => Shape /\ Disjoint /\ Held /\ Sizes
Drained   == phase = "done" => ordered = <<>>

IInv == Empty /\ Partition /\ Drained

\* The positions of a sequence of length k: all but the last, and the last.
LEMMA Positions ==
    \A k \in Nat : /\ \A i \in 1..k : i < k \/ i = k
                   /\ \A i \in 1..(k - 1) : i \in 1..k /\ i # k
OBVIOUS

\* Two cells' groups are the same or disjoint, and every cell is in its own.
LEMMA GroupsPartition ==
    /\ \A X, Y \in GroupCells : X # Y => X \cap Y = {}
    /\ \A c \in Cells : \E X \in GroupCells : c \in X
    /\ \A X \in GroupCells : X \subseteq Cells
<1>1. \A c, d, e \in Cells : e \in Peers(c) /\ e \in Peers(d) => Peers(c) = Peers(d)
  BY DEF Peers
<1>2. \A c \in Cells : c \in Peers(c) /\ Peers(c) \subseteq Cells
  BY DEF Peers
<1>3. QED
  BY <1>1, <1>2 DEF GroupCells

\* A record of Groups stands for exactly one of those sets.
LEMMA GroupRecords ==
    /\ \A g \in Groups : g.cells \in GroupCells
    /\ \A X \in GroupCells : \E g \in Groups : g.cells = X
    /\ \A g, h \in Groups : g.cells = h.cells => g = h
    /\ IsFiniteSet(Groups)
<1>1. Groups = {Group(Peers(c)) : c \in Cells}
  BY DEF Groups, Peers
<1>2. \A X : Group(X).cells = X
  BY DEF Group
<1>3. IsFiniteSet(Groups)
  <2> DEFINE f == [c \in Cells |-> Group(Peers(c))]
  <2>1. f \in Surjection(Cells, Groups)
    BY <1>1 DEF Surjection
  <2>2. QED
    BY <2>1, PlanInputs, FS_Surjection
<1>4. QED
  BY <1>1, <1>2, <1>3 DEF GroupCells

\* The order is a sequence that lists every group once.
LEMMA SortedGroups ==
    ASSUME NEW s \in Sorted(Groups)
    PROVE  /\ s \in Seq(Groups)
           /\ \A i, j \in DOMAIN s : i # j => s[i] # s[j]
           /\ \A g \in Groups : \E i \in DOMAIN s : s[i] = g
<1>1. Cardinality(Groups) \in Nat
  BY GroupRecords, FS_CardinalityType
<1>2. s \in [1..Cardinality(Groups) -> Groups] /\ ToSet(s) = Groups
  BY DEF Sorted, SetToSeqs
<1>3. \A i, j \in 1..Cardinality(Groups) : i # j => s[i] # s[j]
  BY DEF Sorted, SetToSeqs
<1>4. QED
  BY <1>1, <1>2, <1>3 DEF ToSet

\* Sorting the groups partitions the cells among them.
LEMMA StepOrder == IInv /\ Order => Partition'
<1> SUFFICES ASSUME IInv, Order PROVE Partition'
  OBVIOUS
<1>1. runs' = <<>> /\ ordered' \in Sorted(Groups) /\ parent' = parent
  BY DEF IInv, Empty, Order
<1>2. GroupCells' = GroupCells
  BY <1>1 DEF GroupCells, Peers
<1>3. \A i \in DOMAIN ordered' : ordered'[i] \in Groups /\ ordered'[i].cells \in GroupCells
  BY <1>1, SortedGroups, GroupRecords
<1>4. Shape'
  <2>1. \E S : ordered' \in Seq(S)
    BY <1>1, SortedGroups
  <2>2. \E S : runs' \in Seq(S)
    BY <1>1
  <2>3. \A i \in DOMAIN runs' : runs'[i].cells \subseteq Cells
    BY <1>1
  <2>4. QED
    BY <1>2, <1>3, <2>1, <2>2, <2>3 DEF Shape
<1>5. Disjoint'
  <2>1. \A i, j \in DOMAIN ordered' : i # j => ordered'[i].cells \cap ordered'[j].cells = {}
    BY <1>1, <1>3, SortedGroups, GroupRecords, GroupsPartition
  <2>2. DOMAIN runs' = {}
    BY <1>1
  <2>3. QED
    BY <2>1, <2>2 DEF Disjoint
<1>6. Held'
  BY <1>1, SortedGroups, GroupRecords, GroupsPartition DEF Held
<1>7. Sizes'
  BY <1>1 DEF Sizes
<1>8. QED
  BY <1>4, <1>5, <1>6, <1>7 DEF Partition

\* A group that opens a run is appended as one; otherwise the last run grows.
LEMMA PackedRuns ==
    ASSUME Shape, Disjoint, ordered # <<>>
    PROVE  LET g == Head(ordered)
               n == Len(runs)
           IN  IF Opens(runs, g)
               THEN /\ Len(Packed(runs, g)) = n + 1 /\ DOMAIN Packed(runs, g) = 1..(n + 1)
                    /\ \A i \in 1..n : Packed(runs, g)[i] = runs[i]
                    /\ Packed(runs, g)[n + 1].cells = g.cells
                    /\ Packed(runs, g)[n + 1].deficit = g.deficit
                    /\ n # 0 => Cardinality(runs[n].cells) + Cardinality(g.cells) > runCells
                    /\ \E S : Packed(runs, g) \in Seq(S)
               ELSE /\ n # 0
                    /\ Len(Packed(runs, g)) = n /\ DOMAIN Packed(runs, g) = 1..n
                    /\ \A i \in 1..(n - 1) : Packed(runs, g)[i] = runs[i]
                    /\ Packed(runs, g)[n].cells = runs[n].cells \cup g.cells
                    /\ Packed(runs, g)[n].deficit = Maximum({runs[n].deficit, g.deficit})
                    /\ ~(Cardinality(runs[n].cells) + Cardinality(g.cells) > runCells)
                    /\ \E S : Packed(runs, g) \in Seq(S)
<1> DEFINE g == Head(ordered)
           n == Len(runs)
<1>1. PICK S : runs \in Seq(S)
  BY DEF Shape
<1>2. n \in Nat /\ DOMAIN runs = 1..n /\ (runs = <<>> <=> n = 0)
  BY <1>1
<1>3. CASE Opens(runs, g)
  <2> DEFINE r == [cells |-> g.cells, deficit |-> g.deficit]
  <2>1. Packed(runs, g) = Append(runs, r) /\ runs \in Seq(S \cup {r})
    BY <1>1, <1>3 DEF Packed
  <2>2. r.cells = g.cells /\ r.deficit = g.deficit
    OBVIOUS
  <2>3. n # 0 => Cardinality(runs[n].cells) + Cardinality(g.cells) > runCells
    BY <1>2, <1>3 DEF Opens, Last
  <2> HIDE DEF r
  <2>4. Append(runs, r) \in Seq(S \cup {r})
    BY <2>1
  <2>5. /\ Len(Append(runs, r)) = n + 1 /\ DOMAIN Append(runs, r) = 1..(n + 1)
        /\ \A i \in 1..n : Append(runs, r)[i] = runs[i]
        /\ Append(runs, r)[n + 1] = r
    BY <2>1, <1>2
  <2>6. QED
    BY <1>3, <2>1, <2>2, <2>3, <2>4, <2>5
<1>4. CASE ~Opens(runs, g)
  <2> DEFINE r == [cells |-> runs[n].cells \cup g.cells,
                   deficit |-> Maximum({runs[n].deficit, g.deficit})]
             grown == [runs EXCEPT ![n] = r]
  <2>1. Packed(runs, g) = grown
    BY <1>4 DEF Packed
  <2>2. r.cells = runs[n].cells \cup g.cells /\ r.deficit = Maximum({runs[n].deficit, g.deficit})
    OBVIOUS
  <2>3. n # 0 /\ ~(Cardinality(runs[n].cells) + Cardinality(g.cells) > runCells)
    BY <1>2, <1>4 DEF Opens, Last
  <2> HIDE DEF r
  <2>4. grown \in Seq(S \cup {r}) /\ DOMAIN grown = 1..n
    BY <1>1, <1>2, <2>3
  <2>5. Len(grown) = n
    BY <1>2, <2>4
  <2>6. (\A i \in 1..(n - 1) : grown[i] = runs[i]) /\ grown[n] = r
    <3>1. \A i \in 1..(n - 1) : i \in DOMAIN runs /\ i # n
      BY <1>2, <2>3, Positions
    <3>2. n \in DOMAIN runs
      BY <1>2, <2>3
    <3>3. QED
      BY <3>1, <3>2
  <2>7. QED
    BY <1>4, <2>1, <2>2, <2>3, <2>4, <2>5, <2>6
<1>5. QED
  BY <1>3, <1>4

\* Packing a group, into the last run or a new one, keeps the partition.
LEMMA StepPack == IInv /\ Pack => Partition'
<1> SUFFICES ASSUME IInv, Pack PROVE Partition'
  OBVIOUS
<1> DEFINE g == Head(ordered)
           n == Len(runs)
           m == Len(ordered)
<1>1. /\ Shape /\ Disjoint /\ Held /\ Sizes /\ ordered # <<>>
      /\ runs' = Packed(runs, g) /\ ordered' = Tail(ordered)
      /\ UNCHANGED <<parent, runCells>>
  BY DEF IInv, Partition, Pack
<1>2. GroupCells' = GroupCells
  BY <1>1 DEF GroupCells, Peers
<1>3. PICK S : ordered \in Seq(S)
  BY <1>1 DEF Shape
<1>4. /\ m \in Nat /\ DOMAIN ordered = 1..m /\ 1 \in DOMAIN ordered /\ g = ordered[1]
      /\ ordered' \in Seq(S) /\ DOMAIN ordered' = 1..(m - 1)
      /\ \A i \in 1..(m - 1) : ordered'[i] = ordered[i + 1] /\ i + 1 \in DOMAIN ordered
  BY <1>1, <1>3
<1>5. n \in Nat /\ DOMAIN runs = 1..n
  BY <1>1 DEF Shape
<1>6. /\ g.cells \in GroupCells /\ g.cells \subseteq Cells
      /\ \A i \in DOMAIN ordered' : g.cells \cap ordered'[i].cells = {}
      /\ \A i \in DOMAIN runs : g.cells \cap runs[i].cells = {}
  BY <1>1, <1>4, GroupsPartition DEF Shape, Disjoint
<1>7. \A X, Y : X \subseteq Cells /\ Y \subseteq Cells =>
         /\ Cardinality(X) \in Nat /\ Cardinality(Y) \in Nat
         /\ X \cap Y = {} => Cardinality(X \cup Y) = Cardinality(X) + Cardinality(Y)
  <2> SUFFICES ASSUME NEW X, NEW Y, X \subseteq Cells, Y \subseteq Cells
               PROVE  /\ Cardinality(X) \in Nat /\ Cardinality(Y) \in Nat
                      /\ X \cap Y = {} => Cardinality(X \cup Y) = Cardinality(X) + Cardinality(Y)
    OBVIOUS
  <2>1. IsFiniteSet(X) /\ IsFiniteSet(Y)
    BY PlanInputs, FS_Subset
  <2>2. Cardinality(X) \in Nat /\ Cardinality(Y) \in Nat
    BY <2>1, FS_CardinalityType
  <2>3. Cardinality(X \cup Y) = Cardinality(X) + Cardinality(Y) - Cardinality(X \cap Y)
    BY <2>1, FS_Union
  <2>4. ASSUME X \cap Y = {} PROVE Cardinality(X \cup Y) = Cardinality(X) + Cardinality(Y)
    <3>1. Cardinality(X \cap Y) = 0
      BY <2>4, FS_EmptySet
    <3> QED
      BY <2>2, <2>3, <3>1
  <2>5. QED
    BY <2>2, <2>4
<1>8. CASE Opens(runs, g)
  <2>1. /\ Len(runs') = n + 1 /\ DOMAIN runs' = 1..(n + 1)
        /\ \A i \in 1..n : runs'[i] = runs[i]
        /\ runs'[n + 1].cells = g.cells
        /\ n # 0 => Cardinality(runs[n].cells) + Cardinality(g.cells) > runCells
        /\ \E T : runs' \in Seq(T)
    BY <1>1, <1>8, PackedRuns
  <2>2. \A i \in DOMAIN runs' : \/ i \in DOMAIN runs /\ runs'[i].cells = runs[i].cells
                                \/ i = n + 1 /\ runs'[i].cells = g.cells
    BY <1>5, <2>1
  <2>3. Shape'
    BY <1>1, <1>2, <1>4, <1>6, <2>1, <2>2 DEF Shape
  <2>4. Disjoint'
    BY <1>1, <1>4, <1>6, <2>2 DEF Disjoint
  <2>5. Held'
    <3> SUFFICES ASSUME NEW c \in Cells
                 PROVE  \/ \E i \in DOMAIN ordered' : c \in ordered'[i].cells
                        \/ \E i \in DOMAIN runs' : c \in runs'[i].cells
      BY DEF Held
    <3>1. CASE c \in g.cells
      BY <1>5, <2>1, <3>1
    <3>2. CASE \E i \in DOMAIN runs : c \in runs[i].cells
      BY <1>5, <2>1, <3>2
    <3>3. CASE \E i \in DOMAIN ordered : i # 1 /\ c \in ordered[i].cells
      <4>1. PICK i \in DOMAIN ordered : i # 1 /\ c \in ordered[i].cells
        BY <3>3
      <4>2. i - 1 \in 1..(m - 1) /\ (i - 1) + 1 = i
        BY <1>4, <4>1
      <4>3. QED
        BY <1>4, <4>1, <4>2
    <3>4. QED
      BY <1>1, <1>4, <3>1, <3>2, <3>3 DEF Held
  <2>6. Sizes'
    <3>1. \A i \in DOMAIN runs' : Cardinality(runs'[i].cells) > runCells => runs'[i].cells \in GroupCells
      BY <1>1, <1>6, <2>2 DEF Sizes
    <3>2. ASSUME NEW i \in 1..n
          PROVE  \E X \in GroupCells : /\ X \subseteq runs'[i + 1].cells
                                       /\ Cardinality(runs'[i].cells \cup X) > runCells
      <4>1. CASE i < n
        <5>1. i \in DOMAIN runs /\ i + 1 \in 1..n
          BY <1>5, <4>1
        <5>2. PICK X \in GroupCells : /\ X \subseteq runs[i + 1].cells
                                      /\ Cardinality(runs[i].cells \cup X) > runCells
          BY <1>1, <4>1, <5>1 DEF Sizes
        <5>3. runs'[i] = runs[i] /\ runs'[i + 1] = runs[i + 1]
          BY <2>1, <5>1
        <5>4. QED
          BY <5>2, <5>3
      <4>2. CASE i = n
        <5>1. Cardinality(runs[n].cells \cup g.cells) > runCells
          BY <1>1, <1>5, <1>6, <1>7, <2>1, <4>2 DEF Shape
        <5>2. QED
          BY <1>6, <2>1, <4>2, <5>1
      <4>3. i < n \/ i = n
        BY <1>5, <3>2, Positions
      <4>4. QED
        BY <4>1, <4>2, <4>3
    <3>3. \A i \in DOMAIN runs' : i < Len(runs') => i \in 1..n
      BY <1>5, <2>1
    <3>4. QED
      BY <1>1, <1>2, <3>1, <3>2, <3>3 DEF Sizes
  <2>7. QED
    BY <2>3, <2>4, <2>5, <2>6 DEF Partition
<1>9. CASE ~Opens(runs, g)
  <2>1. /\ n # 0 /\ Len(runs') = n /\ DOMAIN runs' = 1..n
        /\ \A i \in 1..(n - 1) : runs'[i] = runs[i]
        /\ runs'[n].cells = runs[n].cells \cup g.cells
        /\ ~(Cardinality(runs[n].cells) + Cardinality(g.cells) > runCells)
        /\ \E T : runs' \in Seq(T)
    BY <1>1, <1>9, PackedRuns
  <2>2. \A i \in DOMAIN runs' : /\ i \in DOMAIN runs
                                /\ \/ i # n /\ runs'[i].cells = runs[i].cells
                                   \/ i = n /\ runs'[i].cells = runs[i].cells \cup g.cells
    BY <1>5, <2>1
  <2>3. Shape'
    BY <1>1, <1>2, <1>4, <1>6, <2>1, <2>2 DEF Shape
  <2>4. Disjoint'
    BY <1>1, <1>4, <1>6, <2>2 DEF Disjoint
  <2>5. Held'
    <3> SUFFICES ASSUME NEW c \in Cells
                 PROVE  \/ \E i \in DOMAIN ordered' : c \in ordered'[i].cells
                        \/ \E i \in DOMAIN runs' : c \in runs'[i].cells
      BY DEF Held
    <3>1. CASE c \in g.cells
      BY <1>5, <2>1, <3>1
    <3>2. CASE \E i \in DOMAIN runs : c \in runs[i].cells
      BY <1>5, <2>1, <2>2, <3>2
    <3>3. CASE \E i \in DOMAIN ordered : i # 1 /\ c \in ordered[i].cells
      <4>1. PICK i \in DOMAIN ordered : i # 1 /\ c \in ordered[i].cells
        BY <3>3
      <4>2. i - 1 \in 1..(m - 1) /\ (i - 1) + 1 = i
        BY <1>4, <4>1
      <4>3. QED
        BY <1>4, <4>1, <4>2
    <3>4. QED
      BY <1>1, <1>4, <3>1, <3>2, <3>3 DEF Held
  <2>6. Sizes'
    <3>1. Cardinality(runs'[n].cells) = Cardinality(runs[n].cells) + Cardinality(g.cells)
      BY <1>1, <1>5, <1>6, <1>7, <2>1 DEF Shape
    <3>2. \A i \in DOMAIN runs' : Cardinality(runs'[i].cells) > runCells => runs'[i].cells \in GroupCells
      BY <1>1, <2>1, <2>2, <3>1 DEF Sizes
    <3>3. ASSUME NEW i \in 1..n, i < n
          PROVE  \E X \in GroupCells : /\ X \subseteq runs'[i + 1].cells
                                       /\ Cardinality(runs'[i].cells \cup X) > runCells
      <4>1. PICK X \in GroupCells : /\ X \subseteq runs[i + 1].cells
                                    /\ Cardinality(runs[i].cells \cup X) > runCells
        BY <1>1, <1>5, <3>3 DEF Sizes
      <4>2. runs'[i].cells = runs[i].cells /\ runs[i + 1].cells \subseteq runs'[i + 1].cells
        BY <1>5, <2>1, <2>2, <3>3
      <4>3. QED
        BY <4>1, <4>2
    <3>4. QED
      BY <1>1, <1>2, <2>1, <3>2, <3>3 DEF Sizes
  <2>7. QED
    BY <2>3, <2>4, <2>5, <2>6 DEF Partition
<1>10. QED
  BY <1>8, <1>9

\* At the start nothing is ordered or packed.
LEMMA Init_IInv == Init => IInv
BY DEF Init, IInv, Empty, Partition, Drained

\* Every step keeps the partition of the cells.
LEMMA Next_IInv == IInv /\ [Next]_vars => IInv'
<1> SUFFICES ASSUME IInv, [Next]_vars PROVE IInv'
  OBVIOUS
<1>1. CASE Refuse \/ Begin \/ JoinChain \/ FindClocks \/ JoinClock
  BY <1>1 DEF Refuse, Begin, JoinChain, FindClocks, JoinClock, IInv, Empty, Partition, Drained
<1>2. CASE Order
  BY <1>2, StepOrder DEF Order, IInv, Empty, Drained
<1>3. CASE Pack
  BY <1>3, StepPack DEF Pack, IInv, Empty, Drained
<1>4. CASE Finish \/ UNCHANGED vars
  <2>1. UNCHANGED <<runCells, parent, ordered, runs>> /\ (phase' = phase \/ (phase = "pack" /\ phase' = "done" /\ ordered = <<>>))
    BY <1>4 DEF Finish, vars
  <2>2. GroupCells' = GroupCells
    BY <2>1 DEF GroupCells, Peers
  <2>3. Shape' = Shape /\ Disjoint' = Disjoint /\ Held' = Held /\ Sizes' = Sizes
    BY <2>1, <2>2 DEF Shape, Disjoint, Held, Sizes
  <2>4. QED
    BY <2>1, <2>3 DEF IInv, Empty, Partition, Drained
<1>5. QED
  BY <1>1, <1>2, <1>3, <1>4 DEF Next

\* What packing maintains, in every reachable state.
THEOREM PackingInvariant == Spec => []IInv
<1>1. Init => IInv
  BY Init_IInv
<1>2. IInv /\ [Next]_vars => IInv'
  BY Next_IInv
<1>3. QED
  BY <1>1, <1>2, PTL DEF Spec

\* Pnr::plan puts every collected cell in exactly one run: what PnrRuns
\* assumes of a plan.
THEOREM EachCellInOneRun == Spec => []CoveredOnce
<1>1. IInv => CoveredOnce
  <2> SUFFICES ASSUME IInv, phase = "done", NEW c \in Cells PROVE Cardinality(RunOf(c)) = 1
    BY DEF CoveredOnce
  <2>1. Disjoint /\ Held /\ DOMAIN ordered = {}
    BY DEF IInv, Partition, Drained
  <2>2. PICK i \in DOMAIN runs : c \in runs[i].cells
    BY <2>1 DEF Held
  <2>3. RunOf(c) = {i}
    BY <2>1, <2>2 DEF RunOf, Disjoint
  <2>4. QED
    BY <2>3, FS_Singleton
<1>2. QED
  BY <1>1, PackingInvariant, PTL

\* A run above the target is one indivisible group, and no run was opened for
\* a group the run before it had room for.
THEOREM RunsAreSized == Spec => []RunsSized
<1>1. IInv => RunsSized
  <2> SUFFICES ASSUME IInv, phase = "done", NEW i \in DOMAIN runs
               PROVE  /\ Cardinality(runs[i].cells) > runCells =>
                            \E c \in runs[i].cells : runs[i].cells = Peers(c)
                      /\ i < Len(runs) =>
                            \E c \in runs[i + 1].cells :
                               Cardinality(runs[i].cells \cup Peers(c)) > runCells
    BY DEF RunsSized, Peers
  <2>1. Sizes
    BY DEF IInv, Partition
  <2>2. \A X \in GroupCells : \E c \in X : X = Peers(c)
    BY DEF GroupCells, Peers
  <2>3. QED
    BY <2>1, <2>2 DEF Sizes
<1>2. QED
  BY <1>1, PackingInvariant, PTL

-----------------------------------------------------------------------------
(* Criticality.                                                            *)

Worst(df, S) == Maximum({df[Ranked(c)] : c \in S})

\* Groups and runs report their largest deficit; groups wait and runs were
\* built in decreasing order of it, no group waits that is worse than a run.
Ranking ==
    /\ \A i \in DOMAIN ordered : ordered[i].cells # {} /\ ordered[i].deficit = Worst(deficit, ordered[i].cells)
    /\ \A i \in DOMAIN runs : runs[i].cells # {} /\ runs[i].deficit = Worst(deficit, runs[i].cells)
    /\ \A i, j \in DOMAIN ordered : i < j => ordered[j].deficit <= ordered[i].deficit
    /\ \A i, j \in DOMAIN runs : i < j => runs[j].deficit <= runs[i].deficit
    /\ \A i \in DOMAIN ordered, j \in DOMAIN runs : ordered[i].deficit <= runs[j].deficit

\* A run takes whole groups.
Whole == \A i \in DOMAIN runs : \A c \in runs[i].cells : Peers(c) \subseteq runs[i].cells

RInv == phase \in {"pack", "done"} => Ranking /\ Whole

\* The largest deficit of a set of cells is one of theirs and bounds them all.
LEMMA WorstIs ==
    ASSUME deficit \in [Cells -> Deficits], NEW S \in SUBSET Cells, S # {}
    PROVE  /\ Worst(deficit, S) \in Int
           /\ \E c \in S : Worst(deficit, S) = deficit[Ranked(c)]
           /\ \A c \in S : deficit[Ranked(c)] <= Worst(deficit, S)
<1> DEFINE f == [c \in Cells |-> deficit[Ranked(c)]]
           T == {deficit[Ranked(c)] : c \in S}
<1>1. f \in [Cells -> Int]
  BY RankedCell, PlanInputs
<1>2. PICK b \in S : \A d \in S : f[d] <= f[b]
  <2> HIDE DEF f
  <2> QED
    BY <1>1, LargestCell
<1>3. \A c \in S : f[c] = deficit[Ranked(c)] /\ deficit[Ranked(c)] \in Int
  BY <1>1
<1>4. \E m \in T : \A y \in T : y <= m
  <2> HIDE DEF f
  <2> QED
    BY <1>2, <1>3
<1>5. Maximum(T) \in T /\ \A y \in T : y <= Maximum(T)
  <2> HIDE DEF T
  <2> QED
    BY <1>4 DEF Maximum
<1>6. QED
  BY <1>3, <1>5 DEF Worst

\* Adding cells that are no worse changes nothing.
LEMMA WorstUnion ==
    ASSUME deficit \in [Cells -> Deficits],
           NEW S \in SUBSET Cells, S # {}, NEW T \in SUBSET Cells, T # {}, Worst(deficit, T) <= Worst(deficit, S)
    PROVE  Worst(deficit, S \cup T) = Worst(deficit, S)
<1>1. S \cup T \in SUBSET Cells /\ S \cup T # {}
  OBVIOUS
<1>2. /\ Worst(deficit, S) \in Int /\ Worst(deficit, T) \in Int /\ Worst(deficit, S \cup T) \in Int
      /\ \A c \in S \cup T : deficit[Ranked(c)] <= Worst(deficit, S \cup T)
      /\ \A c \in S : deficit[Ranked(c)] <= Worst(deficit, S)
      /\ \A c \in T : deficit[Ranked(c)] <= Worst(deficit, T)
  BY <1>1, WorstIs
<1>3. PICK c \in S \cup T : Worst(deficit, S \cup T) = deficit[Ranked(c)]
  BY <1>1, WorstIs
<1>4. PICK d \in S : Worst(deficit, S) = deficit[Ranked(d)]
  BY WorstIs
<1>5. Worst(deficit, S) <= Worst(deficit, S \cup T)
  BY <1>2, <1>4
<1>6. Worst(deficit, S \cup T) <= Worst(deficit, S)
  BY <1>2, <1>3
<1>7. QED
  BY <1>2, <1>5, <1>6

\* A group is never empty.
LEMMA GroupNonEmpty == \A X \in GroupCells : X \in SUBSET Cells /\ X # {}
BY DEF GroupCells, Peers

\* Sorting the groups establishes the order.
LEMMA OrderRanks == IInv /\ Typed /\ Order => Ranking' /\ Whole'
<1> SUFFICES ASSUME IInv, Typed, Order PROVE Ranking' /\ Whole'
  OBVIOUS
<1>1. runs' = <<>> /\ ordered' \in Sorted(Groups) /\ deficit' = deficit
  BY DEF IInv, Empty, Order
<1>2. deficit \in [Cells -> Deficits]
  BY DEF Typed
<1>4. \A g \in Groups : g.cells \in GroupCells /\ g.deficit = Worst(deficit, g.cells)
  <2>1. \A X : Group(X).cells = X /\ Group(X).deficit = Worst(deficit, X)
    BY DEF Group, Worst
  <2>2. \A g \in Groups : g.deficit = Worst(deficit, g.cells)
    BY <2>1 DEF Groups
  <2>3. QED
    BY <2>2, GroupRecords
<1>5. \A i \in DOMAIN ordered' : ordered'[i] \in Groups
  BY <1>1, SortedGroups
<1>6. \A i, j \in DOMAIN ordered' : i < j => Before(ordered'[i], ordered'[j])
  BY <1>1 DEF Sorted
<1>7. \A g \in Groups : g.cells # {} /\ g.deficit \in Int
  BY <1>2, <1>4, GroupNonEmpty, WorstIs
<1>8. \A i, j \in DOMAIN ordered' : i < j => ordered'[j].deficit <= ordered'[i].deficit
  BY <1>5, <1>6, <1>7 DEF Before
<1>9. \A i \in DOMAIN ordered' : ordered'[i].cells # {} /\ ordered'[i].deficit = Worst(deficit, ordered'[i].cells)
  BY <1>4, <1>5, <1>7
<1>10. DOMAIN runs' = {}
  BY <1>1
<1>11. QED
  BY <1>1, <1>8, <1>9, <1>10 DEF Ranking, Whole

\* Packing a group, in a run of its own or in the last one, keeps it.
LEMMA PackRanks == IInv /\ Typed /\ RInv /\ Pack => Ranking' /\ Whole'
<1> SUFFICES ASSUME IInv, Typed, RInv, Pack PROVE Ranking' /\ Whole'
  OBVIOUS
<1> DEFINE g == Head(ordered)
           n == Len(runs)
           m == Len(ordered)
<1>1. /\ Shape /\ Disjoint /\ Ranking /\ Whole /\ ordered # <<>>
      /\ runs' = Packed(runs, g) /\ ordered' = Tail(ordered)
      /\ deficit' = deficit /\ parent' = parent
  BY DEF IInv, Partition, RInv, Pack
<1>2. deficit \in [Cells -> Deficits]
  BY DEF Typed
<1>3. ASSUME NEW S PROVE Peers(S)' = Peers(S)
  BY <1>1 DEF Peers
<1>4. PICK S : ordered \in Seq(S)
  BY <1>1 DEF Shape
<1>5. /\ m \in Nat /\ DOMAIN ordered = 1..m /\ 1 \in DOMAIN ordered /\ g = ordered[1]
      /\ DOMAIN ordered' = 1..(m - 1)
      /\ \A i \in 1..(m - 1) : ordered'[i] = ordered[i + 1] /\ i + 1 \in DOMAIN ordered /\ 1 < i + 1
  BY <1>1, <1>4
<1>6. n \in Nat /\ DOMAIN runs = 1..n
  BY <1>1 DEF Shape
<1>7. /\ \A i \in DOMAIN ordered : ordered[i].cells \in GroupCells /\ ordered[i].deficit = Worst(deficit, ordered[i].cells)
      /\ \A i \in DOMAIN runs : runs[i].cells \in SUBSET Cells /\ runs[i].cells # {}
                                /\ runs[i].deficit = Worst(deficit, runs[i].cells)
  BY <1>1 DEF Shape, Ranking
<1>8. /\ g.cells \in SUBSET Cells /\ g.cells # {} /\ g.deficit = Worst(deficit, g.cells) /\ g.deficit \in Int
      /\ \A i \in DOMAIN runs : runs[i].deficit \in Int /\ g.deficit <= runs[i].deficit
  BY <1>1, <1>2, <1>5, <1>7, GroupNonEmpty, WorstIs DEF Ranking
<1>9. \A c \in g.cells : Peers(c) \subseteq g.cells
  BY <1>5, <1>7 DEF GroupCells, Peers
<1>10. /\ \A i \in DOMAIN ordered' : ordered'[i].cells # {} /\ ordered'[i].deficit = Worst(deficit, ordered'[i].cells)
       /\ \A i, j \in DOMAIN ordered' : i < j => ordered'[j].deficit <= ordered'[i].deficit
       /\ \A i \in DOMAIN ordered' : ordered'[i].deficit <= g.deficit
       /\ \A i \in DOMAIN ordered', j \in DOMAIN runs : ordered'[i].deficit <= runs[j].deficit
  <2>1. \A i \in DOMAIN ordered' : ordered'[i] = ordered[i + 1] /\ i + 1 \in DOMAIN ordered
    BY <1>5
  <2>2. \A i \in DOMAIN ordered' : ordered'[i].cells # {} /\ ordered'[i].deficit = Worst(deficit, ordered'[i].cells)
    BY <1>7, <2>1, GroupNonEmpty
  <2>3. \A i, j \in DOMAIN ordered' : i < j => ordered'[j].deficit <= ordered'[i].deficit
    BY <1>1, <1>5, <2>1 DEF Ranking
  <2>4. QED
    BY <1>1, <1>5, <2>1, <2>2, <2>3 DEF Ranking
<1>11. CASE Opens(runs, g)
  <2>1. /\ DOMAIN runs' = 1..(n + 1)
        /\ \A i \in 1..n : runs'[i] = runs[i]
        /\ runs'[n + 1].cells = g.cells /\ runs'[n + 1].deficit = g.deficit
    BY <1>1, <1>11, PackedRuns
  <2>2. \A i \in DOMAIN runs' : \/ i \in DOMAIN runs /\ runs'[i] = runs[i]
                                \/ i = n + 1 /\ runs'[i].cells = g.cells /\ runs'[i].deficit = g.deficit
    BY <1>6, <2>1
  <2>3. \A i \in DOMAIN runs' : runs'[i].cells # {} /\ runs'[i].deficit = Worst(deficit, runs'[i].cells)
    BY <1>7, <1>8, <2>2
  <2>4. \A i, j \in DOMAIN runs' : i < j => runs'[j].deficit <= runs'[i].deficit
    <3> SUFFICES ASSUME NEW i \in 1..(n + 1), NEW j \in 1..(n + 1), i < j
                 PROVE  runs'[j].deficit <= runs'[i].deficit
      BY <2>1
    <3>1. i \in 1..n /\ runs'[i] = runs[i]
      BY <1>6, <2>1
    <3>2. CASE j = n + 1
      BY <1>6, <1>8, <2>1, <3>1, <3>2
    <3>3. CASE j \in 1..n
      BY <1>1, <1>6, <2>1, <3>1, <3>3 DEF Ranking
    <3>4. QED
      BY <1>6, <3>2, <3>3
  <2>5. \A i \in DOMAIN ordered', j \in DOMAIN runs' : ordered'[i].deficit <= runs'[j].deficit
    BY <1>10, <2>2
  <2>6. Whole'
    BY <1>1, <1>3, <1>9, <2>2 DEF Whole
  <2>7. QED
    BY <1>1, <1>10, <2>3, <2>4, <2>5, <2>6 DEF Ranking
<1>12. CASE ~Opens(runs, g)
  <2>1. /\ n # 0 /\ DOMAIN runs' = 1..n
        /\ \A i \in 1..(n - 1) : runs'[i] = runs[i]
        /\ runs'[n].cells = runs[n].cells \cup g.cells
        /\ runs'[n].deficit = Maximum({runs[n].deficit, g.deficit})
    BY <1>1, <1>12, PackedRuns
  <2>2. n \in DOMAIN runs
    BY <1>6, <2>1
  <2>3. runs'[n].deficit = runs[n].deficit
    BY <1>8, <2>1, <2>2 DEF Maximum
  <2>4. Worst(deficit, runs[n].cells \cup g.cells) = Worst(deficit, runs[n].cells)
    BY <1>2, <1>7, <1>8, <2>2, WorstUnion
  <2>5. \A i \in DOMAIN runs' : /\ i \in DOMAIN runs /\ runs'[i].deficit = runs[i].deficit
                                /\ \/ i # n /\ runs'[i].cells = runs[i].cells
                                   \/ i = n /\ runs'[i].cells = runs[i].cells \cup g.cells
    BY <1>6, <2>1, <2>3
  <2>6. \A i \in DOMAIN runs' : runs'[i].cells # {} /\ runs'[i].deficit = Worst(deficit, runs'[i].cells)
    BY <1>7, <2>4, <2>5
  <2>7. \A i, j \in DOMAIN runs' : i < j => runs'[j].deficit <= runs'[i].deficit
    BY <1>1, <2>5 DEF Ranking
  <2>8. \A i \in DOMAIN ordered', j \in DOMAIN runs' : ordered'[i].deficit <= runs'[j].deficit
    BY <1>10, <2>5
  <2>9. Whole'
    BY <1>1, <1>3, <1>9, <2>5 DEF Whole
  <2>10. QED
    BY <1>1, <1>10, <2>6, <2>7, <2>8, <2>9 DEF Ranking
<1>13. QED
  BY <1>11, <1>12

Inv == IInv /\ JInv /\ RInv

\* Every step keeps the waiting groups in order of criticality, behind the
\* packed runs.
LEMMA Next_RInv == Inv /\ [Next]_vars => RInv'
<1> SUFFICES ASSUME Inv, [Next]_vars PROVE RInv'
  OBVIOUS
<1>1. CASE Refuse \/ Begin \/ JoinChain \/ FindClocks \/ JoinClock
  BY <1>1 DEF Refuse, Begin, JoinChain, FindClocks, JoinClock, RInv
<1>2. CASE Order
  BY <1>2, OrderRanks DEF Inv, JInv, RInv
<1>3. CASE Pack
  BY <1>3, PackRanks DEF Inv, JInv, RInv
<1>4. CASE Finish \/ UNCHANGED vars
  <2>1. UNCHANGED <<deficit, parent, ordered, runs>> /\ (phase' = phase \/ (phase = "pack" /\ phase' = "done"))
    BY <1>4 DEF Finish, vars
  <2>2. Ranking' = Ranking
    BY <2>1 DEF Ranking
  <2>3. Whole' = Whole
    BY <2>1 DEF Whole, Peers
  <2>4. QED
    BY <2>1, <2>2, <2>3 DEF Inv, RInv
<1>5. QED
  BY <1>1, <1>2, <1>3, <1>4 DEF Next

\* The forest, the joins and the order of the runs, in every reachable state.
THEOREM PlanInvariant == Spec => []Inv
<1>1. Init => Inv
  BY Init_IInv, Init_JInv DEF Init, Inv, RInv
<1>2. Inv /\ [Next]_vars => Inv'
  BY Next_IInv, Next_JInv, Next_RInv DEF Inv
<1>3. QED
  BY <1>1, <1>2, PTL DEF Spec

\* The variables keep their types; no group and no run is ever empty.
THEOREM PlanTyped == Spec => []TypeOK
<1>1. Inv => TypeOK
  <2> SUFFICES ASSUME Inv PROVE TypeOK
    OBVIOUS
  <2>1. parent \in [Cells -> Cells] /\ Typed
    BY ForestRoots DEF Inv, JInv, Typed
  <2>2. /\ \A i \in DOMAIN ordered : ordered[i].cells \subseteq Cells /\ ordered[i].cells # {}
        /\ \A i \in DOMAIN runs : runs[i].cells \subseteq Cells /\ runs[i].cells # {}
    <3>1. CASE phase \in {"pack", "done"}
      BY <3>1, GroupNonEmpty DEF Inv, IInv, Partition, Shape, RInv, Ranking
    <3>2. CASE phase \notin {"pack", "done"}
      <4>1. DOMAIN runs = {} /\ DOMAIN ordered = {}
        BY <2>1, <3>2 DEF Inv, IInv, Empty, Typed
      <4>2. QED
        BY <4>1
    <3>3. QED
      BY <3>1, <3>2
  <2>3. QED
    BY <2>1, <2>2 DEF Typed, TypeOK
<1>2. QED
  BY <1>1, PlanInvariant, PTL

\* Path halving and unions never close a cycle: root() ends at a root from
\* every cell, whatever was joined and in whatever order.
THEOREM NeverACycle == Spec => []Forest
<1>1. Inv => Forest
  BY ForestRoots DEF Inv, JInv, Typed, Forest
<1>2. QED
  BY <1>1, PlanInvariant, PTL

\* Cells of one tree are admitted together.
LEMMA SameRun ==
    ASSUME Inv, phase = "done", NEW c \in Cells, NEW d \in Cells, Root(parent, c) = Root(parent, d)
    PROVE  RunOf(c) = RunOf(d)
<1>1. d \in Peers(c) /\ c \in Peers(d)
  BY DEF Peers
<1>2. Whole
  BY DEF Inv, RInv
<1>3. QED
  BY <1>1, <1>2 DEF Whole, RunOf

\* Bunches stay with their registers and chains in one piece, for every
\* netlist: no order of joins and no packing separates them.
THEOREM BunchesAndChainsStayTogether == Spec => []NothingSplit
<1>1. Inv => NothingSplit
  <2> SUFFICES ASSUME Inv, phase = "done"
               PROVE  /\ \A c, d \in Cells : BunchOf[c] # NoBunch /\ BunchOf[c] = BunchOf[d] => RunOf(c) = RunOf(d)
                      /\ \A c \in Cells : BunchOf[c] # NoBunch => RunOf(RegOf[BunchOf[c]]) = RunOf(c)
                      /\ \A e \in Strict : RunOf(e[1]) = RunOf(e[2])
    BY DEF NothingSplit
  <2>1. \A e \in Cells \X Cells : Asked(Chains, e) => Root(parent, e[1]) = Root(parent, e[2])
    BY DEF Inv, JInv, Joined, Same
  <2>2. ASSUME NEW c \in Cells, BunchOf[c] # NoBunch
        PROVE  RegOf[BunchOf[c]] \in Cells /\ RunOf(RegOf[BunchOf[c]]) = RunOf(c)
    <3>1. c \in Bunched /\ RegOf[BunchOf[c]] \in Cells
      BY <2>2, PlanInputs DEF Bunched
    <3>2. Root(parent, c) = Root(parent, RegOf[BunchOf[c]])
      <4>1. <<c, RegOf[BunchOf[c]]>> \in Cells \X Cells /\ Asked(Chains, <<c, RegOf[BunchOf[c]]>>)
        BY <3>1, ChainsAsked
      <4>2. QED
        BY <2>1, <4>1
    <3>3. QED
      BY <3>1, <3>2, SameRun
  <2>3. ASSUME NEW e \in Strict PROVE RunOf(e[1]) = RunOf(e[2])
    <3>1. e[1] \in Cells /\ e[2] \in Cells
      BY PlanInputs
    <3>2. <<e[2], e[1]>> \in Cells \X Cells /\ Asked(Chains, <<e[2], e[1]>>)
      BY <3>1, ChainsAsked
    <3>3. Root(parent, e[2]) = Root(parent, e[1])
      BY <2>1, <3>2
    <3>4. QED
      BY <3>1, <3>3, SameRun
  <2>4. QED
    BY <2>2, <2>3
<1>2. QED
  BY <1>1, PlanInvariant, PTL

\* A clock source and everything that feeds it, however far upstream, is
\* admitted with the consumer no other one is more critical than.
THEOREM ClockConesStayTogether == Spec => []ClocksAnchored
<1>1. Inv => ClocksAnchored
  <2> SUFFICES ASSUME Inv, phase = "done", NEW s \in ClockSources
               PROVE  /\ \E c \in Consumers(s) : /\ RunOf(c) = RunOf(s)
                                                 /\ \A d \in Consumers(s) : ~MoreCritical(d, c)
                      /\ \A e \in Feeds : e[2] \in Cone(s) => RunOf(e[1]) = RunOf(s)
    BY DEF ClocksAnchored
  <2> DEFINE k == ClockConsumer(s)
  <2>1. /\ k \in Consumers(s) /\ k \in Cells /\ \A d \in Consumers(s) : ~MoreCritical(d, k)
    BY ConsumerChosen DEF Inv, JInv, Typed
  <2>2. \A c \in Cone(s) : <<k, c>> \in ClockJoins /\ c \in Cells
    BY ConeClosed DEF ClockJoins
  <2> HIDE DEF k
  <2>3. ASSUME NEW c \in Cone(s) PROVE RunOf(c) = RunOf(k)
    <3>1. Same(parent, <<k, c>>) /\ c \in Cells
      BY <2>2 DEF Inv, JInv, Joined
    <3>2. Root(parent, k) = Root(parent, c)
      BY <3>1 DEF Same
    <3>3. QED
      BY <2>1, <3>1, <3>2, SameRun
  <2>4. QED
    BY <2>1, <2>3, ConeClosed
<1>2. QED
  BY <1>1, PlanInvariant, PTL

\* The runs come in order of criticality, and each reports its worst cell.
THEOREM MostCriticalRunsFirst == Spec => []CriticalFirst
<1>1. Inv => CriticalFirst
  BY DEF Inv, RInv, Ranking, Worst, CriticalFirst
<1>2. QED
  BY <1>1, PlanInvariant, PTL
=============================================================================
