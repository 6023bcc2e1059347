-------------------------- MODULE InductionLemmas --------------------------
(***************************************************************************)
(* What the proofs about recursive functions rest on: induction over the   *)
(* naturals for a set of numbers, the function that iterates a step, the   *)
(* sequence that enumerates a finite set, and the largest number of one.   *)
(* The library's induction theorems take a predicate; these take a set, so *)
(* that the provers can use them.                                          *)
(***************************************************************************)
EXTENDS Integers, SequencesExt, FiniteSetTheorems, FunctionTheorems,
        WellFoundedInduction, TLAPS

\* A set of numbers that holds 0 and every successor holds every natural.
LEMMA Induct ==
    ASSUME NEW S, 0 \in S, \A k \in Nat : k \in S => k + 1 \in S
    PROVE  Nat \subseteq S
<1> DEFINE T == Nat \ S
<1>1. SUFFICES ASSUME T # {} PROVE FALSE
  OBVIOUS
<1>2. T \subseteq Nat
  OBVIOUS
<1>3. PICK m \in T : \A y \in T : ~(<<y, m>> \in OpToRel(<, Nat))
  <2> HIDE DEF T
  <2> QED
    BY <1>1, <1>2, NatLessThanWellFounded, WFMin
<1>4. \A y \in T : ~(y < m)
  BY <1>3 DEF OpToRel
<1>5. m \in Nat /\ m # 0
  OBVIOUS
<1>6. m - 1 \in Nat /\ m - 1 \in S
  BY <1>4, <1>5
<1>7. m \in S
  BY <1>5, <1>6
<1>8. QED
  BY <1>7

\* A non-empty set of naturals has a least element.
LEMMA Least ==
    ASSUME NEW T, T \subseteq Nat, T # {}
    PROVE  \E m \in T : \A y \in T : m <= y
<1>1. PICK m \in T : \A y \in T : ~(<<y, m>> \in OpToRel(<, Nat))
  BY NatLessThanWellFounded, WFMin
<1>2. \A y \in T : ~(y < m)
  BY <1>1 DEF OpToRel
<1>3. QED
  BY <1>2

\* w starts at x and makes the k-th step of F at k.
Iterates(n, x, F, w) == w[0] = x /\ \A k \in 1..n : w[k] = F[k][w[k - 1]]

\* A step function has an iteration: what a recursive function over 0..n is.
LEMMA Iteration ==
    ASSUME NEW n \in Nat, NEW X, NEW x \in X, NEW F \in [1..n -> [X -> X]]
    PROVE  \E w \in [0..n -> X] : Iterates(n, x, F, w)
<1> DEFINE It(m) == \E w \in [0..m -> X] : w[0] = x /\ \A k \in 1..m : w[k] = F[k][w[k - 1]]
           S == {m \in Nat : m <= n => It(m)}
<1>1. 0 \in S
  <2>1. [i \in 0..0 |-> x] \in [0..0 -> X] /\ [i \in 0..0 |-> x][0] = x /\ 1..0 = {}
    OBVIOUS
  <2>2. It(0)
    BY <2>1
  <2>3. QED
    BY <2>2
<1>2. ASSUME NEW m \in Nat, m \in S PROVE m + 1 \in S
  <2> SUFFICES ASSUME m + 1 <= n PROVE It(m + 1)
    OBVIOUS
  <2>1. PICK w \in [0..m -> X] : w[0] = x /\ \A k \in 1..m : w[k] = F[k][w[k - 1]]
    BY <1>2
  <2>2. m + 1 \in 1..n /\ w[m] \in X
    BY <2>1
  <2> DEFINE v == [k \in 0..(m + 1) |-> IF k = m + 1 THEN F[m + 1][w[m]] ELSE w[k]]
  <2>3. v \in [0..(m + 1) -> X]
    BY <2>2
  <2>4. v[0] = x
    BY <2>1
  <2>5. ASSUME NEW k \in 1..(m + 1) PROVE v[k] = F[k][v[k - 1]]
    <3>1. k - 1 \in 0..m /\ v[k - 1] = w[k - 1]
      OBVIOUS
    <3>2. CASE k = m + 1
      <4>1. k - 1 = m
        BY <3>2
      <4>2. v[k] = F[m + 1][w[m]]
        BY <3>2
      <4>3. QED
        BY <3>1, <3>2, <4>1, <4>2
    <3>3. CASE k # m + 1
      <4>1. k \in 1..m /\ v[k] = w[k]
        BY <3>3
      <4>2. QED
        BY <2>1, <3>1, <4>1
    <3>4. QED
      BY <3>2, <3>3
  <2>6. QED
    BY <2>3, <2>4, <2>5
<1>3. n \in S
  <2> HIDE DEF S
  <2> QED
    BY <1>1, <1>2, Induct
<1>4. It(n)
  BY <1>3
<1>5. PICK w \in [0..n -> X] : w[0] = x /\ \A k \in 1..n : w[k] = F[k][w[k - 1]]
  BY <1>4
<1>6. Iterates(n, x, F, w)
  BY <1>5 DEF Iterates
<1>7. QED
  BY <1>6

\* A step function that leads from each set of a family into the next has an
\* iteration that stays in the family.
LEMMA Climb ==
    ASSUME NEW n \in Nat, NEW X, NEW x \in X[0], NEW F,
           \A k \in 1..n : \A u \in X[k - 1] : F[k][u] \in X[k]
    PROVE  \E w : Iterates(n, x, F, w) /\ DOMAIN w = 0..n /\ \A k \in 0..n : w[k] \in X[k]
<1> DEFINE XX == UNION {X[k] : k \in 0..n}
           H == [k \in 1..n |-> [u \in XX |-> IF u \in X[k - 1] THEN F[k][u] ELSE u]]
<1>1. x \in XX
  OBVIOUS
<1>2. H \in [1..n -> [XX -> XX]]
  <2>1. ASSUME NEW k \in 1..n, NEW u \in XX PROVE (IF u \in X[k - 1] THEN F[k][u] ELSE u) \in XX
    <3>1. k \in 0..n
      OBVIOUS
    <3>2. X[k] \subseteq XX
      BY <3>1
    <3>3. QED
      BY <3>2
  <2> HIDE DEF XX
  <2>2. QED
    BY <2>1
<1> HIDE DEF XX
<1>3. PICK w \in [0..n -> XX] : Iterates(n, x, H, w)
  <2> HIDE DEF H
  <2> QED
    BY <1>1, <1>2, Iteration
<1> DEFINE T == {k \in Nat : k <= n => w[k] \in X[k]}
<1>4. 0 \in T
  BY <1>3 DEF Iterates
<1>5. \A k \in 1..n : w[k - 1] \in X[k - 1] => w[k] = F[k][w[k - 1]]
  <2> SUFFICES ASSUME NEW k \in 1..n, w[k - 1] \in X[k - 1] PROVE w[k] = F[k][w[k - 1]]
    OBVIOUS
  <2>1. k - 1 \in 0..n
    OBVIOUS
  <2>2. w[k - 1] \in XX
    BY <1>3, <2>1
  <2>3. H[k][w[k - 1]] = F[k][w[k - 1]]
    BY <2>2
  <2>4. QED
    BY <1>3, <2>3 DEF Iterates
<1>6. ASSUME NEW k \in Nat, k \in T PROVE k + 1 \in T
  <2> SUFFICES ASSUME k + 1 <= n PROVE w[k + 1] \in X[k + 1]
    OBVIOUS
  <2>1. k + 1 \in 1..n /\ (k + 1) - 1 = k /\ w[k] \in X[k]
    BY <1>6
  <2>2. w[k + 1] = F[k + 1][w[k]]
    BY <1>5, <2>1
  <2>3. F[k + 1][w[k]] \in X[k + 1]
    BY <2>1
  <2>4. QED
    BY <2>2, <2>3
<1>7. \A k \in 0..n : w[k] \in X[k]
  <2>1. Nat \subseteq T
    <3> HIDE DEF T
    <3> QED
      BY <1>4, <1>6, Induct
  <2>2. QED
    BY <2>1
<1>8. \A k \in 1..n : w[k] = F[k][w[k - 1]]
  <2> SUFFICES ASSUME NEW k \in 1..n PROVE w[k] = F[k][w[k - 1]]
    OBVIOUS
  <2>1. k - 1 \in 0..n
    OBVIOUS
  <2>2. QED
    BY <1>5, <1>7, <2>1
<1>9. Iterates(n, x, F, w)
  BY <1>3, <1>8 DEF Iterates
<1>10. QED
  BY <1>3, <1>7, <1>9

\* SetToSeq of a finite set lists it.
LEMMA Listing ==
    ASSUME NEW S, IsFiniteSet(S)
    PROVE  /\ SetToSeq(S) \in Seq(S)
           /\ Len(SetToSeq(S)) = Cardinality(S)
           /\ \A e \in S : \E i \in DOMAIN SetToSeq(S) : SetToSeq(S)[i] = e
<1>1. Cardinality(S) \in Nat
  BY FS_CardinalityType
<1>2. PICK f : f \in Bijection(1..Cardinality(S), S)
  BY FS_CardinalityType DEF ExistsBijection
<1>3. f \in [1..Cardinality(S) -> S] /\ IsInjective(f)
  BY <1>2 DEF Bijection, Injection, IsInjective
<1>4. SetToSeq(S) \in [1..Cardinality(S) -> S] /\ IsInjective(SetToSeq(S))
  BY <1>3 DEF SetToSeq
<1> DEFINE q == SetToSeq(S)
           n == Cardinality(S)
<1>5. q \in Injection(1..n, S)
  BY <1>4 DEF Injection, IsInjective
<1>6. IsFiniteSet(1..n) /\ Cardinality(1..n) = n
  BY <1>1, FS_Interval
<1>7. q \in Surjection(1..n, S)
  <2> HIDE DEF q
  <2> QED
    BY <1>5, <1>6, FS_Injection
<1>8. QED
  BY <1>1, <1>4, <1>7 DEF Surjection

\* A finite non-empty set of integers has a largest element.
LEMMA Largest ==
    ASSUME NEW T, T \subseteq Int, IsFiniteSet(T), T # {}
    PROVE  \E m \in T : \A y \in T : y <= m
<1> DEFINE Top(U) == \E m \in U : \A y \in U : y <= m
           S == {n \in Nat : \A U \in SUBSET T : Cardinality(U) = n + 1 => Top(U)}
<1>1. \A U \in SUBSET T : IsFiniteSet(U) /\ Cardinality(U) \in Nat
  BY FS_Subset, FS_CardinalityType
<1>2. 0 \in S
  <2> SUFFICES ASSUME NEW U \in SUBSET T, Cardinality(U) = 1 PROVE Top(U)
    OBVIOUS
  <2>1. U # {}
    BY FS_EmptySet
  <2>2. PICK x \in U : TRUE
    BY <2>1
  <2>3. Cardinality(U \ {x}) = 0 /\ IsFiniteSet(U \ {x})
    BY <1>1, <2>2, FS_RemoveElement
  <2>4. U \ {x} = {}
    BY <2>3, FS_EmptySet
  <2>5. QED
    BY <2>2, <2>4
<1>3. ASSUME NEW n \in Nat, n \in S PROVE n + 1 \in S
  <2> SUFFICES ASSUME NEW U \in SUBSET T, Cardinality(U) = n + 2 PROVE Top(U)
    OBVIOUS
  <2>1. U # {}
    BY FS_EmptySet
  <2>2. PICK x \in U : TRUE
    BY <2>1
  <2>3. Cardinality(U \ {x}) = n + 1 /\ U \ {x} \in SUBSET T
    BY <1>1, <2>2, FS_RemoveElement
  <2>4. PICK m \in U \ {x} : \A y \in U \ {x} : y <= m
    BY <1>3, <2>3
  <2>5. CASE x <= m
    BY <2>4, <2>5
  <2>6. CASE ~(x <= m)
    <3>1. \A y \in U : y <= x
      BY <2>2, <2>4, <2>6
    <3>2. QED
      BY <2>2, <3>1
  <2>7. QED
    BY <2>5, <2>6
<1>4. Nat \subseteq S
  <2> HIDE DEF S
  <2> QED
    BY <1>2, <1>3, Induct
<1>5. Cardinality(T) # 0 /\ Cardinality(T) \in Nat
  BY FS_EmptySet, FS_CardinalityType
<1>6. Cardinality(T) - 1 \in Nat /\ (Cardinality(T) - 1) + 1 = Cardinality(T)
  BY <1>5
<1>7. Cardinality(T) - 1 \in S
  <2> HIDE DEF S
  <2> QED
    BY <1>4, <1>6
<1>8. QED
  BY <1>6, <1>7
=============================================================================
