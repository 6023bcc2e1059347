------------------------- MODULE NetRouteIndexProofs -------------------------
(***************************************************************************)
(* Proofs about NetRouteIndex: for every hash, every number of nets and    *)
(* every sequence of edits, the lookups, registrations and owner indexes   *)
(* are exact and every query answers what a search of net.routes would.    *)
(***************************************************************************)
EXTENDS NetRouteIndex, FiniteSetTheorems, SequenceTheorems, WellFoundedInduction, TLAPS

\* An owner index is of a publication already made or of none at all, and of
\* none when no search runs: edits that publish nothing happen only then.
CacheScoped ==
    /\ owners.revision \in 0..revision \cup {MaxRevision + 1}
    /\ ~searching => owners.revision = MaxRevision + 1

IInv == TypeOK /\ LookupsExact /\ RegistrationsExact /\ OwnersExact /\ CacheScoped

-----------------------------------------------------------------------------
(* Sequences of bindings                                                   *)

\* A set of positions that is not empty has a first one.
LEMMA FirstOf ==
    ASSUME NEW P \in SUBSET Nat, P # {}
    PROVE  Bindings!First(P) \in P /\ \A j \in P : Bindings!First(P) <= j
<1>1. \E x \in P : \A y \in P : ~(<<y, x>> \in OpToRel(<, Nat))
  BY NatLessThanWellFounded, WFMin, Zenon
<1>2. PICK x \in P : \A y \in P : ~(<<y, x>> \in OpToRel(<, Nat))
  BY <1>1
<1>3. ASSUME NEW y \in P, y < x PROVE FALSE
  <2>1. <<y, x>> \in Nat \X Nat /\ <<y, x>>[1] < <<y, x>>[2]
    BY <1>3
  <2>2. <<y, x>> \in OpToRel(<, Nat)
    BY <2>1, Zenon DEF OpToRel
  <2>3. QED
    BY <2>2, <1>2
<1>4. QED
  <2>1. \A y \in P : x <= y
    BY <1>3
  <2>2. QED
    BY <2>1 DEF Bindings!First

\* The elements of a sequence with one position removed.
LEMMA WithoutElements ==
    ASSUME NEW S, NEW rs \in Seq(S), NEW i \in 1..Len(rs)
    PROVE  /\ Bindings!Without(rs, i) \in Seq(S)
           /\ Len(Bindings!Without(rs, i)) = Len(rs) - 1
           /\ \A k \in 1..(Len(rs) - 1) :
                 Bindings!Without(rs, i)[k] = IF k < i THEN rs[k] ELSE rs[k + 1]
<1> DEFINE a == SubSeq(rs, 1, i - 1)
           b == SubSeq(rs, i + 1, Len(rs))
<1>0. Len(rs) \in Nat /\ i \in Nat /\ \A k \in 1..Len(rs) : rs[k] \in S
  OBVIOUS
<1>1. /\ a \in Seq(S) /\ Len(a) = i - 1
      /\ \A k \in 1..(i - 1) : a[k] = rs[k]
  <2>1. \A k \in 1..(i - 1) : rs[k] \in S
    BY <1>0
  <2>2. /\ a \in Seq(S)
        /\ Len(a) = IF 1 <= i - 1 THEN i - 1 - 1 + 1 ELSE 0
        /\ \A k \in 1..(i - 1 - 1 + 1) : a[k] = rs[1 + k - 1]
    BY <2>1, <1>0, SubSeqProperties DEF a
  <2>3. QED
    BY <2>2, <1>0
<1>2. /\ b \in Seq(S) /\ Len(b) = Len(rs) - i
      /\ \A k \in 1..(Len(rs) - i) : b[k] = rs[i + k]
  <2>1. \A k \in (i + 1)..Len(rs) : rs[k] \in S
    BY <1>0
  <2>2. QED
    BY <2>1, <1>0, SubSeqProperties
<1>3. QED
  <2>1. /\ a \o b \in Seq(S)
        /\ Len(a \o b) = Len(a) + Len(b)
        /\ \A k \in 1..(Len(a) + Len(b)) :
              (a \o b)[k] = IF k <= Len(a) THEN a[k] ELSE b[k - Len(a)]
    BY <1>1, <1>2, ConcatProperties
  <2>2. Bindings!Without(rs, i) = a \o b
    BY DEF Bindings!Without
  <2> HIDE DEF a, b
  <2>3. Len(a) + Len(b) = Len(rs) - 1
    BY <1>0, <1>1, <1>2
  <2>4. ASSUME NEW k \in 1..(Len(rs) - 1)
        PROVE  (a \o b)[k] = IF k < i THEN rs[k] ELSE rs[k + 1]
    <3>1. CASE k < i
      BY <3>1, <1>0, <1>1, <2>1, <2>3
    <3>2. CASE i <= k
      <4>1. k - (i - 1) \in 1..(Len(rs) - i) /\ i + (k - (i - 1)) = k + 1
        BY <3>2, <1>0
      <4>2. (a \o b)[k] = b[k - (i - 1)]
        BY <3>2, <1>0, <1>1, <2>1, <2>3
      <4>3. b[k - (i - 1)] = rs[k + 1]
        BY <4>1, <1>2
      <4>4. QED
        BY <3>2, <4>2, <4>3, <1>0
    <3>3. k < i \/ i <= k
      BY <1>0
    <3>4. QED
      BY <3>1, <3>2, <3>3
  <2>5. QED
    BY <2>1, <2>2, <2>3, <2>4

-----------------------------------------------------------------------------
(* The lookups describe the vector they were built from                    *)

KeyExact(map, rs) ==
    /\ DOMAIN map = {Hash[rs[i].key] : i \in DOMAIN rs}
    /\ \A h \in DOMAIN map : /\ map[h].index \in Hits(rs, h)
                             /\ map[h].count = Cardinality(Hits(rs, h))

IdExact(map, rs) ==
    /\ DOMAIN map = {rs[i].id : i \in DOMAIN rs}
    /\ \A i \in DOMAIN rs : map[rs[i].id] = i

UniqueIds(rs) == \A i, j \in DOMAIN rs : rs[i].id = rs[j].id => i = j

\* The fields of a binding, typed.
LEMMA BindingTypes ==
    \A b \in Bindings!Binding : /\ b.key \in Keys /\ Hash[b.key] \in Nat
                                /\ b.id \in 1..MaxId /\ b.tiles \subseteq Tiles
BY IndexAssumption DEF Bindings!Binding, Bindings!Ids, Keys

\* The positions of a hash or of a key are finite sets of numbers, so they
\* have a least one.
LEMMA PositionSets ==
    ASSUME NEW rs \in Seq(Bindings!Binding)
    PROVE  /\ \A h : IsFiniteSet(Hits(rs, h)) /\ Hits(rs, h) \subseteq Nat
           /\ \A key : /\ IsFiniteSet(Bindings!WithKey(rs, key))
                       /\ Bindings!WithKey(rs, key) \subseteq Hits(rs, Hash[key])
<1>1. DOMAIN rs = 1..Len(rs) /\ Len(rs) \in Nat
  OBVIOUS
<1>2. IsFiniteSet(DOMAIN rs)
  BY <1>1, FS_Interval
<1>3. \A h : Hits(rs, h) \in SUBSET DOMAIN rs
  BY DEF Hits
<1>4. \A key : Bindings!WithKey(rs, key) \in SUBSET DOMAIN rs
  BY DEF Bindings!WithKey
<1>5. \A key : Bindings!WithKey(rs, key) \subseteq Hits(rs, Hash[key])
  BY DEF Bindings!WithKey, Hits
<1>6. QED
  BY <1>1, <1>2, <1>3, <1>4, <1>5, FS_Subset

\* rebuildRouteLookup
LEMMA KeyMapExact ==
    ASSUME NEW rs \in Seq(Bindings!Binding)
    PROVE  KeyExact(KeyMap(rs), rs)
<1>1. ASSUME NEW h \in {Hash[rs[i].key] : i \in DOMAIN rs}
      PROVE  Bindings!First(Hits(rs, h)) \in Hits(rs, h)
  <2>1. Hits(rs, h) # {}
    BY DEF Hits
  <2>2. QED
    BY <2>1, PositionSets, FirstOf
<1>2. QED
  BY <1>1 DEF KeyExact, KeyMap

\* The rebuild in findRouteBindingById
LEMMA IdMapExact ==
    ASSUME NEW rs \in Seq(Bindings!Binding), UniqueIds(rs)
    PROVE  IdExact(IdMap(rs), rs)
<1>1. ASSUME NEW i \in DOMAIN rs
      PROVE  IdMap(rs)[rs[i].id] = i
  <2> DEFINE P == Bindings!WithId(rs, rs[i].id)
  <2>1. P = {i}
    BY DEF Bindings!WithId, UniqueIds
  <2>2. \A k : (k \in P /\ \A j \in P : j <= k) <=> k = i
    BY <2>1
  <2>3. (CHOOSE k \in P : \A j \in P : j <= k) = i
    BY <2>2
  <2>4. IdMap(rs)[rs[i].id] = CHOOSE k \in P : \A j \in P : j <= k
    BY DEF IdMap
  <2>5. QED
    BY <2>3, <2>4
<1>2. QED
  BY <1>1 DEF IdExact, IdMap

-----------------------------------------------------------------------------
(* The queries answer what a search would                                  *)

Bound(net) == routes[net] \in Seq(Bindings!Binding) /\ UniqueIds(routes[net])

\* The invariants give what a lookup is built from: typed bindings with
\* unique ids.
LEMMA BoundNets ==
    ASSUME TypeOK, RegistrationsExact, NEW net \in Nets
    PROVE  Bound(net)
BY DEF TypeOK, RegistrationsExact, Bound, UniqueIds

\* The key lookup a query leaves behind, rebuilt or kept, is exact and
\* current.
LEMMA KeyIxExact ==
    ASSUME TypeOK, LookupsExact, RegistrationsExact, NEW net \in Nets
    PROVE  /\ KeyExact(KeyIx(net).map, routes[net])
           /\ KeyIx(net).size = Len(routes[net]) /\ KeyIx(net).data = data[net]
           /\ KeyIx(net) = [map |-> KeyIx(net).map, size |-> KeyIx(net).size, data |-> KeyIx(net).data]
<1>1. CASE Current(key_ix, net)
  <2>1. KeyExact(key_ix[net].map, routes[net])
    BY <1>1 DEF LookupsExact, KeyExact
  <2>2. key_ix[net] = [map |-> key_ix[net].map, size |-> key_ix[net].size, data |-> key_ix[net].data]
    BY DEF TypeOK, RecordsOf
  <2>3. QED
    BY <1>1, <2>1, <2>2 DEF KeyIx, Current
<1>2. CASE ~Current(key_ix, net)
  BY <1>2, BoundNets, KeyMapExact DEF KeyIx, Bound
<1>3. QED
  BY <1>1, <1>2

\* So is the id lookup.
LEMMA IdIxExact ==
    ASSUME TypeOK, LookupsExact, RegistrationsExact, NEW net \in Nets
    PROVE  /\ IdExact(IdIx(net).map, routes[net])
           /\ IdIx(net).size = Len(routes[net]) /\ IdIx(net).data = data[net]
           /\ IdIx(net) = [map |-> IdIx(net).map, size |-> IdIx(net).size, data |-> IdIx(net).data]
<1>1. CASE Current(id_ix, net)
  <2>1. IdExact(id_ix[net].map, routes[net])
    BY <1>1 DEF LookupsExact, IdExact
  <2>2. id_ix[net] = [map |-> id_ix[net].map, size |-> id_ix[net].size, data |-> id_ix[net].data]
    BY DEF TypeOK, RecordsOf
  <2>3. QED
    BY <1>1, <2>1, <2>2 DEF IdIx, Current
<1>2. CASE ~Current(id_ix, net)
  BY <1>2, BoundNets, IdMapExact DEF IdIx, Bound
<1>3. QED
  BY <1>1, <1>2

\* FiniteSets reached through the instance is FiniteSets.
LEMMA SameCardinality == \A S : Bindings!Cardinality(S) = Cardinality(S)
BY DEF Bindings!Cardinality, Cardinality, Bindings!IsFiniteSet, IsFiniteSet

\* findRouteBinding finds the first exact binding and counts them, whatever
\* keys share a hash.
LEMMA FoundExact ==
    ASSUME TypeOK, LookupsExact, RegistrationsExact, NEW net \in Nets, NEW key \in Keys
    PROVE  Found(net, key) = Bindings!ScanKey(routes[net], key)
<1> DEFINE rs == routes[net]
           map == KeyIx(net).map
           h == Hash[key]
<1>0. rs \in Seq(Bindings!Binding)
  BY BoundNets DEF Bound
<1>1. KeyExact(map, rs)
  BY KeyIxExact
<1>2. CASE h \notin DOMAIN map
  <2>1. Bindings!WithKey(rs, key) = {}
    BY <1>1, <1>2 DEF KeyExact, Bindings!WithKey
  <2>2. Found(net, key) = [index |-> 0, count |-> 0]
    BY <1>2 DEF Found, None
  <2>3. QED
    BY <2>1, <2>2, SameCardinality, FS_EmptySet DEF Bindings!ScanKey
<1>3. CASE /\ h \in DOMAIN map /\ map[h].count = 1 /\ map[h].index <= Len(rs)
           /\ rs[map[h].index].key = key
  <2> DEFINE i == map[h].index
  <2>1. Cardinality(Hits(rs, h)) = 1 /\ i \in Hits(rs, h)
    BY <1>1, <1>3 DEF KeyExact
  <2>2. Hits(rs, h) = {i}
    BY <2>1, <1>0, PositionSets, FS_Singleton
  <2>3. Bindings!WithKey(rs, key) = {i}
    BY <2>2, <1>0, <1>3, PositionSets DEF Bindings!WithKey, Hits
  <2>4. i \in Nat
    BY <2>1, <1>0, PositionSets
  <2>5. Bindings!First({i}) = i
    BY <2>4, FirstOf
  <2>6. Found(net, key) = [index |-> i, count |-> 1]
    BY <1>3 DEF Found
  <2>7. QED
    BY <2>3, <2>5, <2>6, SameCardinality, FS_Singleton DEF Bindings!ScanKey
<1>4. CASE h \in DOMAIN map /\ ~(/\ map[h].count = 1 /\ map[h].index <= Len(rs)
                                 /\ rs[map[h].index].key = key)
  BY <1>4 DEF Found
<1>5. QED
  BY <1>2, <1>3, <1>4

\* findRouteBindingById
LEMMA FoundIdExact ==
    ASSUME TypeOK, LookupsExact, RegistrationsExact, NEW net \in Nets, NEW id
    PROVE  FoundId(net, id) = Bindings!ScanId(routes[net], id)
<1> DEFINE rs == routes[net]
<1>1. rs \in Seq(Bindings!Binding) /\ UniqueIds(rs)
  BY BoundNets DEF Bound
<1>2. IdExact(IdIx(net).map, rs)
  BY IdIxExact
<1>3. CASE \E i \in DOMAIN rs : rs[i].id = id
  <2>1. PICK i \in DOMAIN rs : rs[i].id = id
    BY <1>3
  <2>2. Bindings!WithId(rs, id) = {i} /\ i \in Nat
    BY <2>1, <1>1 DEF Bindings!WithId, UniqueIds
  <2>3. Bindings!First({i}) = i
    BY <2>2, FirstOf
  <2>4. FoundId(net, id) = i
    BY <2>1, <1>2 DEF FoundId, IdExact
  <2>5. QED
    BY <2>2, <2>3, <2>4 DEF Bindings!ScanId
<1>4. CASE ~\E i \in DOMAIN rs : rs[i].id = id
  BY <1>4, <1>2 DEF FoundId, IdExact, None, Bindings!ScanId, Bindings!WithId
<1>5. QED
  BY <1>3, <1>4

\* visitNodeOwners: the registrations of a tile lead to all owners there.
LEMMA ResolvedExact ==
    ASSUME TypeOK, LookupsExact, RegistrationsExact, NEW t \in Tiles
    PROVE  Resolved(t) = Bindings!ScanOwners(routes, t)
<1>1. ASSUME NEW net \in Nets, NEW i \in DOMAIN routes[net]
      PROVE  FoundId(net, routes[net][i].id) = i /\ i # None
  <2>1. i # None
    BY BoundNets DEF Bound, None
  <2>2. QED
    BY <2>1, IdIxExact DEF FoundId, IdExact
<1>2. ASSUME NEW net \in Nets, NEW i \in DOMAIN routes[net], t \in routes[net][i].tiles
      PROVE  <<net, i>> \in Resolved(t)
  <2> DEFINE r == [tile |-> t, net |-> net, id |-> routes[net][i].id]
  <2>1. Bound(net)
    BY BoundNets
  <2>2. routes[net][i] \in Bindings!Binding
    BY <2>1 DEF Bound
  <2>3. r \in Registration
    BY <2>2, BindingTypes DEF Registration, Bindings!Ids
  <2>4. r \in reg
    BY <1>2, <2>3 DEF RegistrationsExact, Carries
  <2>5. FoundId(r.net, r.id) = i /\ Leads(r)
    BY <1>1, <1>2 DEF Leads
  <2>6. QED
    BY <2>4, <2>5 DEF Resolved
<1>3. ASSUME NEW r \in reg, r.tile = t, Leads(r)
      PROVE  <<r.net, FoundId(r.net, r.id)>> \in Bindings!ScanOwners(routes, t)
  <2>1. r.net \in Nets /\ Carries(routes[r.net], r)
    BY DEF RegistrationsExact, Registration
  <2>2. PICK i \in DOMAIN routes[r.net] : routes[r.net][i].id = r.id
    BY <2>1 DEF Carries
  <2>3. FoundId(r.net, r.id) = i
    BY <1>1, <2>1, <2>2
  <2>4. QED
    BY <1>3, <2>1, <2>3 DEF Leads, Bindings!ScanOwners
<1>4. \A o \in Bindings!ScanOwners(routes, t) : o \in Resolved(t)
  BY <1>2 DEF Bindings!ScanOwners
<1>5. \A o \in Resolved(t) : o \in Bindings!ScanOwners(routes, t)
  BY <1>3 DEF Resolved
<1>6. QED
  BY <1>4, <1>5

-----------------------------------------------------------------------------
(* What an edit does to a lookup                                           *)

IsLookup(ix) == ix = [map |-> ix.map, size |-> ix.size, data |-> ix.data]

KeyOK(ix, rs, a) == ix.size = Len(rs) /\ ix.data = a => KeyExact(ix.map, rs)
IdOK(ix, rs, a)  == ix.size = Len(rs) /\ ix.data = a => IdExact(ix.map, rs)

\* LookupsExact, net by net.
LEMMA LookupsByNet ==
    LookupsExact <=> \A net \in Nets : /\ KeyOK(key_ix[net], routes[net], data[net])
                                       /\ IdOK(id_ix[net], routes[net], data[net])
BY DEF LookupsExact, Current, KeyOK, IdOK, KeyExact, IdExact

\* No vector lies at the address of an invalidated lookup.
LEMMA InvalidatedOK ==
    ASSUME NEW ix, IsLookup(ix), NEW rs, NEW a \in Addresses
    PROVE  /\ IsLookup(Invalidated(ix))
           /\ KeyOK(Invalidated(ix), rs, a) /\ IdOK(Invalidated(ix), rs, a)
<1>1. Invalidated(ix).data = Stale
  BY DEF IsLookup, Invalidated
<1>2. IsLookup(Invalidated(ix))
  BY DEF IsLookup, Invalidated
<1>3. QED
  BY <1>1, <1>2, IndexAssumption DEF KeyOK, IdOK, Stale

\* An edit that leaves keys and identities in place leaves the lookups exact.
SameKeys(rs, new) == Len(new) = Len(rs) /\ \A i \in DOMAIN rs : new[i].key = rs[i].key
SameIds(rs, new)  == Len(new) = Len(rs) /\ \A i \in DOMAIN rs : new[i].id = rs[i].id

\* A key lookup stays right for a vector with the same keys.
LEMMA SameKeysOK ==
    ASSUME NEW rs \in Seq(Bindings!Binding), NEW new \in Seq(Bindings!Binding), SameKeys(rs, new),
           NEW ix, NEW a, KeyOK(ix, rs, a)
    PROVE  KeyOK(ix, new, a)
<1>1. DOMAIN new = DOMAIN rs
  BY DEF SameKeys
<1>2. \A h : Hits(new, h) = Hits(rs, h)
  BY <1>1 DEF SameKeys, Hits
<1>3. {Hash[new[i].key] : i \in DOMAIN new} = {Hash[rs[i].key] : i \in DOMAIN rs}
  BY <1>1 DEF SameKeys
<1>4. QED
  BY <1>2, <1>3 DEF KeyOK, KeyExact, SameKeys

\* An id lookup stays right for a vector with the same ids.
LEMMA SameIdsOK ==
    ASSUME NEW rs \in Seq(Bindings!Binding), NEW new \in Seq(Bindings!Binding), SameIds(rs, new),
           NEW ix, NEW a, IdOK(ix, rs, a)
    PROVE  IdOK(ix, new, a)
<1>1. DOMAIN new = DOMAIN rs
  BY DEF SameIds
<1>2. {new[i].id : i \in DOMAIN new} = {rs[i].id : i \in DOMAIN rs}
  BY <1>1 DEF SameIds
<1>3. QED
  BY <1>1, <1>2 DEF IdOK, IdExact, SameIds

\* The map with one more entry counts one more binding of that hash.
LEMMA AppendedExact ==
    ASSUME NEW rs \in Seq(Bindings!Binding), NEW b \in Bindings!Binding,
           NEW ix, IsLookup(ix), KeyExact(ix.map, rs)
    PROVE  KeyExact(Appended(ix, Hash[b.key], Len(rs) + 1).map, Append(rs, b))
<1> DEFINE n == Len(rs) + 1
           h == Hash[b.key]
           new == Append(rs, b)
           map == Appended(ix, h, n).map
<1>1. /\ DOMAIN rs = 1..Len(rs) /\ DOMAIN new = DOMAIN rs \cup {n} /\ n \notin DOMAIN rs
      /\ new[n] = b /\ \A i \in DOMAIN rs : new[i] = rs[i]
  BY AppendProperties
<1>2. /\ DOMAIN map = DOMAIN ix.map \cup {h}
      /\ \A g \in DOMAIN ix.map : g # h => map[g] = ix.map[g]
      /\ h \in DOMAIN ix.map => map[h] = [index |-> ix.map[h].index, count |-> ix.map[h].count + 1]
      /\ h \notin DOMAIN ix.map => map[h] = [index |-> n, count |-> 1]
  BY DEF Appended, IsLookup
<1> HIDE DEF map
<1>3. Hits(new, h) = Hits(rs, h) \cup {n} /\ n \notin Hits(rs, h)
  BY <1>1 DEF Hits
<1>4. \A g : g # h => Hits(new, g) = Hits(rs, g)
  BY <1>1 DEF Hits
<1>5. DOMAIN map = {Hash[new[i].key] : i \in DOMAIN new}
  BY <1>1, <1>2 DEF KeyExact
<1>6. Cardinality(Hits(new, h)) = Cardinality(Hits(rs, h)) + 1
  BY <1>3, PositionSets, FS_AddElement
<1>7. h \notin DOMAIN ix.map => Hits(rs, h) = {}
  BY DEF KeyExact, Hits
<1>8. /\ map[h].index \in Hits(new, h)
      /\ map[h].count = Cardinality(Hits(new, h))
  <2>1. CASE h \in DOMAIN ix.map
    BY <2>1, <1>2, <1>3, <1>6 DEF KeyExact
  <2>2. CASE h \notin DOMAIN ix.map
    <3>1. Cardinality(Hits(rs, h)) = 0
      BY <2>2, <1>7, FS_EmptySet
    <3> HIDE DEF n, h, new
    <3>2. map[h].index = n /\ map[h].count = 1
      BY <2>2, <1>2
    <3>3. QED
      BY <3>1, <3>2, <1>3, <1>6
  <2>3. QED
    BY <2>1, <2>2
<1>9. ASSUME NEW g \in DOMAIN map, g # h
      PROVE  map[g].index \in Hits(new, g) /\ map[g].count = Cardinality(Hits(new, g))
  BY <1>2, <1>4, <1>9 DEF KeyExact
<1>10. KeyExact(map, new)
  BY <1>5, <1>8, <1>9 DEF KeyExact
<1>11. QED
  BY <1>10 DEF map

\* appendRouteBinding leaves both lookups exact or invalidated, wherever the
\* vector lies afterwards.
LEMMA PushedOK ==
    ASSUME TypeOK, LookupsExact, RegistrationsExact,
           NEW net \in Nets, NEW b \in Bindings!Binding, b.id = next_id[net], NEW a \in Addresses,
           NEW ix, IsLookup(ix), KeyOK(ix, routes[net], data[net])
    PROVE  LET new == Pushed(net, b, a, ix)
               rs == Append(routes[net], b)
           IN  /\ IsLookup(new.key) /\ KeyOK(new.key, rs, a)
               /\ IsLookup(new.id) /\ IdOK(new.id, rs, a)
<1> DEFINE rs == routes[net]
           n == Len(rs) + 1
           h == Hash[b.key]
           ap == Appended(ix, h, n)
           push == Pushed(net, b, a, ix)
<1>1. /\ rs \in Seq(Bindings!Binding) /\ Append(rs, b) \in Seq(Bindings!Binding)
      /\ Len(Append(rs, b)) = n
      /\ DOMAIN rs = 1..Len(rs) /\ DOMAIN Append(rs, b) = DOMAIN rs \cup {n} /\ n \notin DOMAIN rs
      /\ Append(rs, b)[n] = b /\ \A i \in DOMAIN rs : Append(rs, b)[i] = rs[i]
  BY BoundNets, AppendProperties DEF Bound
<1>2. IsLookup(push.key) /\ KeyOK(push.key, Append(rs, b), a)
  <2>1. CASE ix.size = Len(rs) /\ ix.data = data[net]
    <3>1. KeyExact(ap.map, Append(rs, b))
      BY <2>1, <1>1, AppendedExact DEF KeyOK
    <3>2. ap = [map |-> ap.map, size |-> ap.size, data |-> ap.data]
      BY DEF Appended, IsLookup
    <3> HIDE DEF ap
    <3>3. push.key = [ap EXCEPT !.size = n, !.data = a]
      BY <2>1 DEF Pushed, ap
    <3>4. push.key = [map |-> ap.map, size |-> n, data |-> a]
      BY <3>2, <3>3
    <3>5. QED
      BY <3>1, <3>4 DEF KeyOK, IsLookup
  <2>2. CASE ~(ix.size = Len(rs) /\ ix.data = data[net])
    BY <2>2, InvalidatedOK DEF Pushed
  <2>3. QED
    BY <2>1, <2>2
<1>3. IsLookup(push.id) /\ IdOK(push.id, Append(rs, b), a)
  <2>1. CASE Current(id_ix, net)
    <3> DEFINE map == [id \in DOMAIN id_ix[net].map \cup {b.id} |->
                          IF id = b.id THEN n ELSE id_ix[net].map[id]]
    <3>1. push.id = [map |-> map, size |-> n, data |-> a]
      BY <2>1 DEF Pushed
    <3>2. IdExact(id_ix[net].map, rs)
      BY <2>1, LookupsByNet DEF Current, IdOK
    <3>3. \A i \in DOMAIN rs : rs[i].id # b.id
      <4>1. \A i \in DOMAIN rs : rs[i] \in Bindings!Binding
        BY <1>1
      <4>2. \A i \in DOMAIN rs : rs[i].id \in Nat /\ rs[i].id < b.id
        BY <4>1, IndexAssumption, BindingTypes DEF RegistrationsExact
      <4>3. QED
        BY <4>2
    <3>4. IdExact(map, Append(rs, b))
      BY <1>1, <3>2, <3>3 DEF IdExact
    <3>5. QED
      BY <3>1, <3>4 DEF IdOK, IsLookup
  <2>2. CASE ~Current(id_ix, net)
    <3>1. IsLookup(id_ix[net])
      BY DEF TypeOK, RecordsOf, IsLookup
    <3>2. push.id = Invalidated(id_ix[net])
      BY <2>2 DEF Pushed
    <3>3. QED
      BY <3>1, <3>2, InvalidatedOK
  <2>3. QED
    BY <2>1, <2>2
<1>4. QED
  BY <1>2, <1>3

-----------------------------------------------------------------------------
(* What an edit does to the registrations and the owner index              *)

\* rebuildNetRouteTiles repairs the registrations of a net when the tiles it
\* is given include all that its routes left.
LEMMA RebuiltExact ==
    ASSUME RegistrationsExact, NEW net, NEW rs, NEW touched,
           \A r \in Registration : r.net = net /\ Carries(routes[net], r) /\ r.tile \notin touched
                                       => Carries(rs, r)
    PROVE  Rebuilt(net, rs, touched) =
              {r \in Registration : IF r.net = net THEN Carries(rs, r) ELSE Carries(routes[r.net], r)}
BY DEF RegistrationsExact, Rebuilt

\* A publication outdates every owner index.
LEMMA Publication ==
    ASSUME TypeOK, CacheScoped, Publish, UNCHANGED cacheVars
    PROVE  OwnersExact' /\ CacheScoped' /\ revision' \in 0..MaxRevision
<1>1. owners' = owners /\ searching' = searching
  BY DEF cacheVars
<1>2. /\ revision \in 0..MaxRevision /\ MaxRevision \in Nat
      /\ revision < MaxRevision /\ revision' = revision + 1
  BY IndexAssumption DEF TypeOK, Publish
<1>3. owners'.revision # revision'
  BY <1>1, <1>2 DEF CacheScoped
<1>4. CacheScoped'
  BY <1>1, <1>2 DEF CacheScoped
<1>5. QED
  BY <1>2, <1>3, <1>4 DEF OwnersExact

\* No owner index outlives its search.
LEMMA NoSearch ==
    ASSUME TypeOK, CacheScoped, ~searching, UNCHANGED <<revision, cacheVars>>
    PROVE  OwnersExact' /\ CacheScoped'
<1>1. owners' = owners /\ searching' = searching /\ revision' = revision
  BY DEF cacheVars
<1>2. owners.revision # revision
  BY IndexAssumption DEF CacheScoped, TypeOK
<1>3. QED
  BY <1>1, <1>2 DEF OwnersExact, CacheScoped

-----------------------------------------------------------------------------
(* Every step preserves the invariant                                      *)

\* Replacing the lookup of one net keeps all of them lookups.
LEMMA RecordsUpdated ==
    ASSUME NEW ix, RecordsOf(ix), NEW net \in Nets, NEW x, IsLookup(x)
    PROVE  RecordsOf([ix EXCEPT ![net] = x])
BY DEF RecordsOf, IsLookup

\* Each stored lookup is one.
LEMMA RecordsEach ==
    ASSUME TypeOK, NEW net \in Nets
    PROVE  IsLookup(key_ix[net]) /\ IsLookup(id_ix[net])
BY DEF TypeOK, RecordsOf, IsLookup

\* What only refreshes lookups changes nothing.
LEMMA RefreshStep ==
    ASSUME IInv, UNCHANGED <<routes, data, next_id, reg>>,
           key_ix' = [net \in Nets |-> key_ix'[net]], id_ix' = [net \in Nets |-> id_ix'[net]],
           \A net \in Nets : key_ix'[net] \in {key_ix[net], KeyIx(net)},
           \A net \in Nets : id_ix'[net] \in {id_ix[net], IdIx(net)}
    PROVE  LookupsExact' /\ RegistrationsExact' /\ RecordsOf(key_ix)' /\ RecordsOf(id_ix)'
<1>1. \A net \in Nets : /\ IsLookup(key_ix[net]) /\ IsLookup(KeyIx(net))
                        /\ IsLookup(id_ix[net]) /\ IsLookup(IdIx(net))
  BY RecordsEach, KeyIxExact, IdIxExact DEF IInv, IsLookup
<1>2. \A net \in Nets : /\ KeyOK(KeyIx(net), routes[net], data[net])
                        /\ IdOK(IdIx(net), routes[net], data[net])
  BY KeyIxExact, IdIxExact DEF IInv, KeyOK, IdOK
<1>3. \A net \in Nets : /\ KeyOK(key_ix'[net], routes[net], data[net])
                        /\ IdOK(id_ix'[net], routes[net], data[net])
  BY <1>2, LookupsByNet DEF IInv
<1>4. LookupsExact'
  BY <1>3 DEF LookupsExact, Current, KeyOK, IdOK, KeyExact, IdExact
<1>5. RegistrationsExact'
  BY DEF IInv, RegistrationsExact, Carries
<1>6. RecordsOf(key_ix)' /\ RecordsOf(id_ix)'
  BY <1>1 DEF RecordsOf, IsLookup
<1>7. QED
  BY <1>4, <1>5, <1>6

\* A query by key may rebuild the key lookup of its net and nothing else.
LEMMA FindKeyStep ==
    ASSUME IInv, NEW net \in Nets, NEW key \in Keys, FindRouteBinding(net, key)
    PROVE  IInv'
<1>1. /\ key_ix' = [key_ix EXCEPT ![net] = KeyIx(net)] /\ id_ix' = id_ix
      /\ UNCHANGED <<routes, data, next_id, reg, revision, owners, searching>>
  BY DEF FindRouteBinding, cacheVars
<1>2. key_ix = [n \in Nets |-> key_ix[n]] /\ id_ix = [n \in Nets |-> id_ix[n]]
  BY DEF IInv, TypeOK, RecordsOf
<1>3. LookupsExact' /\ RegistrationsExact' /\ RecordsOf(key_ix)' /\ RecordsOf(id_ix)'
  BY <1>1, <1>2, RefreshStep
<1>4. TypeOK'
  BY <1>1, <1>3 DEF IInv, TypeOK
<1>5. OwnersExact' /\ CacheScoped'
  BY <1>1 DEF IInv, OwnersExact, CacheScoped, Bindings!ScanOwners
<1>6. QED
  BY <1>3, <1>4, <1>5 DEF IInv

\* A query by id may rebuild the id lookup of its net and nothing else.
LEMMA FindIdStep ==
    ASSUME IInv, NEW net \in Nets, NEW id \in Bindings!Ids, FindRouteBindingById(net, id)
    PROVE  IInv'
<1>1. /\ id_ix' = [id_ix EXCEPT ![net] = IdIx(net)] /\ key_ix' = key_ix
      /\ UNCHANGED <<routes, data, next_id, reg, revision, owners, searching>>
  BY DEF FindRouteBindingById, cacheVars
<1>2. key_ix = [n \in Nets |-> key_ix[n]] /\ id_ix = [n \in Nets |-> id_ix[n]]
  BY DEF IInv, TypeOK, RecordsOf
<1>3. LookupsExact' /\ RegistrationsExact' /\ RecordsOf(key_ix)' /\ RecordsOf(id_ix)'
  BY <1>1, <1>2, RefreshStep
<1>4. TypeOK'
  BY <1>1, <1>3 DEF IInv, TypeOK
<1>5. OwnersExact' /\ CacheScoped'
  BY <1>1 DEF IInv, OwnersExact, CacheScoped, Bindings!ScanOwners
<1>6. QED
  BY <1>3, <1>4, <1>5 DEF IInv

\* A visit of a tile resolves its registrations and may rebuild id lookups.
LEMMA VisitStep ==
    ASSUME IInv, NEW t \in Tiles, VisitNodeOwners(t)
    PROVE  IInv'
<1>1. /\ id_ix' = Refreshed(t) /\ key_ix' = key_ix
      /\ UNCHANGED <<routes, data, next_id, reg, revision, owners, searching>>
  BY DEF VisitNodeOwners, cacheVars
<1>2. key_ix = [n \in Nets |-> key_ix[n]] /\ id_ix = [n \in Nets |-> id_ix[n]]
  BY DEF IInv, TypeOK, RecordsOf
<1>3. \A n \in Nets : id_ix'[n] \in {id_ix[n], IdIx(n)}
  BY <1>1 DEF Refreshed
<1>4. LookupsExact' /\ RegistrationsExact' /\ RecordsOf(key_ix)' /\ RecordsOf(id_ix)'
  <2>1. id_ix' = [n \in Nets |-> id_ix'[n]]
    BY <1>1 DEF Refreshed
  <2>2. QED
    BY <1>1, <1>2, <1>3, <2>1, RefreshStep
<1>5. TypeOK'
  BY <1>1, <1>4 DEF IInv, TypeOK
<1>6. OwnersExact' /\ CacheScoped'
  BY <1>1 DEF IInv, OwnersExact, CacheScoped, Bindings!ScanOwners
<1>7. QED
  BY <1>4, <1>5, <1>6 DEF IInv

\* What is kept of an owner index is exact, and what is added to it too.
LEMMA AllMatchStep ==
    ASSUME IInv, NEW t \in Tiles, AllMatch(t)
    PROVE  IInv' /\ answer' = <<"owners", t, Bindings!ScanOwners(routes, t)>>
<1>1. UNCHANGED <<routes, data, next_id, key_ix, reg, revision, searching>> /\ searching
  BY DEF AllMatch
<1>2. /\ DOMAIN Kept \subseteq Tiles
      /\ \A u \in DOMAIN Kept : Kept[u] = Bindings!ScanOwners(routes, u)
  <2>1. CASE owners.revision = revision
    BY <2>1 DEF Kept, IInv, OwnersExact, TypeOK
  <2>2. CASE owners.revision # revision
    BY <2>2 DEF Kept
  <2>3. QED
    BY <2>1, <2>2
<1>3. Resolved(t) = Bindings!ScanOwners(routes, t)
  BY ResolvedExact DEF IInv
<1>4. id_ix = [n \in Nets |-> id_ix[n]] /\ key_ix = [n \in Nets |-> key_ix[n]]
  BY DEF IInv, TypeOK, RecordsOf
<1>5. /\ answer' = <<"owners", t, Bindings!ScanOwners(routes, t)>>
      /\ owners'.revision = revision /\ DOMAIN owners'.tiles \subseteq Tiles
      /\ owners' = [revision |-> owners'.revision, tiles |-> owners'.tiles]
      /\ \A u \in DOMAIN owners'.tiles : owners'.tiles[u] = Bindings!ScanOwners(routes, u)
      /\ id_ix' \in {id_ix, Refreshed(t)}
  <2>1. CASE t \in DOMAIN Kept
    BY <2>1, <1>2 DEF AllMatch
  <2>2. CASE t \notin DOMAIN Kept
    <3> DEFINE room == IF Cardinality(DOMAIN Kept) >= CacheLimit THEN <<>> ELSE Kept
    <3>1. /\ DOMAIN room \subseteq Tiles
          /\ \A u \in DOMAIN room : room[u] = Bindings!ScanOwners(routes, u)
      BY <1>2
    <3> HIDE DEF room
    <3>2. /\ answer' = <<"owners", t, Resolved(t)>> /\ id_ix' = Refreshed(t)
          /\ owners' = [revision |-> revision,
                        tiles |-> [u \in DOMAIN room \cup {t} |-> IF u = t THEN Resolved(t) ELSE room[u]]]
      BY <2>2 DEF AllMatch, room
    <3>3. QED
      BY <3>1, <3>2, <1>3
  <2>3. QED
    BY <2>1, <2>2
<1>6. LookupsExact' /\ RegistrationsExact' /\ RecordsOf(key_ix)' /\ RecordsOf(id_ix)'
  <2>1. /\ id_ix' = [n \in Nets |-> id_ix'[n]]
        /\ \A n \in Nets : id_ix'[n] \in {id_ix[n], IdIx(n)}
    BY <1>4, <1>5 DEF Refreshed
  <2>2. QED
    BY <1>1, <1>4, <2>1, RefreshStep
<1>7. TypeOK'
  BY <1>1, <1>5, <1>6, IndexAssumption DEF IInv, TypeOK
<1>8. OwnersExact' /\ CacheScoped'
  BY <1>1, <1>5 DEF OwnersExact, CacheScoped, IInv, TypeOK, Bindings!ScanOwners
<1>9. QED
  BY <1>5, <1>6, <1>7, <1>8 DEF IInv

\* Lookups net by net, after an edit.
LookupsAt(n) ==
    /\ IsLookup(key_ix[n]) /\ KeyOK(key_ix[n], routes[n], data[n])
    /\ IsLookup(id_ix[n]) /\ IdOK(id_ix[n], routes[n], data[n])

\* What holds of the lookups of one net before a step.
LEMMA LookupsNow ==
    ASSUME IInv, NEW n \in Nets
    PROVE  /\ LookupsAt(n) /\ data[n] \in Addresses
           /\ routes[n] \in Seq(Bindings!Binding) /\ UniqueIds(routes[n])
BY LookupsByNet, RecordsEach, BoundNets DEF IInv, LookupsAt, TypeOK, Bound

\* The lookups are exact after a step if those of every net are.
LEMMA LookupsAfter ==
    ASSUME key_ix' = [n \in Nets |-> key_ix'[n]], id_ix' = [n \in Nets |-> id_ix'[n]],
           \A n \in Nets : LookupsAt(n)'
    PROVE  LookupsExact' /\ RecordsOf(key_ix)' /\ RecordsOf(id_ix)'
<1>1. LookupsExact'
  BY DEF LookupsAt, LookupsExact, Current, KeyOK, IdOK, KeyExact, IdExact
<1>2. RecordsOf(key_ix)' /\ RecordsOf(id_ix)'
  BY DEF LookupsAt, RecordsOf, IsLookup
<1>3. QED
  BY <1>1, <1>2

\* A net that a step leaves alone keeps its lookups.
LEMMA LookupsElsewhere ==
    ASSUME IInv, NEW n \in Nets, routes'[n] = routes[n], data'[n] = data[n],
           key_ix'[n] = key_ix[n], id_ix'[n] = id_ix[n]
    PROVE  LookupsAt(n)'
BY LookupsNow DEF LookupsAt

\* The variables are functions over the nets, so that they are determined net
\* by net.
LEMMA LookupFunctions ==
    ASSUME IInv
    PROVE  /\ key_ix = [n \in Nets |-> key_ix[n]] /\ id_ix = [n \in Nets |-> id_ix[n]]
           /\ data \in [Nets -> Addresses] /\ next_id \in [Nets -> 1..(MaxId + 1)]
           /\ routes \in [Nets -> Seq(Bindings!Binding)]
BY DEF IInv, TypeOK, RecordsOf

\* A search begins and ends with an empty owner index.
LEMMA SearchStep ==
    ASSUME IInv, BeginSearch \/ EndSearch
    PROVE  IInv'
<1>1. /\ UNCHANGED <<routes, answer, data, next_id, key_ix, id_ix, reg, revision>>
      /\ owners' = [revision |-> MaxRevision + 1, tiles |-> <<>>] /\ searching' \in BOOLEAN
  BY DEF BeginSearch, EndSearch, netVars
<1>2. TypeOK'
  BY <1>1, IndexAssumption DEF IInv, TypeOK, RecordsOf
<1>3. LookupsExact'
  BY <1>1, LookupFunctions, LookupsElsewhere, LookupsAfter
<1>4. RegistrationsExact'
  BY <1>1 DEF IInv, RegistrationsExact, Carries
<1>5. OwnersExact'
  BY <1>1 DEF OwnersExact
<1>6. CacheScoped'
  BY <1>1 DEF CacheScoped
<1>7. QED
  BY <1>2, <1>3, <1>4, <1>5, <1>6 DEF IInv

\* Attaching a new binding appends to the vector and to both lookups.
LEMMA AttachNewStep ==
    ASSUME IInv, NEW net \in Nets, NEW key \in Keys, NEW tiles \in SUBSET Tiles,
           NEW complete \in BOOLEAN, AttachNetRoute(net, key, tiles, complete),
           Found(net, key).index = None
    PROVE  IInv'
<1> DEFINE rs == routes[net]
           b == [key |-> key, id |-> next_id[net], tiles |-> tiles, complete |-> complete]
<1>1. PICK a \in Addresses :
        /\ data' = [data EXCEPT ![net] = a]
        /\ key_ix' = [key_ix EXCEPT ![net] = Pushed(net, b, a, KeyIx(net)).key]
        /\ id_ix' = [id_ix EXCEPT ![net] = Pushed(net, b, a, KeyIx(net)).id]
  BY DEF AttachNetRoute
<1>2. /\ tiles # {} /\ next_id[net] <= MaxId /\ Publish /\ UNCHANGED cacheVars
      /\ routes' = [routes EXCEPT ![net] = Append(rs, b)]
      /\ next_id' = [next_id EXCEPT ![net] = @ + 1]
      /\ reg' = reg \cup Registered(net, b)
  BY DEF AttachNetRoute
<1>3. next_id[net] \in 1..MaxId
  BY <1>2, LookupFunctions, IndexAssumption
<1>4. b \in Bindings!Binding
  BY <1>2, <1>3 DEF Bindings!Binding, Keys, Bindings!Ids
<1>5. /\ rs \in Seq(Bindings!Binding) /\ Append(rs, b) \in Seq(Bindings!Binding)
      /\ DOMAIN Append(rs, b) = DOMAIN rs \cup {Len(rs) + 1} /\ Len(rs) + 1 \notin DOMAIN rs
      /\ Append(rs, b)[Len(rs) + 1] = b /\ \A i \in DOMAIN rs : Append(rs, b)[i] = rs[i]
  BY <1>4, LookupsNow, AppendProperties
<1> HIDE DEF b
<1>6. LookupsAt(net)'
  <2>1. IsLookup(KeyIx(net)) /\ KeyOK(KeyIx(net), rs, data[net])
    BY KeyIxExact DEF IInv, IsLookup, KeyOK
  <2>2. b.id = next_id[net]
    BY DEF b
  <2>3. /\ IsLookup(Pushed(net, b, a, KeyIx(net)).key)
        /\ KeyOK(Pushed(net, b, a, KeyIx(net)).key, Append(rs, b), a)
        /\ IsLookup(Pushed(net, b, a, KeyIx(net)).id)
        /\ IdOK(Pushed(net, b, a, KeyIx(net)).id, Append(rs, b), a)
    BY <1>4, <2>1, <2>2, PushedOK DEF IInv
  <2>4. /\ routes'[net] = Append(rs, b) /\ data'[net] = a
        /\ key_ix'[net] = Pushed(net, b, a, KeyIx(net)).key
        /\ id_ix'[net] = Pushed(net, b, a, KeyIx(net)).id
    BY <1>1, <1>2, LookupFunctions
  <2>5. QED
    BY <2>3, <2>4 DEF LookupsAt
<1>7. \A n \in Nets : n # net => LookupsAt(n)'
  BY <1>1, <1>2, LookupFunctions, LookupsElsewhere
<1>8. LookupsExact' /\ RecordsOf(key_ix)' /\ RecordsOf(id_ix)'
  BY <1>1, <1>6, <1>7, LookupFunctions, LookupsAfter
<1>9. OwnersExact' /\ CacheScoped' /\ revision' \in 0..MaxRevision
  BY <1>2, Publication DEF IInv
<1>10. RegistrationsExact'
  <2>1. \A n \in Nets : routes'[n] = IF n = net THEN Append(rs, b) ELSE routes[n]
    BY <1>2, LookupFunctions
  <2>2. \A n \in Nets : next_id'[n] = IF n = net THEN next_id[n] + 1 ELSE next_id[n]
    BY <1>2, LookupFunctions
  <2>3. b.id = next_id[net] /\ b.tiles = tiles
    BY DEF b
  <2>4. \A i \in DOMAIN rs : rs[i].id \in Nat /\ rs[i].id < next_id[net]
    <3>1. \A i \in DOMAIN rs : rs[i] \in Bindings!Binding
      BY <1>5
    <3>2. QED
      BY <3>1, IndexAssumption, BindingTypes DEF IInv, RegistrationsExact
  <2>5. ASSUME NEW n \in Nets
        PROVE  /\ \A i, j \in DOMAIN routes'[n] : routes'[n][i].id = routes'[n][j].id => i = j
               /\ \A i \in DOMAIN routes'[n] : routes'[n][i].id < next_id'[n]
    <3>1. CASE n = net
      <4>1. /\ \A i \in DOMAIN Append(rs, b) : Append(rs, b)[i].id < next_id[net] + 1
            /\ \A i \in DOMAIN rs : Append(rs, b)[i].id # b.id
        BY <1>3, <1>5, <2>3, <2>4
      <4>2. \A i, j \in DOMAIN rs : rs[i].id = rs[j].id => i = j
        BY DEF IInv, RegistrationsExact
      <4>3. \A i, j \in DOMAIN Append(rs, b) : Append(rs, b)[i].id = Append(rs, b)[j].id => i = j
        BY <4>1, <4>2, <1>5
      <4>4. routes'[n] = Append(rs, b) /\ next_id'[n] = next_id[net] + 1
        BY <3>1, <2>1, <2>2
      <4>5. QED
        BY <4>1, <4>3, <4>4
    <3>2. CASE n # net
      BY <3>2, <2>1, <2>2 DEF IInv, RegistrationsExact
    <3>3. QED
      BY <3>1, <3>2
  <2>6. \A r \in Registration : Carries(Append(rs, b), r) <=>
           Carries(rs, r) \/ (r.id = next_id[net] /\ r.tile \in tiles)
    BY <1>5, <2>3 DEF Carries
  <2>7. \A r : r \in Registered(net, b) <=>
           r \in Registration /\ r.net = net /\ r.id = next_id[net] /\ r.tile \in tiles
    BY <1>3, <2>3 DEF Registered, Registration, Bindings!Ids
  <2>8. reg' = {r \in Registration : Carries(routes'[r.net], r)}
    <3>1. \A r \in Registration : r.net \in Nets
      BY DEF Registration
    <3>2. reg = {r \in Registration : Carries(routes[r.net], r)}
      BY DEF IInv, RegistrationsExact
    <3>3. QED
      BY <1>2, <2>1, <2>6, <2>7, <3>1, <3>2
  <2>9. QED
    BY <2>5, <2>8 DEF RegistrationsExact
<1>11. TypeOK'
  <2>1. routes' \in [Nets -> Seq(Bindings!Binding)] /\ data' \in [Nets -> Addresses]
    BY <1>1, <1>2, <1>5, LookupFunctions
  <2>2. next_id' \in [Nets -> 1..(MaxId + 1)]
    BY <1>2, <1>3, LookupFunctions, IndexAssumption
  <2>3. reg' \subseteq Registration
    BY <1>10 DEF RegistrationsExact
  <2>4. owners' = owners /\ searching' = searching
    BY <1>2 DEF cacheVars
  <2>5. QED
    BY <1>8, <1>9, <2>1, <2>2, <2>3, <2>4 DEF IInv, TypeOK
<1>12. QED
  BY <1>8, <1>9, <1>10, <1>11 DEF IInv

\* An edit in place keeps number, order and identities of the bindings.
LEMMA InPlaceStep ==
    ASSUME IInv, NEW net \in Nets, NEW new \in Seq(Bindings!Binding), SameIds(routes[net], new),
           routes' = [routes EXCEPT ![net] = new],
           UNCHANGED <<data, next_id, id_ix>>,
           NEW x, key_ix' = [key_ix EXCEPT ![net] = x],
           IsLookup(x), KeyOK(x, new, data[net]),
           reg' = {r \in Registration : IF r.net = net THEN Carries(new, r) ELSE Carries(routes[r.net], r)},
           Publish, UNCHANGED cacheVars
    PROVE  IInv'
<1>1. \A n \in Nets : routes'[n] = IF n = net THEN new ELSE routes[n]
  BY LookupFunctions
<1>2. LookupsAt(net)'
  <2>1. IdOK(id_ix[net], new, data[net]) /\ IsLookup(id_ix[net])
    BY LookupsNow, SameIdsOK DEF LookupsAt
  <2>2. routes'[net] = new /\ key_ix'[net] = x
    BY LookupFunctions
  <2>3. QED
    BY <2>1, <2>2 DEF LookupsAt
<1>3. \A n \in Nets : n # net => LookupsAt(n)'
  BY LookupFunctions, LookupsElsewhere
<1>4. LookupsExact' /\ RecordsOf(key_ix)' /\ RecordsOf(id_ix)'
  BY <1>2, <1>3, LookupFunctions, LookupsAfter
<1>5. OwnersExact' /\ CacheScoped' /\ revision' \in 0..MaxRevision
  BY Publication DEF IInv
<1>6. RegistrationsExact'
  <2>1. DOMAIN new = DOMAIN routes[net]
    BY LookupsNow DEF SameIds
  <2>2. ASSUME NEW n \in Nets
        PROVE  /\ \A i, j \in DOMAIN routes'[n] : routes'[n][i].id = routes'[n][j].id => i = j
               /\ \A i \in DOMAIN routes'[n] : routes'[n][i].id < next_id'[n]
    <3>1. CASE n = net
      BY <3>1, <1>1, <2>1 DEF IInv, RegistrationsExact, SameIds
    <3>2. CASE n # net
      BY <3>2, <1>1 DEF IInv, RegistrationsExact
    <3>3. QED
      BY <3>1, <3>2
  <2>3. reg' = {r \in Registration : Carries(routes'[r.net], r)}
    BY <1>1 DEF Registration
  <2>4. QED
    BY <2>2, <2>3 DEF RegistrationsExact
<1>7. TypeOK'
  <2>1. routes' \in [Nets -> Seq(Bindings!Binding)]
    BY LookupFunctions
  <2>2. reg' \subseteq Registration /\ owners' = owners /\ searching' = searching
    BY DEF cacheVars
  <2>3. QED
    BY <1>4, <1>5, <2>1, <2>2 DEF IInv, TypeOK
<1>8. QED
  BY <1>4, <1>5, <1>6, <1>7 DEF IInv

\* One binding gets another route, its key and identity stay.
LEMMA ReroutedBinding ==
    ASSUME NEW rs \in Seq(Bindings!Binding), NEW i \in DOMAIN rs,
           NEW tiles \in SUBSET Tiles, NEW complete \in BOOLEAN, complete => tiles # {}
    PROVE  LET new == Bindings!Rerouted(rs, i, tiles, complete)
           IN  /\ new \in Seq(Bindings!Binding) /\ SameKeys(rs, new) /\ SameIds(rs, new)
               /\ new[i].tiles = tiles /\ \A j \in DOMAIN rs : j # i => new[j] = rs[j]
<1> DEFINE new == Bindings!Rerouted(rs, i, tiles, complete)
           b == [rs[i] EXCEPT !.tiles = tiles, !.complete = complete]
<1>1. rs[i] \in Bindings!Binding
  OBVIOUS
<1>2. b \in Bindings!Binding /\ b.key = rs[i].key /\ b.id = rs[i].id /\ b.tiles = tiles
  BY <1>1 DEF Bindings!Binding
<1>3. new = [rs EXCEPT ![i] = b]
  BY DEF Bindings!Rerouted
<1> HIDE DEF b, new
<1>4. /\ new \in Seq(Bindings!Binding) /\ Len(new) = Len(rs) /\ new[i] = b
      /\ \A j \in DOMAIN rs : j # i => new[j] = rs[j]
  BY <1>2, <1>3
<1>5. SameKeys(rs, new) /\ SameIds(rs, new)
  BY <1>2, <1>4 DEF SameKeys, SameIds
<1>6. QED
  BY <1>2, <1>4, <1>5 DEF new

\* rebuildNetRouteTiles after such an edit, given the tiles of the old route.
LEMMA ReroutedRegistrations ==
    ASSUME IInv, NEW net \in Nets, NEW i \in DOMAIN routes[net],
           NEW new, SameIds(routes[net], new), \A j \in DOMAIN routes[net] : j # i => new[j] = routes[net][j]
    PROVE  Rebuilt(net, new, routes[net][i].tiles) =
              {r \in Registration : IF r.net = net THEN Carries(new, r) ELSE Carries(routes[r.net], r)}
<1>1. ASSUME NEW r \in Registration, r.net = net, Carries(routes[net], r),
             r.tile \notin routes[net][i].tiles
      PROVE  Carries(new, r)
  <2>1. PICK j \in DOMAIN routes[net] : routes[net][j].id = r.id /\ r.tile \in routes[net][j].tiles
    BY <1>1 DEF Carries
  <2>2. j # i /\ new[j] = routes[net][j]
    BY <1>1, <2>1
  <2>3. j \in DOMAIN new
    BY LookupsNow DEF SameIds
  <2>4. QED
    BY <2>1, <2>2, <2>3 DEF Carries
<1>2. QED
  BY <1>1, RebuiltExact DEF IInv

\* Attaching to an existing binding keeps keys, ids and positions.
LEMMA AttachAgainStep ==
    ASSUME IInv, NEW net \in Nets, NEW key \in Keys, NEW tiles \in SUBSET Tiles,
           NEW complete \in BOOLEAN, AttachNetRoute(net, key, tiles, complete),
           Found(net, key).index # None
    PROVE  IInv'
<1> DEFINE rs == routes[net]
           at == Found(net, key).index
           new == Bindings!Rerouted(rs, at, tiles, complete)
<1>1. at \in DOMAIN rs
  <2>1. at = Bindings!ScanKey(rs, key).index
    BY FoundExact DEF IInv
  <2>2. /\ Bindings!WithKey(rs, key) # {} /\ at = Bindings!First(Bindings!WithKey(rs, key))
    BY <2>1 DEF Bindings!ScanKey, None
  <2>3. Bindings!WithKey(rs, key) \in SUBSET Nat
    BY LookupsNow, PositionSets
  <2>4. at \in Bindings!WithKey(rs, key)
    BY <2>2, <2>3, FirstOf
  <2>5. QED
    BY <2>4 DEF Bindings!WithKey
<1>2. /\ tiles # {} /\ Publish /\ UNCHANGED cacheVars /\ UNCHANGED <<data, next_id, id_ix>>
      /\ routes' = [routes EXCEPT ![net][at].tiles = tiles, ![net][at].complete = complete]
      /\ key_ix' = [key_ix EXCEPT ![net] = KeyIx(net)]
      /\ reg' = Rebuilt(net, routes'[net], rs[at].tiles)
  BY DEF AttachNetRoute
<1> HIDE DEF at
<1>3. routes' = [routes EXCEPT ![net] = new]
  BY <1>2 DEF Bindings!Rerouted
<1>4. /\ new \in Seq(Bindings!Binding) /\ SameKeys(rs, new) /\ SameIds(rs, new)
      /\ \A j \in DOMAIN rs : j # at => new[j] = rs[j]
  BY <1>1, <1>2, LookupsNow, ReroutedBinding
<1>5. IsLookup(KeyIx(net)) /\ KeyOK(KeyIx(net), new, data[net])
  <2>1. IsLookup(KeyIx(net)) /\ KeyOK(KeyIx(net), rs, data[net])
    BY KeyIxExact DEF IInv, IsLookup, KeyOK
  <2>2. QED
    BY <2>1, <1>4, LookupsNow, SameKeysOK
<1>6. reg' = {r \in Registration : IF r.net = net THEN Carries(new, r) ELSE Carries(routes[r.net], r)}
  <2>1. routes'[net] = new
    BY <1>3, LookupFunctions
  <2>2. QED
    BY <1>1, <1>2, <1>4, <2>1, ReroutedRegistrations
<1> HIDE DEF new
<1>7. QED
  BY <1>2, <1>3, <1>4, <1>5, <1>6, InPlaceStep

\* Cutting a route changes the tiles of one binding and no lookup.
LEMMA CutStep ==
    ASSUME IInv, NEW net \in Nets, NEW i \in DOMAIN routes[net], NEW rest \in SUBSET Tiles,
           CutRoute(net, i, rest)
    PROVE  IInv'
<1> DEFINE rs == routes[net]
           new == Bindings!Rerouted(rs, i, rest, FALSE)
<1>1. /\ Publish /\ UNCHANGED cacheVars /\ UNCHANGED <<data, next_id, id_ix, key_ix>>
      /\ routes' = [routes EXCEPT ![net][i] = Shortened(@, rest)]
      /\ reg' = Rebuilt(net, routes'[net], rs[i].tiles)
  BY DEF CutRoute, netVars
<1>2. routes' = [routes EXCEPT ![net] = new]
  BY <1>1 DEF Bindings!Rerouted, Shortened
<1>3. /\ new \in Seq(Bindings!Binding) /\ SameKeys(rs, new) /\ SameIds(rs, new)
      /\ \A j \in DOMAIN rs : j # i => new[j] = rs[j]
  BY LookupsNow, ReroutedBinding
<1>4. IsLookup(key_ix[net]) /\ KeyOK(key_ix[net], new, data[net])
  BY <1>3, LookupsNow, SameKeysOK DEF LookupsAt
<1>5. key_ix' = [key_ix EXCEPT ![net] = key_ix[net]]
  BY <1>1, LookupFunctions
<1>6. reg' = {r \in Registration : IF r.net = net THEN Carries(new, r) ELSE Carries(routes[r.net], r)}
  <2>1. routes'[net] = new
    BY <1>2, LookupFunctions
  <2> HIDE DEF new
  <2>2. QED
    BY <1>1, <1>3, <2>1, ReroutedRegistrations
<1> HIDE DEF new
<1>7. QED
  BY <1>1, <1>2, <1>3, <1>4, <1>5, <1>6, InPlaceStep

\* Keys are replaced, everything else stays.
LEMMA RekeyedBindings ==
    ASSUME NEW rs \in Seq(Bindings!Binding), NEW new, new = [i \in DOMAIN rs |-> new[i]],
           \A i \in DOMAIN rs : /\ new[i] \in Bindings!Binding
                                /\ new[i].id = rs[i].id /\ new[i].tiles = rs[i].tiles
    PROVE  new \in Seq(Bindings!Binding) /\ SameIds(rs, new)
<1>1. DOMAIN rs = 1..Len(rs) /\ Len(rs) \in Nat
  OBVIOUS
<1>2. new \in [1..Len(rs) -> Bindings!Binding]
  BY <1>1
<1>3. new \in Seq(Bindings!Binding) /\ Len(new) = Len(rs)
  BY <1>1, <1>2
<1>4. QED
  BY <1>3 DEF SameIds

\* The same ids with the same tiles are carried by the same tiles.
LEMMA SameCarries ==
    ASSUME NEW rs \in Seq(Bindings!Binding), NEW new \in Seq(Bindings!Binding), SameIds(rs, new),
           \A i \in DOMAIN rs : new[i].tiles = rs[i].tiles
    PROVE  \A r : Carries(new, r) <=> Carries(rs, r)
<1>1. DOMAIN new = DOMAIN rs
  BY DEF SameIds
<1>2. QED
  BY <1>1 DEF Carries, SameIds

\* Retargeting a driver rewrites keys and invalidates the key lookup.
LEMMA RetargetSourceStep ==
    ASSUME IInv, NEW net \in Nets, NEW old \in Froms, NEW new \in Froms, RetargetSource(net, old, new)
    PROVE  IInv'
<1> DEFINE rs == routes[net]
           moved == [i \in DOMAIN rs |-> IF rs[i].key.from = old THEN [rs[i] EXCEPT !.key.from = new]
                                         ELSE rs[i]]
<1>1. /\ Publish /\ UNCHANGED cacheVars /\ UNCHANGED <<data, next_id, id_ix, reg>>
      /\ routes' = [routes EXCEPT ![net] = moved]
      /\ key_ix' = [key_ix EXCEPT ![net] = Invalidated(key_ix[net])]
  BY LookupFunctions DEF RetargetSource, Rekeyed
<1>2. \A i \in DOMAIN rs : rs[i] \in Bindings!Binding
  BY LookupsNow
<1>3. /\ moved = [i \in DOMAIN rs |-> moved[i]]
      /\ \A i \in DOMAIN rs : /\ moved[i] \in Bindings!Binding
                               /\ moved[i].id = rs[i].id /\ moved[i].tiles = rs[i].tiles
  BY <1>2 DEF Bindings!Binding, Bindings!Keys, Keys
<1> HIDE DEF moved
<1>4. /\ moved \in Seq(Bindings!Binding) /\ SameIds(rs, moved)
      /\ \A i \in DOMAIN rs : moved[i].tiles = rs[i].tiles
  BY <1>3, LookupsNow, RekeyedBindings
<1>5. IsLookup(Invalidated(key_ix[net])) /\ KeyOK(Invalidated(key_ix[net]), moved, data[net])
  BY LookupsNow, InvalidatedOK DEF LookupsAt
<1>6. reg' = {r \in Registration : IF r.net = net THEN Carries(moved, r) ELSE Carries(routes[r.net], r)}
  <2>1. \A r : Carries(moved, r) <=> Carries(rs, r)
    BY <1>4, LookupsNow, SameCarries
  <2>2. reg = {r \in Registration : Carries(routes[r.net], r)}
    BY DEF IInv, RegistrationsExact
  <2>3. QED
    BY <1>1, <2>1, <2>2
<1>7. QED
  BY <1>1, <1>4, <1>5, <1>6, InPlaceStep

\* Retargeting one key does the same for one binding.
LEMMA RetargetKeyStep ==
    ASSUME IInv, NEW net \in Nets, NEW old \in Keys, NEW new \in Keys, RetargetKey(net, old, new)
    PROVE  IInv'
<1> DEFINE rs == routes[net]
           moved == [i \in DOMAIN rs |-> IF rs[i].key = old THEN [rs[i] EXCEPT !.key = new] ELSE rs[i]]
           touched == UNION {rs[i].tiles : i \in Bindings!WithKey(rs, old)}
<1>1. /\ Publish /\ UNCHANGED cacheVars /\ UNCHANGED <<data, next_id, id_ix>>
      /\ routes' = [routes EXCEPT ![net] = moved]
      /\ key_ix' = [key_ix EXCEPT ![net] = Invalidated(key_ix[net])]
      /\ reg' = Rebuilt(net, routes'[net], touched)
  BY LookupFunctions DEF RetargetKey, Rekeyed
<1>2. \A i \in DOMAIN rs : rs[i] \in Bindings!Binding
  BY LookupsNow
<1>3. /\ moved = [i \in DOMAIN rs |-> moved[i]]
      /\ \A i \in DOMAIN rs : /\ moved[i] \in Bindings!Binding
                               /\ moved[i].id = rs[i].id /\ moved[i].tiles = rs[i].tiles
  BY <1>2 DEF Bindings!Binding, Bindings!Keys, Keys
<1> HIDE DEF moved, touched
<1>4. /\ moved \in Seq(Bindings!Binding) /\ SameIds(rs, moved)
      /\ \A i \in DOMAIN rs : moved[i].tiles = rs[i].tiles
  BY <1>3, LookupsNow, RekeyedBindings
<1>5. IsLookup(Invalidated(key_ix[net])) /\ KeyOK(Invalidated(key_ix[net]), moved, data[net])
  BY LookupsNow, InvalidatedOK DEF LookupsAt
<1>6. reg' = {r \in Registration : IF r.net = net THEN Carries(moved, r) ELSE Carries(routes[r.net], r)}
  <2>1. \A r : Carries(moved, r) <=> Carries(rs, r)
    BY <1>4, LookupsNow, SameCarries
  <2>2. routes'[net] = moved
    BY <1>1, LookupFunctions
  <2>3. QED
    BY <1>1, <2>1, <2>2, RebuiltExact DEF IInv
<1>7. QED
  BY <1>1, <1>4, <1>5, <1>6, InPlaceStep

\* The bindings left after one is taken out are those there were before,
\* each at a position of its own.
LEMMA LeftOver ==
    ASSUME NEW rs \in Seq(Bindings!Binding), UniqueIds(rs), NEW i \in DOMAIN rs
    PROVE  LET new == Bindings!Without(rs, i)
           IN  /\ new \in Seq(Bindings!Binding) /\ UniqueIds(new)
               /\ \A k \in DOMAIN new : \E j \in DOMAIN rs : j # i /\ new[k] = rs[j]
               /\ \A r : Carries(new, r) <=>
                     \E j \in DOMAIN rs : j # i /\ rs[j].id = r.id /\ r.tile \in rs[j].tiles
<1> DEFINE new == Bindings!Without(rs, i)
           from == [k \in 1..(Len(rs) - 1) |-> IF k < i THEN k ELSE k + 1]
<1>1. /\ Len(rs) \in Nat /\ DOMAIN rs = 1..Len(rs) /\ i \in 1..Len(rs)
  OBVIOUS
<1>2. /\ new \in Seq(Bindings!Binding) /\ Len(new) = Len(rs) - 1
      /\ \A k \in 1..(Len(rs) - 1) : new[k] = IF k < i THEN rs[k] ELSE rs[k + 1]
  BY <1>1, WithoutElements
<1> HIDE DEF new
<1>3. DOMAIN new = 1..(Len(rs) - 1)
  BY <1>2
<1>4. /\ \A k \in DOMAIN new : from[k] \in DOMAIN rs /\ from[k] # i /\ new[k] = rs[from[k]]
      /\ \A k, l \in DOMAIN new : from[k] = from[l] => k = l
  BY <1>1, <1>2, <1>3
<1>5. ASSUME NEW j \in DOMAIN rs, j # i
      PROVE  \E k \in DOMAIN new : new[k] = rs[j]
  <2>1. CASE j < i
    <3>1. j \in DOMAIN new /\ new[j] = rs[j]
      BY <2>1, <1>1, <1>2, <1>3
    <3>2. QED
      BY <3>1
  <2>2. CASE i < j
    <3>1. j - 1 \in DOMAIN new /\ ~(j - 1 < i) /\ (j - 1) + 1 = j
      BY <2>2, <1>1, <1>3
    <3>2. new[j - 1] = rs[j]
      BY <3>1, <1>2, <1>3
    <3>3. QED
      BY <3>1, <3>2
  <2>3. QED
    BY <2>1, <2>2, <1>1, <1>5
<1> HIDE DEF from
<1>6. UniqueIds(new)
  BY <1>4 DEF UniqueIds
<1>7. \A k \in DOMAIN new : \E j \in DOMAIN rs : j # i /\ new[k] = rs[j]
  BY <1>4
<1>8. \A r : Carries(new, r) <=>
         \E j \in DOMAIN rs : j # i /\ rs[j].id = r.id /\ r.tile \in rs[j].tiles
  BY <1>5, <1>7 DEF Carries
<1>9. QED
  BY <1>2, <1>6, <1>7, <1>8 DEF new

\* A net loses bindings that own nothing.
LEMMA RemovalStep ==
    ASSUME IInv, ~searching, NEW net \in Nets, NEW new \in Seq(Bindings!Binding), UniqueIds(new),
           \A k \in DOMAIN new : \E j \in DOMAIN routes[net] : new[k] = routes[net][j],
           \A r : Carries(new, r) <=> Carries(routes[net], r),
           routes' = [routes EXCEPT ![net] = new],
           key_ix' = [key_ix EXCEPT ![net] = Invalidated(key_ix[net])],
           id_ix' = [id_ix EXCEPT ![net] = Invalidated(id_ix[net])],
           UNCHANGED <<data, next_id, reg, revision, cacheVars>>
    PROVE  IInv'
<1>1. \A n \in Nets : routes'[n] = IF n = net THEN new ELSE routes[n]
  BY LookupFunctions
<1>2. LookupsAt(net)'
  <2>1. /\ key_ix'[net] = Invalidated(key_ix[net]) /\ id_ix'[net] = Invalidated(id_ix[net])
        /\ data'[net] = data[net] /\ data[net] \in Addresses
    BY LookupFunctions
  <2>2. IsLookup(key_ix[net]) /\ IsLookup(id_ix[net])
    BY LookupsNow DEF LookupsAt
  <2>3. /\ IsLookup(Invalidated(key_ix[net])) /\ KeyOK(Invalidated(key_ix[net]), routes'[net], data[net])
        /\ IsLookup(Invalidated(id_ix[net])) /\ IdOK(Invalidated(id_ix[net]), routes'[net], data[net])
    BY <2>1, <2>2, InvalidatedOK
  <2>4. QED
    BY <2>1, <2>3 DEF LookupsAt
<1>3. \A n \in Nets : n # net => LookupsAt(n)'
  BY <1>1, LookupFunctions, LookupsElsewhere
<1>4. LookupsExact' /\ RecordsOf(key_ix)' /\ RecordsOf(id_ix)'
  BY <1>2, <1>3, LookupFunctions, LookupsAfter
<1>5. OwnersExact' /\ CacheScoped'
  BY NoSearch DEF IInv, cacheVars
<1>6. RegistrationsExact'
  <2>1. ASSUME NEW n \in Nets
        PROVE  /\ \A i, j \in DOMAIN routes'[n] : routes'[n][i].id = routes'[n][j].id => i = j
               /\ \A i \in DOMAIN routes'[n] : routes'[n][i].id < next_id'[n]
    <3>1. CASE n = net
      BY <3>1, <1>1 DEF IInv, RegistrationsExact, UniqueIds
    <3>2. CASE n # net
      BY <3>2, <1>1 DEF IInv, RegistrationsExact
    <3>3. QED
      BY <3>1, <3>2
  <2>2. reg' = {r \in Registration : Carries(routes'[r.net], r)}
    BY <1>1 DEF Registration, IInv, RegistrationsExact
  <2>3. QED
    BY <2>1, <2>2 DEF RegistrationsExact
<1>7. TypeOK'
  <2>1. routes' \in [Nets -> Seq(Bindings!Binding)]
    BY LookupFunctions
  <2>2. QED
    BY <1>4, <2>1 DEF IInv, TypeOK, cacheVars
<1>8. QED
  BY <1>4, <1>5, <1>6, <1>7 DEF IInv

\* Erasing shifts positions and drops both lookups of the net.
LEMMA EraseStep ==
    ASSUME IInv, NEW net \in Nets, NEW i \in DOMAIN routes[net], EraseRouteBinding(net, i)
    PROVE  IInv'
<1> DEFINE new == Bindings!Without(routes[net], i)
<1>1. /\ ~searching /\ routes[net][i].tiles = {}
      /\ UNCHANGED <<data, next_id, reg, revision, cacheVars>>
      /\ routes' = [routes EXCEPT ![net] = new]
      /\ key_ix' = [key_ix EXCEPT ![net] = Invalidated(key_ix[net])]
      /\ id_ix' = [id_ix EXCEPT ![net] = Invalidated(id_ix[net])]
  BY LookupFunctions DEF EraseRouteBinding, Dropped
<1> HIDE DEF new
<1>2. /\ new \in Seq(Bindings!Binding) /\ UniqueIds(new)
      /\ \A k \in DOMAIN new : \E j \in DOMAIN routes[net] : j # i /\ new[k] = routes[net][j]
      /\ \A r : Carries(new, r) <=>
            \E j \in DOMAIN routes[net] :
               j # i /\ routes[net][j].id = r.id /\ r.tile \in routes[net][j].tiles
  BY LookupsNow, LeftOver DEF new
<1>3. \A r : Carries(new, r) <=> Carries(routes[net], r)
  BY <1>1, <1>2 DEF Carries
<1>4. \A k \in DOMAIN new : \E j \in DOMAIN routes[net] : new[k] = routes[net][j]
  BY <1>2
<1>5. QED
  BY <1>1, <1>2, <1>3, <1>4, RemovalStep

\* Clearing a net empties its vector and drops both lookups.
LEMMA ClearStep ==
    ASSUME IInv, NEW net \in Nets, ClearRouteBindings(net)
    PROVE  IInv'
<1> DEFINE new == <<>>
<1>1. /\ ~searching /\ \A i \in DOMAIN routes[net] : routes[net][i].tiles = {}
      /\ UNCHANGED <<data, next_id, reg, revision, cacheVars>>
      /\ routes' = [routes EXCEPT ![net] = new]
      /\ key_ix' = [key_ix EXCEPT ![net] = Invalidated(key_ix[net])]
      /\ id_ix' = [id_ix EXCEPT ![net] = Invalidated(id_ix[net])]
  BY LookupFunctions DEF ClearRouteBindings, Dropped
<1>2. new \in Seq(Bindings!Binding) /\ DOMAIN new = {}
  OBVIOUS
<1> HIDE DEF new
<1>3. UniqueIds(new) /\ \A r : Carries(new, r) <=> Carries(routes[net], r)
  BY <1>1, <1>2 DEF UniqueIds, Carries
<1>4. \A k \in DOMAIN new : \E j \in DOMAIN routes[net] : new[k] = routes[net][j]
  BY <1>2
<1>5. QED
  BY <1>1, <1>2, <1>3, <1>4, RemovalStep

\* A transfer erases in one net and appends in the other.
LEMMA TransferStep ==
    ASSUME IInv, NEW net \in Nets, NEW other \in Nets, NEW i \in DOMAIN routes[net],
           NEW key \in Keys, Transfer(net, other, i, key)
    PROVE  IInv'
<1> DEFINE left == Bindings!Without(routes[net], i)
           b == [routes[net][i] EXCEPT !.key = key, !.id = next_id[other]]
           into == Append(routes[other], b)
<1>1. /\ net # other /\ next_id[other] <= MaxId /\ Publish /\ UNCHANGED cacheVars
      /\ routes' = [routes EXCEPT ![net] = left, ![other] = into]
      /\ next_id' = [next_id EXCEPT ![other] = @ + 1]
      /\ reg' = Rebuilt(net, routes'[net], routes[net][i].tiles) \cup Registered(other, b)
  BY DEF Transfer
<1>2. PICK a \in Addresses :
        /\ data' = [data EXCEPT ![other] = a]
        /\ key_ix' = [key_ix EXCEPT ![net] = Invalidated(key_ix[net]),
                                    ![other] = Invalidated(Pushed(other, b, a, key_ix[other]).key)]
        /\ id_ix' = [id_ix EXCEPT ![net] = Invalidated(id_ix[net]),
                                  ![other] = Pushed(other, b, a, key_ix[other]).id]
  BY <1>1, LookupFunctions DEF Transfer, Dropped, Rekeyed
<1>3. next_id[other] \in 1..MaxId
  BY <1>1, LookupFunctions, IndexAssumption
<1>4. /\ b \in Bindings!Binding /\ b.id = next_id[other]
      /\ b.tiles = routes[net][i].tiles
  <2>1. routes[net][i] \in Bindings!Binding
    BY LookupsNow
  <2>2. QED
    BY <1>3, <2>1 DEF Bindings!Binding, Keys, Bindings!Ids
<1> HIDE DEF b
<1>5. /\ routes[other] \in Seq(Bindings!Binding) /\ into \in Seq(Bindings!Binding)
      /\ DOMAIN into = DOMAIN routes[other] \cup {Len(routes[other]) + 1}
      /\ Len(routes[other]) + 1 \notin DOMAIN routes[other]
      /\ into[Len(routes[other]) + 1] = b
      /\ \A k \in DOMAIN routes[other] : into[k] = routes[other][k]
  BY <1>4, LookupsNow, AppendProperties
<1>6. /\ left \in Seq(Bindings!Binding) /\ UniqueIds(left)
      /\ \A k \in DOMAIN left : \E j \in DOMAIN routes[net] : j # i /\ left[k] = routes[net][j]
      /\ \A r : Carries(left, r) <=>
            \E j \in DOMAIN routes[net] :
               j # i /\ routes[net][j].id = r.id /\ r.tile \in routes[net][j].tiles
  BY LookupsNow, LeftOver
<1> HIDE DEF left, into
<1>7. /\ routes'[net] = left /\ routes'[other] = into
      /\ \A n \in Nets : n # net /\ n # other => routes'[n] = routes[n]
  BY <1>1, LookupFunctions
<1>8. \A n \in Nets : next_id'[n] = IF n = other THEN next_id[n] + 1 ELSE next_id[n]
  BY <1>1, LookupFunctions
<1>9. LookupsAt(net)'
  <2>1. /\ key_ix'[net] = Invalidated(key_ix[net]) /\ id_ix'[net] = Invalidated(id_ix[net])
        /\ data'[net] = data[net] /\ data[net] \in Addresses
    BY <1>1, <1>2, LookupFunctions
  <2>2. IsLookup(key_ix[net]) /\ IsLookup(id_ix[net])
    BY LookupsNow DEF LookupsAt
  <2>3. /\ IsLookup(Invalidated(key_ix[net])) /\ KeyOK(Invalidated(key_ix[net]), left, data[net])
        /\ IsLookup(Invalidated(id_ix[net])) /\ IdOK(Invalidated(id_ix[net]), left, data[net])
    BY <2>1, <2>2, InvalidatedOK
  <2>4. QED
    BY <1>7, <2>1, <2>3 DEF LookupsAt
<1>10. LookupsAt(other)'
  <2> DEFINE push == Pushed(other, b, a, key_ix[other])
  <2>1. IsLookup(key_ix[other]) /\ KeyOK(key_ix[other], routes[other], data[other])
    BY LookupsNow DEF LookupsAt
  <2>2. /\ IsLookup(push.key) /\ IsLookup(push.id) /\ IdOK(push.id, into, a)
    BY <1>4, <2>1, PushedOK DEF IInv, into
  <2>3. IsLookup(Invalidated(push.key)) /\ KeyOK(Invalidated(push.key), into, a)
    BY <2>2, InvalidatedOK
  <2>4. /\ key_ix'[other] = Invalidated(push.key) /\ id_ix'[other] = push.id /\ data'[other] = a
    BY <1>1, <1>2, LookupFunctions
  <2>5. QED
    BY <1>7, <2>2, <2>3, <2>4 DEF LookupsAt
<1>11. LookupsExact' /\ RecordsOf(key_ix)' /\ RecordsOf(id_ix)'
  <2>1. \A n \in Nets : n # net /\ n # other => LookupsAt(n)'
    BY <1>2, <1>7, LookupFunctions, LookupsElsewhere
  <2>2. QED
    BY <1>2, <1>9, <1>10, <2>1, LookupFunctions, LookupsAfter
<1>12. OwnersExact' /\ CacheScoped' /\ revision' \in 0..MaxRevision
  BY <1>1, Publication DEF IInv
<1>13. ASSUME NEW n \in Nets
       PROVE  /\ \A k, j \in DOMAIN routes'[n] : routes'[n][k].id = routes'[n][j].id => k = j
              /\ \A k \in DOMAIN routes'[n] : routes'[n][k].id < next_id'[n]
  <2>1. CASE n = net
    <3>1. \A k \in DOMAIN left : left[k].id < next_id[net]
      BY <1>6 DEF IInv, RegistrationsExact
    <3>2. routes'[n] = left /\ next_id'[n] = next_id[net]
      BY <2>1, <1>1, <1>7, <1>8
    <3>3. QED
      BY <3>1, <3>2, <1>6 DEF UniqueIds
  <2>2. CASE n = other
    <3>1. \A k \in DOMAIN routes[other] :
             into[k].id \in Nat /\ into[k].id < next_id[other] /\ into[k].id # b.id
      <4>1. \A k \in DOMAIN routes[other] : routes[other][k] \in Bindings!Binding
        BY <1>5
      <4>2. \A k \in DOMAIN routes[other] :
               routes[other][k].id \in Nat /\ routes[other][k].id < next_id[other]
        BY <4>1, IndexAssumption, BindingTypes DEF IInv, RegistrationsExact
      <4>3. QED
        BY <4>2, <1>3, <1>4, <1>5
    <3>2. \A k \in DOMAIN into : into[k].id < next_id[other] + 1
      BY <3>1, <1>3, <1>4, <1>5
    <3>3. \A k, j \in DOMAIN routes[other] : routes[other][k].id = routes[other][j].id => k = j
      BY DEF IInv, RegistrationsExact
    <3>4. \A k, j \in DOMAIN into : into[k].id = into[j].id => k = j
      BY <3>1, <3>3, <1>5
    <3>5. QED
      BY <2>2, <3>2, <3>4, <1>7, <1>8
  <2>3. CASE n # net /\ n # other
    BY <2>3, <1>7, <1>8 DEF IInv, RegistrationsExact
  <2>4. QED
    BY <2>1, <2>2, <2>3
<1>14. reg' = {r \in Registration : Carries(routes'[r.net], r)}
  <2>1. Rebuilt(net, left, routes[net][i].tiles) =
           {r \in Registration : IF r.net = net THEN Carries(left, r) ELSE Carries(routes[r.net], r)}
    <3>1. \A r \in Registration :
             r.net = net /\ Carries(routes[net], r) /\ r.tile \notin routes[net][i].tiles
                => Carries(left, r)
      BY <1>6 DEF Carries
    <3>2. QED
      BY <3>1, RebuiltExact DEF IInv
  <2>2. \A r \in Registration : Carries(into, r) <=>
           Carries(routes[other], r) \/ (r.id = next_id[other] /\ r.tile \in b.tiles)
    BY <1>4, <1>5 DEF Carries
  <2>3. \A r : r \in Registered(other, b) <=>
           r \in Registration /\ r.net = other /\ r.id = next_id[other] /\ r.tile \in b.tiles
    <3>1. b.tiles \subseteq Tiles
      BY <1>4, BindingTypes
    <3>2. QED
      BY <3>1, <1>3, <1>4 DEF Registered, Registration, Bindings!Ids
  <2>4. \A r \in Registration : r.net \in Nets
    BY DEF Registration
  <2>5. ASSUME NEW r \in Registration
        PROVE  r \in reg' <=> Carries(routes'[r.net], r)
    <3>1. r \in reg' <=> \/ IF r.net = net THEN Carries(left, r) ELSE Carries(routes[r.net], r)
                         \/ r.net = other /\ r.id = next_id[other] /\ r.tile \in b.tiles
      BY <1>1, <1>7, <2>1, <2>3
    <3>2. CASE r.net = net
      BY <3>1, <3>2, <1>1, <1>7
    <3>3. CASE r.net = other
      BY <3>1, <3>3, <1>1, <1>7, <2>2
    <3>4. CASE r.net # net /\ r.net # other
      BY <3>1, <3>4, <1>7, <2>4
    <3>5. QED
      BY <3>2, <3>3, <3>4
  <2>6. reg' \subseteq Registration
    BY <1>1, <1>7, <2>1, <2>3
  <2>7. QED
    BY <2>5, <2>6
<1>15. RegistrationsExact'
  BY <1>13, <1>14 DEF RegistrationsExact
<1>16. TypeOK'
  <2>1. routes' \in [Nets -> Seq(Bindings!Binding)] /\ data' \in [Nets -> Addresses]
    BY <1>1, <1>2, <1>5, <1>6, LookupFunctions
  <2>2. next_id' \in [Nets -> 1..(MaxId + 1)]
    BY <1>1, <1>3, LookupFunctions, IndexAssumption
  <2>3. reg' \subseteq Registration /\ owners' = owners /\ searching' = searching
    BY <1>1, <1>14 DEF cacheVars
  <2>4. QED
    BY <1>11, <1>12, <2>1, <2>2, <2>3 DEF IInv, TypeOK
<1>17. QED
  BY <1>11, <1>12, <1>15, <1>16 DEF IInv

-----------------------------------------------------------------------------
(* The theorems                                                            *)

\* Nothing is bound at the start.
LEMMA InitInv == Init => IInv
<1> SUFFICES ASSUME Init PROVE IInv
  OBVIOUS
<1>1. /\ routes = [net \in Nets |-> <<>>] /\ next_id = [net \in Nets |-> 1]
      /\ key_ix = [net \in Nets |-> Fresh] /\ id_ix = [net \in Nets |-> Fresh]
      /\ data \in [Nets -> Addresses] /\ reg = {} /\ revision = 0
      /\ owners = [revision |-> MaxRevision + 1, tiles |-> <<>>] /\ searching = FALSE
  BY DEF Init
<1>2. TypeOK
  <2>1. RecordsOf(key_ix) /\ RecordsOf(id_ix)
    BY <1>1 DEF RecordsOf, Fresh
  <2>2. owners.revision = MaxRevision + 1 /\ DOMAIN owners.tiles = {}
    BY <1>1
  <2>3. routes \in [Nets -> Seq(Bindings!Binding)] /\ next_id \in [Nets -> 1..(MaxId + 1)]
    BY <1>1, IndexAssumption
  <2>4. /\ owners = [revision |-> owners.revision, tiles |-> owners.tiles]
        /\ owners.revision \in 0..(MaxRevision + 1) /\ revision \in 0..MaxRevision
    BY <1>1, <2>2, IndexAssumption
  <2>5. reg \subseteq Registration /\ searching \in BOOLEAN
    BY <1>1
  <2>6. QED
    BY <1>1, <2>1, <2>2, <2>3, <2>4, <2>5 DEF TypeOK
<1>3. LookupsExact
  <2>1. \A net \in Nets : data[net] # Stale
    BY <1>1, IndexAssumption DEF Stale
  <2>2. QED
    BY <1>1, <2>1 DEF LookupsExact, Current, Fresh
<1>4. RegistrationsExact
  BY <1>1 DEF RegistrationsExact, Carries, Registration
<1>5. OwnersExact /\ CacheScoped
  BY <1>1, IndexAssumption DEF OwnersExact, CacheScoped
<1>6. QED
  BY <1>2, <1>3, <1>4, <1>5 DEF IInv

\* Every step keeps the invariant.
LEMMA StepInv == IInv /\ [Next]_vars => IInv'
<1> SUFFICES ASSUME IInv, [Next]_vars PROVE IInv'
  OBVIOUS
<1>1. CASE Queries
  BY <1>1, FindKeyStep, FindIdStep, VisitStep, AllMatchStep DEF Queries
<1>2. CASE Edits
  <2>1. ASSUME NEW net \in Nets, NEW key \in Keys, NEW tiles \in SUBSET Tiles,
               NEW complete \in BOOLEAN, AttachNetRoute(net, key, tiles, complete)
        PROVE  IInv'
    BY <2>1, AttachNewStep, AttachAgainStep
  <2>2. ASSUME NEW net \in Nets, NEW i \in DOMAIN routes[net], NEW rest \in SUBSET Tiles,
               CutRoute(net, i, rest)
        PROVE  IInv'
    BY <2>2, CutStep
  <2>3. ASSUME NEW net \in Nets, NEW i \in DOMAIN routes[net],
               \/ EraseRouteBinding(net, i)
               \/ \E other \in Nets, new \in Keys : Transfer(net, other, i, new)
        PROVE  IInv'
    BY <2>3, EraseStep, TransferStep
  <2>4. ASSUME NEW net \in Nets,
               \/ ClearRouteBindings(net)
               \/ \E old, new \in Froms : RetargetSource(net, old, new)
               \/ \E old, new \in Keys : RetargetKey(net, old, new)
        PROVE  IInv'
    BY <2>4, ClearStep, RetargetSourceStep, RetargetKeyStep
  <2>5. QED
    BY <1>2, <2>1, <2>2, <2>3, <2>4 DEF Edits
<1>3. CASE BeginSearch \/ EndSearch
  BY <1>3, SearchStep
<1>4. CASE UNCHANGED vars
  <2>1. UNCHANGED <<routes, data, next_id, key_ix, id_ix, reg, revision, owners, searching>>
    BY <1>4 DEF vars
  <2>2. LookupsExact'
    BY <2>1, LookupFunctions, LookupsElsewhere, LookupsAfter
  <2>3. TypeOK' /\ RegistrationsExact' /\ OwnersExact' /\ CacheScoped'
    BY <2>1 DEF IInv, TypeOK, RecordsOf, RegistrationsExact, Carries, OwnersExact,
                CacheScoped, Bindings!ScanOwners
  <2>4. QED
    BY <2>2, <2>3 DEF IInv
<1>5. QED
  BY <1>1, <1>2, <1>3, <1>4 DEF Next

\* The strengthened invariant.
THEOREM Inductive == Spec => []IInv
BY InitInv, StepInv, PTL DEF Spec

\* The variables have their types.
THEOREM TypeCorrect == Spec => []TypeOK
BY Inductive, PTL DEF IInv

\* Net.h: equal size and equal address of the vector imply that a lookup
\* describes it, for every hash and every reuse of addresses.
THEOREM LookupsAreExact == Spec => []LookupsExact
BY Inductive, PTL DEF IInv

\* Tile.cpp: the tiles know exactly the routes they carry, by identities that
\* no net gives out twice.
THEOREM RegistrationsAreExact == Spec => []RegistrationsExact
BY Inductive, PTL DEF IInv

\* RouteOwnerQueries: an owner index is right as long as the publication it
\* was built at is the last one.
THEOREM OwnersAreExact == Spec => []OwnersExact
BY Inductive, PTL DEF IInv

-----------------------------------------------------------------------------
(* The indexes implement the search of net.routes                          *)

\* A query answers what the search of the vector answers.
LEMMA QueryRefines ==
    ASSUME IInv, Queries
    PROVE  Bindings!Ask
<1>1. ASSUME NEW net \in Nets, NEW key \in Keys, FindRouteBinding(net, key)
      PROVE  Bindings!Ask
  <2>1. answer' = <<"key", net, key, Bindings!ScanKey(routes[net], key)>>
    BY <1>1, FoundExact DEF FindRouteBinding, IInv
  <2>2. QED
    BY <1>1, <2>1 DEF FindRouteBinding, Bindings!Ask, Keys
<1>2. ASSUME NEW net \in Nets, NEW id \in Bindings!Ids, FindRouteBindingById(net, id)
      PROVE  Bindings!Ask
  <2>1. answer' = <<"id", net, id, Bindings!ScanId(routes[net], id)>>
    BY <1>2, FoundIdExact DEF FindRouteBindingById, IInv
  <2>2. QED
    BY <1>2, <2>1 DEF FindRouteBindingById, Bindings!Ask
<1>3. ASSUME NEW t \in Tiles, VisitNodeOwners(t) \/ AllMatch(t)
      PROVE  Bindings!Ask
  <2>1. answer' = <<"owners", t, Bindings!ScanOwners(routes, t)>>
    BY <1>3, ResolvedExact, AllMatchStep DEF VisitNodeOwners, IInv
  <2>2. QED
    BY <1>3, <2>1 DEF VisitNodeOwners, AllMatch, Bindings!Ask
<1>4. QED
  BY <1>1, <1>2, <1>3 DEF Queries

\* The index finds the binding to attach to where the search finds it.
LEMMA AttachRefines ==
    ASSUME IInv, NEW net \in Nets, NEW key \in Keys, NEW tiles \in SUBSET Tiles,
           NEW complete \in BOOLEAN, AttachNetRoute(net, key, tiles, complete)
    PROVE  Bindings!AttachRoute(net, key, tiles, complete)
<1> DEFINE rs == routes[net]
           at == Bindings!ScanKey(rs, key).index
<1>1. Found(net, key).index = at
  BY FoundExact DEF IInv
<1>2. CASE at = 0
  <2>1. /\ tiles # {} /\ next_id[net] <= MaxId
        /\ routes' = [routes EXCEPT ![net] = Append(rs,
              [key |-> key, id |-> next_id[net], tiles |-> tiles, complete |-> complete])]
    BY <1>1, <1>2 DEF AttachNetRoute, None
  <2>2. next_id[net] \in Bindings!Ids
    BY <2>1, LookupFunctions, IndexAssumption DEF Bindings!Ids
  <2>3. Bindings!Fresh(rs, next_id[net])
    <3>1. \A i \in DOMAIN rs : rs[i] \in Bindings!Binding
      BY LookupsNow
    <3>2. \A i \in DOMAIN rs : rs[i].id \in Nat /\ rs[i].id < next_id[net]
      BY <3>1, IndexAssumption, BindingTypes DEF IInv, RegistrationsExact
    <3>3. QED
      BY <3>2 DEF Bindings!Fresh, Bindings!WithId
  <2>4. QED
    BY <1>2, <2>1, <2>2, <2>3 DEF Bindings!AttachRoute
<1>3. CASE at # 0
  <2>1. /\ tiles # {} /\ ~rs[at].complete
        /\ routes' = [routes EXCEPT ![net][at].tiles = tiles, ![net][at].complete = complete]
    BY <1>1, <1>3 DEF AttachNetRoute, None
  <2> HIDE DEF at
  <2>2. routes' = [routes EXCEPT ![net] = Bindings!Rerouted(rs, at, tiles, complete)]
    BY <2>1 DEF Bindings!Rerouted
  <2>3. at = Bindings!ScanKey(routes[net], key).index
    BY DEF at
  <2>4. QED
    BY <1>3, <2>1, <2>2, <2>3 DEF Bindings!AttachRoute
<1>4. QED
  BY <1>2, <1>3

\* A transfer moves the binding that the search would move.
LEMMA TransferRefines ==
    ASSUME IInv, NEW net \in Nets, NEW other \in Nets, NEW i \in DOMAIN routes[net],
           NEW key \in Keys, Transfer(net, other, i, key)
    PROVE  Bindings!Transfer
<1>1. /\ net # other /\ next_id[other] <= MaxId
      /\ routes' = [routes EXCEPT
             ![net] = Bindings!Without(@, i),
             ![other] = Append(@, [routes[net][i] EXCEPT !.key = key, !.id = next_id[other]])]
  BY DEF Transfer
<1>2. next_id[other] \in Bindings!Ids
  BY <1>1, LookupFunctions, IndexAssumption DEF Bindings!Ids
<1>3. Bindings!Fresh(routes[other], next_id[other])
  <2>1. \A k \in DOMAIN routes[other] : routes[other][k] \in Bindings!Binding
    BY LookupsNow
  <2>2. \A k \in DOMAIN routes[other] :
           routes[other][k].id \in Nat /\ routes[other][k].id < next_id[other]
    BY <2>1, IndexAssumption, BindingTypes DEF IInv, RegistrationsExact
  <2>3. QED
    BY <2>2 DEF Bindings!Fresh, Bindings!WithId
<1>4. QED
  BY <1>1, <1>2, <1>3 DEF Bindings!Transfer, Keys

\* Every edit is an edit of the vectors alone.
LEMMA EditRefines ==
    ASSUME IInv, Edits
    PROVE  Bindings!Edit
<1>1. ASSUME NEW net \in Nets, NEW key \in Keys, NEW tiles \in SUBSET Tiles,
             NEW complete \in BOOLEAN, AttachNetRoute(net, key, tiles, complete)
      PROVE  Bindings!Edit
  BY <1>1, AttachRefines DEF AttachNetRoute, Bindings!Attach, Bindings!Edit, Keys
<1>2. ASSUME NEW net \in Nets, NEW i \in DOMAIN routes[net], NEW rest \in SUBSET Tiles,
             CutRoute(net, i, rest)
      PROVE  Bindings!Edit
  <2>1. /\ rest \in SUBSET routes[net][i].tiles /\ answer' = NoAnswer
        /\ routes' = [routes EXCEPT ![net][i].tiles = rest, ![net][i].complete = FALSE]
    BY <1>2 DEF CutRoute, Shortened
  <2>2. QED
    BY <2>1 DEF Bindings!Cut, Bindings!Edit
<1>3. ASSUME NEW net \in Nets, NEW i \in DOMAIN routes[net], EraseRouteBinding(net, i)
      PROVE  Bindings!Edit
  BY <1>3 DEF EraseRouteBinding, Bindings!Erase, Bindings!Edit
<1>4. ASSUME NEW net \in Nets, NEW other \in Nets, NEW i \in DOMAIN routes[net],
             NEW new \in Keys, Transfer(net, other, i, new)
      PROVE  Bindings!Edit
  <2>1. Bindings!Transfer
    BY <1>4, TransferRefines
  <2>2. answer' = NoAnswer
    BY <1>4 DEF Transfer
  <2>3. QED
    BY <2>1, <2>2 DEF Bindings!Edit
<1>5. ASSUME NEW net \in Nets, ClearRouteBindings(net)
      PROVE  Bindings!Edit
  BY <1>5 DEF ClearRouteBindings, Bindings!Clear, Bindings!Edit
<1>6. ASSUME NEW net \in Nets, NEW old \in Froms, NEW new \in Froms, RetargetSource(net, old, new)
      PROVE  Bindings!Edit
  BY <1>6 DEF RetargetSource, Bindings!RetargetSource, Bindings!Edit
<1>7. ASSUME NEW net \in Nets, NEW old \in Keys, NEW new \in Keys, RetargetKey(net, old, new)
      PROVE  Bindings!Edit
  BY <1>7 DEF RetargetKey, Bindings!RetargetKey, Bindings!Edit, Keys
<1>8. QED
  BY <1>1, <1>2, <1>3, <1>4, <1>5, <1>6, <1>7 DEF Edits

\* Net.h, Tile.cpp, Wire.cpp: whatever edits came before, findRouteBinding,
\* findRouteBindingById, visitNodeOwners and RouteOwnerQueries answer as a
\* search of net.routes would at that moment.
THEOREM SearchImplemented == Spec => ImplementsSearch
<1>1. Init => Bindings!Init
  BY DEF Init, Bindings!Init
<1>2. IInv /\ [Next]_vars => [Bindings!Ask \/ Bindings!Edit]_<<routes, answer>>
  BY QueryRefines, EditRefines DEF Next, vars, BeginSearch, EndSearch
<1>3. QED
  BY <1>1, <1>2, Inductive, PTL DEF Spec, ImplementsSearch, Bindings!Spec
=============================================================================
