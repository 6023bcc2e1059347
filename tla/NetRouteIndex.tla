--------------------------- MODULE NetRouteIndex ---------------------------
(***************************************************************************)
(* How bindings are found: the two lazily rebuilt lookups of rtl::Net      *)
(* (src/src/rtl/Net.h), the binding ids registered on each tile            *)
(* (src/src/fpga/Tile.cpp) and the owner index a search keeps for itself   *)
(* (RouteOwnerQueries, src/src/fpga/Wire.cpp).                             *)
(*                                                                         *)
(* A lookup is trusted when the vector it was built from has the same size *)
(* and the same address, an owner index when no routing was published      *)
(* since.  Neither says that the content is the same: every edit has to    *)
(* update or to invalidate.  NetRoutes is what they must amount to.        *)
(***************************************************************************)
EXTENDS Naturals, Sequences, FiniteSets

CONSTANTS
    Nets, Froms, Tos, Tiles, MaxId, NoAnswer,
    Hash,           \* routeLookupHash: keys may collide
    Addresses,      \* where routes.data() may lie; an address may return
    CacheLimit,     \* tiles the owner index may hold (64)
    MaxRevision     \* bound: publications

VARIABLES
    routes,         \* Net::routes
    answer,         \* what the last query returned
    data,           \* routes.data()
    next_id,        \* next_route_id
    key_ix,         \* route_lookup, _size and _data
    id_ix,          \* route_id_lookup, _size and _data
    reg,            \* routed_bindings: which route ids each tile knows
    revision,       \* route_mutation_revision
    owners,         \* the owner index: built at a revision, tile -> bindings
    searching       \* a search that has an owner index is running

\* The refinement mapping: both modules speak of the vectors and of the last
\* answer; everything else here is how the answer is found.
Bindings == INSTANCE NetRoutes WITH routes <- routes, answer <- answer

vars == <<routes, answer, data, next_id, key_ix, id_ix, reg, revision, owners, searching>>
netVars   == <<data, next_id, key_ix, id_ix>>
cacheVars == <<owners, searching>>

Keys   == Bindings!Keys
None   == 0          \* the size_t(-1) of an index, and the size of no vector
Stale  == 0          \* route_lookup_data = nullptr

ASSUME IndexAssumption ==
    /\ Hash \in [Keys -> Nat]
    /\ 0 \notin Addresses /\ Addresses # {}
    /\ MaxId \in Nat /\ CacheLimit \in Nat /\ MaxRevision \in Nat

-----------------------------------------------------------------------------
(* The lookups.  `data` is Stale when a lookup was invalidated; the map     *)
(* keeps its entries until the next rebuild.                               *)

Hits(rs, h) == {i \in DOMAIN rs : Hash[rs[i].key] = h}

\* rebuildRouteLookup: the first position and the number of entries of a hash.
KeyMap(rs) == [h \in {Hash[rs[i].key] : i \in DOMAIN rs} |->
                  [index |-> Bindings!First(Hits(rs, h)), count |-> Cardinality(Hits(rs, h))]]

\* The map findRouteBindingById builds: the last position with an id.
IdMap(rs) == [id \in {rs[i].id : i \in DOMAIN rs} |->
                 CHOOSE i \in Bindings!WithId(rs, id) : \A j \in Bindings!WithId(rs, id) : j <= i]

Current(ix, net) == ix[net].size = Len(routes[net]) /\ ix[net].data = data[net]

Invalidated(ix) == [ix EXCEPT !.data = Stale]

KeyIx(net) == IF Current(key_ix, net) THEN key_ix[net]
              ELSE [map |-> KeyMap(routes[net]), size |-> Len(routes[net]), data |-> data[net]]

IdIx(net) == IF Current(id_ix, net) THEN id_ix[net]
             ELSE [map |-> IdMap(routes[net]), size |-> Len(routes[net]), data |-> data[net]]

\* findRouteBinding: the hash decides when it has one entry and the keys
\* agree; otherwise the vector is searched.
Found(net, key) ==
    LET map == KeyIx(net).map
        h   == Hash[key]
    IN  IF h \notin DOMAIN map THEN [index |-> None, count |-> 0]
        ELSE IF /\ map[h].count = 1 /\ map[h].index <= Len(routes[net])
                /\ routes[net][map[h].index].key = key
        THEN [index |-> map[h].index, count |-> 1]
        ELSE Bindings!ScanKey(routes[net], key)

\* findRouteBindingById
FoundId(net, id) ==
    LET map == IdIx(net).map IN IF id \in DOMAIN map THEN map[id] ELSE None

FindRouteBinding(net, key) ==
    /\ answer' = <<"key", net, key, Found(net, key)>>
    /\ key_ix' = [key_ix EXCEPT ![net] = KeyIx(net)]
    /\ UNCHANGED <<routes, data, next_id, id_ix, reg, revision, cacheVars>>

FindRouteBindingById(net, id) ==
    /\ answer' = <<"id", net, id, FoundId(net, id)>>
    /\ id_ix' = [id_ix EXCEPT ![net] = IdIx(net)]
    /\ UNCHANGED <<routes, data, next_id, key_ix, reg, revision, cacheVars>>

-----------------------------------------------------------------------------
(* Owner queries *)

\* Registration r leads to a binding that does own the resource on its tile.
Leads(r) == /\ FoundId(r.net, r.id) # None
            /\ r.tile \in routes[r.net][FoundId(r.net, r.id)].tiles

\* The bindings the ids registered on tile t resolve to.
Resolved(t) == {<<r.net, FoundId(r.net, r.id)>> : r \in {q \in reg : q.tile = t /\ Leads(q)}}

\* The nets whose id lookup a pass over the registrations of t refreshes.
Refreshed(t) ==
    [net \in Nets |-> IF \E r \in reg : r.tile = t /\ r.net = net THEN IdIx(net) ELSE id_ix[net]]

\* visitNodeOwners: without an owner index.
VisitNodeOwners(t) ==
    /\ answer' = <<"owners", t, Resolved(t)>>
    /\ id_ix' = Refreshed(t)
    /\ UNCHANGED <<routes, data, next_id, key_ix, reg, revision, cacheVars>>

\* repairFromSource, repairNetRouteGaps and the docking preview each declare
\* an owner index of their own.
BeginSearch ==
    /\ ~searching
    /\ searching' = TRUE
    /\ owners' = [revision |-> MaxRevision + 1, tiles |-> <<>>]
    /\ UNCHANGED <<routes, answer, netVars, reg, revision>>

EndSearch ==
    /\ searching
    /\ searching' = FALSE
    /\ owners' = [revision |-> MaxRevision + 1, tiles |-> <<>>]
    /\ UNCHANGED <<routes, answer, netVars, reg, revision>>

MutKept == owners.tiles            \* the revision is not compared

\* What of the owner index is still valid.
Kept == IF owners.revision = revision THEN owners.tiles ELSE <<>>

\* RouteOwnerQueries::allMatch.  A tile seen before is answered from the
\* index; a new one is added, after dropping all when the index is full.
AllMatch(t) ==
    /\ searching
    /\ IF t \in DOMAIN Kept
       THEN /\ answer' = <<"owners", t, Kept[t]>>
            /\ owners' = [revision |-> revision, tiles |-> Kept]
            /\ id_ix' = id_ix
       ELSE LET room == IF Cardinality(DOMAIN Kept) >= CacheLimit THEN <<>> ELSE Kept
            IN  /\ answer' = <<"owners", t, Resolved(t)>>
                /\ owners' = [revision |-> revision,
                              tiles |-> [u \in DOMAIN room \cup {t} |-> IF u = t THEN Resolved(t) ELSE room[u]]]
                /\ id_ix' = Refreshed(t)
    /\ UNCHANGED <<routes, data, next_id, key_ix, reg, revision, searching>>

-----------------------------------------------------------------------------
(* Edits *)

Publish == revision < MaxRevision /\ revision' = revision + 1

Registration == [tile : Tiles, net : Nets, id : Bindings!Ids]

\* Does some route of rs need this registration?
Carries(rs, r) == \E i \in DOMAIN rs : rs[i].id = r.id /\ r.tile \in rs[i].tiles

MutRebuilt(net, rs, touched) ==    \* the tiles a route left keep its registration
    reg \cup {r \in Registration : r.net = net /\ Carries(rs, r)}

\* rebuildNetRouteTiles: the net leaves the tiles the removed routes touched
\* and registers what it still has.
Rebuilt(net, rs, touched) ==
    {r \in reg : r.tile \notin touched \/ r.net # net}
    \cup {r \in Registration : r.net = net /\ Carries(rs, r)}

Registered(net, b) == {[tile |-> t, net |-> net, id |-> b.id] : t \in b.tiles}

\* appendRouteBinding: route_lookup.emplace, or one more for the hash.
Appended(ix, h, i) ==
    [ix EXCEPT !.map = [g \in DOMAIN ix.map \cup {h} |->
        IF g # h THEN ix.map[g]
        ELSE IF h \in DOMAIN ix.map THEN [index |-> ix.map[h].index, count |-> ix.map[h].count + 1]
        ELSE [index |-> i, count |-> 1]]]

MutPushed(net, b, a, ix) ==    \* an outdated lookup gets the new size and address
    LET n == Len(routes[net]) + 1
    IN  [key |-> [Appended(ix, Hash[b.key], n) EXCEPT !.size = n, !.data = a],
         id  |-> [map |-> [id \in DOMAIN id_ix[net].map \cup {b.id} |->
                              IF id = b.id THEN n ELSE id_ix[net].map[id]],
                  size |-> n, data |-> a]]

\* The lookups of a net after push_back of b left the vector at address a.
\* Both are kept if they were current before, invalidated if not.
Pushed(net, b, a, ix) ==
    LET n    == Len(routes[net]) + 1
        live == ix.size = Len(routes[net]) /\ ix.data = data[net]
    IN  [key |-> IF live THEN [Appended(ix, Hash[b.key], n) EXCEPT !.size = n, !.data = a]
                 ELSE Invalidated(ix),
         id  |-> IF Current(id_ix, net)
                 THEN [map |-> [id \in DOMAIN id_ix[net].map \cup {b.id} |->
                                   IF id = b.id THEN n ELSE id_ix[net].map[id]],
                       size |-> n, data |-> a]
                 ELSE Invalidated(id_ix[net])]

\* attachNetRoute and the registration its callers do: the routing of one
\* task installs a route for a key.
AttachNetRoute(net, key, tiles, complete) ==
    LET at == Found(net, key).index
        rs == routes[net]
        b  == [key |-> key, id |-> next_id[net], tiles |-> tiles, complete |-> complete]
    IN  /\ tiles # {}
        /\ answer' = NoAnswer
        /\ IF at = None
           THEN /\ next_id[net] <= MaxId
                /\ Publish
                /\ \E a \in Addresses :
                      LET new == Pushed(net, b, a, KeyIx(net)) IN
                      /\ data' = [data EXCEPT ![net] = a]
                      /\ key_ix' = [key_ix EXCEPT ![net] = new.key]
                      /\ id_ix' = [id_ix EXCEPT ![net] = new.id]
                /\ routes' = [routes EXCEPT ![net] = Append(rs, b)]
                /\ next_id' = [next_id EXCEPT ![net] = @ + 1]
                /\ reg' = reg \cup Registered(net, b)
           ELSE /\ ~rs[at].complete
                /\ Publish
                /\ routes' = [routes EXCEPT ![net][at].tiles = tiles, ![net][at].complete = complete]
                /\ key_ix' = [key_ix EXCEPT ![net] = KeyIx(net)]
                /\ reg' = Rebuilt(net, routes'[net], rs[at].tiles)
                /\ UNCHANGED <<data, next_id, id_ix>>
        /\ UNCHANGED cacheVars

MutShortened(b, rest) ==       \* an unrouted binding still counts as complete
    [b EXCEPT !.tiles = rest]

Shortened(b, rest) == [b EXCEPT !.tiles = rest, !.complete = FALSE]

\* unrouteNetRoute, truncateNetRoute and the cut of a preemption: a route
\* loses what it owned on some tiles, its binding stays.
CutRoute(net, i, rest) ==
    /\ rest \subseteq routes[net][i].tiles /\ rest # routes[net][i].tiles
    /\ Publish
    /\ routes' = [routes EXCEPT ![net][i] = Shortened(@, rest)]
    /\ reg' = Rebuilt(net, routes'[net], routes[net][i].tiles)
    /\ answer' = NoAnswer
    /\ UNCHANGED <<netVars, cacheVars>>

Dropped(ix) == Invalidated(ix)

\* eraseRouteBinding: an ownerless duplicate of a complete binding goes.  It
\* publishes nothing; no search with an owner index is running.
EraseRouteBinding(net, i) ==
    /\ ~searching
    /\ routes[net][i].tiles = {}
    /\ \E j \in Bindings!WithKey(routes[net], routes[net][i].key) : routes[net][j].complete
    /\ routes' = [routes EXCEPT ![net] = Bindings!Without(@, i)]
    /\ key_ix' = [key_ix EXCEPT ![net] = Dropped(@)]
    /\ id_ix' = [id_ix EXCEPT ![net] = Dropped(@)]
    /\ answer' = NoAnswer
    /\ UNCHANGED <<data, next_id, reg, revision, cacheVars>>

\* clearRouteBindings, of a net whose routes were removed before.
ClearRouteBindings(net) ==
    /\ ~searching
    /\ routes[net] # <<>> /\ \A i \in DOMAIN routes[net] : routes[net][i].tiles = {}
    /\ routes' = [routes EXCEPT ![net] = <<>>]
    /\ key_ix' = [key_ix EXCEPT ![net] = Dropped(@)]
    /\ id_ix' = [id_ix EXCEPT ![net] = Dropped(@)]
    /\ answer' = NoAnswer
    /\ UNCHANGED <<data, next_id, reg, revision, cacheVars>>

MutRekeyed(ix) == ix           \* the lookup of the old keys stays current

Rekeyed(ix) == Invalidated(ix)

\* retargetNetRouteSourceBindings: a passthrough takes over a source port.
RetargetSource(net, old, new) ==
    /\ ~searching
    /\ \E i \in DOMAIN routes[net] : routes[net][i].key.from = old
    /\ old # new
    /\ Publish
    /\ routes' = [routes EXCEPT ![net] =
            [i \in DOMAIN @ |-> IF @[i].key.from = old THEN [@[i] EXCEPT !.key.from = new] ELSE @[i]]]
    /\ key_ix' = [key_ix EXCEPT ![net] = Rekeyed(@)]
    /\ answer' = NoAnswer
    /\ UNCHANGED <<data, next_id, id_ix, reg, cacheVars>>

\* retargetNetRouteBindings within one net: the endpoints change, ids do not.
RetargetKey(net, old, new) ==
    LET hit == Bindings!WithKey(routes[net], old) IN
    /\ ~searching
    /\ hit # {} /\ old # new
    /\ Publish
    /\ routes' = [routes EXCEPT ![net] =
            [i \in DOMAIN @ |-> IF @[i].key = old THEN [@[i] EXCEPT !.key = new] ELSE @[i]]]
    /\ key_ix' = [key_ix EXCEPT ![net] = Rekeyed(@)]
    /\ reg' = Rebuilt(net, routes'[net], UNION {routes[net][i].tiles : i \in hit})
    /\ answer' = NoAnswer
    /\ UNCHANGED <<data, next_id, id_ix, cacheVars>>

\* retargetNetRouteBindings to another net: the binding gets a new id there,
\* and the tiles learn the new owner before the old net is rebuilt.
Transfer(net, other, i, new) ==
    LET b == [routes[net][i] EXCEPT !.key = new, !.id = next_id[other]] IN
    /\ ~searching
    /\ net # other /\ next_id[other] <= MaxId
    /\ Publish
    /\ routes' = [routes EXCEPT ![net] = Bindings!Without(@, i), ![other] = Append(@, b)]
    /\ \E a \in Addresses :
          LET pushed == Pushed(other, b, a, key_ix[other]) IN
          /\ data' = [data EXCEPT ![other] = a]
          /\ key_ix' = [key_ix EXCEPT ![net] = Dropped(@), ![other] = Rekeyed(pushed.key)]
          /\ id_ix' = [id_ix EXCEPT ![net] = Dropped(@), ![other] = pushed.id]
    /\ next_id' = [next_id EXCEPT ![other] = @ + 1]
    /\ reg' = Rebuilt(net, routes'[net], routes[net][i].tiles)
              \cup Registered(other, b)
    /\ answer' = NoAnswer
    /\ UNCHANGED cacheVars

-----------------------------------------------------------------------------
Fresh == [map |-> <<>>, size |-> 0, data |-> Stale]

Init ==
    /\ routes = [net \in Nets |-> <<>>]
    /\ answer = NoAnswer
    /\ data \in [Nets -> Addresses]
    /\ next_id = [net \in Nets |-> 1]
    /\ key_ix = [net \in Nets |-> Fresh]
    /\ id_ix = [net \in Nets |-> Fresh]
    /\ reg = {}
    /\ revision = 0
    /\ owners = [revision |-> MaxRevision + 1, tiles |-> <<>>]
    /\ searching = FALSE

Queries ==
    \/ \E net \in Nets, key \in Keys : FindRouteBinding(net, key)
    \/ \E net \in Nets, id \in Bindings!Ids : FindRouteBindingById(net, id)
    \/ \E t \in Tiles : VisitNodeOwners(t) \/ AllMatch(t)

Edits ==
    \/ \E net \in Nets, key \in Keys, tiles \in SUBSET Tiles, complete \in BOOLEAN :
          AttachNetRoute(net, key, tiles, complete)
    \/ \E net \in Nets : \E i \in DOMAIN routes[net] :
          \/ \E rest \in SUBSET Tiles : CutRoute(net, i, rest)
          \/ EraseRouteBinding(net, i)
          \/ \E other \in Nets, new \in Keys : Transfer(net, other, i, new)
    \/ \E net \in Nets : ClearRouteBindings(net)
    \/ \E net \in Nets, old, new \in Froms : RetargetSource(net, old, new)
    \/ \E net \in Nets, old, new \in Keys : RetargetKey(net, old, new)

Next == Queries \/ Edits \/ BeginSearch \/ EndSearch

Spec == Init /\ [][Next]_vars

-----------------------------------------------------------------------------
(* Properties                                                              *)

RecordsOf(ix) == ix = [net \in Nets |-> [map |-> ix[net].map, size |-> ix[net].size, data |-> ix[net].data]]

\* The types of the variables.
TypeOK ==
    /\ routes \in [Nets -> Seq(Bindings!Binding)]
    /\ data \in [Nets -> Addresses]
    /\ next_id \in [Nets -> 1..(MaxId + 1)]
    /\ RecordsOf(key_ix) /\ RecordsOf(id_ix)
    /\ reg \subseteq Registration
    /\ revision \in 0..MaxRevision
    /\ owners = [revision |-> owners.revision, tiles |-> owners.tiles]
    /\ owners.revision \in 0..(MaxRevision + 1)
    /\ DOMAIN owners.tiles \subseteq Tiles
    /\ searching \in BOOLEAN

\* A lookup that counts as current describes the vector as it is: after any
\* sequence of appends, erasures, reallocations back to an old address and
\* retargets, equal size and address imply equal content.
LookupsExact ==
    \A net \in Nets :
        /\ Current(key_ix, net) =>
              /\ DOMAIN key_ix[net].map = {Hash[routes[net][i].key] : i \in DOMAIN routes[net]}
              /\ \A h \in DOMAIN key_ix[net].map :
                    /\ key_ix[net].map[h].index \in Hits(routes[net], h)
                    /\ key_ix[net].map[h].count = Cardinality(Hits(routes[net], h))
        /\ Current(id_ix, net) =>
              /\ DOMAIN id_ix[net].map = {routes[net][i].id : i \in DOMAIN routes[net]}
              /\ \A i \in DOMAIN routes[net] : id_ix[net].map[routes[net][i].id] = i

\* Identities are never given out twice in a net, and the tiles name exactly
\* the identities whose routes they carry, whatever was erased or moved to
\* another net in between.
RegistrationsExact ==
    /\ \A net \in Nets :
          /\ \A i, j \in DOMAIN routes[net] : routes[net][i].id = routes[net][j].id => i = j
          /\ \A i \in DOMAIN routes[net] : routes[net][i].id < next_id[net]
    /\ reg = {r \in Registration : Carries(routes[r.net], r)}

\* An owner index of the present revision holds what a search of all bindings
\* would find, positions included.
OwnersExact ==
    owners.revision = revision =>
        \A t \in DOMAIN owners.tiles : owners.tiles[t] = Bindings!ScanOwners(routes, t)

\* The indexes and caches implement the search of net.routes they replace.
ImplementsSearch == Bindings!Spec
=============================================================================
