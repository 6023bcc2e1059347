----------------------------- MODULE NetRoutes -----------------------------
(***************************************************************************)
(* What the rest of the program may assume of the bindings of a net: a     *)
(* query returns what a search of net.routes would find at that moment.    *)
(* The vector is edited in place, positions shift when a binding is erased *)
(* and bindings change keys and nets when an endpoint is replaced.         *)
(* NetRouteIndex answers the same queries from indexes and caches.         *)
(***************************************************************************)
EXTENDS Naturals, Sequences, FiniteSets

CONSTANTS
    Nets,
    Froms,          \* source endpoints: from, from_port
    Tos,            \* sink endpoints with the route name: to, to_port, route_name
    Tiles,
    MaxId,          \* bound: identities ever given out in one net
    NoAnswer

VARIABLES
    routes,         \* Net::routes
    answer          \* what the last query returned

Keys == [from : Froms, to : Tos]
Ids  == 1..MaxId

\* A binding with the tiles on which its route owns the resource asked for;
\* without tiles it has no stored route, `complete` is isRouteComplete.
Binding == {b \in [key : Keys, id : Ids, tiles : SUBSET Tiles, complete : BOOLEAN] :
                b.complete => b.tiles # {}}

-----------------------------------------------------------------------------
(* The searches *)

First(P) == CHOOSE i \in P : \A j \in P : i <= j
WithKey(rs, key) == {i \in DOMAIN rs : rs[i].key = key}
WithId(rs, id)   == {i \in DOMAIN rs : rs[i].id = id}
Fresh(rs, id)    == WithId(rs, id) = {}

\* The first exact endpoint binding and how many there are; 0 is "none".
ScanKey(rs, key) ==
    LET P == WithKey(rs, key)
    IN  [index |-> IF P = {} THEN 0 ELSE First(P), count |-> Cardinality(P)]

ScanId(rs, id) == IF WithId(rs, id) = {} THEN 0 ELSE First(WithId(rs, id))

\* Every binding whose route owns the resource on tile t.
ScanOwners(all, t) ==
    {o \in UNION {{net} \X DOMAIN all[net] : net \in Nets} : t \in all[o[1]][o[2]].tiles}

Ask ==
    /\ \/ \E net \in Nets, key \in Keys : answer' = <<"key", net, key, ScanKey(routes[net], key)>>
       \/ \E net \in Nets, id \in Ids   : answer' = <<"id", net, id, ScanId(routes[net], id)>>
       \/ \E t \in Tiles                : answer' = <<"owners", t, ScanOwners(routes, t)>>
    /\ UNCHANGED routes

-----------------------------------------------------------------------------
(* The edits *)

Without(rs, i) == SubSeq(rs, 1, i - 1) \o SubSeq(rs, i + 1, Len(rs))

\* One binding gets another route.
Rerouted(rs, i, tiles, complete) ==
    [rs EXCEPT ![i] = [@ EXCEPT !.tiles = tiles, !.complete = complete]]

\* Install a route: it replaces an incomplete one under the same key, and a
\* new key gets a new binding.
AttachRoute(net, key, tiles, complete) ==
    LET rs == routes[net]
        at == ScanKey(rs, key).index
    IN  /\ tiles # {}
        /\ \/ at = 0 /\ \E id \in Ids :
                /\ Fresh(rs, id)
                /\ routes' = [routes EXCEPT ![net] = Append(rs,
                      [key |-> key, id |-> id, tiles |-> tiles, complete |-> complete])]
           \/ at # 0 /\ ~rs[at].complete
                /\ routes' = [routes EXCEPT ![net] = Rerouted(rs, at, tiles, complete)]

Attach ==
    \E net \in Nets, key \in Keys, tiles \in SUBSET Tiles, complete \in BOOLEAN :
        AttachRoute(net, key, tiles, complete)

\* A route is cut or removed; its binding stays.
Cut ==
    \E net \in Nets : \E i \in DOMAIN routes[net] : \E rest \in SUBSET routes[net][i].tiles :
        routes' = [routes EXCEPT ![net][i].tiles = rest, ![net][i].complete = FALSE]

Erase ==
    \E net \in Nets : \E i \in DOMAIN routes[net] :
        routes' = [routes EXCEPT ![net] = Without(@, i)]

Clear == \E net \in Nets : routes' = [routes EXCEPT ![net] = <<>>]

\* One source endpoint of a net is replaced by another.
RetargetSource ==
    \E net \in Nets, old, new \in Froms :
        routes' = [routes EXCEPT ![net] =
            [i \in DOMAIN @ |-> IF @[i].key.from = old THEN [@[i] EXCEPT !.key.from = new] ELSE @[i]]]

\* A key is replaced within one net, keeping the identities.
RetargetKey ==
    \E net \in Nets, old, new \in Keys :
        routes' = [routes EXCEPT ![net] =
            [i \in DOMAIN @ |-> IF @[i].key = old THEN [@[i] EXCEPT !.key = new] ELSE @[i]]]

\* A binding moves to another net under a new identity.  (Several bindings of
\* one key move one after the other.)
Transfer ==
    \E net, other \in Nets, key \in Keys, id \in Ids : \E i \in DOMAIN routes[net] :
        /\ net # other /\ Fresh(routes[other], id)
        /\ routes' = [routes EXCEPT
             ![net]   = Without(@, i),
             ![other] = Append(@, [routes[net][i] EXCEPT !.key = key, !.id = id])]

Edit ==
    /\ Attach \/ Cut \/ Erase \/ Clear \/ RetargetSource \/ RetargetKey \/ Transfer
    /\ answer' = NoAnswer

Init == routes = [net \in Nets |-> <<>>] /\ answer = NoAnswer

Spec == Init /\ [][Ask \/ Edit]_<<routes, answer>>
=============================================================================
