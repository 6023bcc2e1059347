-------------------------- MODULE MCNetRouteIndex --------------------------
(* Two nets; the keys of all sources but one collide in the hash.           *)
EXTENDS NetRouteIndex, TLC

CONSTANT Alone       \* the source whose keys have a hash of their own

OneCollision == [key \in [from : Froms, to : Tos] |-> IF key.from = Alone THEN 2 ELSE 1]

Interchangeable ==
    Permutations(Nets) \cup Permutations(Tiles) \cup Permutations(Addresses)
    \cup Permutations(Froms \ {Alone})

\* No action reads the answer of the query before it.
WithoutAnswer == <<routes, data, next_id, key_ix, id_ix, reg, revision, owners, searching>>
=============================================================================
