------------------------------ MODULE MCProxy ------------------------------
(* Small servers: two requests in flight, and keys chosen per question.    *)
EXTENDS Proxy

CONSTANTS c1, c2, d1, d2, s1, h1, m1, r1

Kind == [k \in {d1, d2, s1, h1, m1, r1} |->
           CASE k \in {d1, d2} -> "dynamic"
             [] k = s1         -> "static"
             [] k = h1         -> "shape"
             [] k = m1         -> "map"
             [] k = r1         -> "radar"]

TwoSlots == {c1, c2}

(* Two dynamic keys, one with HAFAS behind it, in a cache for one entry.   *)
DynamicKeys   == {d1, d2}
DynamicRoutes == [k \in DynamicKeys |-> Kind[k]]
DynamicHafas  == {d1}

(* A key of every other kind, the static one with HAFAS behind it.        *)
StaticKeys   == {s1, h1, m1, r1}
StaticRoutes == [k \in StaticKeys |-> Kind[k]]
StaticHafas  == {s1}

Symmetry == Permutations(TwoSlots)

=============================================================================
