------------------------------ MODULE MCCache ------------------------------
(* Four keys against capacities from a negative one to three: the smallest *)
(* instance where a full cache still orders several keys by recency.       *)
EXTENDS CacheHistory

CONSTANTS k1, k2, k3, k4, b1, b2

MCKey  == {k1, k2, k3, k4}
MCBody == {b1, b2}
MCCaps == {-1, 0, 1, 2, 3}

=============================================================================
