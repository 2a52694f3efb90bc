------------------------------ MODULE MCServer ------------------------------
(* One request of each kind in flight, on a cache with room for one entry. *)
EXTENDS Server

CONSTANTS c1, c2, d1, d2, p, q

MCProxySlot   == {c1}
MCCompactSlot == {c2}
MCKey         == {d1, d2}
MCHafasKey    == {d1}
MCStop        == {p, q}
MCRaw         == {<<p, q>>, <<q>>, <<Bad>>}
MCTimetables  == {{}, {Horizon}}

=============================================================================
