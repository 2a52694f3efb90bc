----------------------------- MODULE MCCompact -----------------------------
(* Requests as clients write them: one stop, two with an empty segment     *)
(* between them, one stop twice, a bad ID, and more stops than MaxStops.   *)
EXTENDS Compact

CONSTANTS c1, c2, p, q

OneSlot  == {c1}
TwoSlots == {c1, c2}
MCStop   == {p, q}

ManyRaw   == {<<p, Empty, q>>, <<q, p>>, <<p, p>>, <<Empty, p>>, <<p, Bad>>, <<Empty>>, <<p, q, p>>}
SingleRaw == {<<p>>, <<q>>}

SomeTimetables == {{}, {1, 2}, {3}}
AllTimetables  == SUBSET (1 .. Horizon)

=============================================================================
