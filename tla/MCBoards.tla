------------------------------ MODULE MCBoards ------------------------------
(* Boards of two journeys around midnight, one of the two stops without a  *)
(* name and in another time zone, with early, late, missing and garbled    *)
(* realtimes.                                                              *)
EXTENDS Boards

At(day, hour, min, sec) == [day |-> day, hour |-> hour, min |-> min, sec |-> sec]

MCLocL  == <<[name |-> Null, tz |-> 60], [name |-> "Alex", tz |-> 0]>>
MCProdL == <<[nameS |-> Null, name |-> "U 2", cls |-> 2],
             [nameS |-> "S1", name |-> "S 1", cls |-> 65],
             [nameS |-> Null, name |-> Null, cls |-> 0]>>

MCPlaces == {<<0, 0>>, <<1, 1>>, <<1, 2>>, <<2, 1>>, <<0, -1>>}
MCDates  == {3, Null}

MCClocks    == {At(0, 23, 59, 0), At(1, 0, 0, 30)}
MCRealtimes == {At(0, 23, 58, 30), At(0, 23, 59, 0), At(1, 0, 0, 31), Null, Short}

(* Around 23:59 in Berlin on day 3, in seconds.                            *)
Berlin(h, m, s) == (3 * 24 + h - 2) * 3600 + m * 60 + s
MCReadings == {Berlin(23, 58, 0), Berlin(23, 59, 30), Berlin(24, 30, 0)}

MCZero == -1000000000
MCSpan == 500000000

=============================================================================
