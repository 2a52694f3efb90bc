------------------------------- MODULE Boards -------------------------------
(***************************************************************************)
(* What becomes of a HAFAS station board.  Two paths of the code read it:  *)
(*                                                                         *)
(*   - translateDepartures and translateArrivals (hafas_translate.go) turn *)
(*     it into the body transport.rest would have sent, from which the     *)
(*     expiry functions (expiry.go) later read a last departure;           *)
(*   - transformHAFASCompactBoard (handle_compact_departures.go) turns it  *)
(*     into a compact board at once.                                       *)
(*                                                                         *)
(* A transport.rest body becomes a compact board in transformCompactBoard, *)
(* so there are two ways to the same board, written independently.  The    *)
(* board grows by one journey at a time, and time passes.                  *)
(*                                                                         *)
(* Instants are seconds.  Directions, platforms, coordinates, IDs and      *)
(* remarks are copied alike on both paths, or not at all, and are left out.*)
(***************************************************************************)
EXTENDS Subsequences, SequencesExt

CONSTANTS
  Null,         \* a pointer that is nil; a string that is empty
  Short,        \* a time of fewer than six characters
  ZeroTime,     \* the zero time.Time, far before any other instant
  MaxSpan,      \* the length in seconds at which time.Time.Sub saturates
  Grace,        \* compactPastGrace in seconds
  LocL, ProdL,  \* the locations and products a board refers to by index
  Places,       \* pairs of such indices journeys come with, valid or not
  Dates,        \* day numbers, or Null for a date that is not eight long
  Clocks,       \* times as HAFAS writes them, with a day offset
  Realtimes,    \* Clocks, Null for no realtime, or Short
  Readings,     \* what a clock may read
  MaxJourneys   \* bound: journeys on a board

(* A time as HAFAS writes it, with its day offset, and in seconds.         *)
Clock == [day : Int, hour : Int, min : Int, sec : Int]

Seconds(c) == ((c.day * 24 + c.hour) * 60 + c.min) * 60 + c.sec

(* Readings, in this century, come long after the zero time; a realtime    *)
(* and its plan, of one date, are nearer each other than Sub saturates.    *)
ASSUME BoardsAssumption ==
  /\ ZeroTime \in Int /\ MaxSpan \in Nat /\ Grace \in Nat
  /\ Null \notin Int /\ Null \notin Clock /\ Short \notin Clock /\ Null # Short
  /\ Clocks \subseteq Clock /\ Realtimes \subseteq Clock \cup {Null, Short}
  /\ Dates \subseteq Int \cup {Null}
  /\ Places \subseteq Int \X Int /\ Len(ProdL) \in Nat
  /\ Len(LocL) \in Nat /\ \A i \in 1 .. Len(LocL) : LocL[i].tz \in Int
  /\ \A t \in Readings : t \in Nat /\ t - Grace > ZeroTime
  /\ \A c \in Clocks, r \in Realtimes \ {Null, Short} :
       Seconds(r) - Seconds(c) \in -MaxSpan .. MaxSpan

VARIABLES
  kind,         \* the type of the board: "DEP" or "ARR"
  jnyL,         \* its journeys so far
  now

boardsVars == <<kind, jnyL, now>>

-----------------------------------------------------------------------------

(* A stop event: planned and realtime clock times, and is it cancelled?    *)
Event   == [timeS : Clocks \cup {Short}, timeR : Realtimes, cncl : BOOLEAN]
NoEvent == [timeS |-> Null, timeR |-> Null, cncl |-> FALSE]

(* On a board of one type the events of the other type are missing.        *)
Journey ==
  {[locX |-> p[1], prodX |-> p[2], date |-> d,
    DEP |-> IF kind = "DEP" THEN e ELSE NoEvent,
    ARR |-> IF kind = "ARR" THEN e ELSE NoEvent]
   : p \in Places, d \in Dates, e \in Event}

(* Indices are 0-based; what they do not name is skipped.                  *)
Usable(j) == j.locX \in 0 .. Len(LocL) - 1 /\ j.prodX \in 0 .. Len(ProdL) - 1

Loc(j)  == LocL[j.locX + 1]
Prod(j) == ProdL[j.prodX + 1]

(* Minutes east of UTC; Berlin's summer time when HAFAS does not say.      *)
TzOffset(loc) == IF loc.tz = 0 THEN 120 ELSE loc.tz

ParseHAFASTime(date, clock, tz) ==
  IF date = Null \/ clock \in {Null, Short} THEN ZeroTime
  ELSE date * 86400 + Seconds(clock) - tz * 60

PlannedWhen(j, e) == ParseHAFASTime(j.date, e.timeS, TzOffset(Loc(j)))

When(j, e) ==
  IF e.timeR = Null THEN PlannedWhen(j, e)
  ELSE ParseHAFASTime(j.date, e.timeR, TzOffset(Loc(j)))

(* t.Sub(u), which saturates.                                              *)
Sub(t, u) == IF t - u > MaxSpan THEN MaxSpan ELSE IF t - u < -MaxSpan THEN -MaxSpan ELSE t - u

(* The first product, in this order, whose bit is set in the class.        *)
Products == <<"suburban", "subway", "tram", "bus", "ferry", "express", "regional">>

HafasProductName(cls) ==
  LET set == {i \in DOMAIN Products : (cls \div 2^(i - 1)) % 2 = 1}
  IN  IF set = {} THEN "" ELSE Products[Min(set)]

LineName(prod) == IF prod.nameS = Null THEN prod.name ELSE prod.nameS

-----------------------------------------------------------------------------

(* translateDepartures and translateArrivals, with e the event their board *)
(* is about.  Times are written to the second with their offset, which     *)
(* RFC 3339 reads back as the same instant, the zero time included.        *)
TranslateJourney(j, e) ==
  [when        |-> IF e.cncl THEN Null ELSE When(j, e),
   plannedWhen |-> PlannedWhen(j, e),
   delay       |-> IF e.timeR = Null THEN Null ELSE Sub(When(j, e), PlannedWhen(j, e)),
   cancelled   |-> e.cncl,
   line        |-> LineName(Prod(j)),
   product     |-> HafasProductName(Prod(j).cls),
   stop        |-> Loc(j).name]

Jnys == Subsequence(jnyL, {i \in DOMAIN jnyL : Usable(jnyL[i])})

TranslateOtherEvent == [i \in DOMAIN Jnys |->                   \* a mutant
  TranslateJourney(Jnys[i], IF kind = "DEP" THEN Jnys[i].ARR ELSE Jnys[i].DEP)]

Translate == [i \in DOMAIN Jnys |-> TranslateJourney(Jnys[i], Jnys[i][kind])]

(* parseTimestamp, of a string that is empty or one that was written above *)
ParseTimestamp(s) == IF s = Null THEN ZeroTime ELSE s

EffectiveTime(primary, fallback) ==
  IF ParseTimestamp(primary) # ZeroTime
    THEN ParseTimestamp(primary)
    ELSE ParseTimestamp(fallback)

LatestTime(times) == Max({ZeroTime} \cup times)

ExpiryOfRealtime(items) ==                                      \* a mutant
  LatestTime({ParseTimestamp(d.when) : d \in ToSet(items)})

(* departuresExpiry and arrivalsExpiry                                     *)
Expiry(items) == LatestTime({EffectiveTime(d.when, d.plannedWhen) : d \in ToSet(items)})

-----------------------------------------------------------------------------

TruncatedMinutes(sec) == IF sec < 0 THEN -((-sec + 30) \div 60)  \* a mutant
                                    ELSE (sec + 30) \div 60

(* math.Floor(sec/60 + 0.5)                                                *)
Minutes(sec) == (sec + 30) \div 60

(* slices.SortStableFunc by time: departures at the same time stay in the  *)
(* order they came in.                                                     *)
TiesTurned(times, k, i) ==                                      \* a mutant
  times[k] < times[i] \/ (times[k] = times[i] /\ k >= i)

NotAfter(times, k, i) == times[k] < times[i] \/ (times[k] = times[i] /\ k <= i)

(* How many are sorted before it, itself included.                         *)
Place(times, i) == Cardinality({k \in DOMAIN times : NotAfter(times, k, i)})

StableOrder(times) ==
  [n \in DOMAIN times |-> CHOOSE i \in DOMAIN times : Place(times, i) = n]

Sorted(rows) ==
  LET order == StableOrder([i \in DOMAIN rows |-> rows[i].t])
  IN  [n \in DOMAIN rows |-> rows[order[n]]]

(* The first name that is not empty names the board.                       *)
NameOf(names) ==
  LET i == SelectInSeq(names, LAMBDA n : n # Null) IN IF i = 0 THEN Null ELSE names[i]

LineOrUnknown(line) == IF line = Null THEN "?" ELSE line

Shown(t) == t # ZeroTime /\ t >= now - Grace

ShownOf(rows) == Subsequence(rows, {i \in DOMAIN rows : Shown(rows[i].t)})

Flag(b) == IF b THEN 1 ELSE 0

(* transformCompactBoard, of a transport.rest body.                        *)
CompactRow(d) ==
  [l  |-> LineOrUnknown(d.line), p |-> d.product,
   t  |-> EffectiveTime(d.when, d.plannedWhen),
   dl |-> IF d.delay = Null THEN 0 ELSE Minutes(d.delay),
   c  |-> Flag(d.cancelled)]

TransformCompactBoard(items) ==
  LET rows == [i \in DOMAIN items |-> CompactRow(items[i])] IN
  [name |-> NameOf([i \in DOMAIN items |-> items[i].stop]),
   deps |-> Sorted(ShownOf(rows))]

(* transformHAFASCompactBoard, of the board itself, with its own index     *)
(* check, default zone, times, delay and names.                            *)
HafasSkips(j) ==
  \/ j.locX < 0  \/ j.locX >= Len(LocL)
  \/ j.prodX < 0 \/ j.prodX >= Len(ProdL)

HafasJnys == Subsequence(jnyL, {i \in DOMAIN jnyL : ~HafasSkips(jnyL[i])})

HafasTzAsIs(j) == Loc(j).tz                                     \* a mutant

HafasTz(j) == IF Loc(j).tz # 0 THEN Loc(j).tz ELSE 120

HafasRow(j) ==
  LET prod    == Prod(j)
      planned == ParseHAFASTime(j.date, j.DEP.timeS, HafasTz(j))
      when    == IF j.DEP.timeR # Null
                   THEN ParseHAFASTime(j.date, j.DEP.timeR, HafasTz(j))
                   ELSE planned
  IN  [l  |-> IF prod.nameS # Null THEN prod.nameS
              ELSE IF prod.name # Null THEN prod.name ELSE "?",
       p  |-> HafasProductName(prod.cls),
       t  |-> when,
       dl |-> IF j.DEP.timeR # Null THEN (Sub(when, planned) + 30) \div 60 ELSE 0,
       c  |-> IF j.DEP.cncl THEN 1 ELSE 0]

TransformHAFASCompactBoard ==
  LET rows == [i \in DOMAIN HafasJnys |-> HafasRow(HafasJnys[i])] IN
  [name |-> NameOf([i \in DOMAIN HafasJnys |-> Loc(HafasJnys[i]).name]),
   deps |-> Sorted(ShownOf(rows))]

-----------------------------------------------------------------------------

Init == kind \in {"DEP", "ARR"} /\ jnyL = <<>> /\ now \in Readings

AddJourney(j) ==
  /\ Len(jnyL) < MaxJourneys
  /\ jnyL' = Append(jnyL, j)
  /\ UNCHANGED <<kind, now>>

Tick(t) == t > now /\ now' = t /\ UNCHANGED <<kind, jnyL>>

Next == (\E j \in Journey : AddJourney(j)) \/ (\E t \in Readings : Tick(t))

Spec == Init /\ [][Next]_boardsVars

-----------------------------------------------------------------------------

(* The two paths agree on a departure unless it is cancelled and has a     *)
(* realtime (see CancelledAtPlanned), or has a realtime that is none.      *)
Plain(j) ==
  /\ j.DEP.cncl => j.DEP.timeR = Null
  /\ j.DEP.timeR # Null => When(j, j.DEP) # ZeroTime

(* handle_compact_departures.go repeats in its own words which journeys    *)
(* hafas_translate.go skips and how it reads zone, times and names: a      *)
(* compact board built from HAFAS at once equals the one built from the    *)
(* translated body, whatever of both boards has passed, cannot be parsed,  *)
(* or lacks a name.                                                        *)
PathsAgree ==
  kind = "DEP" /\ (\A i \in DOMAIN Jnys : Plain(Jnys[i])) =>
    TransformHAFASCompactBoard = TransformCompactBoard(Translate)

(* expiry.go and transformCompactBoard each find the time of a departure.  *)
(* A body of departures expires with the last row a compact board shows of *)
(* it, be that row cancelled or late; when it shows none, nothing of the   *)
(* body lies ahead.                                                        *)
ExpiresWithLastRow ==
  LET deps == TransformCompactBoard(Translate).deps IN
  kind = "DEP" =>
    IF deps = <<>> THEN ~Shown(Expiry(Translate)) ELSE Last(deps).t = Expiry(Translate)

(* Every event of a board, past, cancelled or late, arrival or departure,  *)
(* keeps the body that lists it from expiring before it: before its        *)
(* realtime, or before its plan when that is all it has or it is cancelled.*)
ExpiresAfterEvents ==
  \A i \in DOMAIN Jnys :
    LET j == Jnys[i]
        e == j[kind]
    IN  Expiry(Translate) >= IF e.cncl THEN PlannedWhen(j, e) ELSE When(j, e)

(* README: "dl" is the delay in whole minutes.  A row is at most half a    *)
(* minute away from the difference of its times, half minutes going up,    *)
(* early departures included, on both paths.                               *)
RowOf(j, r) ==
  /\ r.t = When(j, j.DEP)
  /\ LET d == When(j, j.DEP) - PlannedWhen(j, j.DEP)
     IN  60 * r.dl - d \in -29 .. 30

DelaysRound ==
  LET Dated(j) == Plain(j) /\ PlannedWhen(j, j.DEP) # ZeroTime IN
  kind = "DEP" /\ (\A i \in DOMAIN Jnys : Dated(Jnys[i])) =>
    \A board \in {TransformHAFASCompactBoard, TransformCompactBoard(Translate)} :
      \A r \in ToSet(board.deps) : \E j \in ToSet(Jnys) : RowOf(j, r)

(* README: "sorted by t ascending".  Of the departures HAFAS lists, those  *)
(* still to be shown are on the board, each once and in HAFAS's order when *)
(* at the same time, and nothing else is.                                  *)
SortedStably ==
  LET deps == TransformHAFASCompactBoard.deps
      At(t) == Subsequence(deps, {i \in DOMAIN deps : deps[i].t = t})
      LeavingAt(t) == Subsequence(Jnys, {i \in DOMAIN Jnys : When(Jnys[i], Jnys[i].DEP) = t})
  IN
  kind = "DEP" =>
    /\ \A i, k \in DOMAIN deps : i < k => deps[i].t <= deps[k].t
    /\ \A j \in ToSet(Jnys) :
         LET t    == When(j, j.DEP)
             same == LeavingAt(t)
         IN  Shown(t) => At(t) = [i \in DOMAIN same |-> HafasRow(same[i])]
    /\ \A r \in ToSet(deps) :
         \E j \in ToSet(Jnys) : Shown(When(j, j.DEP)) /\ r = HafasRow(j)

(* README, of "c": a cancelled departure is "kept in the list, timed by    *)
(* its planned departure".                                                 *)
CancelledAtPlanned ==
  LET Dated(j) == PlannedWhen(j, j.DEP) # ZeroTime IN
  kind = "DEP" /\ (\A i \in DOMAIN Jnys : Dated(Jnys[i])) =>
    \A r \in ToSet(TransformHAFASCompactBoard.deps) :
      r.c = 1 => \E j \in ToSet(Jnys) : j.DEP.cncl /\ r.t = PlannedWhen(j, j.DEP)

=============================================================================
