---------------------------- MODULE BoardsProofs ----------------------------
(***************************************************************************)
(* Boards of any length, at any time, with any clock times: the two ways   *)
(* to a compact board agree, its rows are in order, and bodies expire with *)
(* their last event.                                                       *)
(***************************************************************************)
EXTENDS Boards, SubsequenceProofs

-----------------------------------------------------------------------------

(* Of two departures, the one sorted later has the later place.            *)
LEMMA PlaceGrows ==
  ASSUME NEW n \in Nat, NEW times \in [1 .. n -> Int], NEW i \in 1 .. n, NEW j \in 1 .. n,
         i # j, NotAfter(times, i, j)
  PROVE  /\ Place(times, i) \in 1 .. n /\ Place(times, j) \in 1 .. n
         /\ Place(times, i) < Place(times, j)
<1> DEFINE A == {k \in 1 .. n : NotAfter(times, k, i)}
           B == {k \in 1 .. n : NotAfter(times, k, j)}
<1>1. /\ \A k \in 1 .. n : times[k] \in Int /\ k \in Int
      /\ IsFiniteSet(1 .. n) /\ Cardinality(1 .. n) = n
  BY AscendingInterval
<1>2. /\ \A k \in 1 .. n : NotAfter(times, k, i) => NotAfter(times, k, j) /\ k # j
      /\ NotAfter(times, i, i) /\ NotAfter(times, j, j)
  BY <1>1 DEF NotAfter
<1>3. A \in SUBSET (B \ {j}) /\ i \in A /\ j \in B /\ B \in SUBSET (1 .. n)
  BY <1>2
<1>4. Place(times, i) = Cardinality(A) /\ Place(times, j) = Cardinality(B)
  BY DEF Place
<1> HIDE DEF A, B
<1>5. IsFiniteSet(B) /\ Cardinality(B) <= n
  <2>1. B \in SUBSET (1 .. n) /\ IsFiniteSet(1 .. n) /\ Cardinality(1 .. n) = n
    BY <1>1, <1>3
  <2>2. IsFiniteSet(B) /\ Cardinality(B) <= Cardinality(1 .. n)
    BY ONLY <2>1, FS_Subset
  <2> QED  BY <2>1, <2>2
<1>6. IsFiniteSet(B \ {j}) /\ Cardinality(B \ {j}) = Cardinality(B) - 1
  BY <1>3, <1>5, FS_RemoveElement
<1>7. IsFiniteSet(A) /\ Cardinality(A) <= Cardinality(B \ {j})
  BY <1>3, <1>6, FS_Subset
<1>8. Cardinality(A) \in Nat /\ Cardinality(B) \in Nat /\ Cardinality(A) # 0
  BY <1>3, <1>5, <1>7, FS_CardinalityType, FS_EmptySet
<1> QED  BY <1>4, <1>5, <1>6, <1>7, <1>8

(* Every departure has a place on the board.                               *)
LEMMA PlaceType ==
  ASSUME NEW n \in Nat, NEW times \in [1 .. n -> Int], NEW i \in 1 .. n
  PROVE  Place(times, i) \in 1 .. n
<1> DEFINE A == {k \in 1 .. n : NotAfter(times, k, i)}
<1>1. /\ A \in SUBSET (1 .. n) /\ Place(times, i) = Cardinality(A)
      /\ IsFiniteSet(1 .. n) /\ Cardinality(1 .. n) = n
  BY AscendingInterval DEF Place
<1>2. i \in A
  BY DEF NotAfter
<1> HIDE DEF A
<1>3. IsFiniteSet(A) /\ Cardinality(A) <= n
  BY <1>1, FS_Subset
<1>4. Cardinality(A) \in Nat /\ Cardinality(A) # 0
  BY <1>2, <1>3, FS_CardinalityType, FS_EmptySet
<1> QED  BY <1>1, <1>3, <1>4

(* slices.SortStableFunc permutes the departures, by time and, at the same *)
(* time, by where they were.                                               *)
LEMMA StableOrderOk ==
  ASSUME NEW n \in Nat, NEW times \in [1 .. n -> Int]
  PROVE  /\ StableOrder(times) \in [1 .. n -> 1 .. n]
         /\ \A i \in 1 .. n : \E m \in 1 .. n : StableOrder(times)[m] = i
         /\ \A i, j \in 1 .. n : i < j =>
              LET a == StableOrder(times)[i]
                  b == StableOrder(times)[j]
              IN  times[a] < times[b] \/ (times[a] = times[b] /\ a < b)
<1> DEFINE f == [i \in 1 .. n |-> Place(times, i)]
           o == StableOrder(times)
<1>1. IsFiniteSet(1 .. n) /\ Cardinality(1 .. n) = n
  BY AscendingInterval
<1>2. \A i, j \in 1 .. n : NotAfter(times, i, j) \/ NotAfter(times, j, i)
  <2>1. \A i \in 1 .. n : times[i] \in Int /\ i \in Int
    OBVIOUS
  <2> QED  BY <2>1 DEF NotAfter
<1>3. f \in [1 .. n -> 1 .. n]
  BY PlaceType
<1>4. ASSUME NEW i \in 1 .. n, NEW j \in 1 .. n, f[i] = f[j] PROVE i = j
  <2>1. /\ Place(times, i) = Place(times, j) /\ Place(times, i) \in 1 .. n
    BY <1>4, PlaceType
  <2>2. i # j /\ NotAfter(times, i, j) => Place(times, i) < Place(times, j)
    BY PlaceGrows
  <2>3. i # j /\ NotAfter(times, j, i) => Place(times, j) < Place(times, i)
    BY PlaceGrows
  <2> QED  BY <1>2, <2>1, <2>2, <2>3
<1>5. f \in Surjection(1 .. n, 1 .. n)
  <2> HIDE DEF f
  <2>1. f \in Injection(1 .. n, 1 .. n)
    BY <1>3, <1>4 DEF Injection, IsInjective
  <2> QED  BY <1>1, <2>1, FS_Injection
<1>6. ASSUME NEW m \in 1 .. n PROVE o[m] \in 1 .. n /\ Place(times, o[m]) = m
  <2>1. \E i \in 1 .. n : Place(times, i) = m
    <3> HIDE DEF f
    <3>1. \E i \in 1 .. n : f[i] = m
      BY <1>5 DEF Surjection
    <3> QED  BY <3>1 DEF f
  <2>2. o[m] = CHOOSE i \in 1 .. n : Place(times, i) = m
    BY DEF StableOrder
  <2> QED  BY <2>1, <2>2
<1>7. o \in [1 .. n -> 1 .. n]
  BY <1>6 DEF StableOrder
<1> HIDE DEF o
<1>8. ASSUME NEW i \in 1 .. n PROVE \E m \in 1 .. n : o[m] = i
  <2>1. Place(times, i) \in 1 .. n /\ f[o[Place(times, i)]] = f[i]
    BY <1>6, PlaceType
  <2> QED  BY <1>4, <1>6, <2>1
<1>9. ASSUME NEW i \in 1 .. n, NEW j \in 1 .. n, i < j
      PROVE  times[o[i]] < times[o[j]] \/ (times[o[i]] = times[o[j]] /\ o[i] < o[j])
  <2>1. /\ o[i] \in 1 .. n /\ o[j] \in 1 .. n
        /\ Place(times, o[i]) = i /\ Place(times, o[j]) = j
    BY <1>6
  <2>2. ~NotAfter(times, o[j], o[i])
    <3>1. o[i] # o[j]
      BY <1>9, <2>1
    <3>2. NotAfter(times, o[j], o[i]) => Place(times, o[j]) < Place(times, o[i])
      BY <2>1, <3>1, PlaceGrows
    <3> QED  BY <1>9, <2>1, <3>2
  <2>3. times[o[i]] \in Int /\ times[o[j]] \in Int /\ o[i] \in Int /\ o[j] \in Int
    BY <2>1
  <2> QED  BY <2>2, <2>3 DEF NotAfter
<1> QED  BY <1>7, <1>8, <1>9 DEF o

(* The departures of a compact board: the rows that are shown, each once,  *)
(* by time and, at the same time, in the order of the rows.                *)
Arranged(rows, deps, size, from) ==
  LET shown == {i \in DOMAIN rows : Shown(rows[i].t)} IN
  /\ size \in Nat /\ from \in [1 .. size -> shown]
  /\ deps = [x \in 1 .. size |-> rows[from[x]]]
  /\ \A i \in shown : \E x \in 1 .. size : from[x] = i
  /\ \A x, y \in 1 .. size : x < y =>
       \/ rows[from[x]].t < rows[from[y]].t
       \/ rows[from[x]].t = rows[from[y]].t /\ from[x] < from[y]

(* What transformCompactBoard and its twin append and then sort.           *)
LEMMA DepsArranged ==
  ASSUME NEW n \in Nat, NEW rows, rows = [i \in 1 .. n |-> rows[i]],
         \A i \in 1 .. n : rows[i].t \in Int
  PROVE  \E size, from : Arranged(rows, Sorted(ShownOf(rows)), size, from)
<1> DEFINE P == {i \in DOMAIN rows : Shown(rows[i].t)}
           m == Cardinality(P)
           kept == Subsequence(rows, P)
           at == Ascending(P)
           times == [i \in DOMAIN kept |-> kept[i].t]
           o == StableOrder(times)
           from == [x \in 1 .. m |-> at[o[x]]]
<1>1. P \in SUBSET (1 .. n) /\ P \in SUBSET Int
  OBVIOUS
<1>2. /\ m \in Nat /\ at \in [1 .. m -> P]
      /\ \A i, j \in 1 .. m : i < j => at[i] < at[j]
      /\ \A x \in P : \E i \in 1 .. m : at[i] = x
  <2>1. IsFiniteSet(1 .. n)
    BY AscendingInterval
  <2> HIDE DEF P
  <2>2. IsFiniteSet(P)
    BY <1>1, <2>1, FS_Subset
  <2> QED  BY <1>1, <2>2, AscendingOk
<1>3. ShownOf(rows) = kept
  BY DEF ShownOf
<1>4. DOMAIN kept = 1 .. m /\ \A i \in 1 .. m : kept[i] = rows[at[i]]
  BY DEF Subsequence
<1>5. \A i \in P : i \in 1 .. n /\ i \in Int /\ rows[i].t \in Int
  BY <1>1
<1> HIDE DEF P, m, at, kept
<1>6. /\ times \in [1 .. m -> Int]
      /\ \A i \in 1 .. m : times[i] = rows[at[i]].t
  BY <1>2, <1>4, <1>5
<1>7. Sorted(kept) = [x \in DOMAIN kept |-> kept[o[x]]]
  BY DEF Sorted
<1> HIDE DEF times, o
<1>8. /\ o \in [1 .. m -> 1 .. m]
      /\ \A i \in 1 .. m : \E x \in 1 .. m : o[x] = i
      /\ \A x, y \in 1 .. m : x < y =>
           times[o[x]] < times[o[y]] \/ (times[o[x]] = times[o[y]] /\ o[x] < o[y])
  BY <1>2, <1>6, StableOrderOk DEF o
<1>9. from \in [1 .. m -> P]
  BY <1>2, <1>8
<1>10. Sorted(kept) = [x \in 1 .. m |-> rows[from[x]]]
  <2>1. \A x \in 1 .. m : kept[o[x]] = rows[from[x]]
    BY <1>4, <1>8
  <2> QED  BY <1>4, <1>7, <2>1
<1>11. ASSUME NEW i \in P PROVE \E x \in 1 .. m : from[x] = i
  <2>1. PICK y \in 1 .. m : at[y] = i
    BY <1>2
  <2>2. PICK x \in 1 .. m : o[x] = y
    BY <1>8
  <2> QED  BY <2>1, <2>2
<1>12. ASSUME NEW x \in 1 .. m, NEW y \in 1 .. m, x < y
       PROVE  \/ rows[from[x]].t < rows[from[y]].t
              \/ rows[from[x]].t = rows[from[y]].t /\ from[x] < from[y]
  <2>1. /\ o[x] \in 1 .. m /\ o[y] \in 1 .. m
        /\ times[o[x]] = rows[from[x]].t /\ times[o[y]] = rows[from[y]].t
    BY <1>6, <1>8
  <2>2. o[x] < o[y] => from[x] < from[y]
    BY <1>2, <2>1
  <2> QED  BY <1>8, <1>12, <2>1, <2>2
<1>13. P = {i \in DOMAIN rows : Shown(rows[i].t)}
  BY DEF P
<1> HIDE DEF from
<1> QED  BY <1>2, <1>3, <1>9, <1>10, <1>11, <1>12, <1>13 DEF Arranged

-----------------------------------------------------------------------------

(* What a board is made of, however it has grown.                          *)
BInv == kind \in {"DEP", "ARR"} /\ now \in Readings /\ jnyL \in Seq(Journey)

(* HAFAS adds journeys of the board's type, and time passes.               *)
LEMMA AlwaysBInv == Spec => []BInv
<1>1. Init => BInv
  BY DEF Init, BInv
<1>2. BInv /\ [Next]_boardsVars => BInv'
  <2> SUFFICES ASSUME BInv, [Next]_boardsVars PROVE BInv'
    OBVIOUS
  <2>1. UNCHANGED kind => Journey' = Journey
    BY DEF Journey
  <2>2. CASE UNCHANGED boardsVars
    BY <2>1, <2>2 DEF BInv, boardsVars
  <2>3. ASSUME NEW j \in Journey, AddJourney(j) PROVE BInv'
    <3>1. Append(jnyL, j) \in Seq(Journey)
      BY DEF BInv
    <3> QED  BY <2>1, <2>3, <3>1 DEF AddJourney, BInv
  <2>4. ASSUME NEW t \in Readings, Tick(t) PROVE BInv'
    BY <2>1, <2>4 DEF Tick, BInv
  <2> QED  BY <2>2, <2>3, <2>4 DEF Next
<1> QED  BY <1>1, <1>2, PTL DEF Spec

(* A time of day, with its day offset, in seconds.                         *)
LEMMA SecondsType == ASSUME NEW c \in Clock PROVE Seconds(c) \in Int
BY DEF Clock, Seconds

(* An event of a journey whose indices name a stop and a product.          *)
Known(j, e) ==
  /\ j.date \in Dates /\ e \in Event
  /\ TzOffset(Loc(j)) \in Int /\ When(j, e) \in Int /\ PlannedWhen(j, e) \in Int

(* A skipped journey is on neither path; the others have a stop and times. *)
LEMMA JnysOk ==
  ASSUME BInv
  PROVE  \E n \in Nat :
           /\ Jnys = [i \in 1 .. n |-> Jnys[i]]
           /\ \A i \in 1 .. n : Known(Jnys[i], Jnys[i][kind])
<1> DEFINE P == {i \in DOMAIN jnyL : Usable(jnyL[i])}
           n == Cardinality(P)
<1>1. jnyL \in Seq(Journey) /\ P \in SUBSET DOMAIN jnyL
  BY DEF BInv
<1>2. Jnys = Subsequence(jnyL, P)
  BY DEF Jnys
<1>3. \A p \in P : jnyL[p] \in Journey /\ Usable(jnyL[p])
  BY <1>1
<1> HIDE DEF P
<1>4. /\ n \in Nat /\ DOMAIN Jnys = 1 .. n /\ Jnys \in Seq(Journey)
      /\ \A i \in 1 .. n : Jnys[i] \in Journey /\ Usable(Jnys[i])
  BY <1>1, <1>2, <1>3, SubsequenceOk
<1>5. Jnys = [i \in 1 .. n |-> Jnys[i]]
  BY <1>4
<1>6. ASSUME NEW i \in 1 .. n PROVE Known(Jnys[i], Jnys[i][kind])
  <2> DEFINE j == Jnys[i]
             e == j[kind]
  <2>1. j \in Journey /\ Usable(j) /\ kind \in {"DEP", "ARR"}
    BY <1>4 DEF BInv
  <2> HIDE DEF j
  <2>2. j.date \in Dates /\ e \in Event
    BY <2>1 DEF Journey
  <2>3. TzOffset(Loc(j)) \in Int
    BY <2>1, BoardsAssumption DEF BoardsAssumption, Usable, Loc, TzOffset
  <2> HIDE DEF e
  <2>4. ASSUME NEW c \in Clock \cup {Null, Short}
        PROVE  ParseHAFASTime(j.date, c, TzOffset(Loc(j))) \in Int
    <3>1. j.date \in Int \cup {Null} /\ ZeroTime \in Int
      BY <2>2, BoardsAssumption DEF BoardsAssumption
    <3>2. CASE c \in Clock
      BY <2>3, <3>1, <3>2, SecondsType DEF ParseHAFASTime
    <3>3. CASE c \in {Null, Short}
      BY <3>1, <3>3 DEF ParseHAFASTime
    <3> QED  BY <3>2, <3>3
  <2>5. e.timeS \in Clock \cup {Null, Short} /\ e.timeR \in Clock \cup {Null, Short}
    BY <2>2, BoardsAssumption DEF BoardsAssumption, Event
  <2>6. When(j, e) \in Int /\ PlannedWhen(j, e) \in Int
    BY <2>4, <2>5 DEF When, PlannedWhen
  <2> QED  BY <2>2, <2>3, <2>6 DEF Known, e, j
<1> QED  BY <1>4, <1>5, <1>6

-----------------------------------------------------------------------------

(* effectiveTime of a departure or arrival translated from HAFAS.          *)
Effective(d) == EffectiveTime(d.when, d.plannedWhen)

(* The realtime, unless it is cancelled or has none that can be read.      *)
LEMMA EffectiveOk ==
  ASSUME NEW j, NEW e, Known(j, e)
  PROVE  /\ Effective(TranslateJourney(j, e)) \in Int
         /\ Effective(TranslateJourney(j, e)) =
              IF e.cncl \/ When(j, e) = ZeroTime THEN PlannedWhen(j, e) ELSE When(j, e)
<1>1. /\ When(j, e) \in Int /\ PlannedWhen(j, e) \in Int /\ e.cncl \in BOOLEAN
      /\ Null \notin Int
  BY BoardsAssumption DEF BoardsAssumption, Known, Event
<1>2. /\ TranslateJourney(j, e).when = IF e.cncl THEN Null ELSE When(j, e)
      /\ TranslateJourney(j, e).plannedWhen = PlannedWhen(j, e)
  BY DEF TranslateJourney
<1>3. /\ ParseTimestamp(Null) = ZeroTime /\ ParseTimestamp(When(j, e)) = When(j, e)
      /\ ParseTimestamp(PlannedWhen(j, e)) = PlannedWhen(j, e)
  BY <1>1 DEF ParseTimestamp
<1> QED  BY <1>1, <1>2, <1>3 DEF Effective, EffectiveTime

(* transformHAFASCompactBoard skips the journeys translateDepartures skips.*)
LEMMA SameJnys == ASSUME BInv PROVE HafasJnys = Jnys
<1>1. ASSUME NEW i \in DOMAIN jnyL PROVE ~HafasSkips(jnyL[i]) <=> Usable(jnyL[i])
  <2> DEFINE j == jnyL[i]
  <2>1. j \in Journey
    BY DEF BInv
  <2>2. PICK q \in Places : j.locX = q[1] /\ j.prodX = q[2]
    BY <2>1 DEF Journey
  <2>3. j.locX \in Int /\ j.prodX \in Int /\ Len(LocL) \in Nat /\ Len(ProdL) \in Nat
    BY <2>2, BoardsAssumption DEF BoardsAssumption
  <2> HIDE DEF j
  <2>4. ~HafasSkips(j) <=> Usable(j)
    BY <2>3 DEF HafasSkips, Usable
  <2> QED  BY <2>4 DEF j
<1>2. {i \in DOMAIN jnyL : ~HafasSkips(jnyL[i])} = {i \in DOMAIN jnyL : Usable(jnyL[i])}
  BY <1>1
<1> QED  BY <1>2 DEF HafasJnys, Jnys

(* It reads zone, times and names like translateDepartures, and rounds and *)
(* flags like transformCompactBoard.                                       *)
LEMMA HafasRowOk ==
  ASSUME NEW j
  PROVE  HafasRow(j) =
           [l  |-> LineOrUnknown(LineName(Prod(j))), p |-> HafasProductName(Prod(j).cls),
            t  |-> When(j, j.DEP),
            dl |-> IF j.DEP.timeR = Null THEN 0
                   ELSE Minutes(Sub(When(j, j.DEP), PlannedWhen(j, j.DEP))),
            c  |-> Flag(j.DEP.cncl)]
<1> DEFINE tz == HafasTz(j)
           prod == Prod(j)
           planned == ParseHAFASTime(j.date, j.DEP.timeS, tz)
           when == IF j.DEP.timeR # Null THEN ParseHAFASTime(j.date, j.DEP.timeR, tz) ELSE planned
           name == IF prod.nameS # Null THEN prod.nameS
                   ELSE IF prod.name # Null THEN prod.name ELSE "?"
           dl == IF j.DEP.timeR # Null THEN (Sub(when, planned) + 30) \div 60 ELSE 0
           c == IF j.DEP.cncl THEN 1 ELSE 0
<1>1. tz = TzOffset(Loc(j))
  BY DEF HafasTz, TzOffset
<1>2. planned = PlannedWhen(j, j.DEP) /\ when = When(j, j.DEP)
  BY <1>1 DEF PlannedWhen, When
<1>3. name = LineOrUnknown(LineName(prod))
  BY DEF LineOrUnknown, LineName
<1>4. dl = IF j.DEP.timeR = Null THEN 0
           ELSE Minutes(Sub(When(j, j.DEP), PlannedWhen(j, j.DEP)))
  BY <1>2 DEF Minutes
<1>5. c = Flag(j.DEP.cncl)
  BY DEF Flag
<1>6. HafasRow(j) = [l |-> name, p |-> HafasProductName(prod.cls), t |-> when, dl |-> dl, c |-> c]
  BY DEF HafasRow
<1> HIDE DEF tz, prod, planned, when, name, dl, c
<1> QED  BY <1>2, <1>3, <1>4, <1>5, <1>6 DEF prod

(* transformHAFASCompactBoard repeats translateDepartures and              *)
(* transformCompactBoard field by field.                                   *)
LEMMA RowsAgree ==
  ASSUME NEW j, Known(j, j.DEP), Plain(j)
  PROVE  CompactRow(TranslateJourney(j, j.DEP)) = HafasRow(j)
<1> DEFINE e == j.DEP
           d == TranslateJourney(j, e)
<1>1. /\ When(j, e) \in Int /\ PlannedWhen(j, e) \in Int /\ e.cncl \in BOOLEAN
      /\ Null \notin Int /\ MaxSpan \in Nat
  BY BoardsAssumption DEF BoardsAssumption, Known, Event
<1>2. e.timeR = Null => When(j, e) = PlannedWhen(j, e)
  BY DEF When
<1>3. Effective(d) = When(j, e)
  BY <1>1, <1>2, EffectiveOk DEF Plain
<1>4. /\ d.line = LineName(Prod(j)) /\ d.product = HafasProductName(Prod(j).cls)
      /\ d.cancelled = e.cncl
      /\ d.delay = IF e.timeR = Null THEN Null ELSE Sub(When(j, e), PlannedWhen(j, e))
  BY DEF TranslateJourney
<1>5. Sub(When(j, e), PlannedWhen(j, e)) \in Int
  BY <1>1 DEF Sub
<1>6. d.delay = Null <=> e.timeR = Null
  BY <1>1, <1>4, <1>5
<1> HIDE DEF d
<1>7. CompactRow(d) = HafasRow(j)
  BY <1>3, <1>4, <1>6, HafasRowOk DEF CompactRow, Effective
<1> QED  BY <1>7 DEF d

(* handle_compact_departures.go repeats hafas_translate.go in its own      *)
(* words, for boards of any length: built from HAFAS at once or from the          *)
(* translated body, a compact board is the same.                           *)
THEOREM BothPathsAgree == Spec => []PathsAgree
<1>1. BInv => PathsAgree
  <2> SUFFICES ASSUME BInv, kind = "DEP", \A i \in DOMAIN Jnys : Plain(Jnys[i])
               PROVE  TransformHAFASCompactBoard = TransformCompactBoard(Translate)
    BY DEF PathsAgree
  <2>1. PICK n \in Nat : /\ Jnys = [i \in 1 .. n |-> Jnys[i]]
                         /\ \A i \in 1 .. n : Known(Jnys[i], Jnys[i][kind])
    BY JnysOk
  <2>2. /\ Translate = [i \in 1 .. n |-> TranslateJourney(Jnys[i], Jnys[i].DEP)]
        /\ DOMAIN Translate = 1 .. n /\ DOMAIN Jnys = 1 .. n
    BY <2>1 DEF Translate
  <2>3. \A i \in 1 .. n : CompactRow(Translate[i]) = HafasRow(Jnys[i])
    BY <2>1, <2>2, RowsAgree
  <2>4. \A i \in 1 .. n : Translate[i].stop = Loc(Jnys[i]).name
    BY <2>2 DEF TranslateJourney
  <2>5. /\ [i \in DOMAIN Translate |-> CompactRow(Translate[i])] =
             [i \in DOMAIN Jnys |-> HafasRow(Jnys[i])]
        /\ [i \in DOMAIN Translate |-> Translate[i].stop] =
             [i \in DOMAIN Jnys |-> Loc(Jnys[i]).name]
    BY <2>2, <2>3, <2>4
  <2> QED  BY <2>5, SameJnys DEF TransformHAFASCompactBoard, TransformCompactBoard
<1> QED  BY <1>1, AlwaysBInv, PTL

(* latestTime over a body: the latest of its times, or the zero time.      *)
LEMMA ExpiryOk ==
  ASSUME NEW n \in Nat, NEW items, items = [i \in 1 .. n |-> items[i]],
         \A i \in 1 .. n : Effective(items[i]) \in Int
  PROVE  /\ Expiry(items) \in Int /\ Expiry(items) >= ZeroTime
         /\ \A i \in 1 .. n : Expiry(items) >= Effective(items[i])
         /\ Expiry(items) = ZeroTime \/ \E i \in 1 .. n : Expiry(items) = Effective(items[i])
<1> DEFINE times == {Effective(d) : d \in ToSet(items)}
           f == [i \in 1 .. n |-> Effective(items[i])]
           S == {ZeroTime} \cup times
<1>1. times = {Effective(items[i]) : i \in 1 .. n}
  BY DEF ToSet
<1>2. Expiry(items) = Max(S)
  BY DEF Expiry, LatestTime, Effective
<1>3. f \in Surjection(1 .. n, times)
  BY <1>1 DEF Surjection
<1>4. \A i \in 1 .. n : Effective(items[i]) \in times
  BY <1>1
<1>5. \A x \in times : x \in Int /\ \E i \in 1 .. n : x = Effective(items[i])
  BY <1>1
<1> HIDE DEF times, f
<1>6. IsFiniteSet(S)
  <2>1. IsFiniteSet(1 .. n)
    BY AscendingInterval
  <2>2. IsFiniteSet(times)
    BY <1>3, <2>1, FS_Surjection
  <2>3. S = times \cup {ZeroTime}
    OBVIOUS
  <2> QED  BY <2>2, <2>3, FS_AddElement
<1>7. S \in SUBSET Int /\ S # {} /\ ZeroTime \in S
  BY <1>5, BoardsAssumption DEF BoardsAssumption
<1> HIDE DEF S
<1>8. Max(S) \in S /\ \A x \in S : x <= Max(S)
  BY <1>6, <1>7, FiniteHasLatest
<1>9. Max(S) \in Int /\ \A x \in S : Max(S) >= x
  BY <1>7, <1>8
<1>10. \A x \in S : x = ZeroTime \/ x \in times
  BY DEF S
<1>11. \A x \in times : x \in S
  BY DEF S
<1> QED  BY <1>2, <1>4, <1>5, <1>7, <1>8, <1>9, <1>10, <1>11

(* Every event of a board, past, cancelled or late, arrival or departure,  *)
(* keeps the body that lists it from expiring before it: departuresExpiry  *)
(* and arrivalsExpiry look at every entry, at its plan when it has no time.*)
THEOREM BodiesOutlastEvents == Spec => []ExpiresAfterEvents
<1>1. BInv => ExpiresAfterEvents
  <2> SUFFICES ASSUME BInv PROVE ExpiresAfterEvents
    OBVIOUS
  <2>1. PICK n \in Nat : /\ Jnys = [i \in 1 .. n |-> Jnys[i]]
                         /\ \A i \in 1 .. n : Known(Jnys[i], Jnys[i][kind])
    BY JnysOk
  <2>2. /\ Translate = [i \in 1 .. n |-> Translate[i]] /\ DOMAIN Jnys = 1 .. n
        /\ \A i \in 1 .. n : Translate[i] = TranslateJourney(Jnys[i], Jnys[i][kind])
    BY <2>1 DEF Translate
  <2>3. \A i \in 1 .. n : Effective(Translate[i]) \in Int
    BY <2>1, <2>2, EffectiveOk
  <2>4. /\ Expiry(Translate) \in Int /\ Expiry(Translate) >= ZeroTime
        /\ \A i \in 1 .. n : Expiry(Translate) >= Effective(Translate[i])
    BY <2>2, <2>3, ExpiryOk
  <2>5. ASSUME NEW i \in 1 .. n, NEW j, j = Jnys[i], NEW e, e = j[kind]
        PROVE  Expiry(Translate) >= IF e.cncl THEN PlannedWhen(j, e) ELSE When(j, e)
    <3>1. Effective(Translate[i]) =
            IF e.cncl \/ When(j, e) = ZeroTime THEN PlannedWhen(j, e) ELSE When(j, e)
      BY <2>1, <2>2, <2>5, EffectiveOk
    <3> QED  BY <2>4, <3>1
  <2> QED  BY <2>2, <2>5 DEF ExpiresAfterEvents
<1> QED  BY <1>1, AlwaysBInv, PTL

(* expiry.go and transformCompactBoard each look for the time of a         *)
(* departure.  A body expires with the last row a compact board shows of   *)
(* it; when it shows none, nothing of the body lies ahead.                 *)
THEOREM BodyExpiresWithLastRow == Spec => []ExpiresWithLastRow
<1>1. BInv => ExpiresWithLastRow
  <2> DEFINE deps == TransformCompactBoard(Translate).deps
             rows == [i \in DOMAIN Translate |-> CompactRow(Translate[i])]
             last == Expiry(Translate)
  <2> SUFFICES ASSUME BInv, kind = "DEP"
               PROVE  IF deps = <<>> THEN ~Shown(last) ELSE Last(deps).t = last
    BY DEF ExpiresWithLastRow
  <2>1. PICK n \in Nat : /\ Jnys = [i \in 1 .. n |-> Jnys[i]]
                         /\ \A i \in 1 .. n : Known(Jnys[i], Jnys[i][kind])
    BY JnysOk
  <2>2. /\ Translate = [i \in 1 .. n |-> Translate[i]]
        /\ \A i \in 1 .. n : Translate[i] = TranslateJourney(Jnys[i], Jnys[i][kind])
    BY <2>1 DEF Translate
  <2>3. \A i \in 1 .. n : Effective(Translate[i]) \in Int
    BY <2>1, <2>2, EffectiveOk
  <2>4. /\ rows = [i \in 1 .. n |-> rows[i]] /\ DOMAIN rows = 1 .. n
        /\ \A i \in 1 .. n : rows[i].t = Effective(Translate[i])
    BY <2>2 DEF CompactRow, Effective
  <2>5. deps = Sorted(ShownOf(rows))
    BY DEF TransformCompactBoard
  <2>6. /\ last \in Int /\ last >= ZeroTime
        /\ \A i \in 1 .. n : last >= rows[i].t
        /\ last = ZeroTime \/ \E i \in 1 .. n : last = rows[i].t
    BY <2>2, <2>3, <2>4, ExpiryOk
  <2> HIDE DEF rows, deps, last
  <2>7. PICK m, from : Arranged(rows, deps, m, from)
    BY <2>3, <2>4, <2>5, DepsArranged
  <2> DEFINE shown == {i \in DOMAIN rows : Shown(rows[i].t)}
  <2>8. /\ m \in Nat /\ from \in [1 .. m -> shown] /\ deps = [x \in 1 .. m |-> rows[from[x]]]
        /\ \A i \in shown : \E x \in 1 .. m : from[x] = i
        /\ \A x, y \in 1 .. m : x < y => rows[from[x]].t <= rows[from[y]].t
    <3>1. \A x \in 1 .. m : rows[from[x]].t \in Int
      BY <2>3, <2>4, <2>7 DEF Arranged
    <3> QED  BY <2>7, <3>1 DEF Arranged
  <2>9. ASSUME NEW i \in shown
        PROVE  i \in 1 .. n /\ Shown(rows[i].t) /\ rows[i].t \in Int
    BY <2>3, <2>4
  <2>10. Shown(last) => \E i \in shown : rows[i].t = last
    BY <2>4, <2>6 DEF Shown
  <2> HIDE DEF shown
  <2>11. CASE deps = <<>>
    <3>1. m = 0
      BY <2>8, <2>11
    <3> QED  BY <2>8, <2>10, <2>11, <3>1
  <2>12. CASE deps # <<>>
    <3>1. m \in 1 .. m
      BY <2>8, <2>12
    <3>2. Last(deps) = rows[from[m]]
      BY <2>8, <3>1 DEF Last
    <3>3. from[m] \in shown /\ Shown(rows[from[m]].t) /\ rows[from[m]].t \in Int
      BY <2>8, <2>9, <3>1
    <3>4. \A i \in shown : rows[i].t <= rows[from[m]].t
      <4>1. ASSUME NEW i \in shown PROVE rows[i].t <= rows[from[m]].t
        <5>1. PICK x \in 1 .. m : from[x] = i
          BY <2>8
        <5>2. x = m \/ x < m
          BY <3>1
        <5> QED  BY <2>8, <3>1, <3>3, <5>1, <5>2
      <4> QED  BY <4>1
    <3>5. Shown(last)
      <4>1. last >= rows[from[m]].t
        BY <2>6, <2>9, <3>3
      <4>2. now \in Nat /\ now - Grace > ZeroTime /\ Grace \in Nat /\ ZeroTime \in Int
        BY BoardsAssumption DEF BInv, BoardsAssumption
      <4> QED  BY <2>6, <3>3, <4>1, <4>2 DEF Shown
    <3>6. PICK i \in shown : rows[i].t = last
      BY <2>10, <3>5
    <3>7. last <= rows[from[m]].t /\ last >= rows[from[m]].t
      BY <2>6, <2>9, <3>3, <3>4, <3>6
    <3> QED  BY <2>6, <2>12, <3>2, <3>3, <3>7
  <2> QED  BY <2>11, <2>12
<1> QED  BY <1>1, AlwaysBInv, PTL

-----------------------------------------------------------------------------

(* math.Floor(d/60 + 0.5) minutes are d seconds, to half a minute.         *)
LEMMA MinutesRound == ASSUME NEW d \in Int PROVE 60 * Minutes(d) - d \in -29 .. 30
BY DEF Minutes

(* The row of a departure that has its times: the delay is not cut short.  *)
LEMMA RowRounds ==
  ASSUME NEW j, Known(j, j.DEP), Plain(j), PlannedWhen(j, j.DEP) # ZeroTime
  PROVE  RowOf(j, HafasRow(j))
<1> DEFINE e == j.DEP
           tz == TzOffset(Loc(j))
           d == When(j, e) - PlannedWhen(j, e)
<1>1. /\ When(j, e) \in Int /\ PlannedWhen(j, e) \in Int /\ Null \notin Int /\ Null # Short
      /\ j.date \in Int \cup {Null} /\ MaxSpan \in Nat
      /\ e.timeS \in Clocks \cup {Short} /\ e.timeR \in Realtimes
  BY BoardsAssumption DEF BoardsAssumption, Known, Event
<1>2. HafasRow(j).t = When(j, e)
  BY HafasRowOk
<1>3. CASE e.timeR = Null
  <2>1. HafasRow(j).dl = 0
    BY <1>3, HafasRowOk
  <2>2. d = 0
    BY <1>1, <1>3 DEF When
  <2> QED  BY <1>2, <2>1, <2>2 DEF RowOf
<1>4. CASE e.timeR # Null
  <2>1. e.timeS \in Clocks /\ j.date # Null
    BY <1>1 DEF PlannedWhen, ParseHAFASTime
  <2>2. e.timeR # Short
    BY <1>4 DEF Plain, When, ParseHAFASTime
  <2>3. e.timeS \in Clock /\ e.timeR \in Clock /\ e.timeS # Null /\ e.timeS # Short
    BY <1>1, <1>4, <2>1, <2>2, BoardsAssumption DEF BoardsAssumption
  <2>4. Seconds(e.timeS) \in Int /\ Seconds(e.timeR) \in Int
    BY <2>3, SecondsType
  <2>5. /\ When(j, e) = j.date * 86400 + Seconds(e.timeR) - tz * 60
        /\ PlannedWhen(j, e) = j.date * 86400 + Seconds(e.timeS) - tz * 60
    BY <1>4, <2>1, <2>2, <2>3 DEF When, PlannedWhen, ParseHAFASTime
  <2>6. tz \in Int
    BY DEF Known
  <2>7. d = Seconds(e.timeR) - Seconds(e.timeS)
    <3>1. j.date \in Int
      BY <1>1, <2>1
    <3> HIDE DEF e, tz
    <3> QED  BY <2>4, <2>5, <2>6, <3>1
  <2>8. d \in -MaxSpan .. MaxSpan
    BY <1>1, <1>4, <2>1, <2>2, <2>7, BoardsAssumption DEF BoardsAssumption
  <2>9. Sub(When(j, e), PlannedWhen(j, e)) = d
    BY <1>1, <2>8 DEF Sub
  <2>10. HafasRow(j).dl = Minutes(d)
    BY <1>4, <2>9, HafasRowOk
  <2>11. d \in Int
    BY <1>1
  <2> HIDE DEF d
  <2>12. 60 * HafasRow(j).dl - d \in -29 .. 30
    BY <2>10, <2>11, MinutesRound
  <2> QED  BY <1>2, <2>12 DEF RowOf, d
<1> QED  BY <1>3, <1>4

(* The rows of transformHAFASCompactBoard, before any is dropped.          *)
HafasRows == [i \in DOMAIN Jnys |-> HafasRow(Jnys[i])]

(* Every row has its journey and its time, and m of the n are on the board.*)
FromJourneys(n, m, from) ==
  /\ n \in Nat
  /\ Jnys = [i \in 1 .. n |-> Jnys[i]] /\ HafasRows = [i \in 1 .. n |-> HafasRows[i]]
  /\ \A i \in 1 .. n :
       /\ Known(Jnys[i], Jnys[i].DEP) /\ HafasRows[i] = HafasRow(Jnys[i])
       /\ HafasRows[i].t = When(Jnys[i], Jnys[i].DEP) /\ HafasRows[i].t \in Int
  /\ Arranged(HafasRows, TransformHAFASCompactBoard.deps, m, from)

(* So it is on every board of departures.                                  *)
LEMMA HafasBoard ==
  ASSUME BInv, kind = "DEP"
  PROVE  \E n, m, from : FromJourneys(n, m, from)
<1>1. PICK n \in Nat : /\ Jnys = [i \in 1 .. n |-> Jnys[i]]
                       /\ \A i \in 1 .. n : Known(Jnys[i], Jnys[i][kind])
  BY JnysOk
<1>2. HafasRows = [i \in 1 .. n |-> HafasRows[i]]
  BY <1>1 DEF HafasRows
<1>3. ASSUME NEW i \in 1 .. n
      PROVE  /\ Known(Jnys[i], Jnys[i].DEP) /\ HafasRows[i] = HafasRow(Jnys[i])
             /\ HafasRows[i].t = When(Jnys[i], Jnys[i].DEP) /\ HafasRows[i].t \in Int
  <2>1. Known(Jnys[i], Jnys[i].DEP) /\ HafasRows[i] = HafasRow(Jnys[i])
    BY <1>1 DEF HafasRows
  <2>2. HafasRow(Jnys[i]).t = When(Jnys[i], Jnys[i].DEP)
    BY HafasRowOk
  <2>3. When(Jnys[i], Jnys[i].DEP) \in Int
    BY <2>1 DEF Known
  <2> QED  BY <2>1, <2>2, <2>3
<1>4. \E m, from : Arranged(HafasRows, Sorted(ShownOf(HafasRows)), m, from)
  BY <1>2, <1>3, DepsArranged
<1>5. TransformHAFASCompactBoard.deps = Sorted(ShownOf(HafasRows))
  BY SameJnys DEF TransformHAFASCompactBoard, HafasRows
<1> QED  BY <1>1, <1>2, <1>3, <1>4, <1>5 DEF FromJourneys

(* On both paths "dl" is the delay to half a minute, half minutes going    *)
(* up, for departures that are early or late alike.                        *)
THEOREM DelaysAreRounded == Spec => []DelaysRound
<1>1. BInv /\ PathsAgree => DelaysRound
  <2> SUFFICES ASSUME BInv, PathsAgree, kind = "DEP",
                      \A i \in DOMAIN Jnys :
                        Plain(Jnys[i]) /\ PlannedWhen(Jnys[i], Jnys[i].DEP) # ZeroTime,
                      NEW board \in {TransformHAFASCompactBoard, TransformCompactBoard(Translate)},
                      NEW r \in ToSet(board.deps)
               PROVE  \E j \in ToSet(Jnys) : RowOf(j, r)
    BY DEF DelaysRound
  <2>1. board = TransformHAFASCompactBoard
    BY DEF PathsAgree
  <2>2. PICK n, m, from : FromJourneys(n, m, from)
    BY HafasBoard
  <2>3. PICK i \in 1 .. n : r = HafasRow(Jnys[i])
    BY <2>1, <2>2 DEF FromJourneys, Arranged, ToSet
  <2>4. Jnys[i] \in ToSet(Jnys) /\ i \in DOMAIN Jnys
    BY <2>2 DEF FromJourneys, ToSet
  <2>5. Known(Jnys[i], Jnys[i].DEP)
    BY <2>2 DEF FromJourneys
  <2> QED  BY <2>3, <2>4, <2>5, RowRounds
<1> QED  BY <1>1, AlwaysBInv, BothPathsAgree, PTL

(* Rows with times, and the places of those at one time.                   *)
Timed(rows) ==
  \E n \in Nat : DOMAIN rows = 1 .. n /\ \A i \in 1 .. n : rows[i].t \in Int

TimedAt(rows, t) == {i \in DOMAIN rows : rows[i].t = t}

(* Departures at one time stay in the order of the rows they come from.    *)
LEMMA TiesStay ==
  ASSUME NEW rows, Timed(rows), NEW deps, NEW m, NEW from, Arranged(rows, deps, m, from),
         NEW t, Shown(t)
  PROVE  /\ Cardinality(TimedAt(deps, t)) = Cardinality(TimedAt(rows, t))
         /\ \A i \in 1 .. Cardinality(TimedAt(deps, t)) :
              deps[Ascending(TimedAt(deps, t))[i]] = rows[Ascending(TimedAt(rows, t))[i]]
<1> DEFINE A == TimedAt(deps, t)
           Q == TimedAt(rows, t)
           c == Cardinality(A)
           a == Ascending(A)
           f == [i \in 1 .. c |-> from[a[i]]]
<1>0. PICK n \in Nat : DOMAIN rows = 1 .. n /\ \A i \in 1 .. n : rows[i].t \in Int
  BY DEF Timed
<1>1. /\ m \in Nat /\ deps = [x \in 1 .. m |-> rows[from[x]]]
      /\ \A x \in 1 .. m : from[x] \in 1 .. n
      /\ \A i \in 1 .. n : Shown(rows[i].t) => \E x \in 1 .. m : from[x] = i
  BY <1>0 DEF Arranged
<1>2. \A x, y \in 1 .. m : x < y /\ rows[from[x]].t = rows[from[y]].t => from[x] < from[y]
  <2> SUFFICES ASSUME NEW x \in 1 .. m, NEW y \in 1 .. m, x < y,
                      rows[from[x]].t = rows[from[y]].t
               PROVE  from[x] < from[y]
    OBVIOUS
  <2>1. rows[from[x]].t \in Int /\ rows[from[y]].t \in Int
    BY <1>0, <1>1
  <2>2. ~(rows[from[x]].t < rows[from[y]].t)
    BY <2>1
  <2> QED  BY <2>2 DEF Arranged
<1>3. /\ A \in SUBSET (1 .. m) /\ Q \in SUBSET (1 .. n)
      /\ \A x \in A : rows[from[x]].t = t /\ from[x] \in Q
      /\ \A i \in Q : \E x \in A : from[x] = i
  BY <1>0, <1>1 DEF TimedAt
<1> HIDE DEF A, Q
<1>5. /\ c \in Nat /\ a \in [1 .. c -> A]
      /\ \A i, j \in 1 .. c : i < j => a[i] < a[j]
      /\ \A x \in A : \E i \in 1 .. c : a[i] = x
  <2>1. IsFiniteSet(1 .. m)
    BY <1>1, AscendingInterval
  <2>2. IsFiniteSet(A)
    BY <1>3, <2>1, FS_Subset
  <2>3. A \in SUBSET Int
    BY <1>3
  <2> QED  BY <2>2, <2>3, AscendingOk
<1>6. Q \in SUBSET Int
  BY <1>0, <1>3
<1> HIDE DEF c, a
<1>7. f \in [1 .. c -> Q]
  BY <1>3, <1>5
<1>8. \A i, j \in 1 .. c : i < j => f[i] < f[j]
  <2>1. \A i \in 1 .. c : a[i] \in 1 .. m /\ rows[from[a[i]]].t = t
    BY <1>3, <1>5
  <2> QED  BY <1>2, <1>5, <2>1
<1>9. \A i \in Q : \E x \in 1 .. c : f[x] = i
  <2>1. ASSUME NEW i \in Q PROVE \E x \in 1 .. c : f[x] = i
    <3>1. PICK x \in A : from[x] = i
      BY <1>3
    <3>2. PICK y \in 1 .. c : a[y] = x
      BY <1>5
    <3> QED  BY <3>1, <3>2
  <2> QED  BY <2>1
<1>10. \A i \in 1 .. c : deps[a[i]] = rows[f[i]]
  BY <1>1, <1>3, <1>5
<1> HIDE DEF f
<1>11. Cardinality(Q) = c /\ \A i \in 1 .. c : Ascending(Q)[i] = f[i]
  BY <1>5, <1>6, <1>7, <1>8, <1>9, AscendingUnique
<1> QED  BY <1>10, <1>11 DEF a, c, A, Q

(* A compact board is sorted by time: of the departures HAFAS lists, those *)
(* still to be shown are on it, each once and in HAFAS's order when at the *)
(* same time, and nothing else is.                                         *)
THEOREM CompactBoardsSorted == Spec => []SortedStably
<1>1. BInv => SortedStably
  <2> DEFINE deps == TransformHAFASCompactBoard.deps
             A(t) == TimedAt(deps, t)
             Q(t) == {i \in DOMAIN Jnys : When(Jnys[i], Jnys[i].DEP) = t}
             Same(t) == Subsequence(Jnys, Q(t))
  <2> SUFFICES ASSUME BInv, kind = "DEP"
               PROVE  /\ \A i, k \in DOMAIN deps : i < k => deps[i].t <= deps[k].t
                      /\ \A t : Shown(t) =>
                           Subsequence(deps, A(t)) =
                             [i \in DOMAIN Same(t) |-> HafasRow(Same(t)[i])]
                      /\ \A r \in ToSet(deps) : \E j \in ToSet(Jnys) :
                           Shown(When(j, j.DEP)) /\ r = HafasRow(j)
    BY DEF SortedStably, TimedAt
  <2>0. PICK n, m, from : FromJourneys(n, m, from)
    BY HafasBoard
  <2>1. /\ n \in Nat /\ DOMAIN Jnys = 1 .. n /\ DOMAIN HafasRows = 1 .. n
        /\ \A i \in 1 .. n :
             /\ HafasRows[i] = HafasRow(Jnys[i])
             /\ HafasRows[i].t = When(Jnys[i], Jnys[i].DEP) /\ HafasRows[i].t \in Int
        /\ Arranged(HafasRows, deps, m, from)
    BY <2>0 DEF FromJourneys
  <2> HIDE DEF deps
  <2>2. \A i, k \in DOMAIN deps : i < k => deps[i].t <= deps[k].t
    <3>1. DOMAIN deps = 1 .. m /\ \A x \in 1 .. m : deps[x] = HafasRows[from[x]]
      BY <2>1 DEF Arranged
    <3>2. \A x \in 1 .. m : HafasRows[from[x]].t \in Int
      BY <2>1 DEF Arranged
    <3>3. \A x, y \in 1 .. m : x < y =>
            \/ HafasRows[from[x]].t < HafasRows[from[y]].t
            \/ HafasRows[from[x]].t = HafasRows[from[y]].t
      BY <2>1 DEF Arranged
    <3>4. \A x, y \in 1 .. m : x < y => HafasRows[from[x]].t <= HafasRows[from[y]].t
      BY <3>2, <3>3
    <3> QED  BY <3>1, <3>4
  <2>3. ASSUME NEW t, Shown(t)
        PROVE  Subsequence(deps, A(t)) = [i \in DOMAIN Same(t) |-> HafasRow(Same(t)[i])]
    <3>1. Q(t) = TimedAt(HafasRows, t) /\ Q(t) \in SUBSET (1 .. n)
      BY <2>1 DEF TimedAt
    <3>2. /\ Cardinality(A(t)) = Cardinality(Q(t))
          /\ \A i \in 1 .. Cardinality(A(t)) :
               deps[Ascending(A(t))[i]] = HafasRows[Ascending(Q(t))[i]]
      <4>1. Timed(HafasRows)
        BY <2>1 DEF Timed
      <4>2. Arranged(HafasRows, deps, m, from)
        BY <2>1
      <4>3. /\ Cardinality(TimedAt(deps, t)) = Cardinality(TimedAt(HafasRows, t))
            /\ \A i \in 1 .. Cardinality(TimedAt(deps, t)) :
                 deps[Ascending(TimedAt(deps, t))[i]] =
                   HafasRows[Ascending(TimedAt(HafasRows, t))[i]]
        BY <2>3, <4>1, <4>2, TiesStay
      <4> QED  BY <3>1, <4>3
    <3>3. \A i \in 1 .. Cardinality(Q(t)) : Ascending(Q(t))[i] \in 1 .. n
      <4>1. Q(t) \in SUBSET (1 .. n) /\ Q(t) \in SUBSET Int
        BY <3>1
      <4> HIDE DEF Q
      <4>2. IsFiniteSet(1 .. n)
        BY <2>1, AscendingInterval
      <4>3. IsFiniteSet(Q(t))
        BY <4>1, <4>2, FS_Subset
      <4> QED  BY <4>1, <4>3, AscendingOk
    <3> HIDE DEF A, Q
    <3>4. \A i \in 1 .. Cardinality(Q(t)) :
            HafasRows[Ascending(Q(t))[i]] = HafasRow(Jnys[Ascending(Q(t))[i]])
      BY <2>1, <3>3
    <3> QED  BY <3>2, <3>4 DEF Subsequence
  <2>4. ASSUME NEW r \in ToSet(deps)
        PROVE  \E j \in ToSet(Jnys) : Shown(When(j, j.DEP)) /\ r = HafasRow(j)
    <3>1. PICK x \in 1 .. m : r = HafasRows[from[x]]
      BY <2>1 DEF Arranged, ToSet
    <3>2. from[x] \in 1 .. n /\ Shown(HafasRows[from[x]].t)
      BY <2>1 DEF Arranged
    <3>3. Jnys[from[x]] \in ToSet(Jnys)
      BY <2>1, <3>2 DEF ToSet
    <3> QED  BY <2>1, <3>1, <3>2, <3>3
  <2> QED  BY <2>2, <2>3, <2>4
<1> QED  BY <1>1, AlwaysBInv, PTL

=============================================================================
