--------------------------- MODULE CompactProofs ---------------------------
(***************************************************************************)
(* What the compact departures endpoint answers and what it leaves in the  *)
(* cache, for any number of requests, stops, departures and any capacity.  *)
(***************************************************************************)
EXTENDS Compact, LRUProofs, SubsequenceProofs

(* parseCompactStops yields at least one stop ID, and only stop IDs.       *)
LEMMA Requests ==
  /\ \A raw \in Raw, n \in Limits : Valid(raw) => [stops |-> StopsOf(raw), limit |-> n] \in Request
  /\ \A k \in Request : /\ k.stops \in Seq(Stop) /\ k.stops # <<>> /\ k.limit \in Nat \ {0}
                        /\ k # NoRequest
<1>1. ASSUME NEW raw \in Raw, NEW n \in Limits, Valid(raw)
      PROVE  [stops |-> StopsOf(raw), limit |-> n] \in Request
  BY <1>1 DEF Request
<1>2. ASSUME NEW raw \in Raw, Valid(raw)
      PROVE  StopsOf(raw) \in Seq(Stop) /\ StopsOf(raw) # <<>>
  <2> DEFINE P == {i \in DOMAIN raw : raw[i] # Empty}
             s == Subsequence(raw, P)
  <2>1. raw \in Seq(Stop \cup {Empty, Bad}) /\ P \in SUBSET DOMAIN raw
    BY CompactAssumption DEF CompactAssumption
  <2>2. \A i \in P : raw[i] \in Stop
    BY <1>2, <2>1 DEF Valid, ToSet
  <2>3. s = StopsOf(raw)
    BY DEF StopsOf
  <2> HIDE DEF P, s
  <2>4. /\ s \in Seq(Stop \cup {Empty, Bad}) /\ Cardinality(P) \in Nat
        /\ Len(s) = Cardinality(P) /\ \A i \in 1 .. Len(s) : s[i] \in Stop
    BY <2>1, <2>2, SubsequenceOk DEF s
  <2>5. s \in Seq(Stop)
    BY <2>4
  <2>6. Len(s) >= 1
    BY <1>2, <2>3, <2>4 DEF Valid
  <2> QED  BY <2>3, <2>5, <2>6
<1>3. ASSUME NEW k \in Request
      PROVE  k.stops \in Seq(Stop) /\ k.stops # <<>> /\ k.limit \in Nat \ {0} /\ k # NoRequest
  <2>1. PICK raw \in Raw, n \in Limits : Valid(raw) /\ k = [stops |-> StopsOf(raw), limit |-> n]
    BY DEF Request
  <2>2. k.stops = StopsOf(raw) /\ k.limit = n /\ n \in Nat \ {0}
    BY <2>1, CompactAssumption DEF CompactAssumption
  <2>3. k.stops \in Seq(Stop) /\ k.stops # <<>>
    BY <1>2, <2>1, <2>2
  <2> QED  BY <2>2, <2>3 DEF NoRequest
<1> QED  BY <1>1, <1>3

-----------------------------------------------------------------------------

Rising(s) == \A i, j \in DOMAIN s : i < j => s[i] < s[j]

(* The loop of transformCompactBoard and its sort.                         *)
LEMMA TransformOk ==
  ASSUME NEW stop \in Stop, NEW deps \in Timetables
  PROVE  /\ Transform(stop, deps) \in Board
         /\ Transform(stop, deps).stop = stop
         /\ Rising(Transform(stop, deps).deps)
<1> DEFINE S == {t \in deps : t >= now - Grace}
           a == Ascending(S)
<1>1. Horizon \in Nat /\ S \in SUBSET (1 .. Horizon)
  BY CompactAssumption DEF CompactAssumption
<1> HIDE DEF S
<1>2. S \in SUBSET Int /\ IsFiniteSet(S)
  <2>1. IsFiniteSet(1 .. Horizon)
    BY <1>1, FS_Interval
  <2>2. IsFiniteSet(S)
    BY <1>1, <2>1, FS_Subset
  <2>3. \A x \in 1 .. Horizon : x \in Int
    OBVIOUS
  <2> QED  BY <1>1, <2>2, <2>3
<1>3. /\ Cardinality(S) \in Nat /\ a \in [1 .. Cardinality(S) -> S]
      /\ \A i, j \in 1 .. Cardinality(S) : i < j => a[i] < a[j]
  BY <1>2, AscendingOk
<1> HIDE DEF a
<1>4. a \in Seq(1 .. Horizon) /\ Rising(a)
  <2> DEFINE T == 1 .. Horizon
             n == Cardinality(S)
  <2>1. n \in Nat /\ S \in SUBSET T /\ a \in [1 .. n -> S]
    BY <1>1, <1>3
  <2>2. DOMAIN a = 1 .. n
    BY <2>1
  <2> HIDE DEF T, n
  <2>3. a \in Seq(T)
    BY <2>1
  <2> QED  BY <1>3, <2>2, <2>3 DEF Rising, T, n
<1>5. Transform(stop, deps) = [stop |-> stop, deps |-> a]
  BY DEF Transform, S, a
<1> QED  BY <1>4, <1>5 DEF Board

(* What a list of at most n leaves out comes later than all it has.        *)
Earliest(all, few, n) ==
  \A t \in ToSet(all) \ ToSet(few) : Len(few) = n /\ \A u \in ToSet(few) : u < t

(* b.Departures[:limit] keeps the earliest, and all when there are few.    *)
LEMMA LimitedOk ==
  ASSUME NEW b \in Board, NEW n \in Nat \ {0}
  PROVE  /\ Limited(b, n) \in Board /\ Limited(b, n).stop = b.stop
         /\ Len(Limited(b, n).deps) <= n
         /\ Rising(b.deps) => Earliest(b.deps, Limited(b, n).deps, n)
<1> DEFINE s == b.deps
           m == IF Len(s) > n THEN n ELSE Len(s)
           r == SubSeq(s, 1, m)
           D == 1 .. Horizon
<1>1. s \in Seq(D) /\ Len(s) \in Nat /\ b.stop \in Stop
  BY DEF Board
<1>2. Limited(b, n) = [stop |-> b.stop, deps |-> r]
  <2>1. \A x : [b EXCEPT !.deps = x] = [stop |-> b.stop, deps |-> x]
    BY DEF Board
  <2>2. Limited(b, n) = [b EXCEPT !.deps = r]
    BY DEF Limited
  <2> HIDE DEF r
  <2> QED  BY <2>1, <2>2
<1> HIDE DEF D
<1>4. DOMAIN s = 1 .. Len(s)
  BY <1>1
<1>3. m \in Nat /\ m \in 0 .. Len(s) /\ m <= n /\ (m = n \/ m = Len(s))
  BY <1>1
<1> HIDE DEF s, m
<1>5. r \in Seq(D) /\ Len(r) = m /\ DOMAIN r = 1 .. m /\ \A i \in 1 .. m : r[i] = s[i]
  BY <1>1, <1>3, PrefixOk
<1> HIDE DEF r
<1>6. ASSUME Rising(s), NEW t \in ToSet(s) \ ToSet(r)
      PROVE  m = n /\ \A u \in ToSet(r) : u < t
  <2>1. PICK j \in 1 .. Len(s) : s[j] = t
    BY <1>4 DEF ToSet
  <2>2. j > m
    BY <1>1, <1>3, <1>5, <2>1 DEF ToSet
  <2>3. m = n
    BY <1>1, <1>3, <2>2
  <2>4. ASSUME NEW u \in ToSet(r) PROVE u < t
    <3>1. PICK i \in 1 .. m : s[i] = u
      BY <1>5 DEF ToSet
    <3>2. i < j /\ i \in DOMAIN s /\ j \in DOMAIN s
      <4>1. i \in Nat /\ j \in Nat /\ 1 <= i /\ i <= m /\ m < j /\ j <= Len(s) /\ 1 <= j
        BY <1>1, <1>3, <2>2
      <4>2. i \in 1 .. Len(s) /\ j \in 1 .. Len(s) /\ i < j
        BY <1>1, <1>3, <4>1
      <4> QED  BY <1>4, <4>2, Zenon
    <3> QED  BY <1>6, <2>1, <3>1, <3>2 DEF Rising
  <2> QED  BY <2>3, <2>4
<1>7. /\ Limited(b, n).deps = r /\ Limited(b, n).stop = b.stop
      /\ Limited(b, n) \in Board
  BY <1>1, <1>2, <1>5 DEF Board, D
<1>8. Rising(s) => Earliest(s, r, n)
  BY <1>3, <1>5, <1>6 DEF Earliest
<1> QED  BY <1>3, <1>5, <1>7, <1>8 DEF s

-----------------------------------------------------------------------------

(* What the goroutines of a request for k have come to: a result is for    *)
(* the stop at its place, and its departures are sorted.                   *)
LanesFit(k, lanes) ==
  /\ lanes \in Seq(Lane) /\ Len(lanes) = Len(k.stops)
  /\ \A i \in Came(lanes) : lanes[i].board.stop = k.stops[i] /\ Rising(lanes[i].board.deps)

AllLost(lanes) == \A i \in DOMAIN lanes : lanes[i] = Lost

(* Only a result has a board.                                              *)
LEMMA LaneCases ==
  ASSUME NEW w \in Lane
  PROVE  /\ w.at = "ok" => w.board \in Board /\ w.updatedAt \in 0 .. Horizon + 1
         /\ w.at = "failed" => w = Lost
         /\ w.at \in {"rest", "hafas", "failed", "ok"}
BY DEF Lane, Asking, Lost

(* The collecting loop: a board per result, in the order of the request.   *)
LEMMA BoardsOk ==
  ASSUME NEW k, k.limit \in Nat \ {0}, NEW lanes, LanesFit(k, lanes)
  PROVE  LET got    == Oks(lanes)
             boards == Boards(lanes, k.limit)
         IN
         /\ DOMAIN got = DOMAIN boards /\ Len(got) = Len(boards) /\ Len(boards) \in Nat
         /\ boards \in Seq(Board)
         /\ boards = <<>> <=> Came(lanes) = {}
         /\ ToSet(got) = {lanes[i] : i \in Came(lanes)}
         /\ \A i \in DOMAIN boards :
              /\ boards[i] = Limited(got[i].board, k.limit)
              /\ got[i].board \in Board /\ Rising(got[i].board.deps)
<1> DEFINE got    == Oks(lanes)
           boards == Boards(lanes, k.limit)
           P      == Came(lanes)
           n      == Cardinality(P)
<1>1. lanes \in Seq(Lane) /\ P \in SUBSET DOMAIN lanes
  BY DEF LanesFit, Came
<1>2. \A i \in P : lanes[i] \in Lane /\ lanes[i].at = "ok"
  BY <1>1 DEF Came
<1> HIDE DEF P
<1>3. /\ IsFiniteSet(P) /\ n \in Nat
      /\ DOMAIN got = 1 .. n /\ Len(got) = n
      /\ \A i \in 1 .. n : Ascending(P)[i] \in P /\ got[i] = lanes[Ascending(P)[i]]
      /\ ToSet(got) = {lanes[p] : p \in P}
  BY <1>1, SubsequenceOk DEF Oks, P
<1>4. boards = [i \in DOMAIN got |-> Limited(got[i].board, k.limit)]
  BY DEF Boards
<1> HIDE DEF got, boards
<1>5. ASSUME NEW i \in 1 .. n
      PROVE  /\ boards[i] = Limited(got[i].board, k.limit) /\ boards[i] \in Board
             /\ got[i].board \in Board /\ Rising(got[i].board.deps)
  <2>1. got[i].board \in Board /\ Rising(got[i].board.deps)
    BY <1>2, <1>3, LaneCases DEF LanesFit, P
  <2> QED  BY <1>3, <1>4, <2>1, LimitedOk
<1>6. boards \in Seq(Board) /\ Len(boards) = n /\ DOMAIN boards = 1 .. n
  <2>1. boards \in [1 .. n -> Board]
    BY <1>3, <1>4, <1>5
  <2> QED  BY <1>3, <2>1
<1>7. boards = <<>> <=> P = {}
  BY <1>3, <1>6, FS_EmptySet
<1> QED  BY <1>3, <1>5, <1>6, <1>7 DEF got, boards, P

(* With no result missing, the boards are those of the stops asked for.    *)
LEMMA BoardsComplete ==
  ASSUME NEW k \in Request, NEW lanes, LanesFit(k, lanes), Settled(lanes), ~AnyLost(lanes)
  PROVE  StopsIn(Boards(lanes, k.limit)) = k.stops
<1> DEFINE boards == Boards(lanes, k.limit)
<1>1. lanes \in Seq(Lane) /\ k.stops \in Seq(Stop) /\ k.limit \in Nat \ {0}
      /\ Len(lanes) = Len(k.stops) /\ DOMAIN lanes = DOMAIN k.stops
  BY Requests DEF LanesFit
<1>2. Came(lanes) = DOMAIN lanes
  BY DEF Settled, AnyLost, Came
<1>3. Oks(lanes) = lanes
  BY <1>1, <1>2, SubsequenceWhole DEF Oks
<1>4. /\ DOMAIN boards = DOMAIN lanes
      /\ \A i \in DOMAIN boards : /\ boards[i] = Limited(lanes[i].board, k.limit)
                                  /\ lanes[i].board \in Board
  BY <1>1, <1>3, BoardsOk
<1> HIDE DEF boards
<1>5. \A i \in DOMAIN lanes : boards[i].stop = k.stops[i]
  BY <1>1, <1>2, <1>4, LimitedOk DEF LanesFit
<1>6. StopsIn(boards) = [i \in DOMAIN k.stops |-> k.stops[i]]
  BY <1>1, <1>4, <1>5 DEF StopsIn
<1> QED  BY <1>1, <1>6 DEF boards

(* However many results are missing, the boards keep the stops' order.     *)
LEMMA BoardsInOrder ==
  ASSUME NEW k \in Request, NEW lanes, LanesFit(k, lanes)
  PROVE  /\ Came(lanes) \in SUBSET DOMAIN k.stops
         /\ StopsIn(Boards(lanes, k.limit)) = Subsequence(k.stops, Came(lanes))
<1> DEFINE boards == Boards(lanes, k.limit)
           got    == Oks(lanes)
           P      == Came(lanes)
           n      == Cardinality(P)
           few    == Subsequence(k.stops, P)
<1>1. /\ lanes \in Seq(Lane) /\ k.stops \in Seq(Stop) /\ k.limit \in Nat \ {0}
      /\ DOMAIN lanes = DOMAIN k.stops /\ P \in SUBSET DOMAIN lanes
  BY Requests DEF LanesFit, Came
<1>2. \A i \in P : lanes[i].board.stop = k.stops[i]
  BY DEF LanesFit
<1>3. got = Subsequence(lanes, P)
  BY DEF Oks
<1>4. /\ DOMAIN got = DOMAIN boards
      /\ \A i \in DOMAIN boards : /\ boards[i] = Limited(got[i].board, k.limit)
                                  /\ got[i].board \in Board
  BY <1>1, BoardsOk
<1> HIDE DEF boards, got, P, few
<1>5. /\ DOMAIN got = 1 .. n
      /\ \A i \in 1 .. n : Ascending(P)[i] \in P /\ got[i] = lanes[Ascending(P)[i]]
  BY <1>1, <1>3, SubsequenceOk
<1>6. few = [i \in 1 .. n |-> k.stops[Ascending(P)[i]]]
  BY DEF Subsequence, few
<1>7. \A i \in 1 .. n : boards[i].stop = k.stops[Ascending(P)[i]]
  BY <1>1, <1>2, <1>4, <1>5, LimitedOk
<1>8. StopsIn(boards) = few
  BY <1>4, <1>5, <1>6, <1>7 DEF StopsIn
<1> QED  BY <1>1, <1>8 DEF boards, few, P

(* A stop that failed has no board.                                        *)
LEMMA BoardsPartial ==
  ASSUME NEW k \in Request, NEW lanes, LanesFit(k, lanes), Settled(lanes)
  PROVE  AnyLost(lanes) <=> Len(Boards(lanes, k.limit)) < Len(k.stops)
<1>1. lanes \in Seq(Lane) /\ k.limit \in Nat \ {0} /\ Len(lanes) = Len(k.stops)
      /\ Len(lanes) \in Nat
  BY Requests DEF LanesFit
<1>2. Len(Boards(lanes, k.limit)) = Len(Oks(lanes))
  BY <1>1, BoardsOk
<1>3. CASE AnyLost(lanes)
  <2>1. Came(lanes) \in SUBSET DOMAIN lanes /\ Came(lanes) # DOMAIN lanes
    BY <1>3 DEF AnyLost, Came
  <2>2. Len(Oks(lanes)) < Len(lanes)
    BY <1>1, <2>1, SubsequenceShorter DEF Oks
  <2> QED  BY <1>1, <1>2, <1>3, <2>2
<1>4. CASE ~AnyLost(lanes)
  <2>1. Came(lanes) = DOMAIN lanes
    BY <1>4 DEF Settled, AnyLost, Came
  <2>2. Oks(lanes) = lanes
    BY <1>1, <2>1, SubsequenceWhole DEF Oks
  <2> QED  BY <1>1, <1>2, <1>4, <2>2
<1> QED  BY <1>3, <1>4

(* The freshest update, or the clock.                                      *)
LEMMA AsOfOk ==
  ASSUME NEW k, NEW lanes, LanesFit(k, lanes), now \in 1 .. Horizon + 1
  PROVE  /\ AsOf(lanes) \in 1 .. Horizon + 1
         /\ \A i \in Came(lanes) : lanes[i].updatedAt <= AsOf(lanes)
<1> DEFINE U == {0} \cup {lanes[i].updatedAt : i \in Came(lanes)}
<1>1. Horizon \in Nat
  BY CompactAssumption DEF CompactAssumption
<1>2. \A i \in Came(lanes) : lanes[i].updatedAt \in 0 .. Horizon + 1
  BY LaneCases DEF LanesFit, Came
<1>3. U \in SUBSET (0 .. Horizon + 1) /\ 0 \in U
  BY <1>1, <1>2
<1>4. \A i \in Came(lanes) : lanes[i].updatedAt \in U
  OBVIOUS
<1>5. AsOf(lanes) = IF Max(U) = 0 THEN now ELSE Max(U)
  BY DEF AsOf
<1> HIDE DEF U
<1>6. Max(U) \in U /\ \A x \in U : x <= Max(U)
  <2>1. U \in SUBSET Int /\ U # {} /\ Horizon + 1 \in Int /\ \A x \in U : x <= Horizon + 1
    BY <1>1, <1>3
  <2> QED  BY <2>1, LatestExists
<1>7. Max(U) \in 0 .. Horizon + 1
  BY <1>3, <1>6
<1>8. CASE Max(U) = 0
  BY <1>1, <1>2, <1>4, <1>5, <1>6, <1>8
<1>9. CASE Max(U) # 0
  BY <1>1, <1>4, <1>5, <1>6, <1>7, <1>9
<1> QED  BY <1>8, <1>9

(* compactCacheExpiry.                                                     *)
LEMMA LastDepartureOk ==
  ASSUME NEW boards \in Seq(Board)
  PROVE  /\ LastDeparture(boards) \in 0 .. Horizon
         /\ \A b \in ToSet(boards) : \A t \in ToSet(b.deps) : t <= LastDeparture(boards)
         /\ LastDeparture(boards) # 0 =>
              \E b \in ToSet(boards) : LastDeparture(boards) \in ToSet(b.deps)
<1> DEFINE U == {0} \cup UNION {ToSet(b.deps) : b \in ToSet(boards)}
<1>1. Horizon \in Nat
  BY CompactAssumption DEF CompactAssumption
<1>2. \A b \in ToSet(boards) : b.deps \in Seq(1 .. Horizon)
  <2>1. \A b \in ToSet(boards) : b \in Board
    BY SeqElements
  <2> QED  BY <2>1 DEF Board
<1>3. \A b \in ToSet(boards) : \A t \in ToSet(b.deps) : t \in 1 .. Horizon
  BY <1>2, SeqElements
<1>4. U \in SUBSET (0 .. Horizon)
  BY <1>1, <1>3
<1>5. 0 \in U /\ \A b \in ToSet(boards) : \A t \in ToSet(b.deps) : t \in U
  OBVIOUS
<1>6. \A x \in U : x # 0 => \E b \in ToSet(boards) : x \in ToSet(b.deps)
  OBVIOUS
<1>7. LastDeparture(boards) = Max(U)
  BY DEF LastDeparture
<1> HIDE DEF U
<1>8. Max(U) \in U /\ \A x \in U : x <= Max(U)
  <2>1. U \in SUBSET Int /\ U # {} /\ Horizon \in Int /\ \A x \in U : x <= Horizon
    BY <1>1, <1>4, <1>5
  <2> QED  BY <2>1, LatestExists
<1> QED  BY <1>4, <1>5, <1>6, <1>7, <1>8

-----------------------------------------------------------------------------

(* A body put together from these results.                                 *)
Fresh(k, lanes, body) ==
  /\ Settled(lanes)
  /\ body \in Body
  /\ body.partial = IF AnyLost(lanes) THEN 1 ELSE 0
  /\ body.boards = Boards(lanes, k.limit) /\ body.boards # <<>>
  /\ \A i \in Came(lanes) : lanes[i].updatedAt <= body.asOf

(* What a client who asked for k may have got.                             *)
Answered(k, lanes, a) ==
  \/ a.status = 200 /\ ~a.hit /\ Fresh(k, lanes, a.body)
  \/ a.status = 200 /\ a.hit /\ AllLost(lanes) /\ a.at <= LastDeparture(a.body.boards)
  \/ a.status = 502 /\ AllLost(lanes)

(* A request at p, asking for k, with o waiting to be stored and a the     *)
(* answer: what each step leaves to the next.                              *)
SlotFits(p, k, lanes, o, a) ==
  /\ p \in {"idle", "fanout", "set", "fallback"}
  /\ k \in Request \cup {NoRequest}
  /\ LanesFit(k, lanes)
  /\ o \in Body \cup {NoBody}
  /\ a \in Answer \cup {NoAnswer}
  /\ p # "idle" => k \in Request /\ a = NoAnswer
  /\ p = "set" => Fresh(k, lanes, o) /\ o.partial = 0 /\ LastDeparture(o.boards) > 0
  /\ p = "fallback" => AllLost(lanes)
  /\ p = "idle" /\ k # NoRequest => Answered(k, lanes, a)

SlotOK(c) == SlotFits(pc[c], req[c], work[c], out[c], answer[c])

(* Only complete bodies are stored, to expire with their last departure.   *)
EntryFits(k, e) ==
  e \in Entry /\ CompleteBody(k, e.body) /\ e.expiresAt = LastDeparture(e.body.boards)

ClockOK == now \in 1 .. Horizon + 1

(* The cache is the dynamic cache of newMux; other handlers may use it     *)
(* under keys of their own.                                                *)
CacheOK == \A k \in Cached(cache) \cap Request : EntryFits(k, cache.items[k])

SlotsOK ==
  /\ pc \in [Slot -> {"idle", "fanout", "set", "fallback"}]
  /\ req \in [Slot -> Request \cup {NoRequest}]
  /\ work \in [Slot -> Seq(Lane)]
  /\ out \in [Slot -> Body \cup {NoBody}]
  /\ answer \in [Slot -> Answer \cup {NoAnswer}]
  /\ \A c \in Slot : SlotOK(c)

(* TypeOK and the three invariants are not inductive by themselves: that   *)
(* what Store stores is complete rests on the results Join found, which    *)
(* have not changed since, and on each goroutine's board being the one of  *)
(* its stop; that a fallback's entry has not passed rests on its expiry    *)
(* being its own last departure.                                           *)
CInv == ClockOK /\ CacheOK /\ SlotsOK

(* While nobody else uses it.                                              *)
OwnCache == IsCache(cache, Request, Entry, Cap) /\ Coherent(cache)

(* What the slots and the cache hold has its type.                         *)
LEMMA CInvTypes == CInv /\ OwnCache => TypeOK
<1> SUFFICES ASSUME CInv, OwnCache PROVE TypeOK
  OBVIOUS
<1>1. now \in 1 .. Horizon + 1 /\ IsCache(cache, Request, Entry, Cap)
  BY DEF CInv, ClockOK, OwnCache
<1>2. \A c \in Slot :
        /\ pc[c] # "idle" => req[c] \in Request
        /\ Len(work[c]) = Len(req[c].stops)
  BY DEF CInv, SlotsOK, SlotOK, SlotFits, LanesFit
<1> QED  BY <1>1, <1>2 DEF CInv, SlotsOK, TypeOK

(* An entry expires with the latest departure of its own boards.           *)
LEMMA CInvCached == CInv /\ OwnCache => CachedComplete
<1> SUFFICES ASSUME CInv, OwnCache, NEW k \in Cached(cache)
             PROVE  LET e == cache.items[k] IN
                    /\ CompleteBody(k, e.body)
                    /\ \E b \in ToSet(e.body.boards) : e.expiresAt \in ToSet(b.deps)
                    /\ \A b \in ToSet(e.body.boards) : \A t \in ToSet(b.deps) : t <= e.expiresAt
  BY DEF CachedComplete
<1> DEFINE e == cache.items[k]
<1>1. EntryFits(k, e)
  BY DEF CInv, CacheOK, OwnCache, IsCache, IsPartialMap, Cached
<1> HIDE DEF e
<1>2. /\ e.body.boards \in Seq(Board) /\ e.expiresAt = LastDeparture(e.body.boards)
      /\ e.expiresAt # 0 /\ CompleteBody(k, e.body)
  BY <1>1 DEF EntryFits, Entry, Body
<1> QED  BY <1>2, LastDepartureOk DEF e

(* A client who has an answer to a valid request got it from its handler.  *)
LEMMA ServedAnswer ==
  ASSUME CInv, NEW c \in Slot, Served(c)
  PROVE  /\ req[c] \in Request /\ LanesFit(req[c], work[c])
         /\ Answered(req[c], work[c], answer[c])
BY DEF CInv, SlotsOK, SlotOK, SlotFits, Served

(* The answer a client has was given for the results still in the slot.    *)
LEMMA CInvStatus == CInv => StatusTellsOutcome
<1> SUFFICES ASSUME CInv, NEW c \in Slot, Served(c)
             PROVE  \/ /\ answer[c].status = 200 /\ ~answer[c].hit
                       /\ \E i \in DOMAIN work[c] : work[c][i].at = "ok"
                    \/ /\ answer[c].status = 200 /\ answer[c].hit
                       /\ \A i \in DOMAIN work[c] : work[c][i] = Lost
                       /\ answer[c].at <= LastDeparture(answer[c].body.boards)
                    \/ /\ answer[c].status = 502
                       /\ \A i \in DOMAIN work[c] : work[c][i] = Lost
  BY DEF StatusTellsOutcome
<1>1. /\ req[c] \in Request /\ LanesFit(req[c], work[c])
      /\ Answered(req[c], work[c], answer[c])
  BY ServedAnswer
<1>2. CASE Fresh(req[c], work[c], answer[c].body)
  <2>1. Came(work[c]) # {}
    BY <1>1, <1>2, Requests, BoardsOk DEF Fresh
  <2>2. \E i \in DOMAIN work[c] : work[c][i].at = "ok"
    BY <2>1 DEF Came
  <2> QED  BY <1>1, <2>2 DEF Answered, AllLost
<1> QED  BY <1>1, <1>2 DEF Answered, AllLost

(* A fresh answer is the one put together from those results.              *)
LEMMA CInvFresh == CInv => FreshAnswerFits
<1> SUFFICES ASSUME CInv, NEW c \in Slot, Served(c), answer[c].status = 200, ~answer[c].hit
             PROVE  LET boards == answer[c].body.boards
                        got    == Oks(work[c])
                    IN
                    /\ answer[c].body.partial = 1 <=> Len(boards) < Len(req[c].stops)
                    /\ Len(boards) = Len(got)
                    /\ \A i \in DOMAIN boards :
                         /\ boards[i].stop = got[i].board.stop
                         /\ Len(boards[i].deps) <= req[c].limit
                         /\ \A t \in ToSet(got[i].board.deps) \ ToSet(boards[i].deps) :
                              /\ Len(boards[i].deps) = req[c].limit
                              /\ \A u \in ToSet(boards[i].deps) : u < t
                    /\ \A w \in ToSet(got) : w.updatedAt <= answer[c].body.asOf
  BY DEF FreshAnswerFits
<1> DEFINE k      == req[c]
           lanes  == work[c]
           body   == answer[c].body
           boards == Boards(lanes, k.limit)
           got    == Oks(lanes)
<1>1. k \in Request /\ k.limit \in Nat \ {0} /\ LanesFit(k, lanes) /\ Fresh(k, lanes, body)
  BY ServedAnswer, Requests DEF Answered
<1> HIDE DEF k, lanes, body
<1>2. body.partial = 1 <=> Len(boards) < Len(k.stops)
  BY <1>1, BoardsPartial DEF Fresh
<1>3. /\ DOMAIN got = DOMAIN boards /\ Len(got) = Len(boards)
      /\ ToSet(got) = {lanes[i] : i \in Came(lanes)}
      /\ \A i \in DOMAIN boards :
              /\ boards[i] = Limited(got[i].board, k.limit)
              /\ got[i].board \in Board /\ Rising(got[i].board.deps)
  BY <1>1, BoardsOk
<1>4. body.boards = boards /\ \A i \in Came(lanes) : lanes[i].updatedAt <= body.asOf
  BY <1>1 DEF Fresh
<1> HIDE DEF boards, got
<1>5. ASSUME NEW i \in DOMAIN boards
      PROVE  /\ boards[i].stop = got[i].board.stop
             /\ Len(boards[i].deps) <= k.limit
             /\ \A t \in ToSet(got[i].board.deps) \ ToSet(boards[i].deps) :
                  /\ Len(boards[i].deps) = k.limit
                  /\ \A u \in ToSet(boards[i].deps) : u < t
  <2> DEFINE d == boards[i]
             b == got[i].board
  <2>1. b \in Board /\ Rising(b.deps) /\ d = Limited(b, k.limit)
    BY <1>3
  <2> HIDE DEF d, b
  <2>2. d.stop = b.stop /\ Len(d.deps) <= k.limit /\ Earliest(b.deps, d.deps, k.limit)
    BY <1>1, <2>1, LimitedOk
  <2> QED  BY <2>2 DEF Earliest, d, b
<1>6. \A w \in ToSet(got) : w.updatedAt <= body.asOf
  BY <1>3, <1>4
<1> QED  BY <1>2, <1>3, <1>4, <1>5, <1>6 DEF k, lanes, body, got

-----------------------------------------------------------------------------

(* A step of request c that leaves it these locals, the others theirs.     *)
Moves(c, p, k, lanes, o, a) ==
  /\ pc' = [pc EXCEPT ![c] = p] /\ req' = [req EXCEPT ![c] = k]
  /\ work' = [work EXCEPT ![c] = lanes]
  /\ out' = [out EXCEPT ![c] = o] /\ answer' = [answer EXCEPT ![c] = a]

(* Then it is enough to look at those of c.                                *)
LEMMA OnlyOne ==
  ASSUME SlotsOK, NEW c \in Slot, NEW p, NEW k, NEW lanes, NEW o, NEW a,
         Moves(c, p, k, lanes, o, a), SlotFits(p, k, lanes, o, a)
  PROVE  SlotsOK'
<1>1. /\ pc \in [Slot -> {"idle", "fanout", "set", "fallback"}]
      /\ req \in [Slot -> Request \cup {NoRequest}]
      /\ work \in [Slot -> Seq(Lane)]
      /\ out \in [Slot -> Body \cup {NoBody}]
      /\ answer \in [Slot -> Answer \cup {NoAnswer}]
  BY DEF SlotsOK
<1>2. /\ p \in {"idle", "fanout", "set", "fallback"}
      /\ k \in Request \cup {NoRequest}
      /\ lanes \in Seq(Lane)
      /\ o \in Body \cup {NoBody}
      /\ a \in Answer \cup {NoAnswer}
  BY DEF SlotFits, LanesFit
<1>3. ASSUME NEW d \in Slot PROVE SlotOK(d)'
  <2>1. CASE d = c
    <3>1. pc'[d] = p /\ req'[d] = k /\ work'[d] = lanes /\ out'[d] = o /\ answer'[d] = a
      BY <1>1, <2>1 DEF Moves
    <3> QED  BY <3>1 DEF SlotOK
  <2>2. CASE d # c
    <3>1. SlotFits(pc[d], req[d], work[d], out[d], answer[d])
      BY DEF SlotsOK, SlotOK
    <3>2. /\ pc'[d] = pc[d] /\ req'[d] = req[d] /\ work'[d] = work[d]
          /\ out'[d] = out[d] /\ answer'[d] = answer[d]
      BY <1>1, <2>2 DEF Moves
    <3> QED  BY <3>1, <3>2 DEF SlotOK
  <2> QED  BY <2>1, <2>2
<1>4. pc' \in [Slot -> {"idle", "fanout", "set", "fallback"}]
  BY <1>1, <1>2 DEF Moves
<1>5. req' \in [Slot -> Request \cup {NoRequest}]
  BY <1>1, <1>2 DEF Moves
<1>6. work' \in [Slot -> Seq(Lane)]
  BY <1>1, <1>2 DEF Moves
<1>7. out' \in [Slot -> Body \cup {NoBody}]
  BY <1>1, <1>2 DEF Moves
<1>8. answer' \in [Slot -> Answer \cup {NoAnswer}]
  BY <1>1, <1>2 DEF Moves
<1> QED  BY <1>3, <1>4, <1>5, <1>6, <1>7, <1>8 DEF SlotsOK, Request, SlotOK

(* What a step leaves alone, in the form OnlyOne asks for.                 *)
LEMMA Same ==
  ASSUME SlotsOK, NEW c \in Slot
  PROVE  /\ pc = [pc EXCEPT ![c] = pc[c]] /\ req = [req EXCEPT ![c] = req[c]]
         /\ work = [work EXCEPT ![c] = work[c]]
         /\ out = [out EXCEPT ![c] = out[c]] /\ answer = [answer EXCEPT ![c] = answer[c]]
BY DEF SlotsOK

(* The server starts with no requests and an empty cache.                  *)
LEMMA InitCInv == Init => CInv /\ OwnCache
<1> SUFFICES ASSUME Init PROVE CInv /\ OwnCache
  OBVIOUS
<1> USE CompactAssumption DEF CompactAssumption
<1>1. ClockOK
  BY DEF Init, ClockOK
<1>2. CacheOK /\ OwnCache
  BY NewCacheOk DEF Init, CacheOK, OwnCache
<1>3. SlotsOK
  <2>1. LanesFit(NoRequest, <<>>)
    BY DEF LanesFit, NoRequest, Came
  <2>2. SlotFits("idle", NoRequest, <<>>, NoBody, NoAnswer)
    BY <2>1 DEF SlotFits
  <2> QED  BY <2>2 DEF Init, SlotsOK, SlotOK
<1> QED  BY <1>1, <1>2, <1>3 DEF CInv

(* handleCompactDepartures is called: no goroutine has a result yet.       *)
LEMMA BeginStep ==
  ASSUME SlotsOK, NEW c \in Slot, NEW raw \in Raw, NEW limit \in Limits, Begin(c, raw, limit)
  PROVE  SlotsOK'
<1> DEFINE k == [stops |-> StopsOf(raw), limit |-> limit]
           lanes == [i \in DOMAIN StopsOf(raw) |-> Asking("rest")]
<1>1. SlotFits(pc[c], req[c], work[c], out[c], answer[c]) /\ pc[c] = "idle"
  BY DEF SlotsOK, SlotOK, Begin
<1>2. CASE Valid(raw)
  <2>1. k \in Request /\ k.stops \in Seq(Stop) /\ k.stops = StopsOf(raw)
    BY <1>2, Requests
  <2>2. LanesFit(k, lanes)
    <3>1. DOMAIN k.stops = 1 .. Len(k.stops) /\ Len(k.stops) \in Nat
      BY <2>1
    <3>2. lanes = [i \in 1 .. Len(k.stops) |-> Asking("rest")] /\ Asking("rest") \in Lane
      BY <2>1, <3>1 DEF Lane
    <3>3. lanes \in Seq(Lane) /\ Len(lanes) = Len(k.stops)
      BY <3>1, <3>2
    <3>4. Came(lanes) = {}
      BY DEF Came, Asking
    <3> HIDE DEF lanes
    <3> QED  BY <3>3, <3>4 DEF LanesFit
  <2>3. Moves(c, "fanout", k, lanes, out[c], NoAnswer)
    BY <1>2, Same DEF Begin, Moves
  <2> HIDE DEF k, lanes
  <2>4. SlotFits("fanout", k, lanes, out[c], NoAnswer)
    BY <1>1, <2>1, <2>2 DEF SlotFits
  <2> QED  BY <2>3, <2>4, OnlyOne
<1>3. CASE ~Valid(raw)
  <2>1. LanesFit(NoRequest, <<>>)
    BY DEF LanesFit, NoRequest, Came
  <2>2. SlotFits("idle", NoRequest, <<>>, out[c], [status |-> 400])
    BY <1>1, <2>1 DEF SlotFits, Answer
  <2>3. Moves(c, "idle", NoRequest, <<>>, out[c], [status |-> 400])
    BY <1>1, <1>3, Same DEF Begin, Moves
  <2> QED  BY <2>2, <2>3, OnlyOne
<1> QED  BY <1>2, <1>3

(* A goroutine that ends leaves a request fanned out: no other has work    *)
(* to do.                                                                  *)
LEMMA LaneStep ==
  ASSUME SlotsOK, NEW c \in Slot, NEW i \in DOMAIN work[c], work[c][i].at \in {"rest", "hafas"},
         NEW w \in Lane,
         w.at = "ok" => w.board.stop = req[c].stops[i] /\ Rising(w.board.deps),
         work' = [work EXCEPT ![c][i] = w], UNCHANGED <<pc, req, out, answer>>
  PROVE  SlotsOK'
<1> DEFINE lanes == [work[c] EXCEPT ![i] = w]
<1>1. /\ SlotFits(pc[c], req[c], work[c], out[c], answer[c])
      /\ LanesFit(req[c], work[c]) /\ work[c] \in Seq(Lane)
  BY DEF SlotsOK, SlotOK, SlotFits, LanesFit
<1>2. ~Settled(work[c]) /\ ~AllLost(work[c])
  BY DEF Settled, AllLost, Lost
<1>3. \/ pc[c] = "fanout"
      \/ pc[c] = "idle" /\ req[c] = NoRequest
  <2>1. /\ pc[c] \in {"idle", "fanout", "set", "fallback"}
        /\ pc[c] = "set" => Fresh(req[c], work[c], out[c])
        /\ pc[c] = "fallback" => AllLost(work[c])
        /\ pc[c] = "idle" /\ req[c] # NoRequest => Answered(req[c], work[c], answer[c])
    BY <1>1 DEF SlotFits
  <2>2. ~Fresh(req[c], work[c], out[c]) /\ ~Answered(req[c], work[c], answer[c])
    BY <1>2 DEF Answered, Fresh
  <2> QED  BY <1>2, <2>1, <2>2
<1>4. LanesFit(req[c], lanes)
  <2>1. /\ lanes \in Seq(Lane) /\ Len(lanes) = Len(work[c]) /\ DOMAIN lanes = DOMAIN work[c]
        /\ lanes[i] = w /\ \A j \in DOMAIN work[c] \ {i} : lanes[j] = work[c][j]
    BY <1>1
  <2> HIDE DEF lanes
  <2> QED  BY <1>1, <2>1 DEF LanesFit, Came
<1>5. work' = [work EXCEPT ![c] = lanes]
  OBVIOUS
<1> HIDE DEF lanes
<1>6. SlotFits(pc[c], req[c], lanes, out[c], answer[c])
  BY <1>1, <1>3, <1>4 DEF SlotFits
<1>7. Moves(c, pc[c], req[c], lanes, out[c], answer[c])
  BY <1>5, Same DEF Moves
<1> QED  BY <1>6, <1>7, OnlyOne

(* fetchCompactBoard, with one provider after the other.                   *)
LEMMA FetchStep ==
  ASSUME SlotsOK, NEW c \in Slot, NEW i \in DOMAIN work[c], Fetch(c, i), ClockOK
  PROVE  SlotsOK' /\ UNCHANGED <<now, cache>>
<1>1. ASSUME NEW deps \in Timetables, NEW updatedAt \in {now} \cup (IF Undated THEN {0} ELSE {}),
             Fetched(c, i, deps, updatedAt)
      PROVE  SlotsOK' /\ UNCHANGED <<now, cache>>
  <2> DEFINE b == Transform(req[c].stops[i], deps)
             w == Got(b, updatedAt)
  <2>1. req[c].stops[i] \in Stop
    <3>1. req[c] \in Request
      <4>1. SlotFits(pc[c], req[c], work[c], out[c], answer[c])
        BY DEF SlotsOK, SlotOK
      <4>2. req[c] # NoRequest
        BY <4>1 DEF SlotFits, LanesFit, NoRequest
      <4> QED  BY <4>1, <4>2 DEF SlotFits
    <3>2. req[c].stops \in Seq(Stop) /\ Len(work[c]) = Len(req[c].stops) /\ work[c] \in Seq(Lane)
      BY <3>1, Requests DEF SlotsOK, SlotOK, SlotFits, LanesFit
    <3> QED  BY <3>2
  <2>2. b \in Board /\ b.stop = req[c].stops[i] /\ Rising(b.deps)
    BY <2>1, TransformOk
  <2>3. updatedAt \in 0 .. Horizon + 1
    BY CompactAssumption DEF ClockOK, CompactAssumption
  <2>4. /\ work[c][i].at \in {"rest", "hafas"}
        /\ work' = [work EXCEPT ![c][i] = w]
        /\ UNCHANGED <<now, cache, pc, req, out, answer>>
    BY <1>1 DEF Fetched
  <2> HIDE DEF b
  <2>5. w \in Lane /\ w.board = b
    BY <2>2, <2>3 DEF Lane, Got
  <2> HIDE DEF w
  <2> QED  BY <2>2, <2>4, <2>5, LaneStep
<1>2. CASE FetchFails(c, i)
  <2>1. PICK w \in {Asking("hafas"), Lost} : work' = [work EXCEPT ![c][i] = w]
    BY <1>2 DEF FetchFails
  <2>2. w \in Lane /\ w.at # "ok"
    BY DEF Lane, Asking, Lost
  <2>3. work[c][i].at \in {"rest", "hafas"} /\ UNCHANGED <<now, cache, pc, req, out, answer>>
    BY <1>2 DEF FetchFails
  <2> QED  BY <2>1, <2>2, <2>3, LaneStep
<1> QED  BY <1>1, <1>2 DEF Fetch

-----------------------------------------------------------------------------

(* wg.Wait returned: every goroutine has its result or none.               *)
LEMMA JoinedOk ==
  ASSUME ClockOK, NEW c \in Slot, req[c] \in Request, LanesFit(req[c], work[c]),
         Settled(work[c])
  PROVE  /\ Composed(c) \in Body
         /\ Composed(c).boards # <<>> => Fresh(req[c], work[c], Composed(c))
         /\ Composed(c).boards = <<>> => AllLost(work[c])
         /\ Cacheable(Composed(c)) =>
              Composed(c).partial = 0 /\ LastDeparture(Composed(c).boards) > 0
<1> DEFINE k     == req[c]
           lanes == work[c]
           body  == Composed(c)
<1>1. k \in Request /\ k.limit \in Nat \ {0} /\ LanesFit(k, lanes) /\ Settled(lanes)
  BY Requests
<1>2. /\ body.asOf = AsOf(lanes) /\ body.partial = IF AnyLost(lanes) THEN 1 ELSE 0
      /\ body.boards = Boards(lanes, k.limit)
      /\ body = [asOf |-> body.asOf, partial |-> body.partial, boards |-> body.boards]
  BY DEF Composed
<1> HIDE DEF k, lanes, body
<1>3. /\ body.asOf \in 1 .. Horizon + 1
      /\ \A i \in Came(lanes) : lanes[i].updatedAt <= body.asOf
  BY <1>1, <1>2, AsOfOk DEF ClockOK
<1>4. body.boards \in Seq(Board) /\ (body.boards = <<>> <=> Came(lanes) = {})
  BY <1>1, <1>2, BoardsOk
<1>5. body.partial \in {0, 1}
  BY <1>2
<1>6. body \in Body
  BY <1>2, <1>3, <1>4, <1>5 DEF Body
<1>7. body.boards # <<>> => Fresh(k, lanes, body)
  BY <1>1, <1>2, <1>3, <1>6 DEF Fresh
<1>8. ASSUME body.boards = <<>> PROVE AllLost(lanes)
  <2>1. \A i \in DOMAIN lanes : lanes[i] \in Lane
    BY <1>1 DEF LanesFit
  <2> QED  BY <1>1, <1>4, <1>8, <2>1, LaneCases DEF Settled, Came, AllLost
<1>9. ASSUME Cacheable(body) PROVE body.partial = 0 /\ LastDeparture(body.boards) > 0
  <2>1. LastDeparture(body.boards) \in 0 .. Horizon /\ Horizon \in Nat
    BY <1>4, LastDepartureOk, CompactAssumption DEF CompactAssumption
  <2> QED  BY <1>9, <2>1 DEF Cacheable, ClockOK
<1> QED  BY <1>6, <1>7, <1>8, <1>9 DEF k, lanes, body

(* The handler goes on to cache.Set, to the fallback, or to the client.    *)
LEMMA JoinStep ==
  ASSUME SlotsOK, ClockOK, NEW c \in Slot, Join(c)
  PROVE  SlotsOK' /\ UNCHANGED <<now, cache>>
<1> DEFINE body == Composed(c)
           ok   == OK(body, FALSE)
<1>1. SlotFits(pc[c], req[c], work[c], out[c], answer[c])
  BY DEF SlotsOK, SlotOK
<1>2. pc[c] = "fanout" /\ Settled(work[c]) /\ UNCHANGED <<now, cache, req, work>>
  BY DEF Join
<1>3. req[c] \in Request /\ LanesFit(req[c], work[c]) /\ answer[c] = NoAnswer
  BY <1>1, <1>2 DEF SlotFits
<1>4. /\ body \in Body
      /\ body.boards # <<>> => Fresh(req[c], work[c], body)
      /\ body.boards = <<>> => AllLost(work[c])
      /\ Cacheable(body) => body.partial = 0 /\ LastDeparture(body.boards) > 0
  BY <1>2, <1>3, JoinedOk
<1>5. \/ /\ body.boards = <<>>
         /\ pc' = [pc EXCEPT ![c] = "fallback"] /\ UNCHANGED <<out, answer>>
      \/ /\ body.boards # <<>> /\ Cacheable(body)
         /\ pc' = [pc EXCEPT ![c] = "set"] /\ out' = [out EXCEPT ![c] = body]
         /\ UNCHANGED answer
      \/ /\ body.boards # <<>>
         /\ pc' = [pc EXCEPT ![c] = "idle"] /\ answer' = [answer EXCEPT ![c] = ok]
         /\ UNCHANGED out
  BY DEF Join, Reply
<1>6. /\ ok \in Answer /\ ok.status = 200 /\ ~ok.hit /\ ok.body = body
  BY <1>4 DEF OK, Answer, ClockOK
<1> HIDE DEF body, ok
<1>7. CASE body.boards = <<>> /\ pc' = [pc EXCEPT ![c] = "fallback"] /\ UNCHANGED <<out, answer>>
  <2>1. SlotFits("fallback", req[c], work[c], out[c], answer[c])
    BY <1>1, <1>3, <1>4, <1>7 DEF SlotFits
  <2>2. Moves(c, "fallback", req[c], work[c], out[c], answer[c])
    BY <1>2, <1>7, Same DEF Moves
  <2> QED  BY <1>2, <2>1, <2>2, OnlyOne
<1>8. CASE /\ body.boards # <<>> /\ Cacheable(body)
           /\ pc' = [pc EXCEPT ![c] = "set"] /\ out' = [out EXCEPT ![c] = body]
           /\ UNCHANGED answer
  <2>1. SlotFits("set", req[c], work[c], body, answer[c])
    BY <1>1, <1>3, <1>4, <1>8 DEF SlotFits
  <2>2. Moves(c, "set", req[c], work[c], body, answer[c])
    BY <1>2, <1>8, Same DEF Moves
  <2> QED  BY <1>2, <2>1, <2>2, OnlyOne
<1>9. CASE /\ body.boards # <<>>
           /\ pc' = [pc EXCEPT ![c] = "idle"] /\ answer' = [answer EXCEPT ![c] = ok]
           /\ UNCHANGED out
  <2>1. Answered(req[c], work[c], ok)
    BY <1>4, <1>6, <1>9 DEF Answered
  <2>2. SlotFits("idle", req[c], work[c], out[c], ok)
    BY <1>1, <1>3, <1>6, <2>1 DEF SlotFits
  <2>3. Moves(c, "idle", req[c], work[c], out[c], ok)
    BY <1>2, <1>9, Same DEF Moves
  <2> QED  BY <1>2, <2>2, <2>3, OnlyOne
<1> QED  BY <1>5, <1>7, <1>8, <1>9

(* What waits to be stored still fits the key it is stored under.          *)
LEMMA StoredFits ==
  ASSUME NEW k \in Request, NEW lanes, LanesFit(k, lanes), NEW body, Fresh(k, lanes, body),
         body.partial = 0, LastDeparture(body.boards) > 0
  PROVE  EntryFits(k, [body |-> body, expiresAt |-> LastDeparture(body.boards)])
<1>1. /\ body \in Body /\ body.boards = Boards(lanes, k.limit)
      /\ Settled(lanes) /\ ~AnyLost(lanes) /\ k.limit \in Nat \ {0}
  BY Requests DEF Fresh
<1>2. StopsIn(body.boards) = k.stops
  BY <1>1, BoardsComplete
<1>3. \A i \in DOMAIN body.boards : Len(body.boards[i].deps) <= k.limit
  <2> DEFINE got == Oks(lanes)
  <2>1. \A i \in DOMAIN body.boards : /\ body.boards[i] = Limited(got[i].board, k.limit)
                                      /\ got[i].board \in Board
    BY <1>1, BoardsOk
  <2> HIDE DEF got
  <2> QED  BY <1>1, <2>1, LimitedOk
<1>4. LastDeparture(body.boards) \in 1 .. Horizon
  <2>1. body.boards \in Seq(Board)
    BY <1>1 DEF Body
  <2>2. LastDeparture(body.boards) \in 0 .. Horizon
    BY <2>1, LastDepartureOk
  <2> QED  BY <2>2, CompactAssumption DEF CompactAssumption
<1> QED  BY <1>1, <1>2, <1>3, <1>4 DEF EntryFits, Entry, CompleteBody

(* cache.Set, whatever other requests did since Join.                      *)
LEMMA StoreStep ==
  ASSUME SlotsOK, CacheOK, ClockOK, NEW c \in Slot, Store(c)
  PROVE  SlotsOK' /\ CacheOK' /\ UNCHANGED now /\ (OwnCache => OwnCache')
<1> DEFINE ok == OK(out[c], FALSE)
           e  == [body |-> out[c], expiresAt |-> LastDeparture(out[c].boards)]
<1>1. SlotFits(pc[c], req[c], work[c], out[c], answer[c])
  BY DEF SlotsOK, SlotOK
<1>2. /\ pc[c] = "set" /\ UNCHANGED <<now, req, work>>
      /\ cache' = AfterSet(cache, req[c], e)
      /\ pc' = [pc EXCEPT ![c] = "idle"] /\ answer' = [answer EXCEPT ![c] = ok]
      /\ out' = [out EXCEPT ![c] = NoBody]
  BY DEF Store, Reply
<1>3. /\ req[c] \in Request /\ LanesFit(req[c], work[c]) /\ Fresh(req[c], work[c], out[c])
      /\ out[c].partial = 0 /\ LastDeparture(out[c].boards) > 0
  BY <1>1, <1>2 DEF SlotFits
<1>4. EntryFits(req[c], e) /\ e \in Entry
  BY <1>3, StoredFits DEF EntryFits
<1>5. ok \in Answer /\ ok.status = 200 /\ ~ok.hit /\ ok.body = out[c]
  BY <1>3 DEF OK, Answer, ClockOK, Fresh
<1> HIDE DEF ok, e
<1>6. SlotsOK'
  <2>1. SlotFits("idle", req[c], work[c], NoBody, ok)
    BY <1>1, <1>3, <1>5 DEF SlotFits, Answered
  <2>2. Moves(c, "idle", req[c], work[c], NoBody, ok)
    BY <1>2, Same DEF Moves
  <2> QED  BY <2>1, <2>2, OnlyOne
<1>7. ASSUME NEW x \in Cached(cache') \cap Request PROVE EntryFits(x, cache'.items[x])
  BY <1>2, <1>4, <1>7, AfterSetItems DEF CacheOK
<1>8. OwnCache => OwnCache'
  BY <1>2, <1>3, <1>4, AfterSetOk, CompactAssumption DEF OwnCache, CompactAssumption
<1> QED  BY <1>2, <1>6, <1>7, <1>8 DEF CacheOK

(* cache.Get: an entry that is served has its last departure ahead.        *)
LEMMA FallbackStep ==
  ASSUME SlotsOK, CacheOK, ClockOK, NEW c \in Slot, Fallback(c)
  PROVE  SlotsOK' /\ CacheOK' /\ UNCHANGED now /\ (OwnCache => OwnCache')
<1> DEFINE e    == cache.items[req[c]]
           ok   == OK(e.body, TRUE)
           none == [status |-> 502]
<1>1. SlotFits(pc[c], req[c], work[c], out[c], answer[c])
  BY DEF SlotsOK, SlotOK
<1>2. /\ pc[c] = "fallback" /\ UNCHANGED <<now, req, work, out>>
      /\ cache' = AfterGet(cache, req[c], now) /\ pc' = [pc EXCEPT ![c] = "idle"]
      /\ \/ Hit(cache, req[c], now) /\ answer' = [answer EXCEPT ![c] = ok]
         \/ answer' = [answer EXCEPT ![c] = none]
  BY DEF Fallback, Reply
<1>3. req[c] \in Request /\ LanesFit(req[c], work[c]) /\ AllLost(work[c])
  BY <1>1, <1>2 DEF SlotFits
<1>4. ASSUME NEW a \in Answer, Answered(req[c], work[c], a), answer' = [answer EXCEPT ![c] = a]
      PROVE  SlotsOK'
  <2>1. SlotFits("idle", req[c], work[c], out[c], a)
    BY <1>1, <1>3, <1>4 DEF SlotFits
  <2>2. Moves(c, "idle", req[c], work[c], out[c], a)
    BY <1>2, <1>4, Same DEF Moves
  <2> QED  BY <2>1, <2>2, OnlyOne
<1>5. ASSUME Hit(cache, req[c], now), answer' = [answer EXCEPT ![c] = ok]
      PROVE  SlotsOK'
  <2>1. req[c] \in Cached(cache) /\ ~Expired(e, now) /\ EntryFits(req[c], e)
    BY <1>3, <1>5 DEF Hit, CacheOK
  <2>2. /\ e.body \in Body /\ e.expiresAt \in 1 .. Horizon
        /\ e.expiresAt = LastDeparture(e.body.boards)
    BY <2>1 DEF EntryFits, Entry
  <2> HIDE DEF e
  <2>3. now <= LastDeparture(e.body.boards)
    BY <2>1, <2>2, CompactAssumption DEF Expired, NoExpiry, ClockOK, CompactAssumption
  <2>4. ok \in Answer /\ ok.status = 200 /\ ok.hit /\ ok.body = e.body /\ ok.at = now
    BY <2>2 DEF OK, Answer, ClockOK
  <2> HIDE DEF e, ok
  <2>5. Answered(req[c], work[c], ok)
    BY <1>3, <2>3, <2>4 DEF Answered
  <2> QED  BY <1>4, <1>5, <2>4, <2>5
<1>6. ASSUME answer' = [answer EXCEPT ![c] = none]
      PROVE  SlotsOK'
  <2>1. none \in Answer /\ none.status = 502
    BY DEF Answer
  <2> HIDE DEF none
  <2> QED  BY <1>3, <1>4, <1>6, <2>1 DEF Answered
<1>7. ASSUME NEW x \in Cached(cache') \cap Request PROVE EntryFits(x, cache'.items[x])
  BY <1>2, <1>7, AfterGetItems DEF CacheOK
<1>8. OwnCache => OwnCache'
  BY <1>2, AfterGetOk, CompactAssumption DEF OwnCache, CompactAssumption
<1> QED  BY <1>2, <1>5, <1>6, <1>7, <1>8 DEF CacheOK

-----------------------------------------------------------------------------

(* Every step of every request, and of the clock.                          *)
LEMMA NextCInv == CInv /\ [Next]_compactVars => CInv' /\ (OwnCache => OwnCache')
<1> SUFFICES ASSUME CInv, [Next]_compactVars PROVE CInv' /\ (OwnCache => OwnCache')
  OBVIOUS
<1>1. ClockOK /\ CacheOK /\ SlotsOK
  BY DEF CInv
<1>2. UNCHANGED <<now, cache>> /\ SlotsOK' => CInv' /\ (OwnCache => OwnCache')
  BY <1>1 DEF CInv, ClockOK, CacheOK, OwnCache
<1>3. ASSUME NEW c \in Slot, NEW raw \in Raw, NEW limit \in Limits, Begin(c, raw, limit)
      PROVE  CInv' /\ (OwnCache => OwnCache')
  <2>1. UNCHANGED <<now, cache>>
    BY <1>3 DEF Begin
  <2> QED  BY <1>1, <1>2, <1>3, <2>1, BeginStep
<1>4. ASSUME NEW c \in Slot, NEW i \in DOMAIN work[c], Fetch(c, i)
      PROVE  CInv' /\ (OwnCache => OwnCache')
  BY <1>1, <1>2, <1>4, FetchStep
<1>5. ASSUME NEW c \in Slot, Join(c)
      PROVE  CInv' /\ (OwnCache => OwnCache')
  BY <1>1, <1>2, <1>5, JoinStep
<1>6. ASSUME NEW c \in Slot, Store(c)
      PROVE  CInv' /\ (OwnCache => OwnCache')
  <2>1. SlotsOK' /\ CacheOK' /\ UNCHANGED now /\ (OwnCache => OwnCache')
    BY <1>1, <1>6, StoreStep
  <2> QED  BY <1>1, <2>1 DEF CInv, ClockOK
<1>7. ASSUME NEW c \in Slot, Fallback(c)
      PROVE  CInv' /\ (OwnCache => OwnCache')
  <2>1. SlotsOK' /\ CacheOK' /\ UNCHANGED now /\ (OwnCache => OwnCache')
    BY <1>1, <1>7, FallbackStep
  <2> QED  BY <1>1, <2>1 DEF CInv, ClockOK
<1>8. CASE Tick
  <2>1. ClockOK'
    BY <1>1, <1>8, CompactAssumption DEF Tick, ClockOK, CompactAssumption
  <2>2. UNCHANGED <<cache, pc, req, work, out, answer>>
    BY <1>8 DEF Tick
  <2>3. CacheOK' /\ SlotsOK' /\ (OwnCache => OwnCache')
    BY <1>1, <2>2 DEF CacheOK, OwnCache, SlotsOK, SlotOK
  <2> QED  BY <2>1, <2>3 DEF CInv
<1>9. CASE UNCHANGED compactVars
  BY <1>1, <1>9 DEF compactVars, CInv, ClockOK, CacheOK, OwnCache, SlotsOK, SlotOK
<1> QED  BY <1>3, <1>4, <1>5, <1>6, <1>7, <1>8, <1>9 DEF Next, Finish

(* Whatever the order of the requests' and the goroutines' steps.          *)
LEMMA Invariant == Spec => [](CInv /\ OwnCache)
BY InitCInv, NextCInv, PTL DEF Spec

(* Every state of the handlers and of their cache has the types declared,  *)
(* the entries that Store writes and a fallback reads included.            *)
THEOREM CompactTypes == Spec => []TypeOK
BY Invariant, CInvTypes, PTL

(* The cache of this endpoint never holds a partial response, nor one that *)
(* expires at any other time than its last departure, however the requests *)
(* and their goroutines interleave.                                        *)
THEOREM CompactCacheComplete == Spec => []CachedComplete
BY Invariant, CInvCached, PTL

(* The status code of handleCompactDepartures tells how the fan-out ended. *)
THEOREM CompactStatus == Spec => []StatusTellsOutcome
BY Invariant, CInvStatus, PTL

(* A fresh answer leaves out just the stops that failed, keeps the order   *)
(* of the request, and limits each board to its earliest departures.       *)
THEOREM CompactFreshAnswers == Spec => []FreshAnswerFits
BY Invariant, CInvFresh, PTL

=============================================================================
