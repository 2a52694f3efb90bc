------------------------------ MODULE Compact ------------------------------
(***************************************************************************)
(* GET /compact/departures, handle_compact_departures.go.  A request names *)
(* up to four stops; its handler starts a goroutine per stop, each of      *)
(* which asks the upstream and then HAFAS for a departure board, waits for *)
(* all of them, and puts the boards together.  The cache serves only when  *)
(* every stop failed.  Requests run concurrently and share the cache.      *)
(*                                                                         *)
(* A departure is known by its time; duration is one more part of the      *)
(* cache key that no step looks at, and is left out.                       *)
(***************************************************************************)
EXTENDS LRU, Subsequences

CONSTANTS
  Slot,         \* requests the server may be handling at once
  Stop,         \* stop IDs
  Empty, Bad,   \* segments of the stops parameter: empty, and no stop ID
  Raw,          \* the stops parameters clients send, split at the commas
  Limits,       \* limits after clamping
  MaxStops,     \* compactMaxStops
  Undated,      \* may an upstream report no time of update?
  HasHafas,     \* is the HAFAS fallback configured?
  Timetables,   \* the sets of departure times an upstream may report
  Grace,        \* compactPastGrace
  Cap,
  Horizon       \* bound: the last departure; the clock stops one past it

ASSUME CompactAssumption ==
  /\ Raw \subseteq Seq(Stop \cup {Empty, Bad})
  /\ Limits \subseteq Nat \ {0} /\ MaxStops \in Nat
  /\ HasHafas \in BOOLEAN /\ Undated \in BOOLEAN
  /\ Horizon \in Nat /\ Grace \in Nat /\ Cap \in Int
  /\ Timetables \subseteq SUBSET (1 .. Horizon)

VARIABLES
  now, cache,
  pc,           \* slot -> what its handler does next
  req,          \* slot -> stops and limit, which are also the cache key
  work,         \* slot -> one entry per stop: how far its goroutine has got
  out,          \* slot -> the response put together, waiting for cache.Set
  answer        \* slot -> what the client got

compactVars == <<now, cache, pc, req, work, out, answer>>

-----------------------------------------------------------------------------

(* parseCompactStops *)
StopsOf(raw) == Subsequence(raw, {i \in DOMAIN raw : raw[i] # Empty})
Valid(raw) ==
  /\ Bad \notin ToSet(raw)
  /\ Len(StopsOf(raw)) \in 1 .. MaxStops

Request == {[stops |-> StopsOf(raw), limit |-> n] : raw \in {r \in Raw : Valid(r)},
                                                    n \in Limits}
NoRequest == [stops |-> <<>>, limit |-> 0]

(* Boards hold departure times in ascending order.                         *)
Board == [stop : Stop, deps : Seq(1 .. Horizon)]

Body   == [asOf : 1 .. Horizon + 1, partial : {0, 1}, boards : Seq(Board)]
NoBody == [partial |-> 2]

Entry == [body : Body, expiresAt : 1 .. Horizon]

NoAnswer == [status |-> 0]
Answer   == [status : {200}, body : Body, hit : BOOLEAN, at : 1 .. Horizon + 1]
              \cup {[status |-> 400], [status |-> 502]}

(* A goroutine asks the upstream, then HAFAS, and ends with a result.      *)
Asking(provider)     == [at |-> provider]
Lost                 == [at |-> "failed"]
Got(board, updatedAt) == [at |-> "ok", board |-> board, updatedAt |-> updatedAt]

Lane == {Asking("rest"), Asking("hafas"), Lost}
          \cup [at : {"ok"}, board : Board, updatedAt : 0 .. Horizon + 1]

(* transformCompactBoard and transformHAFASCompactBoard: departures past   *)
(* the grace period are dropped, the others sorted.                        *)
Transform(stop, deps) ==
  [stop |-> stop, deps |-> Ascending({t \in deps : t >= now - Grace})]

LimitedToLatest(board, limit) ==                                \* a mutant
  [board EXCEPT !.deps = SubSeq(@, IF Len(@) > limit THEN Len(@) - limit + 1 ELSE 1, Len(@))]

Limited(board, limit) ==
  [board EXCEPT !.deps = SubSeq(@, 1, IF Len(@) > limit THEN limit ELSE Len(@))]

(* What the goroutines of one request, in its order, came to.              *)
Came(lanes)    == {i \in DOMAIN lanes : lanes[i].at = "ok"}
Oks(lanes)     == Subsequence(lanes, Came(lanes))
AnyLost(lanes) == \E i \in DOMAIN lanes : lanes[i].at = "failed"

Boards(lanes, limit) ==
  LET got == Oks(lanes) IN [i \in DOMAIN got |-> Limited(got[i].board, limit)]

AsOfFreshest(lanes) == Max({0} \cup {lanes[i].updatedAt : i \in Came(lanes)})  \* a mutant

(* The freshest update any board reports, or the clock when none does.     *)
AsOf(lanes) ==
  LET newest == Max({0} \cup {lanes[i].updatedAt : i \in Came(lanes)})
  IN  IF newest = 0 THEN now ELSE newest

(* compactCacheExpiry: the latest departure of all boards, 0 for none.     *)
LastDeparture(boards) == Max({0} \cup UNION {ToSet(b.deps) : b \in ToSet(boards)})

-----------------------------------------------------------------------------

Init ==
  /\ now = 1
  /\ cache = NewCache(Cap)
  /\ pc = [c \in Slot |-> "idle"]
  /\ req = [c \in Slot |-> NoRequest]
  /\ work = [c \in Slot |-> <<>>]
  /\ out = [c \in Slot |-> NoBody]
  /\ answer = [c \in Slot |-> NoAnswer]

(* An invalid request is answered at once, any other starts its fan-out.   *)
Begin(c, raw, limit) ==
  /\ pc[c] = "idle"
  /\ \/ /\ Valid(raw)
        /\ pc' = [pc EXCEPT ![c] = "fanout"]
        /\ req' = [req EXCEPT ![c] = [stops |-> StopsOf(raw), limit |-> limit]]
        /\ work' = [work EXCEPT ![c] = [i \in DOMAIN StopsOf(raw) |-> Asking("rest")]]
        /\ answer' = [answer EXCEPT ![c] = NoAnswer]
     \/ /\ ~Valid(raw)
        /\ req' = [req EXCEPT ![c] = NoRequest]
        /\ work' = [work EXCEPT ![c] = <<>>]
        /\ answer' = [answer EXCEPT ![c] = [status |-> 400]]
        /\ UNCHANGED pc
  /\ UNCHANGED <<now, cache, out>>

(* The goroutine of stop i gets a board, dated or not, from the provider   *)
(* it asks, and transforms it at once.                                     *)
Fetched(c, i, deps, updatedAt) ==
  /\ work[c][i].at \in {"rest", "hafas"}
  /\ work' = [work EXCEPT ![c][i] = Got(Transform(req[c].stops[i], deps), updatedAt)]
  /\ UNCHANGED <<now, cache, pc, req, out, answer>>

FetchFailsAndRetries(c, i) ==                                   \* a mutant
  /\ \/ /\ work[c][i].at = "rest"
        /\ work' = [work EXCEPT ![c][i] = Asking("hafas")]
     \/ /\ work[c][i].at = "hafas"
        /\ work' = [work EXCEPT ![c][i] = Asking("rest")]
  /\ UNCHANGED <<now, cache, pc, req, out, answer>>

(* It gets nothing: no response, a bad status, or a body it cannot decode. *)
FetchFails(c, i) ==
  /\ \/ /\ work[c][i].at = "rest"
        /\ work' = [work EXCEPT ![c][i] = IF HasHafas THEN Asking("hafas") ELSE Lost]
     \/ /\ work[c][i].at = "hafas"
        /\ work' = [work EXCEPT ![c][i] = Lost]
  /\ UNCHANGED <<now, cache, pc, req, out, answer>>

(* Every goroutine is done *)
Settled(lanes) == \A i \in DOMAIN lanes : lanes[i].at \in {"failed", "ok"}

Reply(c, a) ==
  /\ pc' = [pc EXCEPT ![c] = "idle"]
  /\ answer' = [answer EXCEPT ![c] = a]

Composed(c) ==
  [asOf    |-> AsOf(work[c]),
   partial |-> IF AnyLost(work[c]) THEN 1 ELSE 0,
   boards  |-> Boards(work[c], req[c].limit)]

CacheablePartial(body) == LastDeparture(body.boards) > now      \* a mutant

(* Only a complete response with a departure still to come is cached.      *)
Cacheable(body) == body.partial = 0 /\ LastDeparture(body.boards) > now

OK(body, hit) == [status |-> 200, body |-> body, hit |-> hit, at |-> now]

JoinAllOrNothing(c) ==                                          \* a mutant
  /\ pc[c] = "fanout" /\ Settled(work[c])
  /\ \/ /\ AnyLost(work[c])
        /\ pc' = [pc EXCEPT ![c] = "fallback"]
        /\ UNCHANGED answer
     \/ ~AnyLost(work[c]) /\ Reply(c, OK(Composed(c), FALSE))
  /\ UNCHANGED <<now, cache, req, work, out>>

(* wg.Wait returns.  The clock is read here; cache.Set comes later.        *)
Join(c) ==
  /\ pc[c] = "fanout" /\ Settled(work[c])
  /\ LET body == Composed(c) IN
     \/ /\ body.boards = <<>>
        /\ pc' = [pc EXCEPT ![c] = "fallback"]
        /\ UNCHANGED <<out, answer>>
     \/ /\ body.boards # <<>> /\ Cacheable(body)
        /\ pc' = [pc EXCEPT ![c] = "set"]
        /\ out' = [out EXCEPT ![c] = body]
        /\ UNCHANGED answer
     \/ /\ body.boards # <<>> /\ ~Cacheable(body)
        /\ Reply(c, OK(body, FALSE))
        /\ UNCHANGED out
  /\ UNCHANGED <<now, cache, req, work>>

Store(c) ==
  /\ pc[c] = "set"
  /\ cache' = AfterSet(cache, req[c],
                [body |-> out[c], expiresAt |-> LastDeparture(out[c].boards)])
  /\ Reply(c, OK(out[c], FALSE))
  /\ out' = [out EXCEPT ![c] = NoBody]
  /\ UNCHANGED <<now, req, work>>

Fallback(c) ==
  /\ pc[c] = "fallback"
  /\ cache' = AfterGet(cache, req[c], now)
  /\ \/ /\ Hit(cache, req[c], now)
        /\ Reply(c, OK(cache.items[req[c]].body, TRUE))
     \/ /\ ~Hit(cache, req[c], now)
        /\ Reply(c, [status |-> 502])
  /\ UNCHANGED <<now, req, work, out>>

Tick ==
  /\ now <= Horizon
  /\ now' = now + 1
  /\ UNCHANGED <<cache, pc, req, work, out, answer>>

-----------------------------------------------------------------------------

(* An upstream dates its data by its own clock, or not at all.             *)
Fetch(c, i) ==
  \/ \E deps \in Timetables, updatedAt \in {now} \cup (IF Undated THEN {0} ELSE {}) :
       Fetched(c, i, deps, updatedAt)
  \/ FetchFails(c, i)

Finish(c) == Join(c) \/ Store(c) \/ Fallback(c)

Next ==
  \/ \E c \in Slot, raw \in Raw, limit \in Limits : Begin(c, raw, limit)
  \/ \E c \in Slot : \E i \in DOMAIN work[c] : Fetch(c, i)
  \/ \E c \in Slot : Finish(c)
  \/ Tick

Spec == Init /\ [][Next]_compactVars

(* Every exchange ends, by http.Client.Timeout if not before, so every     *)
(* goroutine gets somewhere; MaxStops of them per request.                 *)
FetchSome(c, i) == i \in DOMAIN work[c] /\ Fetch(c, i)
FairSpec ==
  /\ Spec
  /\ \A c \in Slot : WF_compactVars(Finish(c))
  /\ \A c \in Slot, i \in 1 .. MaxStops : WF_compactVars(FetchSome(c, i))

-----------------------------------------------------------------------------

TypeOK ==
  /\ now \in 1 .. Horizon + 1
  /\ IsCache(cache, Request, Entry, Cap)
  /\ pc \in [Slot -> {"idle", "fanout", "set", "fallback"}]
  /\ req \in [Slot -> Request \cup {NoRequest}]
  /\ \A c \in Slot : pc[c] # "idle" => req[c] \in Request
  /\ work \in [Slot -> Seq(Lane)]
  /\ \A c \in Slot : Len(work[c]) = Len(req[c].stops)
  /\ out \in [Slot -> Body \cup {NoBody}]
  /\ answer \in [Slot -> Answer \cup {NoAnswer}]

StopsIn(boards) == [i \in DOMAIN boards |-> boards[i].stop]

CompleteBody(k, body) ==
  /\ body.partial = 0
  /\ StopsIn(body.boards) = k.stops
  /\ \A i \in DOMAIN body.boards : Len(body.boards[i].deps) <= k.limit

(* A cached response is a complete one: a board for every stop of its key, *)
(* in the order asked for, whatever order the goroutines finished in, and  *)
(* it expires with the last departure it lists, not the last one fetched.  *)
CachedComplete ==
  \A k \in Cached(cache) :
    LET e == cache.items[k] IN
    /\ CompleteBody(k, e.body)
    /\ \E b \in ToSet(e.body.boards) : e.expiresAt \in ToSet(b.deps)
    /\ \A b \in ToSet(e.body.boards) : \A t \in ToSet(b.deps) : t <= e.expiresAt

Served(c) == answer[c] # NoAnswer /\ req[c] # NoRequest

(* README, "Status codes": 200 with fresh boards iff a stop succeeded; the *)
(* cache or a 502 only when every stop failed at every provider; a board   *)
(* from the cache has a departure that has not passed when it is served.   *)
StatusTellsOutcome ==
  \A c \in Slot : Served(c) =>
    \/ /\ answer[c].status = 200 /\ ~answer[c].hit
       /\ \E i \in DOMAIN work[c] : work[c][i].at = "ok"
    \/ /\ answer[c].status = 200 /\ answer[c].hit
       /\ \A i \in DOMAIN work[c] : work[c][i] = Lost
       /\ answer[c].at <= LastDeparture(answer[c].body.boards)
    \/ /\ answer[c].status = 502
       /\ \A i \in DOMAIN work[c] : work[c][i] = Lost

(* README, "Response format": a fresh answer has partial = 1 exactly when  *)
(* a board is missing, leaves out just the failed stops, keeps the         *)
(* request's order, and limits each board to its earliest departures.      *)
FreshAnswerFits ==
  \A c \in Slot :
    Served(c) /\ answer[c].status = 200 /\ ~answer[c].hit =>
      LET boards == answer[c].body.boards
          got    == Oks(work[c])
      IN
      /\ answer[c].body.partial = 1 <=> Len(boards) < Len(req[c].stops)
      /\ Len(boards) = Len(got)
      /\ \A i \in DOMAIN boards :
           /\ boards[i].stop = got[i].board.stop
           /\ Len(boards[i].deps) <= req[c].limit
           /\ \A t \in ToSet(got[i].board.deps) \ ToSet(boards[i].deps) :
                /\ Len(boards[i].deps) = req[c].limit
                /\ \A u \in ToSet(boards[i].deps) : u < t
      /\ \A w \in ToSet(got) : w.updatedAt <= answer[c].body.asOf

(* README: the endpoint serves "the last known good response until its     *)
(* final departure has passed".  Then what the cache knows of a key never  *)
(* gives way to something older.                                           *)
LastKnownGood ==
  [][\A k \in Cached(cache) \cap Cached(cache)' :
       cache'.items[k].body.asOf >= cache.items[k].body.asOf]_compactVars

(* Every request is answered, however many of its fetches fail: no         *)
(* goroutine is waited for in vain.                                        *)
EveryRequestAnswered == \A c \in Slot : pc[c] # "idle" ~> pc[c] = "idle"

=============================================================================
