------------------------------- MODULE Server -------------------------------
(***************************************************************************)
(* newMux hands one dynamic cache to the dynamic 1-to-1 routes and to      *)
(* /compact/departures.  Their keys never meet (a compact key starts with  *)
(* its own path), but their entries make room for each other, and each     *)
(* handler reads what may have changed since it last looked.  Here both    *)
(* kinds of request run at once on that cache and one clock.               *)
(***************************************************************************)
EXTENDS LRU, Subsequences

CONSTANTS
  ProxySlot, CompactSlot,                   \* requests in flight, of each kind
  Key, HafasKey, Asks,                      \* as in Proxy; all keys are dynamic
  Stop, Empty, Bad, Raw, Limits, MaxStops,  \* as in Compact
  Undated, HasHafas, Timetables, Grace,
  Cap,                                      \* capacity of the dynamic cache
  Horizon,
  Nothing                                   \* see StaleIfError

VARIABLES
  now, staticCache, dynamicCache,
  pc, job, resp, answer, tally,             \* of the requests Proxy models
  cpc, req, work, out, canswer              \* of those Compact models

proxyLocals   == <<staticCache, pc, job, resp, answer, tally>>
compactLocals == <<cpc, req, work, out, canswer>>

serverVars == <<now, dynamicCache, proxyLocals, compactLocals>>

P == INSTANCE Proxy
       WITH Slot <- ProxySlot, RouteOf <- [k \in Key |-> "dynamic"],
            StaticCap <- 0, DynamicCap <- Cap

C == INSTANCE Compact
       WITH Slot <- CompactSlot, cache <- dynamicCache, pc <- cpc, answer <- canswer

ASSUME ServerAssumption ==
  /\ HafasKey \subseteq Key /\ Asks \subseteq P!Ask
  /\ Raw \subseteq Seq(Stop \cup {Empty, Bad})
  /\ Limits \subseteq Nat \ {0} /\ MaxStops \in Nat
  /\ HasHafas \in BOOLEAN /\ Undated \in BOOLEAN
  /\ Horizon \in Nat /\ Grace \in Nat /\ Cap \in Int
  /\ Timetables \subseteq SUBSET (1 .. Horizon)
  /\ ProxySlot \cap CompactSlot = {}
  /\ Key \cap C!Request = {}               \* no URI of a 1-to-1 route is one
  /\ Nothing \notin Key \cup C!Request

-----------------------------------------------------------------------------

Init == P!Init /\ C!Init

ProxyBegins(c, j)           == P!Begin(c, j) /\ UNCHANGED compactLocals
ProxyHandles(c)             == P!Handle(c) /\ UNCHANGED compactLocals
CompactBegins(c, raw, limit) == C!Begin(c, raw, limit) /\ UNCHANGED proxyLocals
CompactFetches(c, i) ==
  i \in DOMAIN work[c] /\ C!Fetch(c, i) /\ UNCHANGED proxyLocals
CompactFinishes(c) == C!Finish(c) /\ UNCHANGED proxyLocals

(* There is one clock.                                                     *)
Tick == P!Tick /\ UNCHANGED compactLocals

Next ==
  \/ \E c \in ProxySlot : (\E j \in P!Job : ProxyBegins(c, j)) \/ ProxyHandles(c)
  \/ \E c \in CompactSlot :
       \/ \E raw \in Raw, limit \in Limits : CompactBegins(c, raw, limit)
       \/ \E i \in 1 .. MaxStops : CompactFetches(c, i)
       \/ CompactFinishes(c)
  \/ Tick

(* As in Proxy and Compact: exchanges end, and runnable goroutines run.    *)
Spec ==
  /\ Init /\ [][Next]_serverVars
  /\ \A c \in ProxySlot : WF_serverVars(ProxyHandles(c))
  /\ \A c \in CompactSlot : WF_serverVars(CompactFinishes(c))
  /\ \A c \in CompactSlot, i \in 1 .. MaxStops : WF_serverVars(CompactFetches(c, i))

-----------------------------------------------------------------------------

(* The cache holds entries of both kinds, each under keys of its kind.     *)
TypeOK ==
  /\ IsCache(dynamicCache, Key \cup C!Request, P!DynamicEntry \cup C!Entry, Cap)
  /\ \A k \in Cached(dynamicCache) :
       IF k \in Key THEN dynamicCache.items[k] \in P!DynamicEntry
                    ELSE dynamicCache.items[k] \in C!Entry
  /\ Coherent(dynamicCache)

IsProxyBody(r) == "form" \in DOMAIN r

(* The stops of a request in its order, less those that failed.            *)
SomeOf(stops) ==
  {Subsequence(stops, places) : places \in (SUBSET DOMAIN stops) \ {{}}}

Answers(k, r) ==
  IF k \in Key
    THEN IsProxyBody(r) /\ r.key = k /\ r.form # "typed"
    ELSE /\ ~IsProxyBody(r)
         /\ C!StopsIn(r.boards) \in SomeOf(k.stops)
         /\ r.partial = 1 <=> Len(r.boards) < Len(k.stops)

Complete(k, r) == IF k \in Key THEN r.form = "full" ELSE C!CompleteBody(k, r)

LastOf(r) == IF IsProxyBody(r) THEN r.until ELSE C!LastDeparture(r.boards)

Asked(c) ==
  IF c \in ProxySlot
    THEN IF pc[c] = "idle" THEN Nothing ELSE job[c].key
    ELSE IF cpc[c] = "idle" THEN Nothing ELSE req[c]

AnswerTo(c) == IF c \in ProxySlot THEN answer[c] ELSE canswer[c]

(* What a client got, in the terms of the promise.                         *)
Got(a) ==
  CASE a.status = 0   -> [from |-> "nowhere"]
    [] a.status = 400 -> [from |-> "refusal"]
    [] a.status = 502 -> [from |-> "fallback"]
    [] OTHER ->
         IF a.hit THEN [from |-> "cache", body |-> a.body]
         ELSE IF IsProxyBody(a.body) /\ a.body.form = "typed" THEN [from |-> "fallback"]
         ELSE [from |-> "upstream", body |-> a.body]

(* The terms of the promise, read off the cache and the requests.          *)
Client == ProxySlot \cup CompactSlot

Keeping == [k \in Cached(dynamicCache) |-> dynamicCache.items[k].body]
Asking  == [c \in Client |-> Asked(c)]
Given   == [c \in Client |-> Got(AnswerTo(c))]

Promise == INSTANCE StaleIfError
  WITH Key <- Key \cup C!Request, Capacity <- Cap,
       kept <- Keeping, asked <- Asking, got <- Given

(* newStandardHandler and handleCompactDepartures, each with the other's   *)
(* steps between its own, together keep the promise: a client gets what    *)
(* was fetched for it, else what is kept for the same request and has not  *)
(* passed, else nothing; and what is kept is complete and goes only when   *)
(* it has passed, is replaced, or the cache is full.                       *)
KeepsPromise == Promise!Spec

(* Each handler keeps towards its clients what it keeps alone, although    *)
(* the other's steps evict, refresh and reorder entries of the cache it    *)
(* relies on between its Set and its Get.                                  *)
HandlersUndisturbed ==
  /\ P!HitsAreFresh /\ P!CacheIsLastResort /\ P!AlwaysOK
  /\ C!StatusTellsOutcome /\ C!FreshAnswerFits

(* Every request is answered, whatever the requests of the other kind do   *)
(* with the cache: no goroutine is waited for in vain.                     *)
EveryRequestAnswered ==
  /\ \A c \in ProxySlot : pc[c] # "idle" ~> pc[c] = "idle"
  /\ \A c \in CompactSlot : cpc[c] # "idle" ~> cpc[c] = "idle"

=============================================================================
