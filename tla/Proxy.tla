------------------------------- MODULE Proxy -------------------------------
(***************************************************************************)
(* The request handlers of the 1-to-1 routes: newStandardHandler           *)
(* (static and dynamic routes), handleShape, handleMap and the radar       *)
(* passthrough.  Every request runs in a goroutine of its own, here a      *)
(* slot; the goroutines share the two caches.  A handler takes one step    *)
(* per upstream answer and one per use of a cache or of the clock, so any  *)
(* number of steps of other requests may come between any two of them.     *)
(*                                                                         *)
(* Headers travel with the body they came with and are part of it.         *)
(***************************************************************************)
EXTENDS LRU

CONSTANTS
  Slot,         \* requests the server may be handling at once
  Key,          \* request URIs
  RouteOf,      \* request URI -> kind of route (mux.go)
  HafasKey,     \* URIs of the routes with HAFAS as second provider
  Asks,         \* the ways a client may ask, a subset of Ask
  StaticCap, DynamicCap,
  Horizon       \* bound: last instant of a departure; the clock stops past it

(* How a request may differ from a plain GET.  The mux lets HEAD through   *)
(* on its GET patterns, and forward clones the headers a client sent, so   *)
(* the upstream sees Accept-Encoding and If-None-Match as the client       *)
(* wrote them.                                                             *)
Ask == {"get", "head", "gzip", "cond"}

Route == {"static", "dynamic", "shape", "map", "radar"}

ASSUME ProxyAssumption ==
  /\ RouteOf \in [Key -> Route]
  /\ HafasKey \subseteq {k \in Key : RouteOf[k] \in {"static", "dynamic"}}
  /\ Asks \subseteq Ask
  /\ StaticCap \in Int /\ DynamicCap \in Int
  /\ Horizon \in Nat

DynamicKey  == {k \in Key : RouteOf[k] = "dynamic"}
StaticKey   == {k \in Key : RouteOf[k] \in {"static", "shape", "map"}}
StandardKey == {k \in Key : RouteOf[k] \in {"static", "dynamic"}}

VARIABLES
  now,
  staticCache, dynamicCache,
  pc,           \* slot -> what its handler does next
  job,          \* slot -> the request, once it has one
  resp,         \* slot -> the upstream response the handler holds
  answer,       \* slot -> what the client got
  tally         \* slot -> the providers that failed this request

proxyVars == <<now, staticCache, dynamicCache, pc, job, resp, answer, tally>>

-----------------------------------------------------------------------------

(* A body is known by the request it answers, by its form and, on dynamic  *)
(* routes, by its last departure or arrival: 0 when it lists none.         *)
(*   full     what a plain GET gets      encoded  the same, compressed     *)
(*   empty    no bytes                   error    an upstream error page   *)
(*   typed    the route's empty JSON     gateway  the text "bad gateway"   *)
Form == {"full", "encoded", "empty", "error", "typed", "gateway"}
Body == [key : Key, form : Form, until : 0 .. Horizon]

Status == {200, 203, 302, 304, 502, 503}

BodyOf(k, form, until) == [key |-> k, form |-> form, until |-> until]

NoAnswer == [status |-> 0]
Answer   == [status : Status, body : Body, hit : BOOLEAN, at : 1 .. Horizon + 1]

NoResp == [status |-> 0]
Resp   == [status : Status, body : Body]

Provider  == {"rest", "hafas"}
Tally     == SUBSET Provider
NoFailure == {}

Job   == [key : Key, ask : Asks]
NoJob == [key |-> "none"]

StaticEntry  == [status : Status, body : Body, expiresAt : {NoExpiry}]
DynamicEntry == [status : Status, body : Body, expiresAt : 1 .. Horizon]

PC == {"idle", "rest", "hafas", "decide", "set", "fallback"}

ExpiryRoundedUp(body) ==                                        \* a mutant
  IF body.form = "full" THEN body.until + 1 ELSE 0

(* The expiry functions of expiry.go return the zero time for a body they  *)
(* cannot parse, which a compressed or an empty one is.                    *)
Expiry(body) == IF body.form = "full" THEN body.until ELSE 0

-----------------------------------------------------------------------------

(* The upstream, as the handlers see it: no response at all (refused, cut  *)
(* off or timed out), or a status with a body that may break off while it  *)
(* is read.  203 stands for every other 2xx that comes with a body, 302    *)
(* for every 3xx but 304, 503 for every 4xx and 5xx.                       *)
Statuses(j) == {200, 203, 302, 503} \cup (IF j.ask = "cond" THEN {304} ELSE {})

FormOf(j, status) ==
  IF j.ask = "head" \/ status = 304    THEN "empty"
  ELSE IF status = 503                 THEN "error"
  ELSE IF j.ask = "gzip"               THEN "encoded"
  ELSE "full"

Untils(j, form) ==
  IF RouteOf[j.key] = "dynamic" /\ form = "full" THEN 0 .. Horizon ELSE {0}

(* A body that has bytes may break off while io.ReadAll reads it. *)
BreaksOff(r) == r.body.form # "empty"

Responses(j) ==
  UNION {LET form == FormOf(j, s) IN
           {[status |-> s, body |-> BodyOf(j.key, form, u)] : u \in Untils(j, form)}
         : s \in Statuses(j)}

-----------------------------------------------------------------------------

Init ==
  /\ now = 1
  /\ staticCache = NewCache(StaticCap)
  /\ dynamicCache = NewCache(DynamicCap)
  /\ pc = [c \in Slot |-> "idle"]
  /\ job = [c \in Slot |-> NoJob]
  /\ resp = [c \in Slot |-> NoResp]
  /\ answer = [c \in Slot |-> NoAnswer]
  /\ tally = [c \in Slot |-> NoFailure]

Begin(c, j) ==
  /\ pc[c] = "idle"
  /\ pc' = [pc EXCEPT ![c] = "rest"]
  /\ job' = [job EXCEPT ![c] = j]
  /\ answer' = [answer EXCEPT ![c] = NoAnswer]
  /\ tally' = [tally EXCEPT ![c] = NoFailure]
  /\ UNCHANGED <<now, staticCache, dynamicCache, resp>>

Goto(c, l) == pc' = [pc EXCEPT ![c] = l]

(* The handler writes its answer and returns; its locals are gone. *)
Reply(c, status, body, hit) ==
  /\ Goto(c, "idle")
  /\ resp' = [resp EXCEPT ![c] = NoResp]
  /\ answer' = [answer EXCEPT ![c] =
                  [status |-> status, body |-> body, hit |-> hit, at |-> now]]

(* The provider in turn failed.                                            *)
Failed(c) == tally' = [tally EXCEPT ![c] = @ \cup {pc[c]}]

NoSecondProvider(c) == Goto(c, "fallback")                      \* a mutant
ProvidersInTurn(c) ==                                           \* a mutant
  Goto(c, CASE job[c].key \notin HafasKey -> "fallback"
            [] pc[c] = "rest"  -> "hafas"
            [] pc[c] = "hafas" -> "rest")

NextProvider(c) ==
  Goto(c, IF pc[c] = "rest" /\ job[c].key \in HafasKey THEN "hafas" ELSE "fallback")

Take(c, r) == resp' = [resp EXCEPT ![c] = r]

(* TransportRESTClient.Forward, the first provider of a standard route.    *)
RestNoResponse(c) ==
  /\ pc[c] = "rest" /\ job[c].key \in StandardKey
  /\ Failed(c) /\ NextProvider(c)
  /\ UNCHANGED <<now, staticCache, dynamicCache, job, resp, answer>>

RestKeepsStatus(c, r) ==                                        \* a mutant
  /\ pc[c] = "rest" /\ job[c].key \in StandardKey
  /\ r.status \in 200 .. 299
  /\ Take(c, r) /\ Goto(c, "decide")
  /\ UNCHANGED <<now, staticCache, dynamicCache, job, answer, tally>>

(* Forward returns body and header; newStandardHandler makes that a 200.   *)
AsOK(r) == [r EXCEPT !.status = 200]

RestResponse(c, r) ==
  /\ pc[c] = "rest" /\ job[c].key \in StandardKey
  /\ \/ /\ r.status \in 200 .. 299
        /\ Take(c, AsOK(r)) /\ Goto(c, "decide")
        /\ UNCHANGED tally
     \/ /\ r.status \notin 200 .. 299
        /\ Failed(c) /\ NextProvider(c)
        /\ UNCHANGED resp
     \/ /\ r.status \in 200 .. 299 /\ BreaksOff(r)
        /\ Failed(c) /\ NextProvider(c)
        /\ UNCHANGED resp
  /\ UNCHANGED <<now, staticCache, dynamicCache, job, answer>>

(* HAFASClient, the second provider: it makes a request of its own, so the *)
(* client's way of asking does not reach the upstream.                     *)
HafasAnswers(c, until) ==
  /\ pc[c] = "hafas"
  /\ until \in Untils([key |-> job[c].key, ask |-> "get"], "full")
  /\ Take(c, [status |-> 200, body |-> BodyOf(job[c].key, "full", until)])
  /\ Goto(c, "decide")
  /\ UNCHANGED <<now, staticCache, dynamicCache, job, answer, tally>>

HafasFails(c) ==
  /\ pc[c] = "hafas"
  /\ Failed(c) /\ NextProvider(c)
  /\ UNCHANGED <<now, staticCache, dynamicCache, job, resp, answer>>

DecideUnchecked(c) ==                                           \* a mutant
  /\ pc[c] = "decide" /\ Goto(c, "set")
  /\ UNCHANGED <<now, staticCache, dynamicCache, job, resp, answer, tally>>

(* newStandardHandler with a body in hand: cache it or not.  The clock is  *)
(* read here and the cache is reached later.                               *)
Decide(c) ==
  LET body == resp[c].body IN
  /\ pc[c] = "decide"
  /\ \/ /\ RouteOf[job[c].key] = "dynamic" => Expiry(body) > now
        /\ Goto(c, "set")
        /\ UNCHANGED <<resp, answer>>
     \/ /\ RouteOf[job[c].key] = "dynamic" /\ Expiry(body) <= now
        /\ Reply(c, 200, body, FALSE)
  /\ UNCHANGED <<now, staticCache, dynamicCache, job, tally>>

(* handleShape and handleMap share everything but their fallback: no       *)
(* provider chain, and a redirect is as good as a 200.                     *)
RawNoResponse(c) ==
  /\ pc[c] = "rest" /\ RouteOf[job[c].key] \in {"shape", "map"}
  /\ Failed(c) /\ Goto(c, "fallback")
  /\ UNCHANGED <<now, staticCache, dynamicCache, job, resp, answer>>

RawResponse(c, r) ==
  /\ pc[c] = "rest" /\ RouteOf[job[c].key] \in {"shape", "map"}
  /\ \/ /\ r.status \in 200 .. 399
        /\ Take(c, r) /\ Goto(c, "set")
        /\ UNCHANGED tally
     \/ /\ r.status \in 200 .. 399 /\ BreaksOff(r)
        /\ Failed(c) /\ Goto(c, "fallback")
        /\ UNCHANGED resp
     \/ /\ r.status \notin 200 .. 399
        /\ Take(c, r) /\ Failed(c) /\ Goto(c, "fallback")
  /\ UNCHANGED <<now, staticCache, dynamicCache, job, answer>>

(* cache.Set, then the response goes to the client.                        *)
Store(c) ==
  LET k == job[c].key
      r == resp[c]
      Entry(expiresAt) == [status |-> r.status, body |-> r.body, expiresAt |-> expiresAt]
  IN
  /\ pc[c] = "set"
  /\ \/ /\ k \in DynamicKey
        /\ dynamicCache' = AfterSet(dynamicCache, k, Entry(Expiry(r.body)))
        /\ UNCHANGED staticCache
     \/ /\ k \in StaticKey
        /\ staticCache' = AfterSet(staticCache, k, Entry(NoExpiry))
        /\ UNCHANGED dynamicCache
  /\ Reply(c, r.status, r.body, FALSE)
  /\ UNCHANGED <<now, job, tally>>

(* serveFallback, and its like in handleMap: cache.Get, then a hit, the    *)
(* route's empty JSON, or for a map a gateway error or whatever error the  *)
(* upstream gave.                                                          *)
CacheFor(k) == IF k \in DynamicKey THEN dynamicCache ELSE staticCache

FallbackHit(c) ==
  LET k == job[c].key IN
  /\ pc[c] = "fallback"
  /\ Hit(CacheFor(k), k, now)
  /\ LET e == CacheFor(k).items[k] IN Reply(c, e.status, e.body, TRUE)

FallbackMiss(c) ==
  LET k == job[c].key IN
  /\ pc[c] = "fallback"
  /\ ~Hit(CacheFor(k), k, now)
  /\ \/ RouteOf[k] # "map" /\ Reply(c, 200, BodyOf(k, "typed", 0), FALSE)
     \/ RouteOf[k] = "map" /\ resp[c] = NoResp
          /\ Reply(c, 502, BodyOf(k, "gateway", 0), FALSE)
     \/ RouteOf[k] = "map" /\ resp[c] # NoResp
          /\ Reply(c, resp[c].status, resp[c].body, FALSE)

Fallback(c) ==
  LET k == job[c].key IN
  /\ FallbackHit(c) \/ FallbackMiss(c)
  /\ \/ /\ k \in DynamicKey
        /\ dynamicCache' = AfterGet(dynamicCache, k, now)
        /\ UNCHANGED staticCache
     \/ /\ k \in StaticKey
        /\ staticCache' = AfterGet(staticCache, k, now)
        /\ UNCHANGED dynamicCache
  /\ UNCHANGED <<now, job, tally>>

(* newPassthroughHandler: no cache; a 2xx is passed on as it is, also when *)
(* its body breaks off.                                                    *)
RadarNoResponse(c) ==
  /\ pc[c] = "rest" /\ RouteOf[job[c].key] = "radar"
  /\ Failed(c)
  /\ Reply(c, 200, BodyOf(job[c].key, "typed", 0), FALSE)
  /\ UNCHANGED <<now, staticCache, dynamicCache, job>>

RadarResponse(c, r) ==
  /\ pc[c] = "rest" /\ RouteOf[job[c].key] = "radar"
  /\ \/ r.status \in 200 .. 299 /\ Reply(c, r.status, r.body, FALSE) /\ UNCHANGED tally
     \/ /\ r.status \notin 200 .. 299
        /\ Failed(c)
        /\ Reply(c, 200, BodyOf(job[c].key, "typed", 0), FALSE)
  /\ UNCHANGED <<now, staticCache, dynamicCache, job>>

Tick ==
  /\ now <= Horizon
  /\ now' = now + 1
  /\ UNCHANGED <<staticCache, dynamicCache, pc, job, resp, answer, tally>>

-----------------------------------------------------------------------------

(* What the handler of c does once it has a request.                       *)
Handle(c) ==
  \/ RestNoResponse(c) \/ RawNoResponse(c) \/ RadarNoResponse(c)
  \/ /\ pc[c] = "rest"
     /\ \E r \in Responses(job[c]) :
          RestResponse(c, r) \/ RawResponse(c, r) \/ RadarResponse(c, r)
  \/ \E until \in 0 .. Horizon : HafasAnswers(c, until)
  \/ HafasFails(c)
  \/ Decide(c)
  \/ Store(c)
  \/ Fallback(c)

Next ==
  \/ \E c \in Slot, j \in Job : Begin(c, j)
  \/ \E c \in Slot : Handle(c)
  \/ Tick

Spec == Init /\ [][Next]_proxyVars

(* http.Client.Timeout ends every exchange with an upstream, so a handler  *)
(* never waits for ever; clients need not ask.                             *)
FairSpec == Spec /\ \A c \in Slot : WF_proxyVars(Handle(c))

-----------------------------------------------------------------------------

TypeOK ==
  /\ now \in 1 .. Horizon + 1
  /\ IsCache(staticCache, StaticKey, StaticEntry, StaticCap)
  /\ IsCache(dynamicCache, DynamicKey, DynamicEntry, DynamicCap)
  /\ pc \in [Slot -> PC]
  /\ job \in [Slot -> Job \cup {NoJob}]
  /\ \A c \in Slot : pc[c] # "idle" => job[c] \in Job
  /\ resp \in [Slot -> Resp \cup {NoResp}]
  /\ answer \in [Slot -> Answer \cup {NoAnswer}]
  /\ tally \in [Slot -> Tally]

StaticFits(k, e)  == e.body.key = k /\ e.expiresAt = NoExpiry
DynamicFits(k, e) == /\ e.body.key = k /\ e.body.form = "full" /\ e.status = 200
                     /\ e.expiresAt = e.body.until

(* Whatever the handlers of different requests do in between one another's *)
(* steps, a cached body answers the key it is cached under, a dynamic      *)
(* entry is a complete body that expires with its own last departure, and  *)
(* nothing in the static cache expires: the check in newStandardHandler    *)
(* and the Set after it agree on the body although time passes between.    *)
CachesFit ==
  /\ \A k \in Cached(staticCache)  : StaticFits(k, staticCache.items[k])
  /\ \A k \in Cached(dynamicCache) : DynamicFits(k, dynamicCache.items[k])

Answered(c) == answer[c] # NoAnswer

(* A response served from the dynamic cache (X-Cache: HIT) lists a         *)
(* departure that has not passed when it is served.                        *)
HitsAreFresh ==
  \A c \in Slot :
    Answered(c) /\ answer[c].hit /\ job[c].key \in DynamicKey
      => answer[c].at <= answer[c].body.until

(* newStandardHandler answers from the cache, or with empty JSON, only     *)
(* after every provider of the route has failed.                           *)
CacheIsLastResort ==
  \A c \in Slot :
    Answered(c) /\ job[c].key \in StandardKey /\ (answer[c].hit \/ answer[c].body.form = "typed")
      => tally[c] = IF job[c].key \in HafasKey THEN Provider ELSE {"rest"}

(* A polling client of a standard route sees nothing but 200 (README,      *)
(* "returns HTTP 200 with a properly-typed empty JSON body"), whatever     *)
(* status a cached response once had; of radar, which passes a 2xx on as   *)
(* it is, it sees success.                                                 *)
AlwaysOK ==
  \A c \in Slot :
    Answered(c) =>
      /\ job[c].key \in StandardKey => answer[c].status = 200
      /\ RouteOf[job[c].key] = "radar" => answer[c].status \in 200 .. 299

(* A good static response is given up only for another one: no failure,    *)
(* expiry or lookup costs a static route what it has, and a new key takes  *)
(* the place of an old one only in a full cache.                           *)
StaticLossIsEviction ==
  [][Cached(staticCache) \subseteq Cached(staticCache')
       \/ /\ Cardinality(Cached(staticCache)) = StaticCap
          /\ Cardinality(Cached(staticCache')) = StaticCap]_proxyVars

(* README, of a failing upstream: "it returns HTTP 200 with a properly-    *)
(* typed empty JSON body".  A plain GET on a standard route should thus    *)
(* get JSON, never a body without a byte in it nor a compressed one.       *)
PlainGetGetsJSON ==
  \A c \in Slot :
    Answered(c) /\ job[c].key \in StandardKey /\ job[c].ask = "get"
      => answer[c].body.form \in {"full", "typed"}

(* handleShape stores what its comment calls redirects (3xx) as a success; *)
(* a client that sent no condition should not be told Not Modified.        *)
PlainGetNever304 ==
  \A c \in Slot : Answered(c) /\ job[c].ask = "get" => answer[c].status # 304

(* Every request is answered: a chain of two providers, the expiry check   *)
(* and the fallback lead to an answer whatever fails on the way.           *)
EveryRequestAnswered == \A c \in Slot : pc[c] # "idle" ~> pc[c] = "idle"

=============================================================================
