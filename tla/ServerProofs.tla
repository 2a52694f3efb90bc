---------------------------- MODULE ServerProofs ----------------------------
(***************************************************************************)
(* The promise of stale-if-error, for any number of requests of both kinds *)
(* on one cache.  Both kinds of handler end in one of four ways (Outcome): *)
(* the promise and the state of the cache are argued once, from those; the *)
(* invariants of ProxyProofs and CompactProofs show that each handler ends *)
(* in one of them.                                                         *)
(***************************************************************************)
EXTENDS Server, LRUProofs

PP == INSTANCE ProxyProofs
        WITH Slot <- ProxySlot, RouteOf <- [k \in Key |-> "dynamic"],
             StaticCap <- 0, DynamicCap <- Cap

CP == INSTANCE CompactProofs
        WITH Slot <- CompactSlot, cache <- dynamicCache, pc <- cpc, answer <- canswer

(* What the two modules assume of their constants holds here. *)
LEMMA ProxyAssumed == PP!ProxyAssumption
BY ServerAssumption DEF ServerAssumption, PP!ProxyAssumption, P!Ask, PP!Ask, PP!Route

LEMMA CompactAssumed == CP!CompactAssumption
BY ServerAssumption DEF ServerAssumption, CP!CompactAssumption

-----------------------------------------------------------------------------

(* Server's instances P and C are of Proxy and Compact, PP and CP of the   *)
(* modules that extend them.  The prover takes their operators for         *)
(* different ones, so what is used of P and C is restated for PP and CP.   *)
LEMMA SameJob == P!Job = PP!Job
BY DEF P!Job, PP!Job

(* The starts, the arrivals, the clock and the handlers of Proxy.          *)
LEMMA SameProxyInit == P!Init => PP!Init
BY DEF P!Init, PP!Init, P!NewCache, PP!NewCache, P!NoAnswer, PP!NoAnswer, P!NoFailure,
     PP!NoFailure, P!NoJob, PP!NoJob, P!NoResp, PP!NoResp, P!CacheOf, PP!CacheOf,
     P!NoExpiry, PP!NoExpiry

LEMMA SameProxyBegin == ASSUME NEW c, NEW j, P!Begin(c, j) PROVE PP!Begin(c, j)
BY DEF P!Begin, PP!Begin, P!NoAnswer, PP!NoAnswer, P!NoFailure, PP!NoFailure

LEMMA SameProxyTick == P!Tick => PP!Tick
BY DEF P!Tick, PP!Tick

(* Each branch of newStandardHandler and its relatives is the same step.   *)
LEMMA SameHandle == ASSUME NEW c, P!Handle(c) PROVE PP!Handle(c)
BY DEF P!Handle, PP!Handle, P!Decide, PP!Decide, P!Fallback, PP!Fallback, P!HafasAnswers,
     PP!HafasAnswers, P!HafasFails, PP!HafasFails, P!RadarNoResponse, PP!RadarNoResponse,
     P!RadarResponse, PP!RadarResponse, P!RawNoResponse, PP!RawNoResponse, P!RawResponse,
     PP!RawResponse, P!Responses, PP!Responses, P!RestNoResponse, PP!RestNoResponse,
     P!RestResponse, PP!RestResponse, P!AsOK, PP!AsOK, P!Store, PP!Store, P!Expiry,
     PP!Expiry, P!Goto, PP!Goto, P!Reply, PP!Reply, P!DynamicKey, PP!DynamicKey, P!FallbackHit,
     PP!FallbackHit, P!FallbackMiss, PP!FallbackMiss, P!StaticKey, PP!StaticKey,
     P!BodyOf, PP!BodyOf, P!Take, PP!Take, P!Untils, PP!Untils, P!Failed, PP!Failed,
     P!NextProvider, PP!NextProvider, P!BreaksOff, PP!BreaksOff, P!FormOf, PP!FormOf,
     P!Statuses, PP!Statuses, P!StandardKey, PP!StandardKey, P!NoResp, PP!NoResp,
     P!CacheFor, PP!CacheFor, P!AfterSet, PP!AfterSet, P!Bind, PP!Bind, P!CacheOf,
     PP!CacheOf, P!Cached, PP!Cached, P!Cons, PP!Cons, P!Evicted, PP!Evicted,
     P!MoveToFront, PP!MoveToFront, P!Drop, PP!Drop, P!Last, PP!Last, P!RemoveFirst,
     PP!RemoveFirst, P!Restrict, PP!Restrict, P!RemoveAt, PP!RemoveAt, P!AfterGet,
     PP!AfterGet, P!Expired, PP!Expired, P!NoExpiry, PP!NoExpiry, P!Hit, PP!Hit,
     P!SelectInSeq, PP!SelectInSeq, P!Min, PP!Min

(* Stops and limits after clamping, and the start of the compact handler.  *)
LEMMA SameRequest == C!Request = CP!Request
BY DEF C!Request, CP!Request, C!StopsOf, CP!StopsOf, C!Valid, CP!Valid, C!Subsequence,
     CP!Subsequence, C!ToSet, CP!ToSet, C!Ascending, CP!Ascending, C!Cardinality,
     CP!Cardinality, C!IsFiniteSet, CP!IsFiniteSet

LEMMA SameCompactInit == C!Init => CP!Init
BY DEF C!Init, CP!Init, C!NewCache, CP!NewCache, C!NoAnswer, CP!NoAnswer, C!NoBody,
     CP!NoBody, C!NoRequest, CP!NoRequest, C!CacheOf, CP!CacheOf, C!NoExpiry, CP!NoExpiry

LEMMA SameCompactBegin ==
  ASSUME NEW c, NEW raw, NEW limit, C!Begin(c, raw, limit) PROVE CP!Begin(c, raw, limit)
BY DEF C!Begin, CP!Begin, C!Asking, CP!Asking, C!NoAnswer, CP!NoAnswer, C!NoRequest,
     CP!NoRequest, C!StopsOf, CP!StopsOf, C!Valid, CP!Valid, C!Subsequence,
     CP!Subsequence, C!ToSet, CP!ToSet, C!Ascending, CP!Ascending, C!Cardinality,
     CP!Cardinality, C!IsFiniteSet, CP!IsFiniteSet

(* The goroutines of handleCompactDepartures, and its steps after wg.Wait. *)
LEMMA SameFetch == ASSUME NEW c, NEW i, C!Fetch(c, i) PROVE CP!Fetch(c, i)
BY DEF C!Fetch, CP!Fetch, C!FetchFails, CP!FetchFails, C!Fetched, CP!Fetched, C!Asking,
     CP!Asking, C!Lost, CP!Lost, C!Got, CP!Got, C!Transform, CP!Transform, C!Ascending,
     CP!Ascending, C!Cardinality, CP!Cardinality, C!IsFiniteSet, CP!IsFiniteSet

LEMMA SameFinish == ASSUME NEW c, C!Finish(c) PROVE CP!Finish(c)
BY DEF C!Fallback, CP!Fallback, C!Join, CP!Join, C!Store, CP!Store, C!OK, CP!OK, C!Reply,
     CP!Reply, C!Cacheable, CP!Cacheable, C!Composed, CP!Composed, C!Settled, CP!Settled,
     C!LastDeparture, CP!LastDeparture, C!NoBody, CP!NoBody, C!AnyLost, CP!AnyLost,
     C!AsOf, CP!AsOf, C!Boards, CP!Boards, C!Max, CP!Max, C!ToSet, CP!ToSet, C!Came,
     CP!Came, C!Limited, CP!Limited, C!Oks, CP!Oks, C!Subsequence, CP!Subsequence,
     C!Ascending, CP!Ascending, C!Cardinality, CP!Cardinality, C!IsFiniteSet,
     CP!IsFiniteSet, C!Finish, CP!Finish, C!AfterSet, CP!AfterSet, C!Bind, CP!Bind,
     C!CacheOf, CP!CacheOf, C!Cached, CP!Cached, C!Cons, CP!Cons, C!Evicted, CP!Evicted,
     C!MoveToFront, CP!MoveToFront, C!Drop, CP!Drop, C!Last, CP!Last, C!RemoveFirst,
     CP!RemoveFirst, C!Restrict, CP!Restrict, C!RemoveAt, CP!RemoveAt, C!AfterGet,
     CP!AfterGet, C!Expired, CP!Expired, C!NoExpiry, CP!NoExpiry, C!Hit, CP!Hit,
     C!SelectInSeq, CP!SelectInSeq, C!Min, CP!Min

(* The cache operators are those of LRU, whoever calls them. *)
LEMMA SameSet ==
  ASSUME NEW c, NEW k, NEW e
  PROVE  PP!AfterSet(c, k, e) = AfterSet(c, k, e) /\ CP!AfterSet(c, k, e) = AfterSet(c, k, e)
BY DEF PP!AfterSet, CP!AfterSet, AfterSet, PP!Bind, CP!Bind, Bind, PP!CacheOf, CP!CacheOf,
     CacheOf, PP!Cached, CP!Cached, Cached, PP!Cons, CP!Cons, Cons, PP!Evicted,
     CP!Evicted, Evicted, PP!MoveToFront, CP!MoveToFront, MoveToFront, PP!Drop, CP!Drop,
     Drop, PP!Last, CP!Last, Last, PP!RemoveFirst, CP!RemoveFirst, RemoveFirst,
     PP!Restrict, CP!Restrict, Restrict, PP!RemoveAt, CP!RemoveAt, RemoveAt,
     PP!SelectInSeq, CP!SelectInSeq, SelectInSeq, PP!Min, CP!Min, Min

LEMMA SameGet ==
  ASSUME NEW c, NEW k, NEW t
  PROVE  PP!AfterGet(c, k, t) = AfterGet(c, k, t) /\ CP!AfterGet(c, k, t) = AfterGet(c, k, t)
BY DEF PP!AfterGet, CP!AfterGet, AfterGet, PP!CacheOf, CP!CacheOf, CacheOf, PP!Cached,
     CP!Cached, Cached, PP!Drop, CP!Drop, Drop, PP!Expired, CP!Expired, Expired,
     PP!MoveToFront, CP!MoveToFront, MoveToFront, PP!RemoveFirst, CP!RemoveFirst,
     RemoveFirst, PP!Restrict, CP!Restrict, Restrict, PP!NoExpiry, CP!NoExpiry, NoExpiry,
     PP!Cons, CP!Cons, Cons, PP!RemoveAt, CP!RemoveAt, RemoveAt, PP!SelectInSeq,
     CP!SelectInSeq, SelectInSeq, PP!Min, CP!Min, Min

LEMMA SameHit ==
  ASSUME NEW c, NEW k, NEW t
  PROVE  (PP!Hit(c, k, t) <=> Hit(c, k, t)) /\ (CP!Hit(c, k, t) <=> Hit(c, k, t))
BY DEF PP!Hit, CP!Hit, Hit, PP!Cached, CP!Cached, Cached, PP!Expired, CP!Expired, Expired,
     PP!NoExpiry, CP!NoExpiry, NoExpiry

(* An empty cache, and what a cache holds.                                 *)
LEMMA SameEmpty ==
  PP!NewCache(Cap) = NewCache(Cap) /\ \A c : PP!Cached(c) = Cached(c) /\ CP!Cached(c) = Cached(c)
BY DEF PP!NewCache, CP!NewCache, NewCache, PP!CacheOf, CP!CacheOf, CacheOf, PP!Cached,
     CP!Cached, Cached, PP!NoExpiry, CP!NoExpiry, NoExpiry

(* So are the words Server's promise is stated in. *)
LEMMA SameBoards ==
  ASSUME NEW k, NEW b, NEW s, NEW p
  PROVE  /\ C!StopsIn(s) = CP!StopsIn(s) /\ C!LastDeparture(s) = CP!LastDeparture(s)
         /\ C!CompleteBody(k, b) <=> CP!CompleteBody(k, b)
         /\ Subsequence(s, p) = CP!Subsequence(s, p)
BY DEF C!StopsIn, CP!StopsIn, C!LastDeparture, CP!LastDeparture, C!Max, CP!Max, C!ToSet,
     CP!ToSet, C!CompleteBody, CP!CompleteBody, Subsequence, CP!Subsequence, Ascending,
     CP!Ascending, Cardinality, CP!Cardinality, IsFiniteSet, CP!IsFiniteSet

(* What either kind of handler stores.                                     *)
LEMMA SameEntries == P!DynamicEntry = PP!DynamicEntry /\ C!Entry = CP!Entry
BY DEF P!DynamicEntry, PP!DynamicEntry, P!Body, PP!Body, P!Form, PP!Form, P!Status, PP!Status,
     C!Entry, CP!Entry, C!Body, CP!Body, C!Board, CP!Board

(* The size of what the promise keeps is that of the cache.                *)
LEMMA SamePromiseSize == ASSUME NEW S PROVE Promise!Cardinality(S) = Cardinality(S)
BY DEF Promise!Cardinality, Cardinality, Promise!IsFiniteSet, IsFiniteSet

-----------------------------------------------------------------------------

AnyKey == Key \cup CP!Request

(* What may be stored under a key of either kind. *)
EntryOK(k, e) ==
  IF k \in Key THEN e \in PP!DynamicEntry /\ PP!DynamicFits(k, e) ELSE CP!EntryFits(k, e)

SharedCache ==
  /\ IsCache(dynamicCache, AnyKey, PP!DynamicEntry \cup CP!Entry, Cap)
  /\ Coherent(dynamicCache)
  /\ \A k \in Cached(dynamicCache) : EntryOK(k, dynamicCache.items[k])

(* Each kind of handler relies on its own invariant and on the cache.      *)
SInv == PP!ClockOK /\ PP!StaticOK /\ PP!SlotsOK /\ CP!SlotsOK /\ SharedCache

(* On the shared cache the invariants of both proof modules hold.          *)
LEMMA SInvParts == SInv => PP!PInv /\ CP!CInv
<1> SUFFICES ASSUME SInv PROVE PP!PInv /\ CP!CInv
  OBVIOUS
<1>1. PP!DynamicOK
  <2>1. ASSUME NEW k \in PP!Cached(dynamicCache) \cap PP!DynamicKey
        PROVE  dynamicCache.items[k] \in PP!DynamicEntry /\ PP!DynamicFits(k, dynamicCache.items[k])
    <3>1. k \in Cached(dynamicCache) /\ k \in Key
      BY SameEmpty DEF PP!DynamicKey
    <3> QED  BY <3>1 DEF SInv, SharedCache, EntryOK
  <2> QED  BY <2>1 DEF PP!DynamicOK
<1>2. CP!CacheOK
  <2>1. ASSUME NEW k \in CP!Cached(dynamicCache) \cap CP!Request
        PROVE  CP!EntryFits(k, dynamicCache.items[k])
    <3>1. k \in Cached(dynamicCache) /\ k \notin Key
      BY SameEmpty, SameRequest, ServerAssumption DEF ServerAssumption
    <3> QED  BY <3>1 DEF SInv, SharedCache, EntryOK
  <2> QED  BY <2>1 DEF CP!CacheOK
<1>3. CP!ClockOK
  BY DEF SInv, PP!ClockOK, CP!ClockOK
<1> QED  BY <1>1, <1>2, <1>3 DEF SInv, PP!PInv, CP!CInv

(* An entry is complete and expires with the last departure it lists.      *)
LEMMA EntryFacts ==
  ASSUME NEW k \in AnyKey, NEW e, EntryOK(k, e)
  PROVE  /\ e \in PP!DynamicEntry \cup CP!Entry
         /\ Complete(k, e.body) /\ LastOf(e.body) = e.expiresAt
         /\ e.expiresAt \in 1 .. Horizon
<1>1. CASE k \in Key
  <2>1. e \in PP!DynamicEntry /\ PP!DynamicFits(k, e)
    BY <1>1 DEF EntryOK
  <2>2. e.body \in PP!Body /\ e.expiresAt \in 1 .. Horizon
    BY <2>1 DEF PP!DynamicEntry
  <2>3. IsProxyBody(e.body)
    BY <2>2 DEF PP!Body, IsProxyBody
  <2> QED  BY <1>1, <2>1, <2>2, <2>3 DEF Complete, LastOf, PP!DynamicFits
<1>2. CASE k \notin Key
  <2>1. CP!EntryFits(k, e)
    BY <1>2 DEF EntryOK
  <2>2. e \in CP!Entry /\ e.body \in CP!Body /\ e.expiresAt \in 1 .. Horizon
    BY <2>1 DEF CP!EntryFits, CP!Entry
  <2>3. ~IsProxyBody(e.body)
    BY <2>2 DEF CP!Body, IsProxyBody
  <2>4. C!CompleteBody(k, e.body) /\ C!LastDeparture(e.body.boards) = e.expiresAt
    BY <2>1, SameBoards DEF CP!EntryFits
  <2> QED  BY <1>2, <2>2, <2>3, <2>4 DEF Complete, LastOf
<1> QED  BY <1>1, <1>2

-----------------------------------------------------------------------------

(* How a step of a handler may end for client c, who asked for k: on its   *)
(* way, with a response that is not stored, with one that is, with what is *)
(* kept, or with nothing.                                                  *)
Outcome(c, k) ==
  \/ UNCHANGED <<dynamicCache, Asking, Given>>
  \/ \E r : /\ Answers(k, r) /\ Promise!Give(c, Promise!Fresh(r))
            /\ UNCHANGED dynamicCache
  \/ \E e : /\ EntryOK(k, e) /\ Answers(k, e.body) /\ Promise!Give(c, Promise!Fresh(e.body))
            /\ dynamicCache' = AfterSet(dynamicCache, k, e)
  \/ /\ Hit(dynamicCache, k, now)
     /\ Promise!Give(c, Promise!Kept(dynamicCache.items[k].body))
     /\ dynamicCache' = AfterGet(dynamicCache, k, now)
  \/ /\ ~Hit(dynamicCache, k, now)
     /\ Promise!Give(c, Promise!NothingToGive)
     /\ dynamicCache' = AfterGet(dynamicCache, k, now)

(* Whichever it is, the cache stays in order.                              *)
LEMMA OutcomeCache ==
  ASSUME SharedCache, NEW c, NEW k \in AnyKey, Outcome(c, k)
  PROVE  SharedCache'
<1> DEFINE E == PP!DynamicEntry \cup CP!Entry
<1>1. /\ IsCache(dynamicCache, AnyKey, E, Cap) /\ Coherent(dynamicCache) /\ Cap \in Int
      /\ \A x \in Cached(dynamicCache) : EntryOK(x, dynamicCache.items[x])
  BY ServerAssumption DEF SharedCache, ServerAssumption
<1> HIDE DEF E
<1>2. SUFFICES /\ IsCache(dynamicCache', AnyKey, E, Cap) /\ Coherent(dynamicCache')
               /\ \A x \in Cached(dynamicCache') : EntryOK(x, dynamicCache'.items[x])
  BY DEF SharedCache, E, IsCache, IsPartialMap, Coherent, Agree, Cached
<1>3. CASE UNCHANGED dynamicCache
  BY <1>1, <1>3
<1>4. ASSUME NEW e, EntryOK(k, e), dynamicCache' = AfterSet(dynamicCache, k, e)
      PROVE  /\ IsCache(dynamicCache', AnyKey, E, Cap) /\ Coherent(dynamicCache')
             /\ \A x \in Cached(dynamicCache') : EntryOK(x, dynamicCache'.items[x])
  <2>1. e \in E
    BY <1>4, EntryFacts DEF E
  <2>2. IsCache(dynamicCache', AnyKey, E, Cap) /\ Coherent(dynamicCache')
    BY <1>1, <1>4, <2>1, AfterSetOk
  <2>3. ASSUME NEW x \in Cached(dynamicCache') PROVE EntryOK(x, dynamicCache'.items[x])
    BY <1>1, <1>4, AfterSetItems
  <2> QED  BY <2>2, <2>3
<1>5. ASSUME dynamicCache' = AfterGet(dynamicCache, k, now)
      PROVE  /\ IsCache(dynamicCache', AnyKey, E, Cap) /\ Coherent(dynamicCache')
             /\ \A x \in Cached(dynamicCache') : EntryOK(x, dynamicCache'.items[x])
  <2>2. IsCache(dynamicCache', AnyKey, E, Cap) /\ Coherent(dynamicCache')
    BY <1>1, <1>5, AfterGetOk
  <2>3. ASSUME NEW x \in Cached(dynamicCache') PROVE EntryOK(x, dynamicCache'.items[x])
    BY <1>1, <1>5, AfterGetItems
  <2> QED  BY <2>2, <2>3
<1> QED  BY <1>3, <1>4, <1>5 DEF Outcome

(* What is kept under a key is its entry's body, until that has expired.   *)
LEMMA LiveIsHit ==
  ASSUME SharedCache, now \in Nat, NEW c, NEW k \in AnyKey
  PROVE  /\ DOMAIN Keeping = Cached(dynamicCache)
         /\ \A x \in Cached(dynamicCache) : Keeping[x] = dynamicCache.items[x].body
         /\ Hit(dynamicCache, k, now) <=> Promise!Live(k)
<1>1. /\ DOMAIN Keeping = Cached(dynamicCache)
      /\ \A x \in Cached(dynamicCache) : Keeping[x] = dynamicCache.items[x].body
  BY DEF Keeping
<1>2. dynamicCache.cap = Cap /\ Cap \in Int /\ dynamicCache.list \in Seq(AnyKey)
  BY IsCacheFields, ServerAssumption DEF SharedCache, ServerAssumption
<1>3. CASE k \in Cached(dynamicCache)
  <2> DEFINE e == dynamicCache.items[k]
  <2>1. LastOf(e.body) = e.expiresAt /\ e.expiresAt \in 1 .. Horizon
    BY <1>3, EntryFacts DEF SharedCache
  <2>2. Keeping[k] = e.body
    BY <1>1, <1>3
  <2>3. Cap > 0
    <3>1. Coherent(dynamicCache) /\ k \in ToSet(dynamicCache.list)
      BY <1>3 DEF SharedCache, Coherent, Agree
    <3>2. Len(dynamicCache.list) > 0
      BY <1>2, <3>1 DEF ToSet
    <3> QED  BY <1>2, <3>1, <3>2 DEF Coherent
  <2>4. Hit(dynamicCache, k, now) <=> ~(now > e.expiresAt)
    BY <1>2, <1>3, <2>1, <2>3 DEF Hit, Expired, NoExpiry
  <2>5. Promise!Live(k) <=> now <= e.expiresAt
    BY <1>1, <1>3, <2>1, <2>2 DEF Promise!Live
  <2>6. e.expiresAt \in Nat
    BY <2>1, ServerAssumption DEF ServerAssumption
  <2> QED  BY <1>1, <2>4, <2>5, <2>6
<1>4. CASE k \notin Cached(dynamicCache)
  BY <1>1, <1>4 DEF Hit, Promise!Live
<1> QED  BY <1>1, <1>3, <1>4

(* Set keeps one more response, and gives up another only for room.        *)
LEMMA SetKeeps ==
  ASSUME SharedCache, NEW c, NEW k \in AnyKey, Asking[c] = k, NEW e,
         EntryOK(k, e), Answers(k, e.body), Promise!Give(c, Promise!Fresh(e.body)), UNCHANGED now,
         dynamicCache' = AfterSet(dynamicCache, k, e)
  PROVE  \/ Promise!GiveFresh(c, e.body)
         \/ \E gone \in SUBSET DOMAIN Keeping : Promise!GiveAndKeep(c, e.body, gone)
<1>1. /\ IsCache(dynamicCache, AnyKey, PP!DynamicEntry \cup CP!Entry, Cap)
      /\ Coherent(dynamicCache) /\ Cap \in Int /\ dynamicCache.cap = Cap
  BY IsCacheFields, ServerAssumption DEF SharedCache, ServerAssumption
<1>2. Complete(k, e.body)
  BY EntryFacts
<1>3. DOMAIN Keeping = Cached(dynamicCache)
  BY DEF Keeping
<1>4. CASE Cap <= 0
  <2>1. UNCHANGED dynamicCache
    BY <1>1, <1>4 DEF AfterSet
  <2>2. UNCHANGED Keeping
    BY <2>1 DEF Keeping, Cached
  <2> QED  BY <2>2 DEF Promise!GiveFresh
<1>5. CASE Cap > 0
  <2>1. PICK gone \in SUBSET Cached(dynamicCache) :
          /\ gone # {} => k \notin Cached(dynamicCache) /\ Cardinality(Cached(dynamicCache)) = Cap
          /\ gone # {} => \E x : gone = {x}
          /\ Cached(dynamicCache') = (Cached(dynamicCache) \ gone) \cup {k}
          /\ \A x \in Cached(dynamicCache') :
               dynamicCache'.items[x] = IF x = k THEN e ELSE dynamicCache.items[x]
    <3>1. MakesRoom(dynamicCache, dynamicCache', k, e, Cap)
      BY <1>1, <1>5, AfterSetKeys
    <3> QED  BY <3>1 DEF MakesRoom
  <2>2. Cardinality(gone) <= 1
    <3>1. CASE gone = {}
      BY <3>1, FS_EmptySet
    <3>2. CASE gone # {}
      BY <2>1, <3>2, FS_Singleton
    <3> QED  BY <3>1, <3>2
  <2>3. Keeping' = [x \in (DOMAIN Keeping \ gone) \cup {k} |-> IF x = k THEN e.body ELSE Keeping[x]]
    <3>1. Keeping' = [x \in Cached(dynamicCache') |-> dynamicCache'.items[x].body]
      BY DEF Keeping, Cached
    <3>2. \A x \in Cached(dynamicCache') :
            dynamicCache'.items[x].body = IF x = k THEN e.body ELSE Keeping[x]
      BY <1>3, <2>1 DEF Keeping
    <3> QED  BY <1>3, <2>1, <3>1, <3>2
  <2>4. Keeping' = [x \in DOMAIN Promise!Without(gone) \cup {k} |->
                      IF x = k THEN e.body ELSE Keeping[x]]
    BY <2>3 DEF Promise!Without
  <2>5. Promise!GiveAndKeep(c, e.body, gone)
    BY <1>2, <1>3, <2>1, <2>2, <2>4, SamePromiseSize DEF Promise!GiveAndKeep
  <2> QED  BY <1>3, <2>1, <2>5
<1> QED  BY <1>1, <1>4, <1>5

(* Whichever it is, it is one the promise allows.                          *)
LEMMA OutcomePromised ==
  ASSUME SharedCache, now \in Nat, NEW c \in Client, NEW k \in AnyKey, Asking[c] = k,
         Outcome(c, k), UNCHANGED now
  PROVE  [Promise!PNext]_(Promise!promiseVars)
<1> SUFFICES UNCHANGED <<now, Keeping, Asking, Given>> \/ Promise!Serve(c)
  BY DEF Promise!PNext, Promise!promiseVars
<1>0. k # Nothing
  BY ServerAssumption, SameRequest DEF AnyKey, ServerAssumption
<1>1. UNCHANGED dynamicCache => UNCHANGED Keeping
  BY DEF Keeping, Cached
<1>2. ASSUME NEW a, Promise!Give(c, a) PROVE Given'[c] = a
  <2>1. Given' = [Given EXCEPT ![c] = a]
    BY <1>2 DEF Promise!Give
  <2>2. c \in DOMAIN Given
    BY DEF Given
  <2> QED  BY <2>1, <2>2
<1>3. \A r : Promise!Fresh(r).from = "upstream" /\ Promise!Fresh(r).body = r
  BY DEF Promise!Fresh
<1>4. CASE UNCHANGED <<dynamicCache, Asking, Given>>
  BY <1>1, <1>4
<1>5. ASSUME NEW r, Answers(k, r), Promise!Give(c, Promise!Fresh(r)), UNCHANGED dynamicCache
      PROVE  Promise!Serve(c)
  <2>1. Promise!GiveFresh(c, r)
    BY <1>1, <1>5 DEF Promise!GiveFresh
  <2> QED  BY <1>0, <1>2, <1>3, <1>5, <2>1 DEF Promise!Serve
<1>6. ASSUME NEW e, EntryOK(k, e), Answers(k, e.body), Promise!Give(c, Promise!Fresh(e.body)),
             dynamicCache' = AfterSet(dynamicCache, k, e)
      PROVE  Promise!Serve(c)
  <2>1. \/ Promise!GiveFresh(c, e.body)
        \/ \E gone \in SUBSET DOMAIN Keeping : Promise!GiveAndKeep(c, e.body, gone)
    BY <1>6, SetKeeps
  <2> QED  BY <1>0, <1>2, <1>3, <1>6, <2>1 DEF Promise!Serve
<1>7. dynamicCache.cap \in Int /\ (dynamicCache.cap <= 0 => Cached(dynamicCache) = {})
  <2>1. dynamicCache.cap = Cap /\ Cap \in Int /\ dynamicCache.list \in Seq(AnyKey)
    BY IsCacheFields, ServerAssumption DEF SharedCache, ServerAssumption
  <2>2. Agree(dynamicCache) /\ Len(dynamicCache.list) <= IF Cap > 0 THEN Cap ELSE 0
    BY <2>1 DEF SharedCache, Coherent
  <2>3. Cap <= 0 => DOMAIN dynamicCache.list = {}
    BY <2>1, <2>2
  <2>4. Cap <= 0 => ToSet(dynamicCache.list) = {}
    BY <2>3 DEF ToSet
  <2> QED  BY <2>1, <2>2, <2>4 DEF Agree
<1>8. ASSUME dynamicCache' = AfterGet(dynamicCache, k, now)
      PROVE  Keeping' = IF Hit(dynamicCache, k, now) THEN Keeping ELSE Promise!Without({k})
  <2>1. /\ Cached(dynamicCache') = IF Hit(dynamicCache, k, now) THEN Cached(dynamicCache)
                                   ELSE Cached(dynamicCache) \ {k}
        /\ \A x \in Cached(dynamicCache') : dynamicCache'.items[x] = dynamicCache.items[x]
    BY <1>7, <1>8, AfterGetKeys DEF Hit
  <2>2. Keeping' = [x \in Cached(dynamicCache') |-> dynamicCache'.items[x].body]
    BY DEF Keeping, Cached
  <2>3. CASE Hit(dynamicCache, k, now)
    BY <2>1, <2>2, <2>3 DEF Keeping
  <2>4. CASE ~Hit(dynamicCache, k, now)
    BY <2>1, <2>2, <2>4 DEF Keeping, Promise!Without
  <2> QED  BY <2>3, <2>4
<1>9. /\ k \in Cached(dynamicCache) => Keeping[k] = dynamicCache.items[k].body
      /\ Hit(dynamicCache, k, now) <=> Promise!Live(k)
      /\ Hit(dynamicCache, k, now) => k \in Cached(dynamicCache)
  BY LiveIsHit DEF Hit
<1>10. CASE /\ Hit(dynamicCache, k, now)
            /\ Promise!Give(c, Promise!Kept(dynamicCache.items[k].body))
            /\ dynamicCache' = AfterGet(dynamicCache, k, now)
  <2>1. Promise!GiveKept(c)
    BY <1>8, <1>9, <1>10 DEF Promise!GiveKept
  <2> QED  BY <1>0, <2>1 DEF Promise!Serve
<1>11. CASE /\ ~Hit(dynamicCache, k, now)
            /\ Promise!Give(c, Promise!NothingToGive)
            /\ dynamicCache' = AfterGet(dynamicCache, k, now)
  <2>1. Promise!GiveNothing(c)
    BY <1>8, <1>9, <1>11 DEF Promise!GiveNothing
  <2> QED  BY <1>0, <2>1 DEF Promise!Serve
<1> QED  BY <1>4, <1>5, <1>6, <1>10, <1>11 DEF Outcome

-----------------------------------------------------------------------------

(* A step of request c that leaves it these locals, all others theirs.     *)
ProxyMoves(c, p, j, a) ==
  /\ pc' = [pc EXCEPT ![c] = p] /\ job' = [job EXCEPT ![c] = j]
  /\ answer' = [answer EXCEPT ![c] = a] /\ UNCHANGED compactLocals

CompactMoves(c, p, k, a) ==
  /\ cpc' = [cpc EXCEPT ![c] = p] /\ req' = [req EXCEPT ![c] = k]
  /\ canswer' = [canswer EXCEPT ![c] = a] /\ UNCHANGED proxyLocals

(* A step of one request concerns its client only.                         *)
LEMMA ProxyTurn ==
  ASSUME PP!SlotsOK, NEW c \in ProxySlot, NEW p, NEW j, NEW a, ProxyMoves(c, p, j, a)
  PROVE  /\ Asking' = [Asking EXCEPT ![c] = IF p = "idle" THEN Nothing ELSE j.key]
         /\ Given' = [Given EXCEPT ![c] = Got(a)]
<1>1. /\ pc = [x \in ProxySlot |-> pc[x]] /\ job = [x \in ProxySlot |-> job[x]]
      /\ answer = [x \in ProxySlot |-> answer[x]]
  BY DEF PP!SlotsOK, PP!OnSlots
<1>2. /\ pc'[c] = p /\ job'[c] = j /\ answer'[c] = a
      /\ \A x \in ProxySlot : x # c => pc'[x] = pc[x] /\ job'[x] = job[x] /\ answer'[x] = answer[x]
  BY <1>1 DEF ProxyMoves
<1>3. UNCHANGED <<cpc, req, canswer>>
  BY DEF compactLocals, ProxyMoves
<1>4. \A x \in Client :
        Asked(x)' = IF x = c THEN (IF p = "idle" THEN Nothing ELSE j.key) ELSE Asked(x)
  BY <1>2, <1>3 DEF Asked
<1>5. Asking' = [x \in Client |-> Asked(x)']
  BY DEF Asking
<1>6. \A x \in Client : AnswerTo(x)' = IF x = c THEN a ELSE AnswerTo(x)
  BY <1>2, <1>3 DEF AnswerTo, Client
<1>9. Given' = [x \in Client |-> Got(AnswerTo(x)')]
  BY DEF Given, Got
<1>7. Asking' = [Asking EXCEPT ![c] = IF p = "idle" THEN Nothing ELSE j.key]
  BY <1>4, <1>5 DEF Asking
<1>8. Given' = [Given EXCEPT ![c] = Got(a)]
  BY <1>6, <1>9 DEF Given
<1> QED  BY <1>7, <1>8

(* The same for the compact handler.                                       *)
LEMMA CompactTurn ==
  ASSUME CP!SlotsOK, NEW c \in CompactSlot, NEW p, NEW k, NEW a, CompactMoves(c, p, k, a)
  PROVE  /\ Asking' = [Asking EXCEPT ![c] = IF p = "idle" THEN Nothing ELSE k]
         /\ Given' = [Given EXCEPT ![c] = Got(a)]
<1>1. /\ cpc = [x \in CompactSlot |-> cpc[x]] /\ req = [x \in CompactSlot |-> req[x]]
      /\ canswer = [x \in CompactSlot |-> canswer[x]]
  BY DEF CP!SlotsOK
<1>2. /\ cpc'[c] = p /\ req'[c] = k /\ canswer'[c] = a
      /\ \A x \in CompactSlot :
           x # c => cpc'[x] = cpc[x] /\ req'[x] = req[x] /\ canswer'[x] = canswer[x]
  BY <1>1 DEF CompactMoves
<1>3. UNCHANGED <<pc, job, answer>> /\ c \notin ProxySlot
  BY ServerAssumption DEF proxyLocals, ServerAssumption, CompactMoves
<1>4. \A x \in Client : Asked(x)' = IF x = c THEN (IF p = "idle" THEN Nothing ELSE k) ELSE Asked(x)
  BY <1>2, <1>3 DEF Asked, Client
<1>5. Asking' = [x \in Client |-> Asked(x)']
  BY DEF Asking
<1>6. \A x \in Client : AnswerTo(x)' = IF x = c THEN a ELSE AnswerTo(x)
  BY <1>2, <1>3 DEF AnswerTo, Client
<1>9. Given' = [x \in Client |-> Got(AnswerTo(x)')]
  BY DEF Given, Got
<1>7. Asking' = [Asking EXCEPT ![c] = IF p = "idle" THEN Nothing ELSE k]
  BY <1>4, <1>5 DEF Asking
<1>8. Given' = [Given EXCEPT ![c] = Got(a)]
  BY <1>6, <1>9 DEF Given
<1> QED  BY <1>7, <1>8

(* A handler that has not come to an answer.                               *)
LEMMA ProxyStays ==
  ASSUME SInv, NEW c \in ProxySlot, pc[c] # "idle", NEW l, l # "idle", PP!Goto(c, l),
         UNCHANGED <<dynamicCache, job, answer>>, UNCHANGED compactLocals
  PROVE  Outcome(c, job[c].key)
<1>1. ProxyMoves(c, l, job[c], answer[c]) /\ PP!SlotsOK
  BY DEF ProxyMoves, PP!Goto, SInv, PP!SlotsOK, PP!OnSlots
<1>2. /\ Asking' = [Asking EXCEPT ![c] = job[c].key]
      /\ Given' = [Given EXCEPT ![c] = Got(answer[c])]
  BY <1>1, ProxyTurn
<1>3. Asking[c] = job[c].key /\ Given[c] = Got(answer[c])
  BY DEF Asking, Asked, Given, AnswerTo, Client
<1>4. Asking = [x \in Client |-> Asking[x]] /\ Given = [x \in Client |-> Given[x]]
  BY DEF Asking, Given
<1>5. UNCHANGED <<Asking, Given>>
  BY <1>2, <1>3, <1>4
<1> QED  BY <1>5 DEF Outcome

(* What a handler of the 1-to-1 routes replies, in terms of the promise.   *)
LEMMA ProxyGives ==
  ASSUME SInv, NEW c \in ProxySlot, NEW body \in PP!Body, NEW hit \in BOOLEAN,
         PP!Reply(c, 200, body, hit), UNCHANGED job, UNCHANGED compactLocals
  PROVE  /\ hit => Promise!Give(c, Promise!Kept(body))
         /\ ~hit /\ body.form = "typed" => Promise!Give(c, Promise!NothingToGive)
         /\ ~hit /\ body.form # "typed" => Promise!Give(c, Promise!Fresh(body))
<1> DEFINE a == [status |-> 200, body |-> body, hit |-> hit, at |-> now]
<1>1. ProxyMoves(c, "idle", job[c], a) /\ PP!SlotsOK
  BY DEF ProxyMoves, PP!Reply, PP!Goto, SInv, PP!SlotsOK, PP!OnSlots
<1>2. a.status = 200 /\ a.body = body /\ a.hit = hit
  OBVIOUS
<1> HIDE DEF a
<1>3. Asking' = [Asking EXCEPT ![c] = Nothing] /\ Given' = [Given EXCEPT ![c] = Got(a)]
  BY <1>1, ProxyTurn
<1>4. IsProxyBody(body)
  BY DEF PP!Body, IsProxyBody
<1>5. /\ hit => Got(a) = Promise!Kept(body)
      /\ ~hit /\ body.form = "typed" => Got(a) = Promise!NothingToGive
      /\ ~hit /\ body.form # "typed" => Got(a) = Promise!Fresh(body)
  BY <1>2, <1>4 DEF Got, Promise!Kept, Promise!NothingToGive, Promise!Fresh
<1> QED  BY <1>3, <1>5 DEF Promise!Give

(* Every step of a handler of the 1-to-1 routes is one of the outcomes.    *)
LEMMA ProxyOutcome ==
  ASSUME SInv, NEW c \in ProxySlot, PP!Handle(c), UNCHANGED compactLocals
  PROVE  /\ Outcome(c, job[c].key) /\ UNCHANGED now
         /\ job[c].key \in Key /\ Asking[c] = job[c].key
<1> DEFINE k == job[c].key
<1>1. PP!PInv /\ PP!SlotOK(pc[c], job[c], resp[c], answer[c], tally[c])
  BY SInvParts, ProxyAssumed, PP!AtSlot
<1>2. pc[c] # "idle" /\ UNCHANGED <<now, job>>
  BY DEF PP!Handle, PP!RestNoResponse, PP!RawNoResponse, PP!RadarNoResponse, PP!RestResponse,
     PP!RawResponse, PP!RadarResponse, PP!HafasAnswers, PP!HafasFails, PP!Decide, PP!Store,
     PP!Fallback, PP!FallbackHit, PP!FallbackMiss
<1>3. job[c] \in PP!Job /\ k \in Key
  BY <1>1, <1>2 DEF PP!SlotOK, PP!Job
<1>4. /\ [x \in Key |-> "dynamic"][k] = "dynamic"
      /\ k \in PP!DynamicKey /\ k \notin PP!StaticKey
  BY <1>3 DEF PP!DynamicKey, PP!StaticKey
<1>5. Asking[c] = k
  BY <1>2 DEF Asking, Asked, Client
<1> SUFFICES Outcome(c, k)
  BY <1>2, <1>3, <1>5
<1> HIDE DEF k
<1>6. ASSUME NEW l, l # "idle", PP!Goto(c, l), UNCHANGED <<dynamicCache, answer>>
      PROVE  Outcome(c, k)
  BY <1>2, <1>6, ProxyStays DEF k
<1>7. ASSUME PP!NextProvider(c), UNCHANGED <<dynamicCache, answer>> PROVE Outcome(c, k)
  <2> DEFINE l == IF pc[c] = "rest" /\ job[c].key \in HafasKey THEN "hafas" ELSE "fallback"
  <2>1. l # "idle" /\ PP!Goto(c, l)
    BY <1>7 DEF PP!NextProvider
  <2> HIDE DEF l
  <2> QED  BY <1>6, <1>7, <2>1
<1>8. CASE PP!RestNoResponse(c) \/ PP!HafasFails(c)
  BY <1>7, <1>8 DEF PP!RestNoResponse, PP!HafasFails
<1>9. ASSUME NEW r, PP!RestResponse(c, r) PROVE Outcome(c, k)
  BY <1>6, <1>7, <1>9 DEF PP!RestResponse
<1>10. ASSUME NEW until, PP!HafasAnswers(c, until) PROVE Outcome(c, k)
  BY <1>6, <1>10 DEF PP!HafasAnswers
<1>11. ~PP!RawNoResponse(c) /\ ~PP!RadarNoResponse(c)
       /\ \A r : ~PP!RawResponse(c, r) /\ ~PP!RadarResponse(c, r)
  BY <1>4 DEF PP!RawNoResponse, PP!RadarNoResponse, PP!RawResponse, PP!RadarResponse, k
<1>12. CASE PP!Decide(c)
  <2>1. CASE PP!Goto(c, "set") /\ UNCHANGED <<resp, answer>>
    BY <1>6, <1>12, <2>1 DEF PP!Decide
  <2>2. CASE PP!Reply(c, 200, resp[c].body, FALSE)
    <3>1. resp[c] \in PP!Resp /\ resp[c].body.key = k /\ resp[c].body.form # "typed"
      BY <1>1, <1>12 DEF PP!SlotOK, PP!Pending, PP!Decide, k
    <3>2. resp[c].body \in PP!Body
      BY <3>1 DEF PP!Resp
    <3>3. Promise!Give(c, Promise!Fresh(resp[c].body))
      BY <1>2, <2>2, <3>1, <3>2, ProxyGives
    <3>4. Answers(k, resp[c].body)
      BY <1>3, <3>1, <3>2 DEF Answers, IsProxyBody, PP!Body, k
    <3> QED  BY <1>12, <3>3, <3>4 DEF PP!Decide, Outcome
  <2> QED  BY <1>12, <2>1, <2>2 DEF PP!Decide
<1>13. CASE PP!Store(c)
  <2> DEFINE r == resp[c]
             e == [status |-> r.status, body |-> r.body, expiresAt |-> PP!Expiry(r.body)]
  <2>1. /\ dynamicCache' = AfterSet(dynamicCache, k, e)
        /\ e \in PP!DynamicEntry /\ PP!DynamicFits(k, e)
        /\ PP!Reply(c, r.status, r.body, FALSE)
    BY <1>1, <1>4, <1>13, ProxyAssumed, PP!StoredEntry, SameSet DEF k
  <2>2. e.body = r.body /\ e.status = r.status
    OBVIOUS
  <2> HIDE DEF e
  <2>3. /\ r.body \in PP!Body /\ r.status = 200 /\ r.body.key = k /\ r.body.form = "full"
    BY <2>1, <2>2 DEF PP!DynamicEntry, PP!DynamicFits
  <2>4. Promise!Give(c, Promise!Fresh(e.body))
    BY <1>2, <2>1, <2>2, <2>3, ProxyGives
  <2>5. Answers(k, e.body)
    BY <1>3, <2>2, <2>3 DEF Answers, IsProxyBody, PP!Body, k
  <2>6. EntryOK(k, e)
    BY <1>3, <2>1 DEF EntryOK, k
  <2> QED  BY <2>1, <2>4, <2>5, <2>6 DEF Outcome
<1>14. CASE PP!Fallback(c)
  <2>1. /\ PP!FallbackHit(c) \/ PP!FallbackMiss(c)
        /\ dynamicCache' = AfterGet(dynamicCache, k, now)
    BY <1>4, <1>14, SameGet DEF PP!Fallback, k
  <2>2. PP!CacheFor(k) = dynamicCache
    BY <1>4 DEF PP!CacheFor
  <2>3. CASE PP!FallbackHit(c)
    <3> DEFINE e == dynamicCache.items[k]
    <3>1. Hit(dynamicCache, k, now) /\ PP!Reply(c, e.status, e.body, TRUE)
      BY <2>2, <2>3, SameHit DEF PP!FallbackHit, k
    <3>2. k \in Cached(dynamicCache)
      BY <3>1 DEF Hit
    <3>3. e \in PP!DynamicEntry /\ PP!DynamicFits(k, e)
      BY <1>3, <3>2 DEF SInv, SharedCache, EntryOK, k
    <3> HIDE DEF e
    <3>4. e.body \in PP!Body /\ e.status = 200
      BY <3>3 DEF PP!DynamicEntry, PP!DynamicFits
    <3>5. Promise!Give(c, Promise!Kept(e.body))
      <4> DEFINE b == e.body
      <4>1. PP!Reply(c, 200, b, TRUE) /\ b \in PP!Body /\ UNCHANGED job
        BY <1>2, <3>1, <3>4
      <4> HIDE DEF b
      <4>2. Promise!Give(c, Promise!Kept(b))
        BY <4>1, ProxyGives
      <4> QED  BY <4>2 DEF b
    <3> QED  BY <2>1, <3>1, <3>5 DEF Outcome, e
  <2>4. CASE PP!FallbackMiss(c)
    <3> DEFINE b == PP!BodyOf(k, "typed", 0)
    <3>1. ~Hit(dynamicCache, k, now) /\ PP!Reply(c, 200, b, FALSE)
      BY <1>4, <2>2, <2>4, SameHit DEF PP!FallbackMiss, k
    <3>2. b \in PP!Body /\ b.form = "typed"
      BY <1>3, ServerAssumption DEF ServerAssumption, PP!BodyOf, PP!Body, PP!Form, k
    <3> HIDE DEF b
    <3>3. Promise!Give(c, Promise!NothingToGive)
      BY <1>2, <3>1, <3>2, ProxyGives
    <3> QED  BY <2>1, <3>1, <3>3 DEF Outcome
  <2> QED  BY <2>1, <2>3, <2>4
<1> QED  BY <1>8, <1>9, <1>10, <1>11, <1>12, <1>13, <1>14 DEF PP!Handle

-----------------------------------------------------------------------------

(* A handler or goroutine of a compact request that has not come to an     *)
(* answer.                                                                 *)
LEMMA CompactStays ==
  ASSUME SInv, NEW c \in CompactSlot, cpc[c] # "idle", NEW l, l # "idle",
         cpc' = [cpc EXCEPT ![c] = l],
         UNCHANGED <<dynamicCache, req, canswer>>, UNCHANGED proxyLocals
  PROVE  Outcome(c, req[c])
<1>1. CompactMoves(c, l, req[c], canswer[c]) /\ CP!SlotsOK
  BY DEF CompactMoves, SInv, CP!SlotsOK
<1>2. /\ Asking' = [Asking EXCEPT ![c] = req[c]]
      /\ Given' = [Given EXCEPT ![c] = Got(canswer[c])]
  BY <1>1, CompactTurn
<1>3. c \notin ProxySlot
  BY ServerAssumption DEF ServerAssumption
<1>4. Asking[c] = req[c] /\ Given[c] = Got(canswer[c])
  BY <1>3 DEF Asking, Asked, Given, AnswerTo, Client
<1>5. Asking = [x \in Client |-> Asking[x]] /\ Given = [x \in Client |-> Given[x]]
  BY DEF Asking, Given
<1>6. UNCHANGED <<Asking, Given>>
  BY <1>2, <1>4, <1>5
<1> QED  BY <1>6 DEF Outcome

(* What handleCompactDepartures replies, in terms of the promise.          *)
LEMMA CompactGives ==
  ASSUME SInv, NEW c \in CompactSlot, NEW a, CP!Reply(c, a), UNCHANGED req, UNCHANGED proxyLocals
  PROVE  Promise!Give(c, Got(a))
<1>1. CompactMoves(c, "idle", req[c], a) /\ CP!SlotsOK
  BY DEF CompactMoves, CP!Reply, SInv, CP!SlotsOK
<1>2. Asking' = [Asking EXCEPT ![c] = Nothing] /\ Given' = [Given EXCEPT ![c] = Got(a)]
  BY <1>1, CompactTurn
<1> QED  BY <1>2 DEF Promise!Give

(* How the answers of handleCompactDepartures read to its client.          *)
LEMMA CompactGot ==
  ASSUME NEW body \in CP!Body
  PROVE  /\ Got(CP!OK(body, TRUE)) = Promise!Kept(body)
         /\ Got(CP!OK(body, FALSE)) = Promise!Fresh(body)
         /\ Got([status |-> 502]) = Promise!NothingToGive
         /\ Got([status |-> 400]) = Promise!Refused
<1>1. ~IsProxyBody(body)
  BY DEF IsProxyBody, CP!Body
<1> QED
  BY <1>1 DEF Got, CP!OK, Promise!Kept, Promise!Fresh, Promise!NothingToGive, Promise!Refused

(* A response put together from the results answers the request.           *)
LEMMA FreshAnswers ==
  ASSUME NEW k \in CP!Request, NEW lanes, CP!LanesFit(k, lanes), NEW body, CP!Fresh(k, lanes, body)
  PROVE  Answers(k, body)
<1>1. k \notin Key
  BY ServerAssumption, SameRequest DEF ServerAssumption
<1>2. /\ body \in CP!Body /\ body.boards = CP!Boards(lanes, k.limit) /\ body.boards # <<>>
      /\ body.partial = IF CP!AnyLost(lanes) THEN 1 ELSE 0
      /\ CP!Settled(lanes)
  BY DEF CP!Fresh
<1>3. ~IsProxyBody(body)
  BY <1>2 DEF CP!Body, IsProxyBody
<1>4. C!StopsIn(body.boards) = Subsequence(k.stops, CP!Came(lanes))
      /\ CP!Came(lanes) \in SUBSET DOMAIN k.stops
  BY <1>2, SameBoards, CompactAssumed, CP!BoardsInOrder
<1>5. CP!Came(lanes) # {}
  BY <1>2, CompactAssumed, CP!Requests, CP!BoardsOk
<1>6. CP!AnyLost(lanes) <=> Len(body.boards) < Len(k.stops)
  BY <1>2, CompactAssumed, CP!BoardsPartial
<1>7. C!StopsIn(body.boards) \in SomeOf(k.stops)
  BY <1>4, <1>5 DEF SomeOf
<1> QED  BY <1>1, <1>2, <1>3, <1>6, <1>7 DEF Answers

(* Every step after the fan-out is one of the outcomes.                    *)
LEMMA CompactOutcome ==
  ASSUME SInv, NEW c \in CompactSlot, CP!Finish(c), UNCHANGED proxyLocals
  PROVE  /\ Outcome(c, req[c]) /\ UNCHANGED now
         /\ req[c] \in CP!Request /\ Asking[c] = req[c]
<1> DEFINE k == req[c]
<1>1. CP!SlotFits(cpc[c], req[c], work[c], out[c], canswer[c])
  BY DEF SInv, CP!SlotsOK, CP!SlotOK
<1>2. cpc[c] # "idle" /\ UNCHANGED <<now, req>>
  BY DEF CP!Finish, CP!Join, CP!Store, CP!Fallback
<1>3. k \in CP!Request /\ CP!LanesFit(k, work[c])
  BY <1>1, <1>2 DEF CP!SlotFits
<1>4. k \notin Key /\ c \notin ProxySlot
  BY <1>3, ServerAssumption, SameRequest DEF ServerAssumption
<1>5. Asking[c] = k
  BY <1>2, <1>4 DEF Asking, Asked, Client
<1> SUFFICES Outcome(c, k)
  BY <1>2, <1>3, <1>5
<1>6. CP!ClockOK
  BY SInvParts DEF CP!CInv
<1> HIDE DEF k
<1>7. ASSUME NEW l, l # "idle", cpc' = [cpc EXCEPT ![c] = l], UNCHANGED <<dynamicCache, canswer>>
      PROVE  Outcome(c, k)
  BY <1>2, <1>7, CompactStays DEF k
<1>8. ASSUME NEW body \in CP!Body, CP!Fresh(k, work[c], body), CP!Reply(c, CP!OK(body, FALSE))
      PROVE  Promise!Give(c, Promise!Fresh(body)) /\ Answers(k, body)
  <2>1. Promise!Give(c, Got(CP!OK(body, FALSE)))
    BY <1>2, <1>8, CompactGives
  <2> QED  BY <1>3, <1>8, <2>1, CompactGot, FreshAnswers
<1>9. CASE CP!Join(c)
  <2> DEFINE body == CP!Composed(c)
  <2>1. /\ CP!Settled(work[c]) /\ UNCHANGED dynamicCache
        /\ \/ cpc' = [cpc EXCEPT ![c] = "fallback"] /\ UNCHANGED canswer
           \/ cpc' = [cpc EXCEPT ![c] = "set"] /\ UNCHANGED canswer
           \/ body.boards # <<>> /\ CP!Reply(c, CP!OK(body, FALSE))
    BY <1>9 DEF CP!Join
  <2>2. body \in CP!Body /\ (body.boards # <<>> => CP!Fresh(k, work[c], body))
    BY <1>3, <1>6, <2>1, CompactAssumed, CP!JoinedOk DEF k
  <2> HIDE DEF body
  <2>3. CASE body.boards # <<>> /\ CP!Reply(c, CP!OK(body, FALSE))
    BY <1>8, <2>1, <2>2, <2>3 DEF Outcome
  <2> QED  BY <1>7, <2>1, <2>3
<1>10. CASE CP!Store(c)
  <2> DEFINE body == out[c]
             e == [body |-> body, expiresAt |-> CP!LastDeparture(body.boards)]
  <2>1. /\ cpc[c] = "set" /\ CP!Reply(c, CP!OK(body, FALSE))
        /\ dynamicCache' = AfterSet(dynamicCache, k, e)
    BY <1>10, SameSet DEF CP!Store, k
  <2>2. /\ CP!Fresh(k, work[c], body) /\ body.partial = 0
        /\ CP!LastDeparture(body.boards) > 0
    BY <1>1, <2>1 DEF CP!SlotFits, k
  <2>3. body \in CP!Body
    BY <2>2 DEF CP!Fresh
  <2>4. CP!EntryFits(k, e)
    BY <1>3, <2>2, CompactAssumed, CP!StoredFits
  <2>5. e.body = body
    OBVIOUS
  <2> HIDE DEF body, e
  <2>6. Promise!Give(c, Promise!Fresh(e.body)) /\ Answers(k, e.body)
    BY <1>8, <2>1, <2>2, <2>3, <2>5
  <2>7. EntryOK(k, e)
    BY <1>4, <2>4 DEF EntryOK
  <2> QED  BY <2>1, <2>6, <2>7 DEF Outcome
<1>11. CASE CP!Fallback(c)
  <2>1. dynamicCache' = AfterGet(dynamicCache, k, now)
    BY <1>11, SameGet DEF CP!Fallback, k
  <2>2. CASE Hit(dynamicCache, k, now)
    <3> DEFINE b == dynamicCache.items[k].body
    <3>1. CP!Reply(c, CP!OK(b, TRUE))
      BY <1>11, <2>2, SameHit DEF CP!Fallback, k
    <3>2. EntryOK(k, dynamicCache.items[k])
      BY <2>2 DEF SInv, SharedCache, Hit
    <3>3. b \in CP!Body
      BY <1>4, <3>2 DEF EntryOK, CP!EntryFits, CP!Entry
    <3> HIDE DEF b
    <3>4. Promise!Give(c, Got(CP!OK(b, TRUE)))
      BY <1>2, <3>1, CompactGives
    <3>5. Promise!Give(c, Promise!Kept(b))
      BY <3>3, <3>4, CompactGot
    <3> QED  BY <2>1, <2>2, <3>5 DEF Outcome, b
  <2>3. CASE ~Hit(dynamicCache, k, now)
    <3>1. CP!Reply(c, [status |-> 502])
      BY <1>11, <2>3, SameHit DEF CP!Fallback, k
    <3>2. Promise!Give(c, Got([status |-> 502]))
      BY <1>2, <3>1, CompactGives
    <3>3. Got([status |-> 502]) = Promise!NothingToGive
      BY DEF Got, Promise!NothingToGive
    <3> QED  BY <2>1, <2>3, <3>2, <3>3 DEF Outcome
  <2> QED  BY <2>2, <2>3
<1> QED  BY <1>9, <1>10, <1>11 DEF CP!Finish

-----------------------------------------------------------------------------

(* Each kind of handler leaves alone what the other kind relies on.        *)
LEMMA ProxyFrame == CP!SlotsOK /\ UNCHANGED compactLocals => CP!SlotsOK'
BY DEF compactLocals, CP!SlotsOK, CP!SlotOK

LEMMA CompactFrame ==
  PP!ClockOK /\ PP!StaticOK /\ PP!SlotsOK /\ UNCHANGED now /\ UNCHANGED proxyLocals
    => PP!ClockOK' /\ PP!StaticOK' /\ PP!SlotsOK'
BY DEF proxyLocals, PP!ClockOK, PP!StaticOK, PP!SlotsOK

LEMMA CacheFrame == SharedCache /\ UNCHANGED dynamicCache => SharedCache'
BY DEF SharedCache

(* Nothing is cached and nobody asks when newMux has set the server up.    *)
LEMMA InitSInv == Init => SInv
<1> SUFFICES ASSUME Init PROVE SInv
  OBVIOUS
<1>1. PP!Init /\ CP!Init
  BY SameProxyInit, SameCompactInit DEF Init
<1>2. PP!PInv
  BY <1>1, ProxyAssumed, PP!InitPInv
<1>3. CP!CInv
  BY <1>1, CompactAssumed, CP!InitCInv
<1>4. dynamicCache = NewCache(Cap)
  BY <1>1, SameEmpty DEF PP!Init
<1>5. SharedCache
  BY <1>4, NewCacheOk, ServerAssumption DEF SharedCache, ServerAssumption
<1> QED  BY <1>2, <1>3, <1>5 DEF SInv, PP!PInv, CP!CInv

(* One step of either kind of handler, or of the clock, and the promise.   *)
Kept == SInv' /\ [Promise!PNext]_(Promise!promiseVars)

(* A request to a 1-to-1 route arrives.                                    *)
LEMMA ProxyBeginsOk ==
  ASSUME SInv, NEW c \in ProxySlot, NEW j \in P!Job, ProxyBegins(c, j)
  PROVE  Kept
<1>1. PP!Begin(c, j) /\ j \in PP!Job /\ UNCHANGED compactLocals
  BY SameProxyBegin, SameJob DEF ProxyBegins
<1>2. PP!PInv'
  BY <1>1, SInvParts, ProxyAssumed, PP!BeginOk
<1>3. UNCHANGED <<now, dynamicCache>> /\ pc[c] = "idle"
  BY <1>1 DEF PP!Begin
<1>4. SInv'
  BY <1>1, <1>2, <1>3, ProxyFrame, CacheFrame DEF SInv, PP!PInv
<1>5. ProxyMoves(c, "rest", j, PP!NoAnswer)
  BY <1>1 DEF PP!Begin, ProxyMoves
<1>6. /\ Asking' = [Asking EXCEPT ![c] = j.key]
      /\ Given' = [Given EXCEPT ![c] = Got(PP!NoAnswer)]
  BY <1>5, ProxyTurn DEF SInv
<1>7. Got(PP!NoAnswer) = Promise!NothingYet /\ Asking[c] = Nothing /\ c \in Client
  BY <1>3 DEF Got, PP!NoAnswer, Promise!NothingYet, Asking, Asked, Client
<1>8. UNCHANGED Keeping
  BY <1>3 DEF Keeping, Cached
<1>9. Promise!AskFor(c, j.key)
  BY <1>3, <1>6, <1>7, <1>8 DEF Promise!AskFor
<1>10. j.key \in Key \cup C!Request
  BY <1>1 DEF PP!Job
<1> QED  BY <1>4, <1>7, <1>9, <1>10 DEF Kept, Promise!PNext

(* A handler of a 1-to-1 route takes a step.                               *)
LEMMA ProxyHandlesOk ==
  ASSUME SInv, NEW c \in ProxySlot, ProxyHandles(c)
  PROVE  Kept
<1>1. PP!Handle(c) /\ UNCHANGED compactLocals
  BY SameHandle DEF ProxyHandles
<1>2. PP!PInv'
  BY <1>1, SInvParts, ProxyAssumed, PP!HandlePInv
<1>3. /\ Outcome(c, job[c].key) /\ UNCHANGED now
      /\ job[c].key \in AnyKey /\ Asking[c] = job[c].key
  BY <1>1, ProxyOutcome DEF AnyKey
<1>4. SharedCache /\ now \in Nat /\ c \in Client
  BY ServerAssumption DEF SInv, PP!ClockOK, ServerAssumption, Client
<1>5. SInv'
  BY <1>1, <1>2, <1>3, <1>4, ProxyFrame, OutcomeCache DEF SInv, PP!PInv
<1> QED  BY <1>3, <1>4, <1>5, OutcomePromised DEF Kept

(* A request for compact departures arrives; without stops it is refused.  *)
LEMMA CompactBeginsOk ==
  ASSUME SInv, NEW c \in CompactSlot, NEW raw \in Raw, NEW limit \in Limits,
         CompactBegins(c, raw, limit)
  PROVE  Kept
<1>1. CP!Begin(c, raw, limit) /\ UNCHANGED proxyLocals
  BY SameCompactBegin DEF CompactBegins
<1>2. CP!SlotsOK'
  BY <1>1, CompactAssumed, CP!BeginStep DEF SInv
<1>3. UNCHANGED <<now, dynamicCache>> /\ cpc[c] = "idle" /\ c \notin ProxySlot /\ c \in Client
  BY <1>1, ServerAssumption DEF CP!Begin, ServerAssumption, Client
<1>4. SInv'
  BY <1>1, <1>2, <1>3, CompactFrame, CacheFrame DEF SInv
<1>5. UNCHANGED Keeping
  BY <1>3 DEF Keeping, Cached
<1>6. Asking[c] = Nothing
  BY <1>3 DEF Asking, Asked
<1>7. CASE CP!Valid(raw)
  <2> DEFINE k == [stops |-> CP!StopsOf(raw), limit |-> limit]
  <2>1. CompactMoves(c, "fanout", k, CP!NoAnswer)
    BY <1>1, <1>7 DEF CP!Begin, CompactMoves
  <2>2. k \in Key \cup C!Request
    BY <1>7, CompactAssumed, CP!Requests, SameRequest
  <2> HIDE DEF k
  <2>3. /\ Asking' = [Asking EXCEPT ![c] = k]
        /\ Given' = [Given EXCEPT ![c] = Got(CP!NoAnswer)]
    BY <2>1, CompactTurn DEF SInv
  <2>4. Got(CP!NoAnswer) = Promise!NothingYet
    BY DEF Got, CP!NoAnswer, Promise!NothingYet
  <2>5. Promise!AskFor(c, k)
    BY <1>3, <1>5, <1>6, <2>3, <2>4 DEF Promise!AskFor
  <2> QED  BY <1>3, <1>4, <2>2, <2>5 DEF Kept, Promise!PNext
<1>8. CASE ~CP!Valid(raw)
  <2>1. CompactMoves(c, cpc[c], CP!NoRequest, [status |-> 400])
    BY <1>1, <1>8 DEF CP!Begin, CompactMoves, SInv, CP!SlotsOK
  <2>2. /\ Asking' = [Asking EXCEPT ![c] = Nothing]
        /\ Given' = [Given EXCEPT ![c] = Got([status |-> 400])]
    BY <1>3, <2>1, CompactTurn DEF SInv
  <2>3. Got([status |-> 400]) = Promise!Refused
    BY DEF Got, Promise!Refused
  <2>4. UNCHANGED Asking
    BY <1>6, <2>2 DEF Asking
  <2>5. Promise!Refuse(c)
    BY <1>3, <1>5, <1>6, <2>2, <2>3, <2>4 DEF Promise!Refuse
  <2> QED  BY <1>3, <1>4, <2>5 DEF Kept, Promise!PNext
<1> QED  BY <1>7, <1>8

(* A goroutine of the fan-out gets its board or turns to its next          *)
(* provider.                                                               *)
LEMMA CompactFetchesOk ==
  ASSUME SInv, NEW c \in CompactSlot, NEW i, CompactFetches(c, i)
  PROVE  Kept
<1>1. i \in DOMAIN work[c] /\ CP!Fetch(c, i) /\ UNCHANGED proxyLocals
  BY SameFetch DEF CompactFetches
<1>2. CP!ClockOK
  BY SInvParts DEF CP!CInv
<1>3. CP!SlotsOK' /\ UNCHANGED <<now, dynamicCache>>
  BY <1>1, <1>2, CompactAssumed, CP!FetchStep DEF SInv
<1>4. UNCHANGED <<cpc, req, canswer, pc, job, answer>>
  BY <1>1 DEF CP!Fetch, CP!Fetched, CP!FetchFails, proxyLocals
<1>5. SInv'
  BY <1>1, <1>3, CompactFrame, CacheFrame DEF SInv
<1>6. UNCHANGED <<Keeping, Asking, Given>>
  BY <1>3, <1>4 DEF Keeping, Cached, Asking, Asked, Given, AnswerTo
<1> QED  BY <1>3, <1>5, <1>6 DEF Kept, Promise!promiseVars

(* The compact handler joins, stores or falls back.                        *)
LEMMA CompactFinishesOk ==
  ASSUME SInv, NEW c \in CompactSlot, CompactFinishes(c)
  PROVE  Kept
<1>1. CP!Finish(c) /\ UNCHANGED proxyLocals
  BY SameFinish DEF CompactFinishes
<1>2. CP!ClockOK /\ CP!CacheOK /\ CP!SlotsOK
  BY SInvParts DEF CP!CInv
<1>3. CP!SlotsOK'
  BY <1>1, <1>2, CompactAssumed, CP!JoinStep, CP!StoreStep, CP!FallbackStep DEF CP!Finish
<1>4. /\ Outcome(c, req[c]) /\ UNCHANGED now
      /\ req[c] \in AnyKey /\ Asking[c] = req[c]
  BY <1>1, CompactOutcome DEF AnyKey
<1>5. SharedCache /\ now \in Nat /\ c \in Client
  BY ServerAssumption DEF SInv, PP!ClockOK, ServerAssumption, Client
<1>6. SInv'
  BY <1>1, <1>3, <1>4, <1>5, CompactFrame, OutcomeCache DEF SInv
<1> QED  BY <1>4, <1>5, <1>6, OutcomePromised DEF Kept

(* Time passes for the cache and for what it keeps alike.                  *)
LEMMA TickOk ==
  ASSUME SInv, Tick
  PROVE  Kept
<1>1. PP!Tick /\ UNCHANGED compactLocals
  BY SameProxyTick DEF Tick
<1>2. PP!PInv'
  BY <1>1, SInvParts, ProxyAssumed, PP!TickOk
<1>3. /\ now <= Horizon /\ now' = now + 1
      /\ UNCHANGED <<dynamicCache, cpc, req, canswer, pc, job, answer>>
  BY <1>1 DEF PP!Tick, compactLocals
<1>4. SInv'
  BY <1>1, <1>2, <1>3, ProxyFrame, CacheFrame DEF SInv, PP!PInv
<1>5. UNCHANGED <<Keeping, Asking, Given>>
  BY <1>3 DEF Keeping, Cached, Asking, Asked, Given, AnswerTo
<1>6. Promise!Pass
  BY <1>3, <1>5 DEF Promise!Pass
<1> QED  BY <1>4, <1>6 DEF Kept, Promise!PNext

(* Every step of the server keeps the invariant and the promise.           *)
LEMMA NextSInv == SInv /\ [Next]_serverVars => Kept
<1> SUFFICES ASSUME SInv, [Next]_serverVars PROVE Kept
  OBVIOUS
<1>1. CASE UNCHANGED serverVars
  <2>1. UNCHANGED <<now, dynamicCache>> /\ UNCHANGED proxyLocals /\ UNCHANGED compactLocals
    BY <1>1 DEF serverVars
  <2>2. SInv'
    BY <2>1, ProxyFrame, CompactFrame, CacheFrame DEF SInv
  <2>3. UNCHANGED <<Keeping, Asking, Given>>
    BY <2>1 DEF Keeping, Cached, Asking, Asked, Given, AnswerTo, proxyLocals, compactLocals
  <2> QED  BY <2>1, <2>2, <2>3 DEF Kept, Promise!promiseVars
<1> QED
  BY <1>1, ProxyBeginsOk, ProxyHandlesOk, CompactBeginsOk, CompactFetchesOk, CompactFinishesOk,
     TickOk DEF Next

-----------------------------------------------------------------------------

(* The promise starts with nothing kept and nobody asking.                 *)
LEMMA InitPromise == Init => Promise!PInit
<1> SUFFICES ASSUME Init PROVE Promise!PInit
  OBVIOUS
<1>1. PP!Init /\ CP!Init
  BY SameProxyInit, SameCompactInit DEF Init
<1>2. dynamicCache = NewCache(Cap)
  BY <1>1, SameEmpty DEF PP!Init
<1>3. Cached(dynamicCache) = {}
  BY <1>2, NewCacheOk, ServerAssumption DEF ServerAssumption
<1>4. Keeping = [k \in {} |-> 0]
  BY <1>3 DEF Keeping
<1>5. ASSUME NEW c \in Client PROVE Asked(c) = Nothing /\ Got(AnswerTo(c)) = Promise!NothingYet
  BY <1>1 DEF PP!Init, CP!Init, Client, Asked, AnswerTo, Got, PP!NoAnswer, CP!NoAnswer,
     Promise!NothingYet
<1>6. Asking = [c \in Client |-> Nothing] /\ Given = [c \in Client |-> Promise!NothingYet]
  BY <1>5 DEF Asking, Given
<1> QED  BY <1>1, <1>4, <1>6 DEF PP!Init, Promise!PInit

(* The invariant has the types in it.                                      *)
LEMMA SInvTypes == SInv => TypeOK
<1> SUFFICES ASSUME SInv PROVE TypeOK
  OBVIOUS
<1>1. /\ IsCache(dynamicCache, Key \cup C!Request, P!DynamicEntry \cup C!Entry, Cap)
      /\ Coherent(dynamicCache)
  BY SameRequest, SameEntries DEF SInv, SharedCache, AnyKey
<1>2. ASSUME NEW k \in Cached(dynamicCache)
      PROVE  IF k \in Key THEN dynamicCache.items[k] \in P!DynamicEntry
                          ELSE dynamicCache.items[k] \in C!Entry
  BY SameEntries DEF SInv, SharedCache, EntryOK, CP!EntryFits
<1> QED  BY <1>1, <1>2 DEF TypeOK

(* It holds in every state the server can come to.                         *)
LEMMA AlwaysSInv == Spec => []SInv
<1>1. SInv /\ [Next]_serverVars => SInv'
  BY NextSInv DEF Kept
<1> QED  BY <1>1, InitSInv, PTL DEF Spec

(* Handlers of both kinds use one cache, and each finds in it, under its   *)
(* own keys, only what handlers of its kind have stored.                   *)
THEOREM ServerTypes == Spec => []TypeOK
BY AlwaysSInv, SInvTypes, PTL

(* Whatever newStandardHandler and handleCompactDepartures do between one  *)
(* another's steps, a client gets what was fetched for it, else what is    *)
(* kept for the same request and has not passed, else nothing; and what is *)
(* kept is complete, and goes only when it has passed, is replaced, or the *)
(* cache is full.                                                          *)
THEOREM PromiseKept == Spec => KeepsPromise
<1>1. SInv /\ [Next]_serverVars => [Promise!PNext]_(Promise!promiseVars)
  BY NextSInv DEF Kept
<1> QED  BY <1>1, InitPromise, AlwaysSInv, PTL DEF Spec, KeepsPromise, Promise!Spec

(* The properties of Proxy and Compact, of either instance.                *)
LEMMA SameProperties ==
  /\ PP!HitsAreFresh => P!HitsAreFresh
  /\ PP!CacheIsLastResort => P!CacheIsLastResort
  /\ PP!AlwaysOK => P!AlwaysOK
  /\ CP!StatusTellsOutcome => C!StatusTellsOutcome
  /\ CP!FreshAnswerFits => C!FreshAnswerFits
<1>1. PP!HitsAreFresh => P!HitsAreFresh
  BY DEF P!HitsAreFresh, PP!HitsAreFresh, P!Answered, PP!Answered, P!NoAnswer, PP!NoAnswer,
         P!DynamicKey, PP!DynamicKey
<1>2. PP!CacheIsLastResort => P!CacheIsLastResort
  BY DEF P!CacheIsLastResort, PP!CacheIsLastResort, P!Answered, PP!Answered, P!NoAnswer,
         PP!NoAnswer, P!StandardKey, PP!StandardKey, P!Provider, PP!Provider,
         P!DynamicKey, PP!DynamicKey
<1>3. PP!AlwaysOK => P!AlwaysOK
  BY DEF P!AlwaysOK, PP!AlwaysOK, P!Answered, PP!Answered, P!NoAnswer, PP!NoAnswer,
         P!StandardKey, PP!StandardKey
<1>4. CP!StatusTellsOutcome => C!StatusTellsOutcome
  BY SameBoards DEF C!StatusTellsOutcome, CP!StatusTellsOutcome, C!Served, CP!Served,
         C!NoAnswer, CP!NoAnswer, C!NoRequest, CP!NoRequest, C!Lost, CP!Lost
<1>5. CP!FreshAnswerFits => C!FreshAnswerFits
  <2>1. ASSUME NEW lanes PROVE C!Oks(lanes) = CP!Oks(lanes)
    BY DEF C!Oks, CP!Oks, C!Came, CP!Came, C!Subsequence, CP!Subsequence, C!Ascending,
           CP!Ascending, C!Cardinality, CP!Cardinality, C!IsFiniteSet, CP!IsFiniteSet
  <2>2. ASSUME NEW s PROVE C!ToSet(s) = CP!ToSet(s)
    BY DEF C!ToSet, CP!ToSet
  <2> QED  BY <2>1, <2>2 DEF C!FreshAnswerFits, CP!FreshAnswerFits, C!Served, CP!Served,
             C!NoAnswer, CP!NoAnswer, C!NoRequest, CP!NoRequest
<1> QED  BY <1>1, <1>2, <1>3, <1>4, <1>5

(* Hits are fresh, fallbacks come last, statuses tell the outcome and      *)
(* fresh boards fit on the one dynamicCache of newMux as on a cache of     *)
(* one's own: neither handler relies on more than the entries of its keys. *)
THEOREM SharingIsSafe == Spec => []HandlersUndisturbed
<1>1. SInv => HandlersUndisturbed
  <2> SUFFICES ASSUME SInv PROVE HandlersUndisturbed
    OBVIOUS
  <2>1. PP!HitsAreFresh /\ PP!CacheIsLastResort /\ PP!AlwaysOK
    BY SInvParts, ProxyAssumed, PP!PInvAnswers
  <2>2. CP!StatusTellsOutcome
    BY SInvParts, CompactAssumed, CP!CInvStatus
  <2>3. CP!FreshAnswerFits
    BY SInvParts, CompactAssumed, CP!CInvFresh
  <2> QED  BY <2>1, <2>2, <2>3, SameProperties DEF HandlersUndisturbed
<1> QED  BY <1>1, AlwaysSInv, PTL

=============================================================================
