---------------------------- MODULE ProxyProofs ----------------------------
(***************************************************************************)
(* For any number of requests in flight, any keys and any capacities: the  *)
(* caches of Proxy fit their keys, hits are fresh, the cache is the last   *)
(* resort, and polling clients see success.  The invariant says of *)
(* each slot what its next step may rely on, so a step of one slot has to  *)
(* be looked at for that slot and for the caches only.                     *)
(***************************************************************************)
EXTENDS Proxy, LRUProofs

(* What a handler that has a response may rely on before it uses a cache.  *)
Pending(p, j, r) ==
  /\ p \in {"decide", "set"} =>
       r \in Resp /\ r.body.key = j.key /\ r.body.form # "typed"
  /\ p = "decide" => j.key \in StandardKey /\ r.status = 200
  /\ p = "set" /\ j.key \in StandardKey => r.status = 200
  /\ p = "set" /\ j.key \in DynamicKey => Expiry(r.body) >= 1

(* All providers the route of a request has. *)
Providers(j) == IF j.key \in HafasKey THEN Provider ELSE {"rest"}

(* Which of them have failed when the handler is at p. *)
Tallied(p, j, t) ==
  /\ t \in Tally
  /\ p = "rest" => t = NoFailure
  /\ p = "hafas" => t = {"rest"} /\ j.key \in HafasKey
  /\ p = "fallback" /\ j.key \in StandardKey => t = Providers(j)

(* What an answer owes its client. *)
Fresh(j, a) == a.hit /\ j.key \in DynamicKey => a.at <= a.body.until

LastResort(j, a, t) ==
  j.key \in StandardKey /\ (a.hit \/ a.body.form = "typed") => t = Providers(j)

StatusDue(j, s) ==
  /\ j.key \in StandardKey => s = 200
  /\ RouteOf[j.key] = "radar" => s \in 200 .. 299

Owed(j, a, t) == Fresh(j, a) /\ LastResort(j, a, t) /\ StatusDue(j, a.status)

SlotOK(p, j, r, a, t) ==
  /\ p \in PC
  /\ j \in Job \cup {NoJob}
  /\ r \in Resp \cup {NoResp}
  /\ a \in Answer \cup {NoAnswer}
  /\ p # "idle" => j \in Job /\ a = NoAnswer
  /\ Pending(p, j, r)
  /\ Tallied(p, j, t)
  /\ a # NoAnswer => Owed(j, a, t)

OnSlots(f) == f = [x \in Slot |-> f[x]]

SlotsOK ==
  /\ OnSlots(pc) /\ OnSlots(job) /\ OnSlots(resp) /\ OnSlots(answer) /\ OnSlots(tally)
  /\ \A x \in Slot : SlotOK(pc[x], job[x], resp[x], answer[x], tally[x])

StaticOK ==
  /\ IsCache(staticCache, StaticKey, StaticEntry, StaticCap)
  /\ Coherent(staticCache)
  /\ \A k \in Cached(staticCache) :
       /\ StaticFits(k, staticCache.items[k])
       /\ RouteOf[k] = "static" => staticCache.items[k].status = 200

(* Only of these keys: newMux lets /compact/departures use the dynamic     *)
(* cache as well, under keys of its own.                                   *)
DynamicOK ==
  \A k \in Cached(dynamicCache) \cap DynamicKey :
    /\ dynamicCache.items[k] \in DynamicEntry
    /\ DynamicFits(k, dynamicCache.items[k])

ClockOK == now \in 1 .. Horizon + 1

PInv == ClockOK /\ StaticOK /\ DynamicOK /\ SlotsOK

(* While nobody else uses it.                                              *)
DynamicIsCache ==
  IsCache(dynamicCache, DynamicKey, DynamicEntry, DynamicCap) /\ Coherent(dynamicCache)

-----------------------------------------------------------------------------

(* What a handler owes its client it owes whoever else uses the cache.     *)
LEMMA PInvAnswers == PInv => HitsAreFresh /\ CacheIsLastResort /\ AlwaysOK
<1> SUFFICES ASSUME PInv PROVE HitsAreFresh /\ CacheIsLastResort /\ AlwaysOK
  OBVIOUS
<1>1. ASSUME NEW c \in Slot, Answered(c)
      PROVE  Owed(job[c], answer[c], tally[c])
  BY <1>1 DEF PInv, SlotsOK, SlotOK, Answered
<1>2. HitsAreFresh
  BY <1>1 DEF HitsAreFresh, Owed, Fresh
<1>3. CacheIsLastResort
  BY <1>1 DEF CacheIsLastResort, Owed, LastResort, Providers
<1>4. AlwaysOK
  BY <1>1 DEF AlwaysOK, Owed, StatusDue
<1> QED  BY <1>2, <1>3, <1>4

(* The invariant says everything the properties say. *)
LEMMA PInvImplies ==
  PInv /\ DynamicIsCache => /\ TypeOK /\ CachesFit /\ HitsAreFresh
                            /\ CacheIsLastResort /\ AlwaysOK
<1> SUFFICES ASSUME PInv, DynamicIsCache
             PROVE  /\ TypeOK /\ CachesFit /\ HitsAreFresh
                    /\ CacheIsLastResort /\ AlwaysOK
  OBVIOUS
<1>1. CachesFit
  <2>1. Cached(dynamicCache) \subseteq DynamicKey
    BY DEF DynamicIsCache, IsCache, IsPartialMap, Cached
  <2> QED
    BY <2>1 DEF PInv, StaticOK, DynamicOK, CachesFit
<1>2. HitsAreFresh /\ CacheIsLastResort /\ AlwaysOK
  BY PInvAnswers
<1>3. /\ pc \in [Slot -> PC]
      /\ job \in [Slot -> Job \cup {NoJob}]
      /\ \A c \in Slot : pc[c] # "idle" => job[c] \in Job
      /\ resp \in [Slot -> Resp \cup {NoResp}]
      /\ answer \in [Slot -> Answer \cup {NoAnswer}]
      /\ tally \in [Slot -> Tally]
  BY DEF PInv, SlotsOK, SlotOK, OnSlots, Tallied
<1>4. TypeOK
  BY <1>3 DEF PInv, ClockOK, StaticOK, DynamicIsCache, TypeOK
<1> QED
  BY <1>1, <1>2, <1>4

(* A step of slot c that leaves the others alone. *)
LEMMA OneSlot ==
  ASSUME SlotsOK, NEW c \in Slot, NEW p, NEW j, NEW r, NEW a, NEW t,
         pc' = [pc EXCEPT ![c] = p], job' = [job EXCEPT ![c] = j],
         resp' = [resp EXCEPT ![c] = r], answer' = [answer EXCEPT ![c] = a],
         tally' = [tally EXCEPT ![c] = t],
         SlotOK(p, j, r, a, t)
  PROVE  SlotsOK'
<1>1. OnSlots(pc') /\ OnSlots(job') /\ OnSlots(resp') /\ OnSlots(answer') /\ OnSlots(tally')
  BY DEF SlotsOK, OnSlots
<1>2. ASSUME NEW x \in Slot
      PROVE  SlotOK(pc'[x], job'[x], resp'[x], answer'[x], tally'[x])
  <2>1. CASE x = c
    BY <2>1 DEF SlotsOK, OnSlots
  <2>2. CASE x # c
    BY <2>2 DEF SlotsOK, OnSlots
  <2> QED
    BY <2>1, <2>2
<1> QED
  BY <1>1, <1>2 DEF SlotsOK

(* A variable left alone is one updated with what it holds. *)
LEMMA SameSlot ==
  ASSUME NEW f, OnSlots(f), NEW c \in Slot
  PROVE  f = [f EXCEPT ![c] = f[c]]
BY DEF OnSlots

-----------------------------------------------------------------------------

(* What the invariant says of one slot. *)
LEMMA AtSlot ==
  ASSUME PInv, NEW c \in Slot
  PROVE  /\ SlotOK(pc[c], job[c], resp[c], answer[c], tally[c])
         /\ OnSlots(pc) /\ OnSlots(job) /\ OnSlots(resp) /\ OnSlots(answer) /\ OnSlots(tally)
BY DEF PInv, SlotsOK

(* A handler moves on without answering. *)
LEMMA MovesOn ==
  ASSUME PInv, NEW c \in Slot, pc[c] # "idle", job[c] \in Job,
         NEW l \in PC, NEW r \in Resp \cup {NoResp}, NEW t,
         Goto(c, l), Take(c, r), tally' = [tally EXCEPT ![c] = t],
         UNCHANGED <<job, answer>>, Pending(l, job[c], r), Tallied(l, job[c], t)
  PROVE  SlotsOK'
<1>1. SlotOK(pc[c], job[c], resp[c], answer[c], tally[c]) /\ OnSlots(job) /\ OnSlots(answer)
  BY AtSlot
<1>2. job' = [job EXCEPT ![c] = job[c]] /\ answer' = [answer EXCEPT ![c] = answer[c]]
  BY <1>1, SameSlot
<1>3. SlotOK(l, job[c], r, answer[c], t)
  BY <1>1 DEF SlotOK
<1>4. SlotsOK
  BY DEF PInv
<1> QED
  BY <1>2, <1>3, <1>4, OneSlot DEF Goto, Take

AnswerNow(status, body, hit) == [status |-> status, body |-> body, hit |-> hit, at |-> now]

(* A handler answers with what it owes. *)
LEMMA Replies ==
  ASSUME PInv, NEW c \in Slot, job[c] \in Job,
         NEW status \in Status, NEW body \in Body, NEW hit \in BOOLEAN, NEW t \in Tally,
         Reply(c, status, body, hit), tally' = [tally EXCEPT ![c] = t], UNCHANGED job,
         Owed(job[c], AnswerNow(status, body, hit), t)
  PROVE  SlotsOK'
<1> DEFINE a == AnswerNow(status, body, hit)
<1>1. a \in Answer
  BY DEF PInv, ClockOK, Answer, AnswerNow
<1>2. pc' = [pc EXCEPT ![c] = "idle"] /\ resp' = [resp EXCEPT ![c] = NoResp]
        /\ answer' = [answer EXCEPT ![c] = a]
  BY DEF Reply, Goto, AnswerNow
<1> HIDE DEF a
<1>3. SlotOK("idle", job[c], NoResp, a, t)
  BY <1>1 DEF SlotOK, PC, Pending, Tallied, a
<1>4. job' = [job EXCEPT ![c] = job[c]]
  BY AtSlot, SameSlot
<1>5. SlotsOK
  BY DEF PInv
<1> QED
  BY <1>2, <1>3, <1>4, <1>5, OneSlot

(* The same, of an answer that comes neither from the cache nor out of     *)
(* nothing: only its status matters.                                       *)
LEMMA RepliesFresh ==
  ASSUME PInv, NEW c \in Slot, job[c] \in Job,
         NEW status \in Status, NEW body \in Body, NEW t \in Tally,
         Reply(c, status, body, FALSE), tally' = [tally EXCEPT ![c] = t], UNCHANGED job,
         body.form # "typed" \/ job[c].key \notin StandardKey \/ t = Providers(job[c]),
         StatusDue(job[c], status)
  PROVE  SlotsOK'
<1>1. Owed(job[c], AnswerNow(status, body, FALSE), t)
  BY DEF Owed, Fresh, LastResort, AnswerNow
<1> QED
  BY <1>1, Replies

(* A provider that failed is noted in the tally. *)
LEMMA FailedOk ==
  ASSUME PInv, NEW c \in Slot, pc[c] \in Provider, Failed(c)
  PROVE  /\ tally' = [tally EXCEPT ![c] = tally[c] \cup {pc[c]}]
         /\ tally[c] \cup {pc[c]} \in Tally
<1>1. tally[c] \in Tally
  BY AtSlot DEF SlotOK, Tallied
<1> QED
  BY <1>1 DEF Failed, Tally

(* A tally left alone is one of the right type. *)
LEMMA NoFailureNoted ==
  ASSUME PInv, NEW c \in Slot, UNCHANGED tally
  PROVE  tally' = [tally EXCEPT ![c] = tally[c]] /\ tally[c] \in Tally
<1>1. tally[c] \in Tally /\ OnSlots(tally)
  BY AtSlot DEF SlotOK, Tallied
<1> QED
  BY <1>1, SameSlot

(* The same of the response a handler holds. *)
LEMMA SameResponse ==
  ASSUME PInv, NEW c \in Slot, UNCHANGED resp
  PROVE  resp[c] \in Resp \cup {NoResp} /\ Take(c, resp[c])
<1>1. resp[c] \in Resp \cup {NoResp} /\ OnSlots(resp)
  BY AtSlot DEF SlotOK
<1> QED
  BY <1>1, SameSlot DEF Take

(* Steps that use no cache and no clock. *)
LEMMA CachesSame ==
  ASSUME PInv, UNCHANGED <<now, staticCache, dynamicCache>>, SlotsOK'
  PROVE  PInv'
BY DEF PInv, ClockOK, StaticOK, DynamicOK

(* An upstream response is one, and answers the request it was asked. *)
LEMMA ResponsesOk ==
  ASSUME NEW j \in Job, NEW r \in Responses(j)
  PROVE  r \in Resp /\ r.body.key = j.key /\ r.body.form # "typed"
<1>1. PICK s \in Statuses(j) : \E u \in Untils(j, FormOf(j, s)) :
        r = [status |-> s, body |-> BodyOf(j.key, FormOf(j, s), u)]
  BY DEF Responses
<1>2. PICK u \in Untils(j, FormOf(j, s)) :
        r = [status |-> s, body |-> BodyOf(j.key, FormOf(j, s), u)]
  BY <1>1
<1>3. s \in Status
  BY DEF Statuses, Status
<1>4. FormOf(j, s) \in Form \ {"typed"}
  BY DEF FormOf, Form
<1>5. u \in 0 .. Horizon
  BY ProxyAssumption DEF Untils
<1>6. j.key \in Key
  BY DEF Job
<1>7. /\ BodyOf(j.key, FormOf(j, s), u) \in Body
      /\ BodyOf(j.key, FormOf(j, s), u).key = j.key
      /\ BodyOf(j.key, FormOf(j, s), u).form # "typed"
  BY <1>4, <1>5, <1>6 DEF Body, BodyOf
<1> QED
  BY <1>2, <1>3, <1>7 DEF Resp

-----------------------------------------------------------------------------

(* One lemma per action: a step of it keeps the invariant. *)

(* A request arrives at its handler with nothing done yet.                 *)
LEMMA BeginOk ==
  ASSUME PInv, NEW c \in Slot, NEW j \in Job, Begin(c, j)
  PROVE  PInv'
<1>1. SlotOK(pc[c], job[c], resp[c], answer[c], tally[c]) /\ OnSlots(resp)
  BY AtSlot
<1>2. SlotOK("rest", j, resp[c], NoAnswer, NoFailure)
  BY <1>1 DEF SlotOK, PC, Pending, Tallied, Tally, NoFailure
<1>3. resp' = [resp EXCEPT ![c] = resp[c]]
  BY <1>1, SameSlot DEF Begin
<1>4. SlotsOK
  BY DEF PInv
<1>5. SlotsOK'
  BY <1>2, <1>3, <1>4, OneSlot DEF Begin
<1> QED
  BY <1>5, CachesSame DEF Begin

(* A provider that gave nothing hands over to the next or to the fallback. *)
LEMMA NextProviderOk ==
  ASSUME PInv, NEW c \in Slot, job[c] \in Job, job[c].key \in StandardKey,
         pc[c] \in Provider, Failed(c), NextProvider(c),
         UNCHANGED <<job, resp, answer>>
  PROVE  SlotsOK'
<1> DEFINE t == tally[c] \cup {pc[c]}
           l == IF pc[c] = "rest" /\ job[c].key \in HafasKey THEN "hafas" ELSE "fallback"
<1>1. tally' = [tally EXCEPT ![c] = t] /\ t \in Tally
  BY FailedOk
<1>2. Goto(c, l)
  BY DEF NextProvider
<1>3. l \in PC /\ Pending(l, job[c], resp[c])
  BY DEF PC, Pending
<1>4. Tallied(pc[c], job[c], tally[c])
  BY AtSlot DEF SlotOK
<1>5. Tallied(l, job[c], t)
  BY <1>1, <1>4 DEF Tallied, Providers, Provider, NoFailure
<1>6. resp[c] \in Resp \cup {NoResp} /\ Take(c, resp[c])
  BY SameResponse
<1>7. pc[c] # "idle"
  BY DEF Provider
<1> HIDE DEF t, l
<1> QED
  BY <1>1, <1>2, <1>3, <1>5, <1>6, <1>7, MovesOn

(* The exchange with transport.rest fails.                                 *)
LEMMA RestNoResponseOk ==
  ASSUME PInv, NEW c \in Slot, RestNoResponse(c), job[c] \in Job
  PROVE  PInv'
<1>1. /\ job[c].key \in StandardKey /\ pc[c] \in Provider
      /\ Failed(c) /\ NextProvider(c) /\ UNCHANGED <<job, resp, answer>>
  BY DEF RestNoResponse, Provider
<1>2. SlotsOK'
  BY <1>1, NextProviderOk
<1> QED
  BY <1>2, CachesSame DEF RestNoResponse

(* A response of transport.rest is on to the expiry check, as a 200.       *)
LEMMA RestResponseOk ==
  ASSUME PInv, NEW c \in Slot, job[c] \in Job, NEW r \in Responses(job[c]), RestResponse(c, r)
  PROVE  PInv'
<1>1. /\ job[c].key \in StandardKey /\ pc[c] \in Provider /\ pc[c] # "idle"
      /\ UNCHANGED <<job, answer>>
  BY DEF RestResponse, Provider
<1>2. CASE Take(c, AsOK(r)) /\ Goto(c, "decide") /\ UNCHANGED tally
  <2> DEFINE ok == AsOK(r)
  <2>1. /\ ok \in Resp /\ ok.status = 200
        /\ ok.body.key = job[c].key /\ ok.body.form # "typed"
    BY ResponsesOk DEF AsOK, Resp, Status
  <2> HIDE DEF ok
  <2>2. "decide" \in PC /\ Pending("decide", job[c], ok)
    BY <1>1, <1>2, <2>1 DEF PC, Pending
  <2>3. tally' = [tally EXCEPT ![c] = tally[c]] /\ Tallied("decide", job[c], tally[c])
    BY <1>2, NoFailureNoted DEF Tallied
  <2>4. Take(c, ok) /\ Goto(c, "decide") /\ ok \in Resp \cup {NoResp}
    BY <1>2, <2>1 DEF ok
  <2>5. SlotsOK'
    BY <1>1, <2>2, <2>3, <2>4, MovesOn
  <2> QED
    BY <2>5, CachesSame DEF RestResponse
<1>3. ASSUME Failed(c), NextProvider(c), UNCHANGED resp
      PROVE  PInv'
  <2>1. SlotsOK'
    BY <1>1, <1>3, NextProviderOk
  <2> QED
    BY <2>1, CachesSame DEF RestResponse
<1> QED
  BY <1>2, <1>3 DEF RestResponse

(* The HAFAS provider answers for the same key.                            *)
LEMMA HafasAnswersOk ==
  ASSUME PInv, NEW c \in Slot, job[c] \in Job, NEW until \in 0 .. Horizon, HafasAnswers(c, until)
  PROVE  PInv'
<1> DEFINE r == [status |-> 200, body |-> BodyOf(job[c].key, "full", until)]
<1>1. job[c].key \in Key
  BY DEF Job
<1>2. LET body == BodyOf(job[c].key, "full", until)
      IN  body \in Body /\ body.key = job[c].key /\ body.form # "typed"
  BY <1>1 DEF Body, BodyOf, Form
<1>3. r \in Resp /\ r.body.key = job[c].key /\ r.body.form # "typed" /\ r.status = 200
  BY <1>2 DEF Resp, Status
<1>4. Take(c, r) /\ Goto(c, "decide") /\ UNCHANGED <<job, answer, tally>> /\ pc[c] = "hafas"
  BY DEF HafasAnswers
<1>5. job[c].key \in StandardKey
  BY <1>4, AtSlot, ProxyAssumption DEF SlotOK, Tallied, StandardKey
<1> HIDE DEF r
<1>6. "decide" \in PC /\ Pending("decide", job[c], r)
  BY <1>3, <1>5 DEF PC, Pending
<1>7. tally' = [tally EXCEPT ![c] = tally[c]] /\ Tallied("decide", job[c], tally[c])
  BY <1>4, NoFailureNoted DEF Tallied
<1>8. SlotsOK'
  BY <1>3, <1>4, <1>6, <1>7, MovesOn
<1> QED
  BY <1>8, CachesSame DEF HafasAnswers

(* The HAFAS provider was the last one.                                    *)
LEMMA HafasFailsOk ==
  ASSUME PInv, NEW c \in Slot, job[c] \in Job, HafasFails(c)
  PROVE  PInv'
<1>1. /\ pc[c] = "hafas" /\ pc[c] \in Provider /\ Failed(c) /\ NextProvider(c)
      /\ UNCHANGED <<job, resp, answer>>
  BY DEF HafasFails, Provider
<1>2. job[c].key \in StandardKey
  BY <1>1, AtSlot, ProxyAssumption DEF SlotOK, Tallied, StandardKey
<1>3. SlotsOK'
  BY <1>1, <1>2, NextProviderOk
<1> QED
  BY <1>3, CachesSame DEF HafasFails

(* The clock was read when the expiry was compared: what goes on to the    *)
(* cache as a dynamic entry has an expiry, hence a complete body.          *)
LEMMA DecideOk ==
  ASSUME PInv, NEW c \in Slot, job[c] \in Job, Decide(c)
  PROVE  PInv'
<1>1. /\ pc[c] # "idle" /\ job[c].key \in StandardKey
      /\ resp[c] \in Resp /\ resp[c].body.key = job[c].key
      /\ resp[c].body.form # "typed" /\ resp[c].status = 200
  BY AtSlot DEF Decide, SlotOK, Pending
<1>2. tally' = [tally EXCEPT ![c] = tally[c]] /\ tally[c] \in Tally /\ UNCHANGED job
  BY NoFailureNoted DEF Decide
<1>3. CASE /\ RouteOf[job[c].key] = "dynamic" => Expiry(resp[c].body) > now
           /\ Goto(c, "set") /\ UNCHANGED <<resp, answer>>
  <2>1. resp[c].body.until \in Nat /\ now \in Nat /\ now >= 1
    BY <1>1, ProxyAssumption DEF Resp, Body, PInv, ClockOK
  <2>2. "set" \in PC /\ Pending("set", job[c], resp[c])
    BY <1>1, <1>3, <2>1 DEF PC, Pending, DynamicKey, Expiry
  <2>3. resp[c] \in Resp \cup {NoResp} /\ Take(c, resp[c])
    BY <1>3, SameResponse
  <2>4. UNCHANGED answer /\ Tallied("set", job[c], tally[c])
    BY <1>2, <1>3 DEF Tallied
  <2>5. SlotsOK'
    BY <1>1, <1>2, <1>3, <2>2, <2>3, <2>4, MovesOn
  <2> QED
    BY <2>5, CachesSame DEF Decide
<1>4. CASE Reply(c, 200, resp[c].body, FALSE)
  <2>1. 200 \in Status /\ resp[c].body \in Body /\ StatusDue(job[c], 200)
    BY <1>1 DEF Status, Resp, StatusDue
  <2>2. SlotsOK'
    BY <1>1, <1>2, <1>4, <2>1, RepliesFresh
  <2> QED
    BY <2>2, CachesSame DEF Decide
<1> QED
  BY <1>3, <1>4 DEF Decide

(* Shapes and maps: the one exchange fails.                                *)
LEMMA RawNoResponseOk ==
  ASSUME PInv, NEW c \in Slot, job[c] \in Job, RawNoResponse(c)
  PROVE  PInv'
<1> DEFINE t == tally[c] \cup {pc[c]}
<1>1. /\ pc[c] \in Provider /\ pc[c] # "idle" /\ Failed(c) /\ Goto(c, "fallback")
      /\ UNCHANGED <<job, resp, answer>>
      /\ job[c].key \notin StandardKey
  BY DEF RawNoResponse, Provider, StandardKey
<1>2. tally' = [tally EXCEPT ![c] = t] /\ Tallied("fallback", job[c], t)
  BY <1>1, FailedOk DEF Tallied
<1>3. "fallback" \in PC /\ Pending("fallback", job[c], resp[c])
  BY DEF PC, Pending
<1>4. resp[c] \in Resp \cup {NoResp} /\ Take(c, resp[c])
  BY <1>1, SameResponse
<1> HIDE DEF t
<1>5. SlotsOK'
  BY <1>1, <1>2, <1>3, <1>4, MovesOn
<1> QED
  BY <1>5, CachesSame DEF RawNoResponse

(* Shapes and maps: redirects and errors that are passed on included.      *)
LEMMA RawResponseOk ==
  ASSUME PInv, NEW c \in Slot, job[c] \in Job, NEW r \in Responses(job[c]), RawResponse(c, r)
  PROVE  PInv'
<1> DEFINE t == tally[c] \cup {pc[c]}
<1>1. /\ pc[c] \in Provider /\ pc[c] # "idle" /\ UNCHANGED <<job, answer>>
      /\ job[c].key \notin DynamicKey /\ job[c].key \notin StandardKey
  BY DEF RawResponse, Provider, DynamicKey, StandardKey
<1>2. r \in Resp /\ r.body.key = job[c].key /\ r.body.form # "typed"
  BY ResponsesOk
<1>3. /\ "set" \in PC /\ Pending("set", job[c], r)
      /\ "fallback" \in PC /\ Pending("fallback", job[c], r)
      /\ Pending("fallback", job[c], resp[c])
  BY <1>1, <1>2 DEF PC, Pending
<1>4. ASSUME Failed(c)
      PROVE  tally' = [tally EXCEPT ![c] = t] /\ Tallied("fallback", job[c], t)
  BY <1>1, <1>4, FailedOk DEF Tallied
<1> HIDE DEF t
<1>5. ASSUME Take(c, r), Goto(c, "set"), UNCHANGED tally
      PROVE  SlotsOK'
  <2>1. tally' = [tally EXCEPT ![c] = tally[c]] /\ Tallied("set", job[c], tally[c])
    BY <1>5, NoFailureNoted DEF Tallied
  <2> QED
    BY <1>1, <1>2, <1>3, <1>5, <2>1, MovesOn
<1>6. ASSUME Failed(c), Goto(c, "fallback"), UNCHANGED resp
      PROVE  SlotsOK'
  <2>1. resp[c] \in Resp \cup {NoResp} /\ Take(c, resp[c])
    BY <1>6, SameResponse
  <2> QED
    BY <1>1, <1>3, <1>4, <1>6, <2>1, MovesOn
<1>7. ASSUME Take(c, r), Failed(c), Goto(c, "fallback")
      PROVE  SlotsOK'
  BY <1>1, <1>2, <1>3, <1>4, <1>7, MovesOn
<1>8. SlotsOK'
  BY <1>5, <1>6, <1>7 DEF RawResponse
<1> QED
  BY <1>8, CachesSame DEF RawResponse

(* The entry a dynamic route stores is complete and expires with its last  *)
(* departure; the entry of a static route does not expire.                 *)
LEMMA StoreOk ==
  ASSUME PInv, NEW c \in Slot, job[c] \in Job, Store(c)
  PROVE  PInv'
<1> DEFINE k == job[c].key
           r == resp[c]
           Entry(x) == [status |-> r.status, body |-> r.body, expiresAt |-> x]
<1>1. /\ r \in Resp /\ r.body.key = k /\ r.status \in Status /\ r.body \in Body
      /\ r.body.form # "typed"
      /\ k \in StandardKey => r.status = 200
      /\ k \in DynamicKey => r.status = 200 /\ Expiry(r.body) >= 1
  BY AtSlot DEF Store, SlotOK, Pending, Resp, StandardKey, DynamicKey
<1>2. SlotsOK'
  <2>1. tally' = [tally EXCEPT ![c] = tally[c]] /\ tally[c] \in Tally
    BY NoFailureNoted DEF Store
  <2>2. Reply(c, r.status, r.body, FALSE) /\ UNCHANGED job
    BY DEF Store
  <2>3. StatusDue(job[c], r.status)
    BY <1>1 DEF StatusDue, StandardKey, DynamicKey, StaticKey, Store
  <2> QED
    BY <1>1, <2>1, <2>2, <2>3, RepliesFresh
<1>3. CASE k \in DynamicKey /\ UNCHANGED staticCache
             /\ dynamicCache' = AfterSet(dynamicCache, k, Entry(Expiry(r.body)))
  <2> DEFINE e == Entry(Expiry(r.body))
  <2>1. r.body.form = "full" /\ r.body.until \in 1 .. Horizon /\ Expiry(r.body) = r.body.until
    BY <1>1, <1>3, ProxyAssumption DEF Expiry, Body
  <2>2. e \in DynamicEntry /\ DynamicFits(k, e)
    BY <1>1, <1>3, <2>1 DEF DynamicEntry, DynamicFits
  <2> HIDE DEF e
  <2>3. dynamicCache' = AfterSet(dynamicCache, k, e)
    BY <1>3 DEF e
  <2>4. ASSUME NEW x \in Cached(dynamicCache') \cap DynamicKey
        PROVE  dynamicCache'.items[x] \in DynamicEntry /\ DynamicFits(x, dynamicCache'.items[x])
    BY <2>2, <2>3, <2>4, AfterSetItems DEF PInv, DynamicOK
  <2> QED
    BY <1>2, <1>3, <2>4 DEF PInv, DynamicOK, StaticOK, ClockOK, Store
<1>4. CASE k \in StaticKey /\ UNCHANGED dynamicCache
             /\ staticCache' = AfterSet(staticCache, k, Entry(NoExpiry))
  <2> DEFINE e == Entry(NoExpiry)
  <2>1. e \in StaticEntry /\ StaticFits(k, e) /\ (RouteOf[k] = "static" => e.status = 200)
    BY <1>1, <1>4 DEF StaticEntry, StaticFits, StandardKey, StaticKey
  <2>2. IsCache(staticCache, StaticKey, StaticEntry, StaticCap) /\ Coherent(staticCache)
    BY DEF PInv, StaticOK
  <2> HIDE DEF e
  <2>3. staticCache' = AfterSet(staticCache, k, e)
    BY <1>4 DEF e
  <2>4. IsCache(staticCache', StaticKey, StaticEntry, StaticCap) /\ Coherent(staticCache')
    BY <1>4, <2>1, <2>2, <2>3, AfterSetOk, ProxyAssumption
  <2>5. ASSUME NEW x \in Cached(staticCache')
        PROVE  /\ StaticFits(x, staticCache'.items[x])
               /\ RouteOf[x] = "static" => staticCache'.items[x].status = 200
    BY <2>1, <2>3, <2>5, AfterSetItems DEF PInv, StaticOK
  <2> QED
    BY <1>2, <1>4, <2>4, <2>5 DEF PInv, DynamicOK, StaticOK, ClockOK, Store
<1> QED
  BY <1>3, <1>4 DEF Store

(* What a hit serves: a whole response, fresh when the route is dynamic.   *)
LEMMA HitOk ==
  ASSUME PInv, NEW k \in DynamicKey \cup StaticKey, Hit(CacheFor(k), k, now)
  PROVE  LET e == CacheFor(k).items[k] IN
           /\ e.status \in Status /\ e.body \in Body
           /\ k \in DynamicKey => now <= e.body.until
           /\ k \in StandardKey => e.status = 200
<1>1. CASE k \in DynamicKey
  <2> DEFINE e == dynamicCache.items[k]
  <2>1. CacheFor(k) = dynamicCache
    BY <1>1 DEF CacheFor
  <2>2. k \in Cached(dynamicCache) /\ ~Expired(e, now)
    BY <2>1 DEF Hit
  <2>3. e \in DynamicEntry
    BY <1>1, <2>2 DEF PInv, DynamicOK
  <2>4. e.expiresAt = e.body.until /\ e.status = 200
    BY <1>1, <2>2 DEF PInv, DynamicOK, DynamicFits
  <2>5. e.status \in Status /\ e.body \in Body /\ e.expiresAt \in 1 .. Horizon
    BY <2>3 DEF DynamicEntry
  <2>6. now <= e.body.until
    BY <2>2, <2>4, <2>5, ProxyAssumption DEF Expired, NoExpiry, PInv, ClockOK
  <2> QED
    BY <2>1, <2>4, <2>5, <2>6
<1>2. CASE k \notin DynamicKey
  <2> DEFINE e == staticCache.items[k]
  <2>1. CacheFor(k) = staticCache
    BY <1>2 DEF CacheFor
  <2>2. k \in Cached(staticCache)
    BY <2>1 DEF Hit
  <2>3. e \in StaticEntry
    BY <2>2, IsCacheFields DEF PInv, StaticOK, IsPartialMap, Cached
  <2>4. k \in StandardKey => e.status = 200
    BY <1>2, <2>2 DEF PInv, StaticOK, StandardKey, DynamicKey
  <2> QED
    BY <1>2, <2>1, <2>3, <2>4 DEF StaticEntry
<1> QED
  BY <1>1, <1>2

(* serveFallback: a hit, empty JSON, or for maps an error.                 *)
LEMMA FallbackOk ==
  ASSUME PInv, NEW c \in Slot, job[c] \in Job, Fallback(c)
  PROVE  PInv'
<1> DEFINE k == job[c].key
<1>1. tally' = [tally EXCEPT ![c] = tally[c]] /\ tally[c] \in Tally
  BY NoFailureNoted DEF Fallback
<1>2. k \in Key /\ k \in DynamicKey \cup StaticKey /\ UNCHANGED job
  BY DEF Fallback, Job
<1>3. k \in StandardKey => tally[c] = Providers(job[c])
  BY AtSlot DEF Fallback, FallbackHit, FallbackMiss, SlotOK, Tallied
<1>4. SlotsOK'
  <2>1. CASE FallbackHit(c)
    <3> DEFINE e == CacheFor(k).items[k]
    <3>1. Hit(CacheFor(k), k, now) /\ Reply(c, e.status, e.body, TRUE)
      BY <2>1 DEF FallbackHit
    <3>2. /\ e.status \in Status /\ e.body \in Body
          /\ k \in DynamicKey => now <= e.body.until
          /\ k \in StandardKey => e.status = 200
      BY <1>2, <3>1, HitOk
    <3> HIDE DEF e
    <3>3. Owed(job[c], AnswerNow(e.status, e.body, TRUE), tally[c])
      BY <1>2, <1>3, <3>2
      DEF Owed, Fresh, LastResort, AnswerNow, StatusDue, StandardKey, DynamicKey, StaticKey
    <3> QED
      BY <1>1, <1>2, <3>1, <3>2, <3>3, Replies
  <2>2. ASSUME NEW form \in Form, NEW status \in Status,
               Reply(c, status, BodyOf(k, form, 0), FALSE), StatusDue(job[c], status)
        PROVE  SlotsOK'
    <3> DEFINE body == BodyOf(k, form, 0)
    <3>1. body \in Body
      BY <1>2, ProxyAssumption DEF BodyOf, Body
    <3>2. /\ Reply(c, status, body, FALSE)
          /\ body.form # "typed" \/ job[c].key \notin StandardKey \/ tally[c] = Providers(job[c])
      BY <1>3, <2>2
    <3> HIDE DEF body
    <3> QED
      BY <1>1, <1>2, <2>2, <3>1, <3>2, RepliesFresh
  <2>3. CASE RouteOf[k] = "map" /\ resp[c] # NoResp /\ Reply(c, resp[c].status, resp[c].body, FALSE)
    <3>1. resp[c] \in Resp
      BY <2>3, AtSlot DEF SlotOK
    <3>2. resp[c].status \in Status /\ resp[c].body \in Body
      BY <3>1 DEF Resp
    <3>3. k \notin StandardKey /\ StatusDue(job[c], resp[c].status)
      BY <2>3 DEF StandardKey, StatusDue
    <3> QED
      BY <1>1, <1>2, <2>3, <3>2, <3>3, RepliesFresh
  <2>4. CASE FallbackMiss(c)
    <3>1. CASE Reply(c, 200, BodyOf(k, "typed", 0), FALSE)
      <4>1. "typed" \in Form /\ 200 \in Status /\ StatusDue(job[c], 200)
        BY DEF Form, Status, StatusDue
      <4> QED
        BY <2>2, <3>1, <4>1
    <3>2. CASE RouteOf[k] = "map" /\ Reply(c, 502, BodyOf(k, "gateway", 0), FALSE)
      <4>1. "gateway" \in Form /\ 502 \in Status /\ StatusDue(job[c], 502)
        BY <3>2 DEF Form, Status, StatusDue, StandardKey
      <4> QED
        BY <2>2, <3>2, <4>1
    <3> QED
      BY <2>3, <2>4, <3>1, <3>2 DEF FallbackMiss
  <2> QED
    BY <2>1, <2>4 DEF Fallback
<1>5. CASE dynamicCache' = AfterGet(dynamicCache, k, now) /\ UNCHANGED staticCache
  <2>1. ASSUME NEW x \in Cached(dynamicCache') \cap DynamicKey
        PROVE  dynamicCache'.items[x] \in DynamicEntry /\ DynamicFits(x, dynamicCache'.items[x])
    BY <1>5, <2>1, AfterGetItems DEF PInv, DynamicOK
  <2> QED
    BY <1>4, <1>5, <2>1 DEF PInv, DynamicOK, StaticOK, ClockOK, Fallback
<1>6. CASE staticCache' = AfterGet(staticCache, k, now) /\ UNCHANGED dynamicCache
  <2>1. IsCache(staticCache, StaticKey, StaticEntry, StaticCap) /\ Coherent(staticCache)
    BY DEF PInv, StaticOK
  <2>2. IsCache(staticCache', StaticKey, StaticEntry, StaticCap) /\ Coherent(staticCache')
    BY <1>6, <2>1, AfterGetOk, ProxyAssumption
  <2>3. ASSUME NEW x \in Cached(staticCache')
        PROVE  /\ StaticFits(x, staticCache'.items[x])
               /\ RouteOf[x] = "static" => staticCache'.items[x].status = 200
    BY <1>6, <2>3, AfterGetItems DEF PInv, StaticOK
  <2> QED
    BY <1>4, <1>6, <2>2, <2>3 DEF PInv, DynamicOK, StaticOK, ClockOK, Fallback
<1> QED
  BY <1>5, <1>6 DEF Fallback

(* Radar answers empty JSON when its exchange fails.                       *)
LEMMA RadarNoResponseOk ==
  ASSUME PInv, NEW c \in Slot, job[c] \in Job, RadarNoResponse(c)
  PROVE  PInv'
<1> DEFINE t == tally[c] \cup {pc[c]}
<1>1. pc[c] \in Provider /\ Failed(c) /\ UNCHANGED job
        /\ Reply(c, 200, BodyOf(job[c].key, "typed", 0), FALSE)
        /\ job[c].key \notin StandardKey
  BY DEF RadarNoResponse, Provider, StandardKey
<1>2. tally' = [tally EXCEPT ![c] = t] /\ t \in Tally
  BY <1>1, FailedOk
<1>3. 200 \in Status /\ BodyOf(job[c].key, "typed", 0) \in Body /\ StatusDue(job[c], 200)
  BY <1>1, ProxyAssumption DEF Status, Body, BodyOf, Form, Job, StatusDue
<1> HIDE DEF t
<1>4. SlotsOK'
  BY <1>1, <1>2, <1>3, RepliesFresh
<1> QED
  BY <1>4, CachesSame DEF RadarNoResponse

(* Radar passes a 2xx on as it is and keeps nothing.                       *)
LEMMA RadarResponseOk ==
  ASSUME PInv, NEW c \in Slot, job[c] \in Job, NEW r \in Responses(job[c]), RadarResponse(c, r)
  PROVE  PInv'
<1> DEFINE t == tally[c] \cup {pc[c]}
<1>1. pc[c] \in Provider /\ UNCHANGED job /\ job[c].key \notin StandardKey
  BY DEF RadarResponse, Provider, StandardKey
<1>2. 200 \in Status /\ BodyOf(job[c].key, "typed", 0) \in Body /\ StatusDue(job[c], 200)
  BY <1>1, ProxyAssumption DEF Status, Body, BodyOf, Form, Job, StatusDue
<1>3. ASSUME r.status \in 200 .. 299, Reply(c, r.status, r.body, FALSE), UNCHANGED tally
      PROVE  SlotsOK'
  <2>1. tally' = [tally EXCEPT ![c] = tally[c]] /\ tally[c] \in Tally
    BY <1>3, NoFailureNoted
  <2>2. r.status \in Status /\ r.body \in Body /\ StatusDue(job[c], r.status)
    BY <1>1, <1>3, ResponsesOk DEF Resp, StatusDue
  <2> QED
    BY <1>1, <1>3, <2>1, <2>2, RepliesFresh
<1>4. ASSUME Failed(c), Reply(c, 200, BodyOf(job[c].key, "typed", 0), FALSE)
      PROVE  SlotsOK'
  <2>1. tally' = [tally EXCEPT ![c] = t] /\ t \in Tally
    BY <1>1, <1>4, FailedOk
  <2> HIDE DEF t
  <2> QED
    BY <1>1, <1>2, <1>4, <2>1, RepliesFresh
<1>5. SlotsOK'
  BY <1>3, <1>4 DEF RadarResponse
<1> QED
  BY <1>5, CachesSame DEF RadarResponse

(* Time only makes entries expire, which PInv does not forbid.             *)
LEMMA TickOk ==
  ASSUME PInv, Tick
  PROVE  PInv'
<1>1. now' \in 1 .. Horizon + 1
  BY ProxyAssumption DEF PInv, ClockOK, Tick
<1> QED
  BY <1>1 DEF PInv, ClockOK, StaticOK, DynamicOK, SlotsOK, Tick

-----------------------------------------------------------------------------

(* What newStandardHandler stores has the type of a dynamic entry. *)
LEMMA StoredEntry ==
  ASSUME PInv, NEW c \in Slot, Store(c), job[c].key \in DynamicKey
  PROVE  LET r == resp[c]
             e == [status |-> r.status, body |-> r.body, expiresAt |-> Expiry(r.body)]
         IN  /\ dynamicCache' = AfterSet(dynamicCache, job[c].key, e)
             /\ e \in DynamicEntry /\ DynamicFits(job[c].key, e)
             /\ Reply(c, r.status, r.body, FALSE)
<1> DEFINE r == resp[c]
           e == [status |-> r.status, body |-> r.body, expiresAt |-> Expiry(r.body)]
<1>1. /\ r \in Resp /\ r.body.key = job[c].key /\ r.status = 200 /\ Expiry(r.body) >= 1
  BY AtSlot DEF Store, SlotOK, Pending, StandardKey, DynamicKey
<1>2. r.body.form = "full" /\ r.body.until \in 1 .. Horizon /\ Expiry(r.body) = r.body.until
  BY <1>1, ProxyAssumption DEF Expiry, Body, Resp
<1>3. e \in DynamicEntry /\ DynamicFits(job[c].key, e)
  BY <1>1, <1>2 DEF DynamicEntry, DynamicFits, Resp
<1> HIDE DEF e
<1>4. dynamicCache' = AfterSet(dynamicCache, job[c].key, e) /\ Reply(c, r.status, r.body, FALSE)
  BY DEF Store, StaticKey, DynamicKey, e
<1> QED
  BY <1>3, <1>4 DEF e

(* Only Set and Get change the dynamic cache. *)
LEMMA HandleIsCache ==
  ASSUME PInv, DynamicIsCache, NEW c \in Slot, Handle(c)
  PROVE  DynamicIsCache'
<1>1. CASE UNCHANGED dynamicCache
  BY <1>1 DEF DynamicIsCache
<1>2. CASE Store(c) /\ job[c].key \in DynamicKey
  <2> DEFINE k == job[c].key
             e == [status |-> resp[c].status, body |-> resp[c].body,
                   expiresAt |-> Expiry(resp[c].body)]
  <2>1. dynamicCache' = AfterSet(dynamicCache, k, e) /\ e \in DynamicEntry /\ k \in DynamicKey
    BY <1>2, StoredEntry
  <2> HIDE DEF k, e
  <2> QED
    BY <2>1, AfterSetOk, ProxyAssumption DEF DynamicIsCache
<1>3. CASE dynamicCache' = AfterGet(dynamicCache, job[c].key, now)
  BY <1>3, AfterGetOk, ProxyAssumption DEF DynamicIsCache
<1> QED
  BY <1>1, <1>2, <1>3
  DEF Handle, RestNoResponse, RawNoResponse, RadarNoResponse, RestResponse, RawResponse,
      RadarResponse, HafasAnswers, HafasFails, Decide, Store, Fallback

(* The empty caches and the idle slots of the start. *)
LEMMA InitPInv == Init => PInv /\ DynamicIsCache
<1> SUFFICES ASSUME Init PROVE PInv /\ DynamicIsCache
  OBVIOUS
<1>1. ClockOK
  BY ProxyAssumption DEF Init, ClockOK
<1>2. StaticOK
  BY NewCacheOk, ProxyAssumption DEF Init, StaticOK
<1>3. DynamicIsCache /\ Cached(dynamicCache) = {}
  BY NewCacheOk, ProxyAssumption DEF Init, DynamicIsCache
<1>4. SlotsOK
  BY DEF Init, SlotsOK, OnSlots, SlotOK, PC, Pending, Tallied, Tally, NoFailure
<1> QED
  BY <1>1, <1>2, <1>3, <1>4 DEF PInv, DynamicOK

(* A step of a handler that has a request. *)
LEMMA HandlePInv ==
  ASSUME PInv, NEW c \in Slot, Handle(c)
  PROVE  PInv'
<1>1. job[c] \in Job
  BY AtSlot DEF SlotOK, Handle, RestNoResponse, RawNoResponse, RadarNoResponse, HafasAnswers,
     HafasFails, Decide, Store, Fallback, FallbackHit, FallbackMiss
<1>2. CASE RestNoResponse(c) \/ RawNoResponse(c) \/ RadarNoResponse(c)
  BY <1>1, <1>2, RestNoResponseOk, RawNoResponseOk, RadarNoResponseOk
<1>3. ASSUME NEW r \in Responses(job[c]),
             RestResponse(c, r) \/ RawResponse(c, r) \/ RadarResponse(c, r)
      PROVE  PInv'
  BY <1>1, <1>3, RestResponseOk, RawResponseOk, RadarResponseOk
<1>4. ASSUME NEW until \in 0 .. Horizon, HafasAnswers(c, until)
      PROVE  PInv'
  BY <1>1, <1>4, HafasAnswersOk
<1>5. CASE HafasFails(c) \/ Decide(c)
  BY <1>1, <1>5, HafasFailsOk, DecideOk
<1>6. CASE Store(c) \/ Fallback(c)
  BY <1>1, <1>6, StoreOk, FallbackOk
<1> QED
  BY <1>2, <1>3, <1>4, <1>5, <1>6 DEF Handle

(* Every step of every handler keeps the invariant.                        *)
LEMMA NextPInv == PInv /\ DynamicIsCache /\ [Next]_proxyVars => PInv' /\ DynamicIsCache'
<1> SUFFICES ASSUME PInv, DynamicIsCache, [Next]_proxyVars PROVE PInv' /\ DynamicIsCache'
  OBVIOUS
<1>1. ASSUME NEW c \in Slot, NEW j \in Job, Begin(c, j) PROVE PInv' /\ DynamicIsCache'
  <2>1. UNCHANGED dynamicCache
    BY <1>1 DEF Begin
  <2> QED
    BY <1>1, <2>1, BeginOk DEF DynamicIsCache
<1>2. ASSUME NEW c \in Slot, Handle(c) PROVE PInv' /\ DynamicIsCache'
  BY <1>2, HandlePInv, HandleIsCache
<1>3. CASE Tick
  <2>1. UNCHANGED dynamicCache
    BY <1>3 DEF Tick
  <2> QED
    BY <1>3, <2>1, TickOk DEF DynamicIsCache
<1>4. CASE UNCHANGED proxyVars
  BY <1>4 DEF proxyVars, PInv, ClockOK, StaticOK, DynamicOK, SlotsOK, DynamicIsCache
<1> QED
  BY <1>1, <1>2, <1>3, <1>4 DEF Next

(* Everything the handlers rely on holds in every state. *)
LEMMA AlwaysPInv == Spec => [](PInv /\ DynamicIsCache)
  BY InitPInv, NextPInv, PTL DEF Spec

(* Every variable of the handlers has its type: above all, what is in the  *)
(* two caches is an entry of the kind that cache is for.                   *)
THEOREM ProxyTypes == Spec => []TypeOK
  BY AlwaysPInv, PInvImplies, PTL

(* However many requests run at once and in whatever order their steps     *)
(* come, a handler leaves in the caches only what newStandardHandler,      *)
(* handleShape and handleMap may store there.                              *)
THEOREM ProxyInvariant == Spec => []CachesFit
  BY AlwaysPInv, PInvImplies, PTL

(* serveFallback serves from the dynamic cache only what has not expired,  *)
(* although the clock moves and other requests use the cache meanwhile.    *)
THEOREM ProxyHitsAreFresh == Spec => []HitsAreFresh
  BY AlwaysPInv, PInvImplies, PTL

(* newStandardHandler falls back, on the cache or on empty JSON, only when *)
(* each provider of the route has failed for this very request.            *)
THEOREM FallbackComesLast == Spec => []CacheIsLastResort
  BY AlwaysPInv, PInvImplies, PTL

(* A client that polls a standard route sees only 200, from whichever      *)
(* provider, from the cache, or made up (README, line 31), although a      *)
(* provider may answer with another 2xx; of radar it sees the 2xx itself.  *)
THEOREM PollersSeeOK == Spec => []AlwaysOK
  BY AlwaysPInv, PInvImplies, PTL

-----------------------------------------------------------------------------

(* A lookup costs the static cache nothing, for its entries never expire.  *)
LEMMA StaticGetKeeps ==
  ASSUME StaticOK, NEW k
  PROVE  Cached(AfterGet(staticCache, k, now)) = Cached(staticCache)
<1>1. k \in Cached(staticCache) => ~Expired(staticCache.items[k], now)
  BY DEF StaticOK, StaticFits, Expired
<1>2. staticCache.cap \in Int
  BY ProxyAssumption, IsCacheFields DEF StaticOK
<1> QED
  BY <1>1, <1>2, AfterGetKeys DEF Hit

(* A new response costs it another one only when it is full. *)
LEMMA StaticSetLoses ==
  ASSUME StaticOK, NEW k \in StaticKey, NEW e \in StaticEntry,
         staticCache' = AfterSet(staticCache, k, e)
  PROVE  \/ Cached(staticCache) \subseteq Cached(staticCache')
         \/ /\ Cardinality(Cached(staticCache)) = StaticCap
            /\ Cardinality(Cached(staticCache')) = StaticCap
<1>1. /\ IsCache(staticCache, StaticKey, StaticEntry, StaticCap) /\ Coherent(staticCache)
      /\ StaticCap \in Int
  BY ProxyAssumption DEF StaticOK
<1>2. CASE StaticCap <= 0
  BY <1>1, <1>2, IsCacheFields DEF AfterSet
<1>3. CASE StaticCap > 0
  <2>1. PICK gone \in SUBSET Cached(staticCache) :
          /\ gone # {} =>
               k \notin Cached(staticCache) /\ Cardinality(Cached(staticCache)) = StaticCap
          /\ gone # {} => \E x : gone = {x}
          /\ Cached(staticCache') = (Cached(staticCache) \ gone) \cup {k}
    <3>1. MakesRoom(staticCache, staticCache', k, e, StaticCap)
      BY <1>1, <1>3, AfterSetKeys
    <3> QED
      BY <3>1 DEF MakesRoom
  <2>2. CASE gone # {}
    <3>1. PICK x : gone = {x}
      BY <2>1, <2>2
    <3>2. IsFiniteSet(Cached(staticCache))
      BY <1>1, CachedCardinality DEF Coherent
    <3>3. Cardinality((Cached(staticCache) \ {x}) \cup {k}) = Cardinality(Cached(staticCache))
      BY <2>1, <2>2, <3>1, <3>2, SwapCardinality
    <3>4. Cached(staticCache') = (Cached(staticCache) \ {x}) \cup {k}
      BY <2>1, <3>1
    <3> QED
      BY <2>1, <2>2, <3>3, <3>4
  <2>3. CASE gone = {}
    BY <2>1, <2>3
  <2> QED
    BY <2>2, <2>3
<1> QED
  BY <1>1, <1>2, <1>3

(* Only Set and Get touch the static cache: whatever else happens, a good  *)
(* response is given up for another one only, and by a full cache only.    *)
THEOREM StaticKeepsWhatItHas == Spec => StaticLossIsEviction
<1> DEFINE Kept == \/ Cached(staticCache) \subseteq Cached(staticCache')
                   \/ /\ Cardinality(Cached(staticCache)) = StaticCap
                      /\ Cardinality(Cached(staticCache')) = StaticCap
<1>1. ASSUME PInv, Next
      PROVE  Kept
  <2>1. ASSUME NEW c \in Slot, Store(c) PROVE Kept
    <3>1. job[c] \in Job /\ resp[c] \in Resp
      BY <1>1, <2>1, AtSlot DEF SlotOK, Pending, Store
    <3>2. [status |-> resp[c].status, body |-> resp[c].body, expiresAt |-> NoExpiry] \in StaticEntry
      BY <3>1 DEF Resp, StaticEntry
    <3>3. CASE staticCache' = AfterSet(staticCache, job[c].key,
                 [status |-> resp[c].status, body |-> resp[c].body, expiresAt |-> NoExpiry])
               /\ job[c].key \in StaticKey
      BY <1>1, <3>2, <3>3, StaticSetLoses DEF PInv
    <3>4. CASE UNCHANGED staticCache
      BY <3>4
    <3> QED
      BY <2>1, <3>3, <3>4 DEF Store
  <2>2. ASSUME NEW c \in Slot, Fallback(c) PROVE Kept
    <3>1. CASE staticCache' = AfterGet(staticCache, job[c].key, now)
      BY <1>1, <3>1, StaticGetKeeps DEF PInv
    <3>2. CASE UNCHANGED staticCache
      BY <3>2
    <3> QED
      BY <2>2, <3>1, <3>2 DEF Fallback
  <2>3. ASSUME UNCHANGED staticCache PROVE Kept
    BY <2>3
  <2>4. ASSUME NEW c \in Slot, Handle(c) PROVE Kept
    BY <2>1, <2>2, <2>3, <2>4
    DEF Handle, RestNoResponse, RawNoResponse, RadarNoResponse, RestResponse, RawResponse,
        RadarResponse, HafasAnswers, HafasFails, Decide
  <2> QED
    BY <1>1, <2>3, <2>4 DEF Next, Begin, Tick
<1>2. PInv /\ [Next]_proxyVars => [Kept]_proxyVars
  BY <1>1
<1> QED
  BY <1>2, AlwaysPInv, PTL DEF Spec, StaticLossIsEviction

=============================================================================
