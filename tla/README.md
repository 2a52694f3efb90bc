# Regelmäsig in TLA+

Models, model checks and proofs for regelmäsig, the caching proxy in front of
the VBB transport.rest API. Paths are those of the repository.

## The system

One process serves HTTP; `net/http` runs every request in a goroutine of its
own. The only state requests share is two LRU caches (and metric counters).

| Component | Source | State | Operations | Interacts with |
|---|---|---|---|---|
| LRU cache | `cache.go` | capacity, map, linked list, mutex | `NewCache`, `Get`, `Set` | all handlers |
| Standard handler | `proxy.go`, `handle_*.go` of the 1-to-1 routes | locals of a request | provider chain, expiry check, `Set`, `serveFallback` | one of the two caches, upstream, HAFAS |
| Shapes and maps | `handle_shapes.go`, `handle_maps.go` | locals of a request | one exchange; redirects count as success; own fallbacks | static cache, upstream |
| Radar | `newPassthroughHandler` in `proxy.go`, `handle_radar.go` | none | one exchange, empty JSON on failure | upstream |
| Compact departures | `handle_compact_departures.go` | results per stop | fan-out, join, `Set`, fallback | dynamic cache, upstream, HAFAS |
| HAFAS client and translation | `hafas.go`, `hafas_translate.go` | none | one POST per call, reshaping of records | HAFAS endpoint |
| Expiry functions | `expiry.go` | none | last departure or arrival in a body | standard handler |
| Routing | `mux.go` | the two caches | which route uses which cache and providers | all handlers |
| Lifecycle | `main.go` | listener, signal, shutdown timer | `run` | server |
| Metrics, tracing | `metrics.go`, `tracing.go` | counters, exporter | counting, spans | all handlers |

What makes each of them correct, and what is hard about it:

- **Cache.** Map and list must agree after any calls; only the least recently
  used entry is evicted; an expired entry is never returned, a static one (zero
  time) never expires; a capacity of zero or less disables the cache. Hard:
  long sequences of expiry, eviction and re-insertion.
- **Handlers.** What is stored answers the key it is stored under and expires
  with its own last departure; the cache is the last resort, after every
  provider; every request is answered. Hard: other requests and the clock move
  between a response, the expiry check, `Set` and `Get`; bodies break off after a
  good status; the cache key says nothing of the method and of the headers that
  are forwarded.
- **Compact departures.** Boards in request order whatever order the goroutines
  finish in; only complete answers are stored; the cache serves only when every
  stop failed at every provider. Hard: partial failure, the clock read at several
  moments, two requests for the same boards.
- **HAFAS boards.** The body translated from HAFAS and the compact board built
  from it directly are made by separate code and must agree; a body expires
  with its last event. Hard: indices that name nothing, times past midnight and
  in two zones, realtimes that are missing or malformed, negative delays.
- **Lifecycle.** Shutdown lets requests finish, spans are flushed, the process
  ends. Hard: two channels ready at once, a shutdown deadline shorter than two
  provider timeouts, signals and listener failures at any moment.

`PROJECT.json` lists the hazards with their lines and the properties that
would catch them.

## Modules

| Module | Models |
|---|---|
| `LRU` | the cache as a value: `Hit`, `AfterGet`, `AfterSet` on a record of capacity, map and list |
| `RecencyStore` | the abstract store: a map and a relation "used later than", no list |
| `Cache` | one `Cache` called by any number of goroutines; implements `RecencyStore` |
| `CacheHistory` | `Cache` with history variables that record uses from outside |
| `LRUProofs`, `CacheProofs` | lemmas about the operators of `LRU`; the theorems about `Cache` and `CacheHistory` |
| `Proxy`, `ProxyProofs` | all requests to the 1-to-1 routes, with the two caches; the theorems about them |
| `Subsequences`, `SubsequenceProofs` | filtering loops and the sort of distinct instants, without recursion; lemmas about them |
| `Compact`, `CompactProofs` | requests to `/compact/departures`, with their cache; the theorems about them |
| `Server`, `ServerProofs` | `Proxy` and `Compact` on the one dynamic cache `newMux` gives them; the theorems about both together |
| `StaleIfError` | the abstract promise `Server` implements |
| `Boards`, `BoardsProofs` | HAFAS boards: translation, expiry, compact rows; the theorems about them |
| `Lifecycle`, `LifecycleProofs` | `run()` from set-up to exit; the theorems about it |
| `MCCache`, `MCProxy`, `MCCompact`, `MCServer`, `MCBoards`, `MCLifecycle` | the instances TLC checks |

**Cache.** `Get` and `Set` hold `c.mu` throughout, so each is one action. A
record `[cap, items, list]` stands for the struct: `items` is the map followed
through the list node to its entry, `list` the linked list with each node named
by its key. Instants are natural numbers from 1; 0 (`NoExpiry`) is the zero
`time.Time`. The clock moves forward (`Tick`) and stops one past `Horizon`.

**Proxy.** A slot is a request in flight. `pc` says what its handler does next:

| `pc` | Code |
|---|---|
| `rest` | waiting for transport.rest (`Forward`, or `forward` in shapes, maps, radar) |
| `hafas` | waiting for HAFAS, on the routes `mux.go` gives a second provider |
| `decide` | `expiry(body)` and the comparison with `time.Now()` |
| `set` | `cache.Set`, then the answer |
| `fallback` | `cache.Get`, then a hit, empty JSON, or for maps an error |

Each is an action, so any steps of other requests and of the clock may come in
between. A body is abstracted to the key it answers, its last departure and its
form: what a plain GET gets, the same compressed, nothing at all (HEAD, 304), an
error page, the route's empty JSON, or the text "bad gateway". A client may ask
plainly, with HEAD (Go's mux lets it through on GET patterns), with
Accept-Encoding, or with a condition; `forward` clones method and headers, so
the upstream's answer depends on it. Of the statuses, 200 and the other 2xx are told
apart (203), redirects (302), Not Modified, and failures (503): a standard handler
makes every 2xx a 200 (`AsOK`), radar passes it on as it is, shapes and maps keep it.
`tally` is a ghost: the providers that failed this request.

**Compact.** A slot is a request, `work` holds one entry per stop: the provider
its goroutine is asking, or its result. Goroutines step independently; `Join` is
`wg.Wait` and what follows up to the expiry check, `Store` the `Set`, `Fallback`
the `Get`. The cache key is the pair of stops and limit.

**Server.** Two instances, `P` of `Proxy` and `C` of `Compact`, share
`dynamicCache` and `now`; everything else is their own. Each action is an action
of one of them with the other's locals unchanged. `StaleIfError` knows clients,
keys and the response kept for each key, and nothing of providers, recency or
stored expiry times. The refinement mapping takes `kept` from the bodies in the
cache (`Keeping`), `asked` from the requests in flight (`Asking`), and `got` from
the status, hit flag and body of the answers (`Given`). Steps inside a handler, lookups that only move a key to
the front, and goroutines that finish map to stutters.

**Boards.** The state is a HAFAS board that grows journey by journey, and a
clock. `Translate` is `translateDepartures` and `translateArrivals`, `Expiry` the
functions of `expiry.go` for departures and arrivals, `TransformCompactBoard` and
`TransformHAFASCompactBoard` the two ways to a compact board. Instants are
seconds; writing one as RFC 3339 and reading it back is the identity on seconds,
so a written time is the instant itself and a missing one `Null`. A time that
cannot be parsed is the zero time, which the code, too, goes on to write, read
and subtract; `Sub` saturates as `time.Time.Sub` does. `ZeroTime` and `MaxSpan`
are scaled down: they only have to lie beyond everything else. What the code writes
twice the model has twice: `transformHAFASCompactBoard` has its own index check
(`HafasSkips`), default zone (`HafasTz`), times, delay and names (`HafasRow`), so that
`PathsAgree` sees one copy drift from the other; `parseHAFASTime`,
`hafasProductName` and the sort are one function in the code, too.

**Loops and sorts.** A loop that skips elements is a `Subsequence` at the places
it keeps; `slices.Sort` of distinct instants is `Ascending`; a stable sort is
`StableOrder`, which gives each row the place counted by how many come before it.
None of them recurs, so the prover, to which the folds and `SelectSeq` are closed,
can reason about them.

**Lifecycle.** `phase` is the place `run()` has come to:

| `phase` | Code |
|---|---|
| `start` | `setupTracing` is still to come |
| `wired` | `srv.ListenAndServe` has its goroutine, no signal handler yet |
| `select` | waiting for `ctx.Done()` or `serveErr` |
| `shutdown` | inside `srv.Shutdown` |
| `flush` | the deferred `tracingShutdown` |
| `exit` | returned, or killed by a signal nobody handles |

`server` is what `ListenAndServe` came to, `conn` what every connection does and
how long that may still take. `Tick` is one unit of time and cannot happen while
a timer that has fired is unanswered (`Due`); so `http.Client.Timeout` ends
exchanges and the two deadlines end the waits. Nothing ends the writing of an answer:
`http.Server` has no `WriteTimeout` (`main.go:86`), so once the buffers are full a
client that does not read keeps its connection in use (`Stall`) for as long as it
likes (`Read`), while time goes on. `spans` records the fates of spans that ended
without being sent: queued, dropped, or too late for the exporter.

Operators marked "a mutant" are plausible bugs. They are used nowhere; putting one
in the place of the definition below it must break a property
(`PROJECT.json`, "mutants").

## What the runs check

| Run | Instance | Shows |
|---|---|---|
| `cache` | 4 keys, 2 bodies, capacities -1 to 3, `Horizon` 1 | `CoherentInv`, `Retention`, refinement of `RecencyStore` |
| `proxy_dynamic` | 2 slots, 2 dynamic keys (one with HAFAS), capacity 1, every way of asking, `Horizon` 2 | `TypeOK`, `CachesFit`, `HitsAreFresh`, `CacheIsLastResort` |
| `proxy_static` | 2 slots; a standard static key with HAFAS, a shape, a map, radar; capacity 2 | `AlwaysOK`, `StaticLossIsEviction`, `EveryRequestAnswered` |
| `compact_fanout` | 1 slot, seven forms of the stops parameter, limits 1 and 2, capacity 1, `Horizon` 3 | `TypeOK`, `CachedComplete`, `StatusTellsOutcome`, `FreshAnswerFits`, `EveryRequestAnswered` |
| `server` | 1 slot of each kind, 2 dynamic keys, 2 stops, capacity 1, `Horizon` 2 | `TypeOK`, `HandlersUndisturbed`, `KeepsPromise`, `EveryRequestAnswered` |
| `lifecycle` | 2 connections, 2 signals, the timeouts in the proportions of the defaults | `TypeOK`, `CleanReturnCutsNothing`, `SpansAccounted`, `GivesUpOnlyWhenLate`, `EndsOnceAsked` |
| `boards` | boards of up to 2 journeys, 3 readings of the clock | `PathsAgree`, `ExpiresWithLastRow`, `ExpiresAfterEvents`, `DelaysRound`, `SortedStably` |

Why the bounds are enough:

- Capacity 3 with four keys is the smallest cache that orders several keys and
  still evicts. Capacity 1 with two keys makes every new key evict, in `server` one
  kind of entry the other; capacity 2 with three cached keys makes recency decide.
- Two slots give every race between two requests; no step of the handlers
  involves a third. `server` has one of each kind, the race neither `Proxy` nor
  `Compact` has. Two slots are symmetric; only `proxy_dynamic`, which checks no
  temporal property, uses that.
- `Horizon` 2 or 3 has instants before, at and after a departure. `Grace` is one
  instant in `Compact`, so departures inside and outside it occur.
- `MaxStops` is 2 instead of 4: the code compares a length with it and treats
  stops alike. Times of departures in `Compact` are sets; ties are in `Boards`.
- In `lifecycle` a unit is 5 seconds: provider timeout 2, `Shutdown` 2, the grace
  of a new connection 1, the flush 1. So two exchanges outlast `Shutdown` and one need
  not. A second signal is the one that finds no handler; a third changes nothing.
- Two journeys meet every pair of rows that sorting, naming and expiry compare.
  They lie around midnight with the day offset, at a stop with a zone and at one
  without, with indices that are too large or negative, realtimes before, at and
  after the plan, half minutes both ways, and none or a malformed one.

**Fairness.** `Proxy`, `Compact` and `Server` ask weak fairness of each handler and
each goroutine. The Go scheduler runs every goroutine that can run, and the one
thing a handler waits for, an exchange with an upstream, ends by
`http.Client.Timeout` (`instrumentedHTTPClient`). With `VBB_TIMEOUT=0` there is no
timeout and no such guarantee. `Lifecycle` asks it of `run()`, of time, of handlers and
of the polling inside `Shutdown`; the listener, signals and clients owe nothing, and no
client ever has to read its answer (`Read` is not fair). In `Proxy`, `Compact` and
`Server` an answer counts as given when the handler writes it. Clients and, outside `Lifecycle`, the clock need not move.

`CHECK_DEADLOCK FALSE` is in the two configurations where the system stops: a
process that has exited, and a full board at the last reading of the clock.

### Disagreements

Five runs expect a violation; each refutes a sentence of the repository.

| Run | Property | What happens |
|---|---|---|
| `proxy_head` | `PlainGetGetsJSON` | HEAD on a static route stores an empty body, Accept-Encoding a compressed one; a later plain GET gets it when the upstream is down (`proxy.go:123`, README.md:31) |
| `proxy_cond` | `PlainGetNever304` | a 304 for one client's condition is stored and replayed to others (`handle_shapes.go:28`) |
| `compact_race` | `LastKnownGood` | the slower of two requests puts older boards back (`handle_compact_departures.go:195`, README.md:125) |
| `lifecycle_race` | `FailureSurfaces` | the listener has failed when a signal comes; `select` takes the signal and `run()` returns nil (`main.go:106`, main_test.go:9) |
| `boards_cancelled` | `CancelledAtPlanned` | from HAFAS, a cancelled departure is timed by its realtime (`handle_compact_departures.go:474`, README.md:111) |

In `compact_race` every upstream dates its data (`Undated` is FALSE), so what goes
back is the data and not only the server's clock.

Three smaller ones have no run of their own. Maps answer 502 or the upstream's
error instead of an empty 200 (`handle_maps.go:24`; `AlwaysOK` is about the standard
routes). A body that breaks off and some HAFAS failures are not counted in
`upstream_errors_total` (`proxy.go:74`, metrics.go:39). Departures up to
30 seconds past stay on a compact board (`handle_compact_departures.go:260`,
README.md:114; `Grace` in both modules).

## What is proved

Every safety property of every passing run, the action property of `Proxy` and both
refinements are theorems, for every value of the constants. Assumptions are those
named in the modules (`CacheAssumption`, `ProxyAssumption`, `CompactAssumption`,
`ServerAssumption`, `BoardsAssumption`, `LifecycleAssumption`), which TLC evaluates in
every run. Capacities are integers, `Horizon` and all durations natural numbers, the
provider timeout and the number of providers positive, every key has a route, and only
standard routes have HAFAS. Departures of timetables lie within `Horizon`, the compact
limit is positive, and the URI of a 1-to-1 route is never a compact key. Readings of the
clock lie after the zero time, and a realtime is no further from its plan than `Sub` can
tell; indices of locations and products are integers. Keys, bodies, slots, stops, journeys and connections are arbitrary sets.

**Cache** (`CacheProofs`)

- `CacheCoherent`: `Spec => [](TypeOK /\ CoherentInv)`. The conjunction is
  inductive: `Set` reads the last key off the list and deletes it from the map,
  which needs the two to agree, and the bound on the length needs the list to be
  free of duplicates. `HistoryTypes` adds the types of the history variables.
- `CacheRefinesStore`: `Spec => ImplementsRecencyStore`. The abstract relation is
  read off the list (`NewerPairs`); the lemmas `RemoveFirstPairs`, `ConsPairs` and
  `MoveToFrontPairs` say what each list operation does to it, `LastIsOldest` that
  the victim of an eviction is the one the store would choose.
- `RetentionHolds`: `HSpec => []Retention`. Strengthened to `RetentionInd`: every
  key ahead of k in the list was used after k, so when k is last in a full
  list, cap - 1 others were used since, and the new key is one more.

**Handlers** (`ProxyProofs`)

- `ProxyTypes`, `ProxyInvariant` (`CachesFit`), `ProxyHitsAreFresh` (`HitsAreFresh`),
  `FallbackComesLast` (`CacheIsLastResort`), `PollersSeeOK` (`AlwaysOK`), from one
  invariant, `PInv`. `AlwaysOK` promises 200 on standard routes and, of radar, a 2xx
  (`StatusDue`). `CachesFit` alone is not inductive: `Store` relies on what an
  earlier step decided. `PInv` adds that (`Pending`): a response at `decide` or `set`
  answers the key of its request, at `decide` its status is 200, and at `set` on
  a dynamic route it also has a last departure, so its body is complete. It adds
  which providers have failed at each `pc` (`Tallied`) and what an answer owes its
  client once given (`Owed`). Slots do not touch one another's locals (`OneSlot`), so
  every action has a lemma about its own slot and the caches. A hit is fresh because
  `Get` compares with the expiry stored, which `CachesFit` says is the body's.
- `StaticKeepsWhatItHas`: `Spec => StaticLossIsEviction`. Static entries carry the
  zero time, so no lookup drops one, and `Set` on a coherent cache (`MakesRoom`)
  takes one key at most, and only when the cache is full.

**Compact departures** (`CompactProofs`)

- `CompactTypes`, `CompactCacheComplete` (`CachedComplete`), `CompactStatus`
  (`StatusTellsOutcome`), `CompactFreshAnswers` (`FreshAnswerFits`), from `CInv`. It says
  what the properties only presuppose: while goroutines run, each result is for the
  stop at its place and its departures rise (`LanesFit`); since `Join` the results have
  not changed, so the body waiting in `out`, and later the answer, is the one put
  together from them (`Fresh`); `set` is reached only with all boards and `fallback` only
  with none; an entry expires with its own last departure (`EntryFits`), so that a hit
  has one ahead. The lemmas in `SubsequenceProofs` say what filtering and sorting do,
  by counting: `RankOnto` from the pigeonhole principle, `AscendingUnique`, that there
  is one ascending order only.

**Both on one cache** (`ServerProofs`)

- `PromiseKept`: `Spec => KeepsPromise`, the refinement of `StaleIfError`. `PInv` and
  `CInv` speak only of entries under keys of their own kind, so the invariant `SInv` is
  the two of them without their caches, and `SharedCache`: the cache is coherent and
  every entry is as its kind of key demands. Every step of either handler has one of
  four outcomes (`Outcome`: on its way or answered without storing, answered and
  stored, served from the cache, nothing to give). `ProxyOutcome` and `CompactOutcome`
  show that; that an outcome keeps `SharedCache` (`OutcomeCache`) and is a step or a
  stutter of the promise (`OutcomePromised`) is proved once for both. `SetKeeps` is the
  crucial part: what `Set` evicts is what the promise may give up.
- `ServerTypes` (`TypeOK`) and `SharingIsSafe` (`HandlersUndisturbed`): what each
  handler keeps towards its clients it keeps on the shared cache.
- `P` and `C`, the instances in `Server`, and `PP` and `CP`, the instances of the proof
  modules, have the same definitions, but the prover takes their operators for
  different ones; the lemmas named `Same...` carry facts across.

**HAFAS boards** (`BoardsProofs`)

- `BothPathsAgree` (`PathsAgree`): row by row the two paths compute the same
  (`HafasRowOk`, `RowsAgree`), the zero time and saturating differences included, and
  they skip the same journeys (`SameJnys`); all that follows is the same function of the rows.
- `BodiesOutlastEvents` (`ExpiresAfterEvents`): an expiry is at least each effective
  time (`ExpiryOk`), the maximum of a finite set (`FiniteHasLatest`).
- `BodyExpiresWithLastRow` (`ExpiresWithLastRow`): a row that is not shown is past or
  has no time; so the latest effective time, if any row is shown, is that of a shown
  row, and the sort puts it last (`DepsArranged`).
- `DelaysAreRounded` (`DelaysRound`), from `BothPathsAgree`, `RowRounds` and the fact
  that `Sub` is exact between a realtime and its plan.
- `CompactBoardsSorted` (`SortedStably`): `StableOrderOk` shows that counting places
  yields a permutation in order; `TiesStay` that rows at one time come out as the
  journeys at that time went in, through filter and sort. Conversely `DepsArranged`
  takes every row from the row of a shown journey, so none is invented.

The invariant here, `BInv`, is small (what a board is made of); the work is in the
operators, for boards of any length.

**Lifecycle** (`LifecycleProofs`)

- `LifecycleTypes` (`TypeOK`).
- `CleanReturn`: `Spec => []CleanReturnCutsNothing`. What makes it
  inductive (`ClosedInv`) is that a nil result comes only with a listener that is no
  longer listening, so no connection can be opened after the last was seen closed.
- `SpansAreAccounted`: `Spec => []SpansAccounted`. `SpansInv` adds that nothing is
  queued where tracing is off or the flush has run, and that a span is late only after
  `run()` returned an error; that none is late after a clean return comes from `ClosedInv`.
- `NeverGivesUpInTime`: `Spec => GivesUpOnlyWhenLate`. While `Shutdown` runs no
  connection is idle (`NoneIdle`) and none is opened, so the outstanding work of a
  connection (`Outstanding`: its exchange, those it may still begin, its grace)
  never grows, and a `Tick` takes one unit from it and from the deadline alike. When
  the deadline passes all the same, every connection left is one whose client does not
  read (`Stuck`); that the code can fail that way is part of the property.
- `DeadlineSuffices`: if grace and all exchanges together are shorter than the
  deadline, `run()` never returns an error from `Shutdown`, unless a client leaves its
  answer unread when the deadline passes (`Spec /\ [](~Stuck) => ...`). The defaults do
  not meet the first condition (two exchanges of 10 s, a deadline of 10 s).

The lemmas about lists and caches are in `LRUProofs` and say nothing about
specifications, so that all modules built on `LRU` can use them.

Two of the proofs corrected the models. `Server` let an answer's list of boards be
empty, which none is; the proof of the refinement failed there (`SUBSET A \ {{}}` had
been read as `SUBSET (A \ {{}})`). And `SelectSeq` and insertion by `FoldLeft`, which
computed the same but hid it from the prover, gave way to definitions by counting.

Only model-checked: liveness (`EveryRequestAnswered`, `EndsOnceAsked`), which is out of
the prover's reach, and the five runs that expect a violation. Not proved either is
that `slices.SortStableFunc` and loops compute what `StableOrder` and `Subsequence`
define: that would be induction over data.

## Not modelled

- Metrics: counters the program writes and never reads.
- The parameters of HAFAS requests (`hafas.go`), the translation of locations,
  platforms, coordinates, IDs and remarks: fields copied one by one.
- Directions and warnings of compact departures; `duration` and `limit` are
  taken after clamping.
- Changes of summer time: `Boards` uses the fixed offset the code uses.
- The five expiry functions for nested lists (journeys, trips, reachable stops): the
  same maximum as for boards, over more lists. `Proxy` knows a body by its last
  departure, whichever function finds it.
- Flags and environment variables but those that switch tracing; resource
  attributes, sampling and contents of spans.
- Clocks that jump backwards, panics, memory limits, clients that go away before they
  are answered (to the handler: an upstream failure). Outside `Lifecycle`, clients that
  do not read their answers.
- Docker, Alloy, Grafana and `service-desc.json`: configuration of other programs.

## Plan

1. Done: all modules above, with the proofs listed.
2. Of what is left out, the expiry functions for nested lists (journeys, trips) come
   first: `ExpiryOk` is about any list of times and would carry over.
3. Lemmas that two proof modules could share: `OneSlot` of `ProxyProofs` and its
   counterpart in `CompactProofs`.
