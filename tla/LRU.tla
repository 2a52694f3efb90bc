-------------------------------- MODULE LRU --------------------------------
(***************************************************************************)
(* The in-memory cache of cache.go as a value.  A Go Cache holds a map     *)
(* from key to list node and a doubly linked list of nodes, most recently  *)
(* used first; a node carries its key and the cached entry.  Here `items'  *)
(* is the map followed through the node to its entry, and `list' is the    *)
(* linked list with every node named by the key it carries.  Get and Set   *)
(* hold c.mu from the first access to the last, so each is one step, and   *)
(* the operators below give its result and the cache it leaves behind.     *)
(*                                                                         *)
(* An entry is any record with an expiresAt field: an instant, or NoExpiry *)
(* for the zero time.Time of a static route.  Instants start at 1.         *)
(***************************************************************************)
EXTENDS SequencesExt, Integers

NoExpiry == 0

(* time.Now().After(expiresAt) is strict: an entry is live at the very     *)
(* instant it expires.                                                     *)
ExpiredWithoutZeroCheck(entry, now) == now > entry.expiresAt    \* a mutant
Expired(entry, now) == entry.expiresAt # NoExpiry /\ now > entry.expiresAt

CacheOf(cap, items, list) == [cap |-> cap, items |-> items, list |-> list]

NewCacheOfSomeSize(cap) ==                                      \* a mutant
  CacheOf(IF cap <= 0 THEN 4 ELSE cap, [k \in {} |-> NoExpiry], <<>>)
NewCache(cap) == CacheOf(cap, [k \in {} |-> NoExpiry], <<>>)

Cached(c) == DOMAIN c.items

DropFromListOnly(c, k) == CacheOf(c.cap, c.items, RemoveFirst(c.list, k))  \* a mutant

(* list.Remove and delete, always done together. *)
Drop(c, k) ==
  CacheOf(c.cap, Restrict(c.items, Cached(c) \ {k}), RemoveFirst(c.list, k))

StayInPlace(list, k) == list                                    \* a mutant
MoveToFront(list, k) == Cons(k, RemoveFirst(list, k))

-----------------------------------------------------------------------------

HitExpired(c, k, now) == c.cap > 0 /\ k \in Cached(c)            \* a mutant

(* Get reports a hit; the entry returned is then c.items[k]. *)
Hit(c, k, now) == c.cap > 0 /\ k \in Cached(c) /\ ~Expired(c.items[k], now)

AfterGetKeepingExpired(c, k, now) ==                            \* a mutant
  IF Hit(c, k, now) THEN CacheOf(c.cap, c.items, MoveToFront(c.list, k)) ELSE c

(* The cache Get leaves: an expired entry is dropped, a live one promoted. *)
AfterGet(c, k, now) ==
  IF c.cap <= 0 \/ k \notin Cached(c) THEN c
  ELSE IF Expired(c.items[k], now)    THEN Drop(c, k)
  ELSE CacheOf(c.cap, c.items, MoveToFront(c.list, k))

(* A map with k bound to entry. *)
Bind(items, k, entry) ==
  [x \in DOMAIN items \cup {k} |-> IF x = k THEN entry ELSE items[x]]

(* The room Set makes for a new key: at capacity the back of the list goes. *)
Evicted(c) == IF Len(c.list) >= c.cap THEN Drop(c, Last(c.list)) ELSE c

AfterSet(c, k, entry) ==
  IF c.cap <= 0 THEN c
  ELSE IF k \in Cached(c)
  THEN CacheOf(c.cap, Bind(c.items, k, entry), MoveToFront(c.list, k))
  ELSE LET d == Evicted(c)
       IN  CacheOf(c.cap, Bind(d.items, k, entry), Cons(k, d.list))

-----------------------------------------------------------------------------

(* The representation invariant: list and map hold the same keys, each     *)
(* once, and no more of them than the capacity allows.                     *)
Agree(c) == IsInjective(c.list) /\ ToSet(c.list) = Cached(c)

Coherent(c) == Agree(c) /\ Len(c.list) <= IF c.cap > 0 THEN c.cap ELSE 0

(* The pairs of keys of a list, the one nearer the front first. *)
NewerPairs(list) ==
  {<<list[p[1]], list[p[2]]>> :
     p \in {q \in (1 .. Len(list)) \X (1 .. Len(list)) : q[1] < q[2]}}

IsPartialMap(items, Key, Entry) ==
  DOMAIN items \subseteq Key /\ items \in [DOMAIN items -> Entry]

IsCache(c, Key, Entry, cap) ==
  /\ c = CacheOf(cap, c.items, c.list)
  /\ IsPartialMap(c.items, Key, Entry)
  /\ c.list \in Seq(Key)

=============================================================================
