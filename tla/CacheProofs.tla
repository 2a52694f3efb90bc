---------------------------- MODULE CacheProofs ----------------------------
(***************************************************************************)
(* For every set of keys, bodies and capacities: the cache keeps its shape *)
(* and its two halves agree, it implements the recency store, and it keeps *)
(* what Retention says it keeps.                                           *)
(***************************************************************************)
EXTENDS CacheHistory, LRUProofs

IInv == TypeOK /\ CoherentInv

(* NewCache is coherent whatever the flags say of its capacity. *)
LEMMA InitIInv == Init => IInv
<1> SUFFICES ASSUME Init PROVE IInv
  OBVIOUS
<1>1. PICK n \in Caps : cache = NewCache(n)
  BY DEF Init
<1> DEFINE empty == [k \in {} |-> NoExpiry]
<1>2. IsPartialMap(empty, Key, Entry) /\ DOMAIN empty = {}
  <2>1. empty \in [{} -> Entry]
    OBVIOUS
  <2> QED
    BY <2>1 DEF IsPartialMap
<1> HIDE DEF empty
<1>3. cache = CacheOf(n, empty, <<>>)
  BY <1>1 DEF NewCache, empty
<1>4. IsCache(cache, Key, Entry, n)
  <2>1. <<>> \in Seq(Key)
    OBVIOUS
  <2> QED
    BY <1>2, <1>3, <2>1, CacheOfOk
<1>5. Coherent(cache)
  <2>1. cache.list = <<>> /\ cache.items = empty /\ cache.cap = n /\ n \in Int
    BY <1>3, CacheAssumption DEF CacheOf
  <2> QED
    BY <1>2, <2>1 DEF Coherent, Agree, IsInjective, ToSet, Cached
<1>6. now \in 1 .. Horizon + 1 /\ reply \in Reply
  BY CacheAssumption DEF Init, Reply
<1> QED
  BY <1>4, <1>5, <1>6 DEF IInv, TypeOK, CoherentInv

(* Get keeps the invariant, and a hit returns an entry that was stored. *)
LEMMA GetIInv ==
  ASSUME IInv, NEW k \in Key, Get(k)
  PROVE  IInv'
<1>1. PICK n \in Caps : IsCache(cache, Key, Entry, n)
  BY DEF IInv, TypeOK
<1>2. n \in Int /\ Coherent(cache)
  BY CacheAssumption DEF IInv, CoherentInv
<1>3. IsCache(cache', Key, Entry, n) /\ Coherent(cache')
  BY <1>1, <1>2, AfterGetOk DEF Get
<1>4. reply' \in Reply
  <2>1. CASE Hit(cache, k, now)
    <3>1. k \in DOMAIN cache.items
      BY <2>1 DEF Hit, Cached
    <3>2. cache.items[k] \in Entry
      BY <1>1, <3>1 DEF IsCache, IsPartialMap
    <3> QED
      BY <2>1, <3>2 DEF Get, Reply, HitReply
  <2>2. CASE ~Hit(cache, k, now)
    BY <2>2 DEF Get, Reply, MissReply
  <2> QED
    BY <2>1, <2>2
<1> QED
  BY <1>3, <1>4 DEF IInv, TypeOK, CoherentInv, Get

(* Set keeps the invariant, with and without eviction. *)
LEMMA SetIInv ==
  ASSUME IInv, NEW k \in Key, NEW entry \in Entry, Set(k, entry)
  PROVE  IInv'
<1>1. PICK n \in Caps : IsCache(cache, Key, Entry, n)
  BY DEF IInv, TypeOK
<1>2. n \in Int /\ Coherent(cache)
  BY CacheAssumption DEF IInv, CoherentInv
<1>3. IsCache(cache', Key, Entry, n) /\ Coherent(cache')
  BY <1>1, <1>2, AfterSetOk DEF Set
<1>4. reply' \in Reply
  BY DEF Set, Reply, SetReply
<1> QED
  BY <1>3, <1>4 DEF IInv, TypeOK, CoherentInv, Set

(* So does every step: the clock does not touch the cache. *)
LEMMA StepIInv == IInv /\ [Next]_cacheVars => IInv'
<1> SUFFICES ASSUME IInv, [Next]_cacheVars PROVE IInv'
  OBVIOUS
<1>1. CASE \E k \in Key : Get(k)
  BY <1>1, GetIInv
<1>2. CASE \E k \in Key, entry \in Entry : Set(k, entry)
  BY <1>2, SetIInv
<1>3. CASE Tick
  BY <1>3, CacheAssumption DEF Tick, IInv, TypeOK, CoherentInv
<1>4. CASE UNCHANGED cacheVars
  BY <1>4 DEF cacheVars, IInv, TypeOK, CoherentInv
<1> QED
  BY <1>1, <1>2, <1>3, <1>4 DEF Next

(* The cache, the clock and the reply keep their shape through every Get   *)
(* and Set of cache.go, and list and map agree: CoherentInv is part of the *)
(* invariant because both calls reach one through the other.               *)
THEOREM CacheCoherent == Spec => [](TypeOK /\ CoherentInv)
<1>1. Spec => []IInv
  BY InitIInv, StepIInv, PTL DEF Spec
<1>2. IInv => TypeOK /\ CoherentInv
  BY DEF IInv
<1> QED
  BY <1>1, <1>2, PTL

-----------------------------------------------------------------------------

(* A new cache is an empty store. *)
LEMMA InitRefines == Init => Abs!AInit
<1> SUFFICES ASSUME Init PROVE Abs!AInit
  OBVIOUS
<1>1. PICK n \in Caps : cache = NewCache(n)
  BY DEF Init
<1>2. cache.cap = n /\ cache.items = [k \in {} |-> 0] /\ cache.list = <<>>
  BY <1>1 DEF NewCache, CacheOf, NoExpiry
<1>3. NewerPairs(cache.list) = {}
  BY <1>2 DEF NewerPairs
<1> QED
  BY <1>2, <1>3 DEF Init, NoReply, Abs!AInit

(* Get is a lookup of the store. *)
LEMMA GetRefines ==
  ASSUME IInv, NEW k \in Key, Get(k)
  PROVE  Abs!LookupHit(k) \/ Abs!LookupMiss(k)
<1>1. PICK n \in Caps : IsCache(cache, Key, Entry, n)
  BY DEF IInv, TypeOK
<1>2. /\ cache.list \in Seq(Key) /\ cache.cap = n /\ n \in Int
      /\ IsInjective(cache.list) /\ ToSet(cache.list) = Cached(cache)
      /\ Len(cache.list) <= IF n > 0 THEN n ELSE 0
  BY <1>1, CacheAssumption, IsCacheFields DEF IInv, CoherentInv, Coherent, Agree
<1>3. PICK K \in SUBSET Key : cache.items \in [K -> Entry]
  BY <1>1 DEF IsCache, IsPartialMap
<1>4. k \in Cached(cache) => cache.items[k].expiresAt \in Nat
  BY <1>3, CacheAssumption DEF Cached, Entry, NoExpiry
<1>5. now \in Nat
  BY CacheAssumption DEF IInv, TypeOK
<1>6. k \in Cached(cache) => n > 0
  BY <1>2 DEF ToSet
<1>7. Hit(cache, k, now) <=> Abs!Live(k)
  BY <1>2, <1>4, <1>5, <1>6 DEF Hit, Expired, NoExpiry, Cached, Abs!Live, Abs!Stored
<1>8. CASE Hit(cache, k, now)
  <2>1. k \in Cached(cache)
    BY <1>8 DEF Hit
  <2>2. cache' = CacheOf(n, cache.items, MoveToFront(cache.list, k))
    BY <1>2, <1>8 DEF Get, AfterGet, Hit
  <2>3. cache'.cap = cache.cap /\ cache'.items = cache.items
        /\ cache'.list = MoveToFront(cache.list, k)
    BY <1>2, <2>2 DEF CacheOf
  <2>4. NewerPairs(cache'.list) =
          {p \in NewerPairs(cache.list) : p[1] # k /\ p[2] # k}
            \cup {<<k, x>> : x \in Cached(cache) \ {k}}
    BY <1>2, <2>1, <2>3, MoveToFrontPairs
  <2>5. \A p \in NewerPairs(cache.list) : p[1] \in Cached(cache) /\ p[2] \in Cached(cache)
    BY <1>2, PairsInSet
  <2>6. NewerPairs(cache'.list) = Abs!Touch(k, Abs!Stored)
    BY <2>4, <2>5 DEF Abs!Touch, Abs!Stored, Cached
  <2>7. reply' = [op |-> "hit", key |-> k, entry |-> cache.items[k]] /\ now' = now
    BY <1>8 DEF Get, HitReply
  <2> QED
    BY <1>7, <1>8, <2>3, <2>6, <2>7 DEF Abs!LookupHit
<1>9. CASE ~Hit(cache, k, now)
  <2>1. reply' = [op |-> "miss", key |-> k] /\ now' = now
    BY <1>9 DEF Get, MissReply
  <2>2. /\ cache'.cap = cache.cap
        /\ cache'.items = [x \in Cached(cache) \ {k} |-> cache.items[x]]
        /\ NewerPairs(cache'.list) = {p \in NewerPairs(cache.list) : p[1] # k /\ p[2] # k}
    <3>1. CASE k \in Cached(cache)
      <4>1. cache' = Drop(cache, k)
        BY <1>2, <1>6, <1>9, <3>1 DEF Get, AfterGet, Hit
      <4>2. cache'.list = RemoveFirst(cache.list, k) /\ cache'.cap = cache.cap
            /\ cache'.items = [x \in Cached(cache) \ {k} |-> cache.items[x]]
        BY <4>1, DropFields
      <4> QED
        BY <1>2, <4>2, RemoveFirstPairs
    <3>2. CASE k \notin Cached(cache)
      <4>1. cache' = cache
        BY <3>2 DEF Get, AfterGet
      <4>2. cache.items = [x \in Cached(cache) \ {k} |-> cache.items[x]]
        BY <1>3, <3>2 DEF Cached
      <4>3. \A p \in NewerPairs(cache.list) : p[1] # k /\ p[2] # k
        BY <1>2, <3>2, PairsInSet
      <4> QED
        BY <4>1, <4>2, <4>3
    <3> QED
      BY <3>1, <3>2
  <2>3. NewerPairs(cache'.list) = Abs!Forget(k)
    BY <2>2 DEF Abs!Forget
  <2> QED
    BY <1>7, <1>9, <2>1, <2>2, <2>3 DEF Abs!LookupMiss, Abs!Stored, Cached
<1> QED
  BY <1>8, <1>9

(* Set is a Put, with or without a victim, or nothing at all. *)
LEMMA SetRefines ==
  ASSUME IInv, NEW k \in Key, NEW entry \in Entry, Set(k, entry)
  PROVE  \/ Abs!Put(k, entry)
         \/ \E victim \in Abs!Stored : Abs!PutEvicting(k, entry, victim)
         \/ Abs!PutDisabled(k)
<1>1. PICK n \in Caps : IsCache(cache, Key, Entry, n)
  BY DEF IInv, TypeOK
<1>2. /\ cache.list \in Seq(Key) /\ cache.cap = n /\ n \in Int
      /\ Coherent(cache) /\ Agree(cache)
      /\ IsInjective(cache.list) /\ ToSet(cache.list) = Cached(cache)
      /\ Len(cache.list) <= IF n > 0 THEN n ELSE 0
  BY <1>1, CacheAssumption, IsCacheFields DEF IInv, CoherentInv, Coherent, Agree
<1>3. reply' = [op |-> "set", key |-> k] /\ now' = now /\ cache' = AfterSet(cache, k, entry)
  BY DEF Set, SetReply
<1>4. Abs!Cardinality(Abs!Stored) = Len(cache.list) /\ Abs!Stored = Cached(cache)
  <2>1. Abs!Stored = Cached(cache)
    BY DEF Abs!Stored, Cached
  <2>2. Cardinality(Cached(cache)) = Len(cache.list)
    BY <1>2, ListCardinality
  <2>3. Abs!Cardinality(Cached(cache)) = Cardinality(Cached(cache))
    BY DEF Abs!Cardinality, Cardinality
  <2> QED
    BY <2>1, <2>2, <2>3
<1>5. \A p \in NewerPairs(cache.list) : p[1] \in Cached(cache) /\ p[2] \in Cached(cache)
  BY <1>2, PairsInSet
<1>6. CASE n <= 0
  <2>1. cache' = cache
    BY <1>2, <1>3, <1>6 DEF AfterSet
  <2> QED
    BY <1>2, <1>3, <1>6, <2>1 DEF Abs!PutDisabled
<1>7. CASE n > 0 /\ k \in Cached(cache)
  <2>1. cache' = CacheOf(n, Bind(cache.items, k, entry), MoveToFront(cache.list, k))
    BY <1>2, <1>3, <1>7 DEF AfterSet
  <2>2. cache'.cap = cache.cap /\ cache'.list = MoveToFront(cache.list, k)
        /\ cache'.items = Bind(cache.items, k, entry)
    BY <1>2, <2>1 DEF CacheOf
  <2>3. NewerPairs(cache'.list) =
          {p \in NewerPairs(cache.list) : p[1] # k /\ p[2] # k}
            \cup {<<k, x>> : x \in Cached(cache) \ {k}}
    BY <1>2, <1>7, <2>2, MoveToFrontPairs
  <2>4. NewerPairs(cache'.list) = Abs!Touch(k, Abs!Stored)
    BY <1>4, <1>5, <2>3 DEF Abs!Touch
  <2>5. cache'.items = Abs!Binding(k, entry, Abs!Stored)
    BY <2>2 DEF Bind, Abs!Binding, Abs!Stored
  <2> QED
    BY <1>2, <1>3, <1>4, <1>7, <2>2, <2>4, <2>5 DEF Abs!Put
<1>8. CASE n > 0 /\ k \notin Cached(cache)
  <2> DEFINE d == Evicted(cache)
  <2>1. IsCache(d, Key, Entry, n) /\ Agree(d) /\ Cached(d) \subseteq Cached(cache) /\ d.cap = n
    BY <1>1, <1>2, <1>8, EvictedOk
  <2>2. cache' = CacheOf(n, Bind(d.items, k, entry), Cons(k, d.list))
    BY <1>2, <1>3, <1>8, <2>1 DEF AfterSet
  <2>3. cache'.cap = cache.cap /\ cache'.list = Cons(k, d.list)
        /\ cache'.items = Bind(d.items, k, entry)
    BY <1>2, <2>2 DEF CacheOf
  <2>4. NewerPairs(cache'.list) = NewerPairs(d.list) \cup {<<k, x>> : x \in Cached(d)}
    <3>1. d.list \in Seq(Key) /\ IsInjective(d.list) /\ ToSet(d.list) = Cached(d)
      BY <2>1 DEF IsCache, Agree
    <3>2. k \notin ToSet(d.list)
      BY <1>8, <2>1, <3>1
    <3> HIDE DEF d
    <3> QED
      BY <2>3, <3>1, <3>2, ConsPairs
  <2>5. CASE Len(cache.list) < n
    <3>1. d = cache
      BY <1>2, <2>5 DEF Evicted
    <3>2. NewerPairs(cache'.list) = Abs!Touch(k, Abs!Stored)
      BY <1>4, <1>5, <1>8, <2>4, <3>1 DEF Abs!Touch
    <3>3. cache'.items = Abs!Binding(k, entry, Abs!Stored)
      BY <2>3, <3>1 DEF Bind, Abs!Binding, Abs!Stored
    <3> QED
      BY <1>2, <1>3, <1>4, <1>8, <2>3, <2>5, <3>2, <3>3 DEF Abs!Put
  <2>6. CASE Len(cache.list) = n
    <3> DEFINE v == Last(cache.list)
    <3>1. v \in Cached(cache)
      BY <1>2, <1>8, <2>6 DEF Last, ToSet
    <3>2. d = Drop(cache, v)
      BY <1>2, <2>6 DEF Evicted
    <3>3. \A x \in Cached(cache) \ {v} : <<x, v>> \in NewerPairs(cache.list)
      BY <1>2, LastIsOldest
    <3> HIDE DEF d, v
    <3>4. d.list = RemoveFirst(cache.list, v) /\ Cached(d) = Cached(cache) \ {v}
          /\ d.items = [x \in Cached(cache) \ {v} |-> cache.items[x]]
      BY <3>2, DropFields
    <3>5. NewerPairs(d.list) = {p \in NewerPairs(cache.list) : p[1] # v /\ p[2] # v}
      BY <1>2, <3>4, RemoveFirstPairs
    <3>6. NewerPairs(cache'.list) = Abs!Touch(k, Abs!Stored \ {v})
      BY <1>4, <1>5, <1>8, <2>4, <3>4, <3>5 DEF Abs!Touch
    <3>7. cache'.items = Abs!Binding(k, entry, Abs!Stored \ {v})
      BY <1>4, <2>3, <3>4 DEF Bind, Abs!Binding
    <3>8. Abs!PutEvicting(k, entry, v)
      BY <1>2, <1>3, <1>4, <1>8, <2>3, <2>6, <3>3, <3>6, <3>7 DEF Abs!PutEvicting
    <3> QED
      BY <1>4, <3>1, <3>8
  <2> QED
    BY <1>2, <1>8, <2>5, <2>6
<1> QED
  BY <1>2, <1>6, <1>7, <1>8

(* Every step of the cache is a step of the store or changes none of it. *)
LEMMA StepRefines == IInv /\ [Next]_cacheVars => [Abs!ANext]_Abs!storeVars
<1> SUFFICES ASSUME IInv, [Next]_cacheVars PROVE [Abs!ANext]_Abs!storeVars
  OBVIOUS
<1>1. ASSUME NEW k \in Key, Get(k) PROVE Abs!ANext
  BY <1>1, GetRefines DEF Abs!ANext
<1>2. ASSUME NEW k \in Key, NEW entry \in Entry, Set(k, entry) PROVE Abs!ANext
  <2>1. entry \in Abs!AbsEntry
    BY DEF Entry, NoExpiry, Abs!AbsEntry
  <2> QED
    BY <1>2, <2>1, SetRefines DEF Abs!ANext
<1>3. CASE Tick
  BY <1>3 DEF Tick, Abs!ANext, Abs!ATick
<1>4. CASE UNCHANGED cacheVars
  BY <1>4 DEF cacheVars, Abs!storeVars
<1> QED
  BY <1>1, <1>2, <1>3, <1>4 DEF Next

(* Every behaviour of the map and list of cache.go is one of the           *)
(* least-recently-used store.                                              *)
THEOREM CacheRefinesStore == Spec => ImplementsRecencyStore
<1>1. Spec => []IInv
  BY InitIInv, StepIInv, PTL DEF Spec
<1>2. QED
  BY <1>1, InitRefines, StepRefines, PTL DEF Spec, ImplementsRecencyStore, Abs!Spec

-----------------------------------------------------------------------------

HInd == HistTypeOK /\ RetentionInd

(* The histories grow, and only k's own record starts anew. *)
LEMMA UsedGrows ==
  ASSUME HInd, NEW k \in Key, Used(k)
  PROVE  /\ since' \in [Key -> SUBSET Key]
         /\ \A x \in Key : IsFiniteSet(since'[x])
         /\ \A x \in Key \ {k} : since'[x] = since[x] \cup {k}
         /\ \A x \in Key \ {k} : Cardinality(since[x]) <= Cardinality(since'[x])
<1>1. since \in [Key -> SUBSET Key] /\ \A x \in Key : IsFiniteSet(since[x])
  BY DEF HInd, HistTypeOK, RetentionInd
<1>2. since' = [x \in Key |-> IF x = k THEN {} ELSE since[x] \cup {k}]
  BY DEF Used
<1>3. since' \in [Key -> SUBSET Key] /\ \A x \in Key \ {k} : since'[x] = since[x] \cup {k}
  BY <1>1, <1>2
<1>4. ASSUME NEW x \in Key \ {k}
      PROVE  IsFiniteSet(since'[x]) /\ Cardinality(since[x]) <= Cardinality(since'[x])
  <2>1. IsFiniteSet(since[x] \cup {k})
    BY <1>1, FS_AddElement
  <2>2. Cardinality(since[x]) <= Cardinality(since[x] \cup {k})
    BY <2>1, FS_Subset
  <2> QED
    BY <1>3, <2>1, <2>2
<1>5. IsFiniteSet(since'[k])
  BY <1>2, FS_EmptySet
<1> QED
  BY <1>3, <1>4, <1>5

(* A key in use, by a hit or by Set on a key already there, moves to the   *)
(* front of the list and to an empty record.                               *)
LEMMA UseKeepsInd ==
  ASSUME HInd, NEW k \in Cached(cache), Used(k),
         kept \subseteq kept', kept' \subseteq kept \cup {k},
         cache'.list = MoveToFront(cache.list, k), Cached(cache') = Cached(cache),
         cache'.cap = cache.cap, Coherent(cache')
  PROVE  RetentionInd'
<1>1. PICK n \in Caps : IsCache(cache, Key, Entry, n)
  BY DEF HInd, HistTypeOK, TypeOK
<1>2. /\ cache.list \in Seq(Key) /\ IsInjective(cache.list)
      /\ ToSet(cache.list) = Cached(cache) /\ k \in Key
  BY <1>1 DEF IsCache, IsPartialMap, Cached, HInd, RetentionInd, Coherent, Agree
<1>3. /\ kept \subseteq Key /\ Cached(cache) \subseteq kept /\ AheadUsedSince /\ Retention
      /\ since \in [Key -> SUBSET Key]
  BY DEF HInd, HistTypeOK, RetentionInd
<1>4. /\ \A x \in Key : IsFiniteSet(since'[x])
      /\ \A x \in Key \ {k} : since'[x] = since[x] \cup {k}
      /\ \A x \in Key \ {k} : Cardinality(since[x]) <= Cardinality(since'[x])
  BY <1>2, UsedGrows
<1>5. AheadUsedSince'
  <2>1. SUFFICES ASSUME NEW p \in NewerPairs(cache'.list) PROVE p[1] \in since'[p[2]]
    BY DEF AheadUsedSince
  <2>2. p \in {q \in NewerPairs(cache.list) : q[1] # k /\ q[2] # k}
                \cup {<<k, x>> : x \in ToSet(cache.list) \ {k}}
    BY <1>2, MoveToFrontPairs
  <2>3. CASE p \in NewerPairs(cache.list) /\ p[1] # k /\ p[2] # k
    <3>1. p[1] \in since[p[2]] /\ p[2] \in Key \ {k}
      BY <1>2, <1>3, <2>3, PairsInSet DEF AheadUsedSince, ToSet
    <3> QED
      BY <1>4, <3>1
  <2>4. CASE p \in {<<k, x>> : x \in ToSet(cache.list) \ {k}}
    <3>1. PICK x \in Key \ {k} : p = <<k, x>>
      BY <1>2, <2>4 DEF ToSet
    <3> QED
      BY <1>4, <3>1
  <2> QED
    BY <2>2, <2>3, <2>4
<1>6. Retention'
  <2>1. SUFFICES ASSUME NEW x \in kept', Cardinality(since'[x]) < cache'.cap,
                        x \notin Cached(cache')
                 PROVE  FALSE
    BY DEF Retention
  <2>2. x \in kept /\ x \in Key \ {k} /\ x \notin Cached(cache)
    BY <1>3, <2>1
  <2>3. ~(Cardinality(since[x]) < cache.cap)
    BY <1>3, <2>2 DEF Retention
  <2>4. Cardinality(since[x]) \in Nat /\ Cardinality(since'[x]) \in Nat /\ cache.cap \in Int
    <3>1. IsFiniteSet(since[x]) /\ IsFiniteSet(since'[x])
      BY <1>4, <2>2 DEF HInd, RetentionInd
    <3> QED
      BY <1>1, <3>1, FS_CardinalityType, CacheAssumption, IsCacheFields
  <2> QED
    BY <1>4, <2>1, <2>2, <2>3, <2>4
<1>7. Cached(cache') \subseteq kept'
  BY <1>3
<1> QED
  BY <1>4, <1>5, <1>6, <1>7 DEF RetentionInd

(* Nothing is kept and nothing was used before the first call. *)
LEMMA InitHInd == HInit => HInd
<1> SUFFICES ASSUME HInit PROVE HInd
  OBVIOUS
<1>1. IInv
  BY InitIInv DEF HInit
<1>2. HistTypeOK
  BY <1>1 DEF HInit, HistTypeOK, IInv
<1>3. cache.list = <<>> /\ Cached(cache) = {}
  BY DEF HInit, Init, NewCache, CacheOf, Cached
<1>4. AheadUsedSince
  BY <1>3 DEF AheadUsedSince, NewerPairs
<1>5. Retention /\ \A k \in Key : IsFiniteSet(since[k])
  BY FS_EmptySet DEF HInit, Retention
<1> QED
  BY <1>1, <1>2, <1>3, <1>4, <1>5 DEF HInd, RetentionInd, IInv, CoherentInv

(* Get: a miss forgets at most an expired key, a hit is a use. *)
LEMMA GetHInd ==
  ASSUME HInd, NEW k \in Key, HGet(k)
  PROVE  HInd'
<1>1. PICK n \in Caps : IsCache(cache, Key, Entry, n)
  BY DEF HInd, HistTypeOK, TypeOK
<1>2. IInv
  BY DEF HInd, HistTypeOK, RetentionInd, IInv, CoherentInv
<1>3. IInv'
  BY <1>2, GetIInv DEF HGet
<1>4. /\ cache.list \in Seq(Key) /\ cache.cap = n /\ n \in Int
      /\ Agree(cache) /\ IsInjective(cache.list) /\ ToSet(cache.list) = Cached(cache)
      /\ Len(cache.list) <= IF n > 0 THEN n ELSE 0
  BY <1>1, CacheAssumption, IsCacheFields DEF HInd, RetentionInd, Coherent, Agree
<1>5. /\ kept \subseteq Key /\ Cached(cache) \subseteq kept /\ AheadUsedSince /\ Retention
      /\ since \in [Key -> SUBSET Key] /\ \A x \in Key : IsFiniteSet(since[x])
  BY DEF HInd, HistTypeOK, RetentionInd
<1>6. cache' = AfterGet(cache, k, now) /\ Coherent(cache')
  BY <1>3 DEF HGet, Get, IInv, CoherentInv
<1>7. CASE Hit(cache, k, now)
  <2>1. Used(k) /\ kept' = kept
    BY <1>7 DEF HGet
  <2>2. k \in Cached(cache)
    BY <1>7 DEF Hit
  <2>3. cache' = CacheOf(cache.cap, cache.items, MoveToFront(cache.list, k))
    BY <1>4, <1>6, <1>7 DEF AfterGet, Hit
  <2>4. /\ cache'.list = MoveToFront(cache.list, k)
        /\ Cached(cache') = Cached(cache) /\ cache'.cap = cache.cap
    BY <2>3 DEF CacheOf, Cached
  <2>5. RetentionInd'
    BY <1>6, <2>1, <2>2, <2>4, UseKeepsInd
  <2>6. since' \in [Key -> SUBSET Key]
    BY <2>1, UsedGrows
  <2> QED
    BY <1>3, <1>5, <2>1, <2>5, <2>6 DEF HInd, HistTypeOK, IInv
<1>8. CASE k \notin Cached(cache)
  <2>1. cache' = cache /\ kept' = kept /\ since' = since
    BY <1>6, <1>8 DEF HGet, Hit, AfterGet
  <2> QED
    BY <1>3, <1>5, <1>6, <2>1
    DEF HInd, HistTypeOK, IInv, RetentionInd, AheadUsedSince, Retention
<1>9. CASE k \in Cached(cache) /\ ~Hit(cache, k, now)
  <2>1. n > 0
    <3>1. PICK i \in 1 .. Len(cache.list) : cache.list[i] = k
      BY <1>4, <1>9 DEF ToSet
    <3> QED
      BY <1>4, <3>1
  <2>2. cache' = Drop(cache, k)
    BY <1>4, <1>6, <1>9, <2>1 DEF AfterGet, Hit
  <2>3. kept' = kept \ {k} /\ since' = since
    BY <1>9 DEF HGet
  <2>4. Cached(cache') = Cached(cache) \ {k} /\ cache'.cap = cache.cap
    BY <2>2, DropFields
  <2>5. AheadUsedSince'
    <3>1. cache'.list = RemoveFirst(cache.list, k)
      BY <2>2, DropFields
    <3>2. NewerPairs(cache'.list) \subseteq NewerPairs(cache.list)
      BY <1>4, <3>1, RemoveFirstPairs
    <3> QED
      BY <1>5, <2>3, <3>2 DEF AheadUsedSince
  <2>6. Retention'
    BY <1>5, <2>3, <2>4 DEF Retention
  <2> QED
    BY <1>3, <1>5, <1>6, <2>3, <2>4, <2>5, <2>6 DEF HInd, HistTypeOK, IInv, RetentionInd
<1> QED
  BY <1>7, <1>8, <1>9 DEF Hit

(* A key that was not there: Set pushes it to the front, and at capacity   *)
(* the last key goes, by which time cap others were used after it.         *)
LEMMA SetNewHInd ==
  ASSUME HInd, NEW k \in Key, NEW entry \in Entry, HSet(k, entry),
         cache.cap > 0, k \notin Cached(cache)
  PROVE  HInd'
<1>1. PICK n \in Caps : IsCache(cache, Key, Entry, n)
  BY DEF HInd, HistTypeOK, TypeOK
<1>2. IInv'
  BY SetIInv DEF HSet, HInd, HistTypeOK, RetentionInd, IInv, CoherentInv
<1>3. /\ cache.list \in Seq(Key) /\ cache.cap = n /\ n \in Int /\ n > 0
      /\ IsInjective(cache.list) /\ ToSet(cache.list) = Cached(cache)
      /\ Coherent(cache) /\ Agree(cache)
  BY <1>1, CacheAssumption, IsCacheFields DEF HInd, RetentionInd, Coherent, Agree
<1>4. Len(cache.list) <= n
  BY <1>3 DEF Coherent
<1>5. /\ kept \subseteq Key /\ Cached(cache) \subseteq kept /\ AheadUsedSince /\ Retention
      /\ since \in [Key -> SUBSET Key] /\ \A x \in Key : IsFiniteSet(since[x])
  BY DEF HInd, HistTypeOK, RetentionInd
<1>6. Used(k) /\ kept' = kept \cup {k}
  BY DEF HSet
<1>7. /\ since' \in [Key -> SUBSET Key]
      /\ \A x \in Key : IsFiniteSet(since'[x])
      /\ \A x \in Key \ {k} : since'[x] = since[x] \cup {k}
      /\ \A x \in Key \ {k} : Cardinality(since[x]) <= Cardinality(since'[x])
  BY <1>6, UsedGrows
<1> DEFINE d == Evicted(cache)
<1>8. /\ IsCache(d, Key, Entry, n) /\ Agree(d)
      /\ Cached(d) \subseteq Cached(cache) /\ d.cap = n
  BY <1>1, <1>3, EvictedOk
<1>9. cache' = CacheOf(n, Bind(d.items, k, entry), Cons(k, d.list))
  BY <1>3, <1>8 DEF HSet, Set, AfterSet
<1>10. /\ NewerPairs(d.list) \subseteq NewerPairs(cache.list)
       /\ \A x \in Cached(cache) \ Cached(d) : Len(cache.list) = n /\ x = Last(cache.list)
  <2>1. CASE Len(cache.list) >= n
    <3>1. d = Drop(cache, Last(cache.list))
      BY <1>3, <2>1 DEF Evicted
    <3>2. d.list = RemoveFirst(cache.list, Last(cache.list))
          /\ Cached(d) = Cached(cache) \ {Last(cache.list)}
      BY <3>1, DropFields
    <3>3. NewerPairs(d.list) \subseteq NewerPairs(cache.list)
      BY <1>3, <3>2, RemoveFirstPairs
    <3> QED
      BY <1>3, <1>4, <2>1, <3>2, <3>3
  <2>2. CASE ~(Len(cache.list) >= n)
    BY <1>3, <2>2 DEF Evicted
  <2> QED
    BY <2>1, <2>2
<1>11. d.list \in Seq(Key) /\ IsInjective(d.list) /\ ToSet(d.list) = Cached(d)
       /\ k \notin ToSet(d.list)
  BY <1>8 DEF IsCache, Agree
<1> HIDE DEF d
<1>12. /\ Cached(cache') = Cached(d) \cup {k} /\ cache'.cap = n
       /\ cache'.list = Cons(k, d.list)
  BY <1>9 DEF CacheOf, Cached, Bind
<1>13. AheadUsedSince'
  <2>1. SUFFICES ASSUME NEW p \in NewerPairs(cache'.list) PROVE p[1] \in since'[p[2]]
    BY DEF AheadUsedSince
  <2>2. p \in NewerPairs(d.list) \cup {<<k, x>> : x \in ToSet(d.list)}
    BY <1>11, <1>12, ConsPairs
  <2>3. CASE p \in NewerPairs(d.list)
    <3>1. p[1] \in since[p[2]]
      BY <1>5, <1>10, <2>3 DEF AheadUsedSince
    <3>2. p[2] \in Key \ {k}
      BY <1>11, <2>3, PairsInSet DEF ToSet
    <3> QED
      BY <1>7, <3>1, <3>2
  <2>4. CASE p \in {<<k, x>> : x \in ToSet(d.list)}
    <3>1. PICK x \in Key \ {k} : p = <<k, x>>
      BY <1>11, <2>4 DEF ToSet
    <3> QED
      BY <1>7, <3>1
  <2> QED
    BY <2>2, <2>3, <2>4
<1>14. Retention'
  <2>1. SUFFICES ASSUME NEW x \in kept', x \notin Cached(cache')
                 PROVE  Cardinality(since'[x]) >= n
    <3>1. \A x \in kept' : x \in Key
      BY <1>5, <1>6
    <3>2. \A x \in kept' : Cardinality(since'[x]) \in Nat
      BY <1>7, <3>1, FS_CardinalityType
    <3> QED
      BY <1>3, <1>12, <2>1, <3>2 DEF Retention
  <2>2. x \in kept /\ x \in Key \ {k} /\ x \notin Cached(d)
    BY <1>5, <1>6, <1>12, <2>1
  <2>3. Cardinality(since[x]) \in Nat /\ Cardinality(since'[x]) \in Nat
    BY <1>5, <1>7, <2>2, FS_CardinalityType
  <2>4. CASE x \notin Cached(cache)
    <3>1. ~(Cardinality(since[x]) < n)
      BY <1>3, <1>5, <2>2, <2>4 DEF Retention
    <3> QED
      BY <1>3, <1>7, <2>2, <2>3, <3>1
  <2>5. CASE x \in Cached(cache)
    <3>1. Len(cache.list) = n /\ x = Last(cache.list)
      BY <1>10, <2>2, <2>5
    <3>2. ToSet(cache.list) \ {x} \subseteq since[x]
      <4>1. SUFFICES ASSUME NEW y \in ToSet(cache.list) \ {x} PROVE y \in since[x]
        OBVIOUS
      <4>2. <<y, x>> \in NewerPairs(cache.list)
        BY <1>3, <3>1, LastIsOldest
      <4> QED
        BY <1>5, <4>2 DEF AheadUsedSince
    <3> DEFINE S == ToSet(cache.list) \ {x}
    <3>3. IsFiniteSet(S) /\ Cardinality(S) = n - 1
      <4>1. IsFiniteSet(ToSet(cache.list)) /\ Cardinality(ToSet(cache.list)) = n
        BY <1>3, <3>1, ListCardinality
      <4> QED
        BY <1>3, <2>5, <4>1, FS_RemoveElement
    <3>4. k \notin S /\ S \cup {k} \subseteq since'[x]
      BY <1>3, <1>7, <2>2, <3>2
    <3> HIDE DEF S
    <3>5. Cardinality(S \cup {k}) = n - 1 + 1
      BY <3>3, <3>4, FS_AddElement
    <3>6. Cardinality(S \cup {k}) <= Cardinality(since'[x])
      BY <1>7, <2>2, <3>4, FS_Subset
    <3> QED
      BY <1>3, <2>3, <3>5, <3>6
  <2> QED
    BY <2>4, <2>5
<1>15. Cached(cache') \subseteq kept' /\ kept' \subseteq Key
  BY <1>5, <1>6, <1>8, <1>12
<1> QED
  BY <1>2, <1>7, <1>13, <1>14, <1>15 DEF HInd, HistTypeOK, IInv, RetentionInd, CoherentInv

(* Set: on a key already there, on a new one, or on a disabled cache. *)
LEMMA SetHInd ==
  ASSUME HInd, NEW k \in Key, NEW entry \in Entry, HSet(k, entry)
  PROVE  HInd'
<1>1. PICK n \in Caps : IsCache(cache, Key, Entry, n)
  BY DEF HInd, HistTypeOK, TypeOK
<1>2. IInv'
  BY SetIInv DEF HSet, HInd, HistTypeOK, RetentionInd, IInv, CoherentInv
<1>3. cache.cap = n /\ n \in Int
  BY <1>1, CacheAssumption, IsCacheFields
<1>4. CASE ~(cache.cap > 0)
  <2>1. cache' = cache /\ kept' = kept /\ since' = since
    BY <1>3, <1>4 DEF HSet, Set, AfterSet
  <2> QED
    BY <1>2, <2>1 DEF HInd, HistTypeOK, IInv, RetentionInd, AheadUsedSince, Retention
<1>5. CASE cache.cap > 0 /\ k \in Cached(cache)
  <2>1. Used(k) /\ kept' = kept \cup {k}
    BY <1>5 DEF HSet
  <2>2. cache' = CacheOf(cache.cap, Bind(cache.items, k, entry), MoveToFront(cache.list, k))
    BY <1>3, <1>5 DEF HSet, Set, AfterSet
  <2>3. /\ cache'.list = MoveToFront(cache.list, k)
        /\ Cached(cache') = Cached(cache) /\ cache'.cap = cache.cap
    BY <1>5, <2>2 DEF CacheOf, Cached, Bind
  <2>4. RetentionInd'
    BY <1>2, <1>5, <2>1, <2>3, UseKeepsInd DEF IInv, CoherentInv
  <2>5. since' \in [Key -> SUBSET Key]
    BY <2>1, UsedGrows
  <2> QED
    BY <1>2, <2>1, <2>4, <2>5 DEF HInd, HistTypeOK, IInv
<1>6. CASE cache.cap > 0 /\ k \notin Cached(cache)
  BY <1>6, SetNewHInd
<1> QED
  BY <1>4, <1>5, <1>6

(* The three kinds of step together. *)
LEMMA StepHInd == HInd /\ [HNext]_histVars => HInd'
<1> SUFFICES ASSUME HInd, [HNext]_histVars PROVE HInd'
  OBVIOUS
<1>1. CASE \E k \in Key : HGet(k)
  BY <1>1, GetHInd
<1>2. CASE \E k \in Key, entry \in Entry : HSet(k, entry)
  BY <1>2, SetHInd
<1>3. CASE HTick \/ UNCHANGED histVars
  <2>1. cache' = cache /\ kept' = kept /\ since' = since
    BY <1>3 DEF HTick, Tick, histVars
  <2>2. TypeOK'
    BY <1>3, CacheAssumption DEF HTick, Tick, histVars, HInd, HistTypeOK, TypeOK
  <2> QED
    BY <2>1, <2>2 DEF HInd, HistTypeOK, RetentionInd, AheadUsedSince, Retention
<1> QED
  BY <1>1, <1>2, <1>3 DEF HNext

(* The invariant holds in every state of the cache with its history.       *)
LEMMA AlwaysHInd == HSpec => []HInd
  BY InitHInd, StepHInd, PTL DEF HSpec

(* What the callers of Get and Set did is recorded of keys that may be     *)
(* asked for, and the cache under that record keeps its shape.             *)
THEOREM HistoryTypes == HSpec => []HistTypeOK
<1>1. HInd => HistTypeOK
  BY DEF HInd
<1> QED
  BY <1>1, AlwaysHInd, PTL

(* Through every interleaving of Get and Set, for every capacity, an entry *)
(* stored and not found expired is lost only after cap other keys were     *)
(* used: the eviction of cache.go is least-recently-used.                  *)
THEOREM RetentionHolds == HSpec => []Retention
<1>1. HInd => Retention
  BY DEF HInd, RetentionInd
<1> QED
  BY <1>1, AlwaysHInd, PTL

=============================================================================
