----------------------------- MODULE LRUProofs -----------------------------
(***************************************************************************)
(* What the list operations of LRU do to a list that holds every key at    *)
(* most once, and that the cache operations keep a cache coherent.         *)
(***************************************************************************)
EXTENDS LRU, FiniteSetTheorems, SequenceTheorems, TLAPS

(* list.Remove on the node at place n closes the gap and nothing else. *)
LEMMA RemoveFirstAt ==
  ASSUME NEW T, NEW s \in Seq(T), IsInjective(s), NEW n \in 1 .. Len(s)
  PROVE  /\ RemoveFirst(s, s[n]) \in Seq(T)
         /\ Len(RemoveFirst(s, s[n])) = Len(s) - 1
         /\ \A i \in 1 .. Len(s) - 1 :
              RemoveFirst(s, s[n])[i] = IF i < n THEN s[i] ELSE s[i + 1]
<1>1. {i \in 1 .. Len(s) : s[i] = s[n]} = {n}
  BY DEF IsInjective
<1>2. Min({n}) = n
  BY DEF Min
<1>3. SelectInSeq(s, LAMBDA v : v = s[n]) = n
  BY <1>1, <1>2 DEF SelectInSeq
<1>4. RemoveFirst(s, s[n]) = SubSeq(s, 1, n - 1) \o SubSeq(s, n + 1, Len(s))
  BY <1>3 DEF RemoveFirst, RemoveAt
<1> DEFINE a == SubSeq(s, 1, n - 1)
           b == SubSeq(s, n + 1, Len(s))
<1>5. a \in Seq(T) /\ Len(a) = n - 1 /\ \A i \in 1 .. n - 1 : a[i] = s[i]
  OBVIOUS
<1>6. b \in Seq(T) /\ Len(b) = Len(s) - n /\ \A i \in 1 .. Len(s) - n : b[i] = s[n + i]
  OBVIOUS
<1> HIDE DEF a, b
<1>7. /\ a \o b \in Seq(T)
      /\ Len(a \o b) = Len(a) + Len(b)
      /\ \A i \in 1 .. Len(a) + Len(b) :
           (a \o b)[i] = IF i <= Len(a) THEN a[i] ELSE b[i - Len(a)]
  BY <1>5, <1>6, ConcatProperties
<1>8. Len(s) \in Nat /\ n - 1 + (Len(s) - n) = Len(s) - 1
  OBVIOUS
<1>9. ASSUME NEW i \in 1 .. Len(s) - 1
      PROVE  (a \o b)[i] = IF i < n THEN s[i] ELSE s[i + 1]
  <2>1. (a \o b)[i] = IF i <= n - 1 THEN a[i] ELSE b[i - (n - 1)]
    BY <1>5, <1>6, <1>7, <1>8
  <2>2. CASE i < n
    BY <1>5, <1>8, <2>1, <2>2
  <2>3. CASE i >= n
    <3>1. i - (n - 1) \in 1 .. Len(s) - n /\ n + (i - (n - 1)) = i + 1
      BY <1>8, <2>3
    <3>2. b[i - (n - 1)] = s[i + 1]
      BY <1>6, <3>1
    <3> QED
      BY <1>8, <2>1, <2>3, <3>2
  <2>4. i < n \/ i >= n
    BY <1>8
  <2> QED
    BY <2>2, <2>3, <2>4
<1>10. RemoveFirst(s, s[n]) = a \o b
  BY <1>4 DEF a, b
<1>11. Len(a \o b) = Len(s) - 1
  BY <1>5, <1>6, <1>7, <1>8
<1> QED
  BY <1>7, <1>9, <1>10, <1>11

(* A list without e is left alone. *)
LEMMA RemoveFirstAbsent ==
  ASSUME NEW T, NEW s \in Seq(T), NEW e, e \notin ToSet(s)
  PROVE  RemoveFirst(s, e) = s
BY DEF RemoveFirst, ToSet

(* Removal keeps a list free of duplicates and takes out just that key. *)
LEMMA RemoveFirstSet ==
  ASSUME NEW T, NEW s \in Seq(T), IsInjective(s), NEW e
  PROVE  /\ RemoveFirst(s, e) \in Seq(T)
         /\ IsInjective(RemoveFirst(s, e))
         /\ ToSet(RemoveFirst(s, e)) = ToSet(s) \ {e}
         /\ Len(RemoveFirst(s, e)) = IF e \in ToSet(s) THEN Len(s) - 1 ELSE Len(s)
<1> DEFINE r == RemoveFirst(s, e)
<1>1. CASE e \in ToSet(s)
  <2>1. PICK n \in 1 .. Len(s) : s[n] = e
    BY <1>1 DEF ToSet
  <2>2. /\ r \in Seq(T)
        /\ Len(r) = Len(s) - 1
        /\ \A i \in 1 .. Len(s) - 1 : r[i] = IF i < n THEN s[i] ELSE s[i + 1]
    BY <2>1, RemoveFirstAt
  <2> HIDE DEF r
  <2>3. DOMAIN r = 1 .. Len(s) - 1 /\ DOMAIN s = 1 .. Len(s) /\ Len(s) \in Nat
    BY <2>2
  <2>4. IsInjective(r)
    BY <2>2, <2>3 DEF IsInjective
  <2>5. ToSet(r) \subseteq ToSet(s) \ {e}
    BY <2>1, <2>2, <2>3 DEF ToSet, IsInjective
  <2>6. ASSUME NEW x \in ToSet(s) \ {e} PROVE x \in ToSet(r)
    <3>1. PICK m \in 1 .. Len(s) : s[m] = x
      BY <2>3 DEF ToSet
    <3>2. CASE m < n
      <4>1. m \in DOMAIN r /\ r[m] = x
        BY <2>1, <2>2, <2>3, <3>1, <3>2
      <4> QED
        BY <4>1 DEF ToSet
    <3>3. CASE m > n
      <4>1. m - 1 \in DOMAIN r /\ r[m - 1] = x
        BY <2>1, <2>2, <2>3, <3>1, <3>3
      <4> QED
        BY <4>1 DEF ToSet
    <3> QED
      BY <2>1, <3>1, <3>2, <3>3
  <2> QED
    BY <1>1, <2>2, <2>4, <2>5, <2>6 DEF r
<1>2. CASE e \notin ToSet(s)
  BY <1>2, RemoveFirstAbsent
<1> QED
  BY <1>1, <1>2

(* list.PushFront of a key the list does not hold. *)
LEMMA ConsSet ==
  ASSUME NEW T, NEW s \in Seq(T), IsInjective(s), NEW e \in T, e \notin ToSet(s)
  PROVE  /\ Cons(e, s) \in Seq(T)
         /\ IsInjective(Cons(e, s))
         /\ ToSet(Cons(e, s)) = ToSet(s) \cup {e}
         /\ Len(Cons(e, s)) = Len(s) + 1
         /\ Cons(e, s)[1] = e
         /\ \A i \in 1 .. Len(s) : Cons(e, s)[i + 1] = s[i]
<1> DEFINE c == Cons(e, s)
<1>1. /\ c \in Seq(T)
      /\ Len(c) = Len(s) + 1
      /\ \A i \in 1 .. Len(c) : c[i] = IF i = 1 THEN e ELSE s[i - 1]
  BY DEF Cons
<1> HIDE DEF c
<1>2. DOMAIN c = 1 .. Len(s) + 1 /\ DOMAIN s = 1 .. Len(s) /\ Len(s) \in Nat
  BY <1>1
<1>3. IsInjective(c)
  <2>1. SUFFICES ASSUME NEW a \in 1 .. Len(s) + 1, NEW b \in 1 .. Len(s) + 1,
                        c[a] = c[b]
                 PROVE  a = b
    BY <1>2 DEF IsInjective
  <2>2. \A i \in 2 .. Len(s) + 1 : i - 1 \in DOMAIN s /\ c[i] = s[i - 1] /\ c[i] # e
    BY <1>1, <1>2 DEF ToSet
  <2>3. c[1] = e
    BY <1>1, <1>2
  <2>4. a = 1 <=> b = 1
    BY <1>2, <2>1, <2>2, <2>3
  <2>5. CASE a # 1
    BY <1>2, <2>1, <2>2, <2>4, <2>5 DEF IsInjective
  <2> QED
    BY <2>4, <2>5
<1>4. c[1] = e /\ \A i \in 1 .. Len(s) : c[i + 1] = s[i]
  BY <1>1, <1>2
<1>5. ToSet(c) \subseteq ToSet(s) \cup {e}
  BY <1>1, <1>2 DEF ToSet
<1>6. e \in ToSet(c)
  BY <1>2, <1>4 DEF ToSet
<1>7. ASSUME NEW x \in ToSet(s) PROVE x \in ToSet(c)
  <2>1. PICK i \in 1 .. Len(s) : s[i] = x
    BY <1>2 DEF ToSet
  <2>2. i + 1 \in DOMAIN c /\ c[i + 1] = x
    BY <1>2, <1>4, <2>1
  <2> QED
    BY <2>2 DEF ToSet
<1> QED
  BY <1>1, <1>3, <1>4, <1>5, <1>6, <1>7 DEF c

(* A list without duplicates has as many keys as nodes. *)
LEMMA ListCardinality ==
  ASSUME NEW T, NEW s \in Seq(T), IsInjective(s)
  PROVE  IsFiniteSet(ToSet(s)) /\ Cardinality(ToSet(s)) = Len(s)
<1>1. Len(s) \in Nat /\ DOMAIN s = 1 .. Len(s) /\ s \in [1 .. Len(s) -> T]
  OBVIOUS
<1>2. IsFiniteSet(1 .. Len(s)) /\ Cardinality(1 .. Len(s)) = Len(s)
  BY <1>1, FS_Interval
<1>3. s \in Bijection(1 .. Len(s), ToSet(s))
  <2>1. s \in [1 .. Len(s) -> ToSet(s)]
    BY <1>1 DEF ToSet
  <2>2. \A t \in ToSet(s) : \E i \in 1 .. Len(s) : s[i] = t
    BY <1>1 DEF ToSet
  <2> QED
    BY <2>1, <2>2 DEF Bijection, Injection, Surjection
<1>4. ExistsBijection(1 .. Len(s), ToSet(s))
  BY <1>3 DEF ExistsBijection
<1> QED
  BY <1>2, <1>4, FS_Bijection

(* Membership in NewerPairs, by places. *)
LEMMA PairPlaces ==
  ASSUME NEW T, NEW s \in Seq(T)
  PROVE  /\ \A i, j \in 1 .. Len(s) : i < j => <<s[i], s[j]>> \in NewerPairs(s)
         /\ \A x \in NewerPairs(s) :
              \E i, j \in 1 .. Len(s) : i < j /\ x = <<s[i], s[j]>>
<1>1. ASSUME NEW i \in 1 .. Len(s), NEW j \in 1 .. Len(s), i < j
      PROVE  <<s[i], s[j]>> \in NewerPairs(s)
  <2>1. <<i, j>> \in {q \in (1 .. Len(s)) \X (1 .. Len(s)) : q[1] < q[2]}
    BY <1>1
  <2> QED
    BY <2>1 DEF NewerPairs
<1>2. ASSUME NEW x \in NewerPairs(s)
      PROVE  \E i, j \in 1 .. Len(s) : i < j /\ x = <<s[i], s[j]>>
  BY DEF NewerPairs
<1> QED
  BY <1>1, <1>2

(* Pairs name keys of the list. *)
LEMMA PairsInSet ==
  ASSUME NEW T, NEW s \in Seq(T), NEW x \in NewerPairs(s)
  PROVE  x = <<x[1], x[2]>> /\ x[1] \in ToSet(s) /\ x[2] \in ToSet(s)
BY PairPlaces DEF ToSet

(* Removing a key leaves the order of the others as it was. *)
LEMMA RemoveFirstPairs ==
  ASSUME NEW T, NEW s \in Seq(T), IsInjective(s), NEW e
  PROVE  NewerPairs(RemoveFirst(s, e)) = {p \in NewerPairs(s) : p[1] # e /\ p[2] # e}
<1> DEFINE r == RemoveFirst(s, e)
<1>1. CASE e \notin ToSet(s)
  BY <1>1, RemoveFirstAbsent, PairsInSet
<1>2. CASE e \in ToSet(s)
  <2>1. PICK n \in 1 .. Len(s) : s[n] = e
    BY <1>2 DEF ToSet
  <2>2. /\ r \in Seq(T)
        /\ Len(r) = Len(s) - 1
        /\ \A i \in 1 .. Len(s) - 1 : r[i] = IF i < n THEN s[i] ELSE s[i + 1]
    BY <2>1, RemoveFirstAt
  <2>3. Len(s) \in Nat /\ \A i \in 1 .. Len(s) : s[i] = e => i = n
    BY <2>1 DEF IsInjective
  <2> HIDE DEF r
  <2>4. ASSUME NEW p \in NewerPairs(r)
        PROVE  p \in NewerPairs(s) /\ p[1] # e /\ p[2] # e
    <3>1. PICK i, j \in 1 .. Len(r) : i < j /\ p = <<r[i], r[j]>>
      BY <2>2, PairPlaces
    <3>2. PICK a, b \in 1 .. Len(s) : a < b /\ a # n /\ b # n /\ r[i] = s[a] /\ r[j] = s[b]
      <4> DEFINE a == IF i < n THEN i ELSE i + 1
                 b == IF j < n THEN j ELSE j + 1
      <4>1. a \in 1 .. Len(s) /\ b \in 1 .. Len(s) /\ a < b /\ a # n /\ b # n
        BY <2>2, <2>3, <3>1
      <4>2. r[i] = s[a] /\ r[j] = s[b]
        BY <2>2, <3>1
      <4> QED
        BY <4>1, <4>2
    <3> QED
      BY <2>3, <3>1, <3>2, PairPlaces
  <2>5. ASSUME NEW p \in NewerPairs(s), p[1] # e, p[2] # e
        PROVE  p \in NewerPairs(r)
    <3>1. PICK a, b \in 1 .. Len(s) : a < b /\ p = <<s[a], s[b]>>
      BY PairPlaces
    <3>2. a # n /\ b # n
      BY <2>1, <2>5, <3>1
    <3>3. PICK i, j \in 1 .. Len(r) : i < j /\ r[i] = s[a] /\ r[j] = s[b]
      <4> DEFINE i == IF a < n THEN a ELSE a - 1
                 j == IF b < n THEN b ELSE b - 1
      <4>1. i \in 1 .. Len(s) - 1 /\ j \in 1 .. Len(s) - 1 /\ i < j
        BY <2>3, <3>1, <3>2
      <4>2. (IF i < n THEN i ELSE i + 1) = a /\ (IF j < n THEN j ELSE j + 1) = b
        BY <3>1, <3>2
      <4>3. r[i] = s[a] /\ r[j] = s[b]
        BY <2>2, <4>1, <4>2
      <4> QED
        BY <2>2, <4>1, <4>3
    <3> QED
      BY <2>2, <3>1, <3>3, PairPlaces
  <2> QED
    BY <2>4, <2>5 DEF r
<1> QED
  BY <1>1, <1>2

(* A key pushed to the front is newer than all others. *)
LEMMA ConsPairs ==
  ASSUME NEW T, NEW s \in Seq(T), IsInjective(s), NEW e \in T, e \notin ToSet(s)
  PROVE  NewerPairs(Cons(e, s)) = NewerPairs(s) \cup {<<e, x>> : x \in ToSet(s)}
<1> DEFINE c == Cons(e, s)
<1>1. /\ c \in Seq(T) /\ Len(c) = Len(s) + 1 /\ c[1] = e
      /\ \A i \in 1 .. Len(s) : c[i + 1] = s[i]
  BY ConsSet
<1>2. Len(s) \in Nat /\ DOMAIN s = 1 .. Len(s)
  OBVIOUS
<1> HIDE DEF c
<1>3. ASSUME NEW p \in NewerPairs(c)
      PROVE  p \in NewerPairs(s) \cup {<<e, x>> : x \in ToSet(s)}
  <2>1. PICK i, j \in 1 .. Len(c) : i < j /\ p = <<c[i], c[j]>>
    BY <1>1, PairPlaces
  <2>2. j - 1 \in 1 .. Len(s) /\ c[j] = s[j - 1]
    BY <1>1, <1>2, <2>1
  <2>3. CASE i = 1
    <3>1. p = <<e, s[j - 1]>>
      BY <1>1, <2>1, <2>2, <2>3
    <3>2. s[j - 1] \in ToSet(s)
      BY <1>2, <2>2 DEF ToSet
    <3> QED
      BY <3>1, <3>2
  <2>4. CASE i # 1
    <3>1. i - 1 \in 1 .. Len(s) /\ c[i] = s[i - 1] /\ i - 1 < j - 1
      BY <1>1, <1>2, <2>1, <2>4
    <3> QED
      BY <2>1, <2>2, <3>1, PairPlaces
  <2> QED
    BY <2>3, <2>4
<1>4. ASSUME NEW p \in NewerPairs(s) PROVE p \in NewerPairs(c)
  <2>1. PICK i, j \in 1 .. Len(s) : i < j /\ p = <<s[i], s[j]>>
    BY PairPlaces
  <2>2. /\ i + 1 \in 1 .. Len(c) /\ j + 1 \in 1 .. Len(c) /\ i + 1 < j + 1
        /\ p = <<c[i + 1], c[j + 1]>>
    BY <1>1, <1>2, <2>1
  <2> QED
    BY <1>1, <2>2, PairPlaces
<1>5. ASSUME NEW x \in ToSet(s) PROVE <<e, x>> \in NewerPairs(c)
  <2>1. PICK i \in 1 .. Len(s) : s[i] = x
    BY <1>2 DEF ToSet
  <2>2. /\ 1 \in 1 .. Len(c) /\ i + 1 \in 1 .. Len(c) /\ 1 < i + 1
        /\ c[1] = e /\ c[i + 1] = x
    BY <1>1, <1>2, <2>1
  <2> QED
    BY <1>1, <2>2, PairPlaces
<1> QED
  BY <1>3, <1>4, <1>5 DEF c

(* Moving a key to the front makes it newer than all others, which keep    *)
(* their order.                                                            *)
LEMMA MoveToFrontPairs ==
  ASSUME NEW T, NEW s \in Seq(T), IsInjective(s), NEW k \in ToSet(s)
  PROVE  NewerPairs(MoveToFront(s, k)) =
           {p \in NewerPairs(s) : p[1] # k /\ p[2] # k}
             \cup {<<k, x>> : x \in ToSet(s) \ {k}}
<1>1. k \in T
  BY DEF ToSet
<1>2. /\ RemoveFirst(s, k) \in Seq(T) /\ IsInjective(RemoveFirst(s, k))
      /\ ToSet(RemoveFirst(s, k)) = ToSet(s) \ {k}
  BY RemoveFirstSet
<1>3. NewerPairs(Cons(k, RemoveFirst(s, k))) =
        NewerPairs(RemoveFirst(s, k)) \cup {<<k, x>> : x \in ToSet(s) \ {k}}
  BY <1>1, <1>2, ConsPairs
<1> QED
  BY <1>3, RemoveFirstPairs DEF MoveToFront

(* Every other key is newer than the last one. *)
LEMMA LastIsOldest ==
  ASSUME NEW T, NEW s \in Seq(T), IsInjective(s), NEW x \in ToSet(s) \ {Last(s)}
  PROVE  <<x, Last(s)>> \in NewerPairs(s)
<1>1. PICK i \in 1 .. Len(s) : s[i] = x
  BY DEF ToSet
<1>2. Len(s) \in 1 .. Len(s) /\ i < Len(s)
  BY <1>1 DEF Last
<1> QED
  BY <1>1, <1>2, PairPlaces DEF Last

-----------------------------------------------------------------------------

(* Taking a cache apart. *)
LEMMA IsCacheFields ==
  ASSUME NEW Key, NEW Entry, NEW cap, NEW c, IsCache(c, Key, Entry, cap)
  PROVE  /\ c.cap = cap
         /\ c.list \in Seq(Key)
         /\ IsPartialMap(c.items, Key, Entry)
BY DEF IsCache, CacheOf

(* Assembling the three fields. *)
LEMMA CacheOfOk ==
  ASSUME NEW Key, NEW Entry, NEW cap, NEW list \in Seq(Key),
         NEW items, IsPartialMap(items, Key, Entry)
  PROVE  IsCache(CacheOf(cap, items, list), Key, Entry, cap)
BY DEF IsCache, CacheOf

(* Binding a key in the map. *)
LEMMA BindOk ==
  ASSUME NEW Key, NEW Entry, NEW items, IsPartialMap(items, Key, Entry),
         NEW k \in Key, NEW entry \in Entry
  PROVE  IsPartialMap(Bind(items, k, entry), Key, Entry)
BY DEF IsPartialMap, Bind

(* What Drop leaves in each field. *)
LEMMA DropFields ==
  ASSUME NEW c, NEW k
  PROVE  /\ Drop(c, k).cap = c.cap
         /\ Drop(c, k).items = [x \in Cached(c) \ {k} |-> c.items[x]]
         /\ Drop(c, k).list = RemoveFirst(c.list, k)
         /\ Cached(Drop(c, k)) = Cached(c) \ {k}
BY DEF Drop, CacheOf, Restrict, Cached

(* Dropping a key takes it out of the list and of the map. *)
LEMMA DropOk ==
  ASSUME NEW Key, NEW Entry, NEW cap, NEW c, IsCache(c, Key, Entry, cap),
         Agree(c), NEW k
  PROVE  IsCache(Drop(c, k), Key, Entry, cap) /\ Agree(Drop(c, k))
<1>1. DOMAIN c.items \subseteq Key /\ c.items \in [DOMAIN c.items -> Entry]
  BY DEF IsCache, IsPartialMap
<1>2. c.list \in Seq(Key) /\ c.cap = cap
  BY IsCacheFields
<1>3. [x \in Cached(c) \ {k} |-> c.items[x]] \in [Cached(c) \ {k} -> Entry]
  BY <1>1 DEF Cached
<1>4. Cached(c) \ {k} \in SUBSET Key
  BY <1>1 DEF Cached
<1>5. /\ RemoveFirst(c.list, k) \in Seq(Key)
      /\ IsInjective(RemoveFirst(c.list, k))
      /\ ToSet(RemoveFirst(c.list, k)) = Cached(c) \ {k}
  BY <1>2, RemoveFirstSet DEF Agree
<1>6. IsPartialMap([x \in Cached(c) \ {k} |-> c.items[x]], Key, Entry)
  BY <1>3, <1>4 DEF IsPartialMap
<1>7. Drop(c, k) = CacheOf(cap, [x \in Cached(c) \ {k} |-> c.items[x]], RemoveFirst(c.list, k))
  BY <1>2 DEF Drop, Restrict
<1>8. IsCache(Drop(c, k), Key, Entry, cap)
  BY <1>5, <1>6, <1>7, CacheOfOk
<1>9. Agree(Drop(c, k))
  BY <1>5, DropFields DEF Agree
<1> QED
  BY <1>8, <1>9

(* It shortens the list by one when the key was there. *)
LEMMA DropLen ==
  ASSUME NEW Key, NEW Entry, NEW cap, NEW c, IsCache(c, Key, Entry, cap),
         Agree(c), NEW k \in Cached(c)
  PROVE  Len(Drop(c, k).list) = Len(c.list) - 1
<1>1. c.list \in Seq(Key) /\ IsInjective(c.list) /\ k \in ToSet(c.list)
  BY DEF IsCache, Agree
<1>2. Len(RemoveFirst(c.list, k)) = Len(c.list) - 1
  BY <1>1, RemoveFirstSet
<1> QED
  BY <1>2, DropFields

(* Moving a key to the front keeps the keys of the list. *)
LEMMA MoveToFrontOk ==
  ASSUME NEW T, NEW s \in Seq(T), IsInjective(s), NEW k \in ToSet(s)
  PROVE  /\ MoveToFront(s, k) \in Seq(T)
         /\ IsInjective(MoveToFront(s, k))
         /\ ToSet(MoveToFront(s, k)) = ToSet(s)
         /\ Len(MoveToFront(s, k)) = Len(s)
<1>1. k \in T
  BY DEF ToSet
<1>2. /\ RemoveFirst(s, k) \in Seq(T)
      /\ IsInjective(RemoveFirst(s, k))
      /\ ToSet(RemoveFirst(s, k)) = ToSet(s) \ {k}
      /\ Len(RemoveFirst(s, k)) = Len(s) - 1
  BY RemoveFirstSet
<1>3. /\ MoveToFront(s, k) \in Seq(T)
      /\ IsInjective(MoveToFront(s, k))
      /\ ToSet(MoveToFront(s, k)) = (ToSet(s) \ {k}) \cup {k}
      /\ Len(MoveToFront(s, k)) = Len(s) - 1 + 1
  BY <1>1, <1>2, ConsSet DEF MoveToFront
<1> QED
  BY <1>3

(* Get, whether it misses, drops an expired entry or promotes a live one, *)
(* leaves a coherent cache.                                               *)
LEMMA AfterGetOk ==
  ASSUME NEW Key, NEW Entry, NEW cap \in Int, NEW c, IsCache(c, Key, Entry, cap),
         Coherent(c), NEW k, NEW now
  PROVE  IsCache(AfterGet(c, k, now), Key, Entry, cap) /\ Coherent(AfterGet(c, k, now))
<1>1. c.list \in Seq(Key) /\ c.cap = cap /\ IsPartialMap(c.items, Key, Entry)
  BY IsCacheFields
<1>2. Agree(c) /\ Len(c.list) <= IF cap > 0 THEN cap ELSE 0
  BY <1>1 DEF Coherent
<1>3. CASE AfterGet(c, k, now) = c
  BY <1>3
<1>4. CASE k \in Cached(c) /\ AfterGet(c, k, now) = Drop(c, k)
  <2>1. IsCache(Drop(c, k), Key, Entry, cap) /\ Agree(Drop(c, k))
    BY <1>2, DropOk
  <2>2. Drop(c, k).cap = cap
    BY <1>1, DropFields
  <2>4. Len(Drop(c, k).list) = Len(c.list) - 1
    BY <1>2, <1>4, DropLen
  <2>3. Len(Drop(c, k).list) <= IF cap > 0 THEN cap ELSE 0
    BY <1>1, <1>2, <2>4
  <2> QED
    BY <1>4, <2>1, <2>2, <2>3 DEF Coherent
<1>5. CASE /\ k \in Cached(c)
           /\ AfterGet(c, k, now) = CacheOf(c.cap, c.items, MoveToFront(c.list, k))
  <2> DEFINE l == MoveToFront(c.list, k)
  <2>1. /\ l \in Seq(Key) /\ IsInjective(l)
        /\ ToSet(l) = Cached(c) /\ Len(l) = Len(c.list)
    BY <1>1, <1>2, <1>5, MoveToFrontOk DEF Agree
  <2> HIDE DEF l
  <2>2. IsCache(CacheOf(cap, c.items, l), Key, Entry, cap)
    BY <1>1, <2>1, CacheOfOk
  <2>3. Coherent(CacheOf(cap, c.items, l))
    BY <1>2, <2>1 DEF Coherent, Agree, CacheOf, Cached
  <2> QED
    BY <1>1, <1>5, <2>2, <2>3 DEF l
<1> QED
  BY <1>3, <1>4, <1>5 DEF AfterGet

(* Eviction makes room for one more key by giving up at most the last one. *)
LEMMA EvictedOk ==
  ASSUME NEW Key, NEW Entry, NEW cap \in Int, cap > 0, NEW c, IsCache(c, Key, Entry, cap),
         Coherent(c)
  PROVE  /\ IsCache(Evicted(c), Key, Entry, cap)
         /\ Agree(Evicted(c))
         /\ Cached(Evicted(c)) \subseteq Cached(c)
         /\ Len(Evicted(c).list) < cap
         /\ Evicted(c).cap = cap
<1>1. c.list \in Seq(Key) /\ c.cap = cap
  BY IsCacheFields
<1>2. Agree(c) /\ Len(c.list) <= cap
  BY <1>1 DEF Coherent
<1>3. CASE Len(c.list) >= cap
  <2> DEFINE last == Last(c.list)
  <2>1. last \in Cached(c)
    BY <1>1, <1>2, <1>3 DEF Last, ToSet, Agree
  <2>2. Evicted(c) = Drop(c, last)
    BY <1>1, <1>3 DEF Evicted
  <2> HIDE DEF last
  <2>3. IsCache(Drop(c, last), Key, Entry, cap) /\ Agree(Drop(c, last))
    BY <1>2, DropOk
  <2>4. Len(Drop(c, last).list) = Len(c.list) - 1
    BY <1>2, <2>1, DropLen
  <2>5. Drop(c, last).cap = cap /\ Cached(Drop(c, last)) = Cached(c) \ {last}
    BY <1>1, DropFields
  <2>6. Len(c.list) - 1 < cap
    BY <1>1, <1>2
  <2> QED
    BY <2>2, <2>3, <2>4, <2>5, <2>6
<1>4. CASE ~(Len(c.list) >= cap)
  <2>1. Evicted(c) = c
    BY <1>1, <1>4 DEF Evicted
  <2>2. Len(c.list) < cap
    BY <1>1, <1>4
  <2> QED
    BY <1>1, <1>2, <2>1, <2>2
<1> QED
  BY <1>3, <1>4

(* Set, whether it replaces an entry or makes room for a new key, leaves a *)
(* coherent cache.                                                         *)
LEMMA AfterSetOk ==
  ASSUME NEW Key, NEW Entry, NEW cap \in Int, NEW c, IsCache(c, Key, Entry, cap),
         Coherent(c), NEW k \in Key, NEW entry \in Entry
  PROVE  IsCache(AfterSet(c, k, entry), Key, Entry, cap) /\ Coherent(AfterSet(c, k, entry))
<1>1. c.list \in Seq(Key) /\ c.cap = cap /\ IsPartialMap(c.items, Key, Entry)
  BY IsCacheFields
<1>2. Agree(c) /\ Len(c.list) <= IF cap > 0 THEN cap ELSE 0
  BY <1>1 DEF Coherent
<1>3. CASE cap <= 0
  BY <1>1, <1>3 DEF AfterSet
<1>4. CASE cap > 0 /\ k \in Cached(c)
  <2> DEFINE l == MoveToFront(c.list, k)
             m == Bind(c.items, k, entry)
  <2>1. /\ l \in Seq(Key) /\ IsInjective(l)
        /\ ToSet(l) = Cached(c) /\ Len(l) = Len(c.list)
    BY <1>1, <1>2, <1>4, MoveToFrontOk DEF Agree
  <2>2. IsPartialMap(m, Key, Entry)
    BY <1>1, BindOk
  <2>6. DOMAIN m = Cached(c) \cup {k}
    BY DEF Bind, Cached
  <2>3. AfterSet(c, k, entry) = CacheOf(cap, m, l)
    BY <1>1, <1>4 DEF AfterSet
  <2> HIDE DEF l, m
  <2>4. IsCache(CacheOf(cap, m, l), Key, Entry, cap)
    BY <2>1, <2>2, CacheOfOk
  <2>5. Coherent(CacheOf(cap, m, l))
    BY <1>2, <1>4, <2>1, <2>6 DEF Coherent, Agree, CacheOf, Cached
  <2> QED
    BY <2>3, <2>4, <2>5
<1>5. CASE cap > 0 /\ k \notin Cached(c)
  <2> DEFINE d == Evicted(c)
             l == Cons(k, d.list)
             m == Bind(d.items, k, entry)
  <2>1. /\ IsCache(d, Key, Entry, cap)
        /\ Agree(d)
        /\ Cached(d) \subseteq Cached(c)
        /\ Len(d.list) < cap
        /\ d.cap = cap
    BY <1>5, EvictedOk
  <2>2. AfterSet(c, k, entry) = CacheOf(cap, m, l)
    BY <1>1, <1>5, <2>1 DEF AfterSet
  <2> HIDE DEF d
  <2>3. d.list \in Seq(Key) /\ IsPartialMap(d.items, Key, Entry)
    BY <2>1 DEF IsCache
  <2>4. /\ l \in Seq(Key) /\ IsInjective(l)
        /\ ToSet(l) = Cached(d) \cup {k} /\ Len(l) = Len(d.list) + 1
    BY <1>5, <2>1, <2>3, ConsSet DEF Agree
  <2>5. IsPartialMap(m, Key, Entry)
    BY <2>3, BindOk
  <2>9. DOMAIN m = Cached(d) \cup {k}
    BY DEF Bind, Cached
  <2> HIDE DEF l, m
  <2>6. IsCache(CacheOf(cap, m, l), Key, Entry, cap)
    BY <2>4, <2>5, CacheOfOk
  <2>7. Len(l) <= cap
    BY <2>1, <2>3, <2>4
  <2>8. Coherent(CacheOf(cap, m, l))
    BY <1>5, <2>4, <2>9, <2>7 DEF Coherent, Agree, CacheOf, Cached
  <2> QED
    BY <2>2, <2>6, <2>8
<1> QED
  BY <1>3, <1>4, <1>5

(* Drop leaves the other entries as they are. *)
LEMMA DroppedEntries ==
  ASSUME NEW c, NEW k, NEW x \in Cached(Drop(c, k))
  PROVE  x \in Cached(c) /\ Drop(c, k).items[x] = c.items[x]
<1>1. Drop(c, k).items = [y \in Cached(c) \ {k} |-> c.items[y]]
  BY DropFields
<1>2. x \in Cached(c) \ {k}
  BY <1>1 DEF Cached
<1> QED
  BY <1>1, <1>2

(* Get leaves entries as they are. *)
LEMMA AfterGetItems ==
  ASSUME NEW c, NEW k, NEW t, NEW x \in Cached(AfterGet(c, k, t))
  PROVE  x \in Cached(c) /\ AfterGet(c, k, t).items[x] = c.items[x]
<1>1. CASE AfterGet(c, k, t) = c
  BY <1>1
<1>2. CASE AfterGet(c, k, t) = Drop(c, k)
  BY <1>2, x \in Cached(Drop(c, k)), DroppedEntries
<1>3. CASE AfterGet(c, k, t) = CacheOf(c.cap, c.items, MoveToFront(c.list, k))
  BY <1>3 DEF CacheOf, Cached
<1> QED
  BY <1>1, <1>2, <1>3 DEF AfterGet

(* Set adds or replaces one entry and leaves the others as they are. *)
LEMMA AfterSetItems ==
  ASSUME NEW c, NEW k, NEW e, NEW x \in Cached(AfterSet(c, k, e))
  PROVE  \/ x = k /\ AfterSet(c, k, e).items[x] = e
         \/ x \in Cached(c) /\ AfterSet(c, k, e).items[x] = c.items[x]
<1> DEFINE d == Evicted(c)
<1>1. CASE AfterSet(c, k, e) = c
  BY <1>1
<1>2. CASE AfterSet(c, k, e) = CacheOf(c.cap, Bind(c.items, k, e), MoveToFront(c.list, k))
  <2>1. AfterSet(c, k, e).items = Bind(c.items, k, e)
    BY <1>2 DEF CacheOf
  <2> QED
    BY <2>1 DEF Bind, Cached
<1>3. CASE AfterSet(c, k, e) = CacheOf(c.cap, Bind(d.items, k, e), Cons(k, d.list))
  <2>1. AfterSet(c, k, e).items = Bind(d.items, k, e)
    BY <1>3 DEF CacheOf
  <2>2. d = c \/ d = Drop(c, Last(c.list))
    BY DEF Evicted
  <2>3. \A y \in Cached(d) : y \in Cached(c) /\ d.items[y] = c.items[y]
    BY <2>2, DroppedEntries
  <2> HIDE DEF d
  <2> QED
    BY <2>1, <2>3 DEF Bind, Cached
<1> QED
  BY <1>1, <1>2, <1>3 DEF AfterSet

(* A new cache is empty and coherent, whatever its capacity. *)
LEMMA NewCacheOk ==
  ASSUME NEW K, NEW E, NEW cap \in Int
  PROVE  /\ IsCache(NewCache(cap), K, E, cap) /\ Coherent(NewCache(cap))
         /\ Cached(NewCache(cap)) = {}
<1> DEFINE m == [k \in {} |-> NoExpiry]
<1>1. NewCache(cap).cap = cap /\ NewCache(cap).items = m /\ NewCache(cap).list = <<>>
  BY DEF NewCache, CacheOf
<1>2. Cached(NewCache(cap)) = {}
  BY <1>1 DEF Cached
<1>3. IsPartialMap(m, K, E) /\ <<>> \in Seq(K)
  BY DEF IsPartialMap
<1>4. IsCache(NewCache(cap), K, E, cap)
  BY <1>3, CacheOfOk DEF NewCache
<1>5. IsInjective(<<>>) /\ ToSet(<<>>) = {} /\ Len(<<>>) = 0
  BY DEF IsInjective, ToSet
<1>6. Coherent(NewCache(cap))
  BY <1>1, <1>2, <1>5 DEF Coherent, Agree
<1> QED
  BY <1>2, <1>4, <1>6

(* The keys Get leaves: all, except an expired one that was asked for. *)
LEMMA AfterGetKeys ==
  ASSUME NEW c, c.cap \in Int, NEW k, NEW t
  PROVE  /\ Cached(AfterGet(c, k, t)) =
              IF k \in Cached(c) /\ c.cap > 0 /\ ~Hit(c, k, t) THEN Cached(c) \ {k} ELSE Cached(c)
         /\ \A x \in Cached(AfterGet(c, k, t)) : AfterGet(c, k, t).items[x] = c.items[x]
<1>1. CASE k \in Cached(c) /\ c.cap > 0 /\ Expired(c.items[k], t)
  <2>1. AfterGet(c, k, t) = Drop(c, k)
    BY <1>1 DEF AfterGet
  <2>2. Cached(AfterGet(c, k, t)) = Cached(c) \ {k}
    BY <2>1, DropFields
  <2>3. \A x \in Cached(AfterGet(c, k, t)) : AfterGet(c, k, t).items[x] = c.items[x]
    BY AfterGetItems
  <2> QED
    BY <1>1, <2>2, <2>3 DEF Hit
<1>2. CASE k \in Cached(c) /\ c.cap > 0 /\ ~Expired(c.items[k], t)
  <2>1. AfterGet(c, k, t).items = c.items
    BY <1>2 DEF AfterGet, CacheOf
  <2> QED
    BY <1>2, <2>1 DEF Hit, Cached
<1>3. CASE ~(k \in Cached(c) /\ c.cap > 0)
  <2>1. AfterGet(c, k, t).items = c.items
    BY <1>3 DEF AfterGet, CacheOf, Cached
  <2> QED
    BY <1>3, <2>1 DEF Cached
<1> QED
  BY <1>1, <1>2, <1>3

(* A coherent cache holds as many keys as its list has nodes. *)
LEMMA CachedCardinality ==
  ASSUME NEW Key, NEW Entry, NEW cap, NEW c, IsCache(c, Key, Entry, cap), Agree(c)
  PROVE  IsFiniteSet(Cached(c)) /\ Cardinality(Cached(c)) = Len(c.list)
<1>1. c.list \in Seq(Key) /\ IsInjective(c.list) /\ ToSet(c.list) = Cached(c)
  BY IsCacheFields DEF Agree
<1> QED
  BY <1>1, ListCardinality

(* Exchanging a member of a set for a newcomer keeps its size. *)
LEMMA SwapCardinality ==
  ASSUME NEW S, IsFiniteSet(S), NEW x \in S, NEW k, k \notin S
  PROVE  Cardinality((S \ {x}) \cup {k}) = Cardinality(S)
<1>1. IsFiniteSet(S \ {x}) /\ Cardinality(S \ {x}) = Cardinality(S) - 1
  BY FS_RemoveElement
<1>2. k \notin S \ {x} /\ Cardinality(S) \in Nat
  BY FS_CardinalityType
<1>3. Cardinality((S \ {x}) \cup {k}) = Cardinality(S \ {x}) + 1
  BY <1>1, <1>2, FS_AddElement
<1> QED
  BY <1>1, <1>2, <1>3

(* d holds what c held and entry under k, which takes the place of at most *)
(* one other key: that goes only for a new key in a full cache.            *)
MakesRoom(c, d, k, entry, cap) ==
  \E gone \in SUBSET Cached(c) :
    /\ gone # {} => k \notin Cached(c) /\ Cardinality(Cached(c)) = cap
    /\ gone # {} => \E x : gone = {x}
    /\ Cached(d) = (Cached(c) \ gone) \cup {k}
    /\ \A x \in Cached(d) : d.items[x] = IF x = k THEN entry ELSE c.items[x]

(* The keys and entries Set leaves. *)
LEMMA AfterSetKeys ==
  ASSUME NEW Key, NEW Entry, NEW cap \in Int, cap > 0, NEW c, IsCache(c, Key, Entry, cap),
         Coherent(c), NEW k, NEW entry
  PROVE  MakesRoom(c, AfterSet(c, k, entry), k, entry, cap)
<1>1. c.list \in Seq(Key) /\ c.cap = cap
  BY IsCacheFields
<1>2. Agree(c) /\ Len(c.list) <= cap
  BY <1>1 DEF Coherent
<1>3. CASE k \in Cached(c)
  <2>1. AfterSet(c, k, entry).items = Bind(c.items, k, entry)
    BY <1>1, <1>3 DEF AfterSet, CacheOf
  <2>2. /\ Cached(AfterSet(c, k, entry)) = (Cached(c) \ {}) \cup {k}
        /\ \A x \in Cached(AfterSet(c, k, entry)) :
             AfterSet(c, k, entry).items[x] = IF x = k THEN entry ELSE c.items[x]
    BY <2>1 DEF Bind, Cached
  <2>3. \E gone \in SUBSET Cached(c) : gone = {}
    OBVIOUS
  <2> QED
    BY <2>2, <2>3 DEF MakesRoom
<1>4. CASE k \notin Cached(c)
  <2> DEFINE d == Evicted(c)
  <2>1. AfterSet(c, k, entry).items = Bind(d.items, k, entry)
    BY <1>1, <1>4 DEF AfterSet, CacheOf
  <2>2. PICK gone \in SUBSET Cached(c) :
               /\ gone # {} => Cardinality(Cached(c)) = cap
               /\ gone # {} => \E x : gone = {x}
               /\ DOMAIN d.items = Cached(c) \ gone
               /\ \A x \in Cached(c) \ gone : d.items[x] = c.items[x]
    <3>1. CASE Len(c.list) >= c.cap
      <4> DEFINE last == Last(c.list)
      <4>1. last \in Cached(c)
        BY <1>1, <1>2, <3>1 DEF Last, ToSet, Agree
      <4>2. d = Drop(c, last)
        BY <3>1 DEF Evicted
      <4> HIDE DEF last
      <4>3. d.items = [x \in Cached(c) \ {last} |-> c.items[x]]
        <5>1. Drop(c, last).items = [x \in Cached(c) \ {last} |-> c.items[x]]
          BY DropFields
        <5> QED
          BY <4>2, <5>1, Zenon
      <4>4. Cardinality(Cached(c)) = cap
        <5>1. Cardinality(Cached(c)) = Len(c.list)
          BY <1>2, CachedCardinality
        <5> QED
          BY <1>1, <1>2, <3>1, <5>1
      <4> USE <4>1
      <4> WITNESS {last} \in SUBSET Cached(c)
      <4> QED
        BY <4>3, <4>4
    <3>2. CASE ~(Len(c.list) >= c.cap)
      <4>1. d = c
        BY <3>2 DEF Evicted
      <4> WITNESS {} \in SUBSET Cached(c)
      <4> QED
        BY <4>1 DEF Cached
    <3> QED
      BY <3>1, <3>2
  <2> HIDE DEF d
  <2>3. Cached(AfterSet(c, k, entry)) = (Cached(c) \ gone) \cup {k}
    BY <2>1, <2>2 DEF Bind, Cached
  <2>4. ASSUME NEW x \in Cached(AfterSet(c, k, entry))
        PROVE  AfterSet(c, k, entry).items[x] = IF x = k THEN entry ELSE c.items[x]
    BY <2>1, <2>2, <2>3 DEF Bind
  <2> QED
    BY <1>4, <2>2, <2>3, <2>4, Zenon DEF MakesRoom
<1> QED
  BY <1>3, <1>4

=============================================================================
