------------------------------- MODULE Cache -------------------------------
(***************************************************************************)
(* One Cache shared by the goroutines that serve requests.  Get and Set    *)
(* hold c.mu throughout, so every call is one step and the goroutines show *)
(* only in the arbitrary order of the calls.  `reply' tells the last call  *)
(* and what it returned to its caller.                                     *)
(***************************************************************************)
EXTENDS LRU

CONSTANTS
  Key,      \* cache keys (request URIs)
  Body,     \* response bodies, with their header and status
  Caps,     \* capacities the flags may set, not all positive
  Horizon   \* bound: the last expiry instant; the clock stops one past it

ASSUME CacheAssumption == Caps \subseteq Int /\ Horizon \in Nat

VARIABLES cache, now, reply

cacheVars == <<cache, now, reply>>

Entry == [body : Body, expiresAt : NoExpiry .. Horizon]

NoReply        == [op |-> "none"]
HitReply(k, e) == [op |-> "hit", key |-> k, entry |-> e]
MissReply(k)   == [op |-> "miss", key |-> k]
SetReply(k)    == [op |-> "set", key |-> k]
Reply          == [op : {"hit"}, key : Key, entry : Entry]
                    \cup [op : {"miss", "set"}, key : Key] \cup {NoReply}

Init ==
  /\ cache \in {NewCache(n) : n \in Caps}
  /\ now = 1
  /\ reply = NoReply

Get(k) ==
  /\ cache' = AfterGet(cache, k, now)
  /\ reply' = IF Hit(cache, k, now) THEN HitReply(k, cache.items[k])
                                        ELSE MissReply(k)
  /\ UNCHANGED now

Set(k, entry) ==
  /\ cache' = AfterSet(cache, k, entry)
  /\ reply' = SetReply(k)
  /\ UNCHANGED now

Tick ==
  /\ now <= Horizon
  /\ now' = now + 1
  /\ UNCHANGED <<cache, reply>>

Next ==
  \/ \E k \in Key : Get(k)
  \/ \E k \in Key, entry \in Entry : Set(k, entry)
  \/ Tick

Spec == Init /\ [][Next]_cacheVars

-----------------------------------------------------------------------------

(* The cache, the clock and the reply have the shape cache.go gives them.  *)
TypeOK ==
  /\ \E n \in Caps : IsCache(cache, Key, Entry, n)
  /\ now \in 1 .. Horizon + 1
  /\ reply \in Reply

(* cache.go keeps a map and a linked list side by side.  After any number  *)
(* of calls they still name the same keys, each once, and no more than cap *)
(* of them: a key left in one of the two would make Set grow without bound *)
(* or evict a node that no map entry owns.                                 *)
CoherentInv == Coherent(cache)

-----------------------------------------------------------------------------

(* The cache implements the abstract store, recency read off the list.     *)
Abs == INSTANCE RecencyStore
         WITH cap <- cache.cap, store <- cache.items, newer <- NewerPairs(cache.list)

(* Every call of Get and Set (cache.go) answers and changes the cache as a *)
(* least-recently-used store would.                                        *)
ImplementsRecencyStore == Abs!Spec

=============================================================================
