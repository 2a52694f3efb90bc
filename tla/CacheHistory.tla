---------------------------- MODULE CacheHistory ----------------------------
(***************************************************************************)
(* Cache with two history variables that no call reads.  They record the   *)
(* uses of the cache from the outside, without its list, so that eviction  *)
(* can be judged by what the callers did.                                  *)
(***************************************************************************)
EXTENDS Cache

VARIABLES
  kept,     \* keys Set and not found expired since: only eviction loses one
  since     \* k -> the other keys used since k was last used

histVars == <<cache, now, reply, kept, since>>

HInit ==
  /\ Init
  /\ kept = {}
  /\ since = [k \in Key |-> {}]

(* k is used: its own record starts anew, every other one gains k. *)
Used(k) == since' = [x \in Key |-> IF x = k THEN {} ELSE since[x] \cup {k}]

HGet(k) ==
  /\ Get(k)
  /\ \/ /\ Hit(cache, k, now)
        /\ Used(k)
        /\ UNCHANGED kept
     \/ /\ ~Hit(cache, k, now)
        /\ kept' = IF k \in Cached(cache) THEN kept \ {k} ELSE kept
        /\ UNCHANGED since

HSet(k, entry) ==
  /\ Set(k, entry)
  /\ IF cache.cap > 0 THEN kept' = kept \cup {k} /\ Used(k)
                      ELSE UNCHANGED <<kept, since>>

HTick == Tick /\ UNCHANGED <<kept, since>>

HNext ==
  \/ \E k \in Key : HGet(k)
  \/ \E k \in Key, entry \in Entry : HSet(k, entry)
  \/ HTick

HSpec == HInit /\ [][HNext]_histVars

-----------------------------------------------------------------------------

HistTypeOK ==
  /\ TypeOK
  /\ kept \subseteq Key
  /\ since \in [Key -> SUBSET Key]

(* An entry that was stored and has not been found expired is still there  *)
(* as long as fewer than cap other keys were used after it: Set in         *)
(* cache.go never evicts a more recently used key than it has to, and no   *)
(* other step loses an entry.                                              *)
Retention ==
  \A k \in kept : Cardinality(since[k]) < cache.cap => k \in Cached(cache)

(* Why it holds: the keys ahead of k in the list were used after k, and a  *)
(* cached key was stored and not found expired.                            *)
AheadUsedSince == \A p \in NewerPairs(cache.list) : p[1] \in since[p[2]]

RetentionInd ==
  /\ Coherent(cache)
  /\ AheadUsedSince
  /\ Cached(cache) \subseteq kept
  /\ \A k \in Key : IsFiniteSet(since[k])
  /\ Retention

=============================================================================
