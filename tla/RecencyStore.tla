---------------------------- MODULE RecencyStore ----------------------------
(***************************************************************************)
(* What Cache promises: a store of at most cap entries which knows of any  *)
(* two stored keys which was used last, drops an entry when it is looked   *)
(* up too late, and makes room for a new key by giving up the one key all  *)
(* others are newer than.  Nothing here says how recency is kept.          *)
(***************************************************************************)
EXTENDS Integers, FiniteSets

CONSTANTS Key, Body, Caps, Horizon

VARIABLES
  cap,      \* the capacity the flags set, never changed
  store,    \* stored key -> entry
  newer,    \* pairs of stored keys, the one used last first
  now, reply

storeVars == <<cap, store, newer, now, reply>>

Stored == DOMAIN store

AbsEntry == [body : Body, expiresAt : 0 .. Horizon]

Live(k) == k \in Stored /\ (store[k].expiresAt = 0 \/ now <= store[k].expiresAt)

(* newer without k, and with k before every key of S. *)
Forget(k)    == {p \in newer : k \notin {p[1], p[2]}}
Touch(k, S)  == {p \in newer : p[1] \in S \ {k} /\ p[2] \in S \ {k}}
                  \cup {<<k, x>> : x \in S \ {k}}

(* The entries of S, with k's replaced or added. *)
Binding(k, entry, S) == [x \in S \cup {k} |-> IF x = k THEN entry ELSE store[x]]

AInit ==
  /\ cap \in Caps
  /\ store = [k \in {} |-> 0]
  /\ newer = {}
  /\ now = 1
  /\ reply = [op |-> "none"]

LookupHit(k) ==
  /\ Live(k)
  /\ reply' = [op |-> "hit", key |-> k, entry |-> store[k]]
  /\ newer' = Touch(k, Stored)
  /\ UNCHANGED <<cap, store, now>>

LookupMiss(k) ==
  /\ ~Live(k)
  /\ reply' = [op |-> "miss", key |-> k]
  /\ store' = [x \in Stored \ {k} |-> store[x]]
  /\ newer' = Forget(k)
  /\ UNCHANGED <<cap, now>>

(* Replace k's entry, or add k while there is room. *)
Put(k, entry) ==
  /\ cap > 0
  /\ k \in Stored \/ Cardinality(Stored) < cap
  /\ store' = Binding(k, entry, Stored)
  /\ newer' = Touch(k, Stored)
  /\ reply' = [op |-> "set", key |-> k]
  /\ UNCHANGED <<cap, now>>

PutEvicting(k, entry, victim) ==
  /\ cap > 0
  /\ k \notin Stored
  /\ Cardinality(Stored) = cap
  /\ \A x \in Stored \ {victim} : <<x, victim>> \in newer
  /\ store' = Binding(k, entry, Stored \ {victim})
  /\ newer' = Touch(k, Stored \ {victim})
  /\ reply' = [op |-> "set", key |-> k]
  /\ UNCHANGED <<cap, now>>

(* A store of no capacity takes nothing. *)
PutDisabled(k) ==
  /\ cap <= 0
  /\ reply' = [op |-> "set", key |-> k]
  /\ UNCHANGED <<cap, store, newer, now>>

ATick ==
  /\ now <= Horizon
  /\ now' = now + 1
  /\ UNCHANGED <<cap, store, newer, reply>>

ANext ==
  \/ \E k \in Key : LookupHit(k) \/ LookupMiss(k) \/ PutDisabled(k)
  \/ \E k \in Key, entry \in AbsEntry :
       \/ Put(k, entry)
       \/ \E victim \in Stored : PutEvicting(k, entry, victim)
  \/ ATick

Spec == AInit /\ [][ANext]_storeVars

=============================================================================
