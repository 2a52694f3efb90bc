---------------------------- MODULE StaleIfError ----------------------------
(***************************************************************************)
(* What the proxy promises a polling client, whoever answers: a response   *)
(* fetched for this very request, or, when there is none, the one kept for *)
(* the same request until its last departure has passed, or else an answer *)
(* that says there is nothing.  What is kept is complete, and is given up  *)
(* only when its time has passed, for a newer response, or for the sake of *)
(* another request's when there is no room left.  Nothing here says how a  *)
(* response is fetched, how expiry is recorded or which one has to go.     *)
(***************************************************************************)
EXTENDS Integers, FiniteSets

CONSTANTS
  Client, Key,
  Nothing,            \* no key: what a client asks for when it asks for none
  Answers(_, _),      \* does this response answer this key?
  Complete(_, _),     \* and is it fit to be kept for it?
  LastOf(_),          \* the last departure a response lists
  Capacity,
  Horizon             \* bound: the clock stops one past it

VARIABLES
  now,
  kept,     \* key -> the response kept for it
  asked,    \* client -> the key it waits for an answer to, or Nothing
  got       \* client -> the kind and content of its last answer

promiseVars == <<now, kept, asked, got>>

NothingYet    == [from |-> "nowhere"]
Fresh(r)      == [from |-> "upstream", body |-> r]
Kept(r)       == [from |-> "cache", body |-> r]
NothingToGive == [from |-> "fallback"]
Refused       == [from |-> "refusal"]

Live(k) == k \in DOMAIN kept /\ now <= LastOf(kept[k])

Without(keys) == [k \in DOMAIN kept \ keys |-> kept[k]]

-----------------------------------------------------------------------------

PInit ==
  /\ now = 1
  /\ kept = [k \in {} |-> 0]
  /\ asked = [c \in Client |-> Nothing]
  /\ got = [c \in Client |-> NothingYet]

AskFor(c, k) ==
  /\ asked[c] = Nothing
  /\ asked' = [asked EXCEPT ![c] = k]
  /\ got' = [got EXCEPT ![c] = NothingYet]
  /\ UNCHANGED <<now, kept>>

Refuse(c) ==
  /\ asked[c] = Nothing
  /\ got' = [got EXCEPT ![c] = Refused]
  /\ UNCHANGED <<now, kept, asked>>

Give(c, a) ==
  /\ asked' = [asked EXCEPT ![c] = Nothing]
  /\ got' = [got EXCEPT ![c] = a]

(* A response r that was fetched, not kept.                                *)
GiveFresh(c, r) ==
  /\ Answers(asked[c], r)
  /\ Give(c, Fresh(r))
  /\ UNCHANGED <<now, kept>>

(* The response is kept as well; another may have to go if room is short.  *)
GiveAndKeep(c, r, gone) ==
  LET k == asked[c] IN
  /\ Answers(k, r) /\ Complete(k, r)
  /\ gone # {} => k \notin DOMAIN kept /\ Cardinality(DOMAIN kept) = Capacity
  /\ Cardinality(gone) <= 1
  /\ kept' = [x \in DOMAIN Without(gone) \cup {k} |-> IF x = k THEN r ELSE kept[x]]
  /\ Give(c, Fresh(r))
  /\ UNCHANGED now

GiveKept(c) ==
  /\ Live(asked[c])
  /\ Give(c, Kept(kept[asked[c]]))
  /\ UNCHANGED <<now, kept>>

GiveNothing(c) ==
  /\ ~Live(asked[c])
  /\ kept' = Without({asked[c]})
  /\ Give(c, NothingToGive)
  /\ UNCHANGED now

Pass ==
  /\ now <= Horizon
  /\ now' = now + 1
  /\ UNCHANGED <<kept, asked, got>>

(* Responses come from outside, so the one given is read off the step.     *)
Serve(c) ==
  /\ asked[c] # Nothing
  /\ \/ GiveKept(c) \/ GiveNothing(c)
     \/ /\ got'[c].from = "upstream"
        /\ \/ GiveFresh(c, got'[c].body)
           \/ \E gone \in SUBSET DOMAIN kept : GiveAndKeep(c, got'[c].body, gone)

PNext ==
  \/ \E c \in Client : (\E k \in Key : AskFor(c, k)) \/ Refuse(c) \/ Serve(c)
  \/ Pass

Spec == PInit /\ [][PNext]_promiseVars

=============================================================================
