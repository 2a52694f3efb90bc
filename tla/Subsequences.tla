---------------------------- MODULE Subsequences ----------------------------
(***************************************************************************)
(* Loops that keep some elements of a slice, and a sort of distinct        *)
(* instants, by what they leave: counted places instead of recursion.      *)
(***************************************************************************)
EXTENDS Integers, Sequences, FiniteSets

(* The numbers of S in ascending order: i of them are not above the i-th.  *)
Ascending(S) ==
  [i \in 1 .. Cardinality(S) |-> CHOOSE x \in S : Cardinality({y \in S : y <= x}) = i]

(* The elements of s at the places of a set, in the order of s.            *)
Subsequence(s, places) ==
  LET at == Ascending(places) IN [i \in 1 .. Cardinality(places) |-> s[at[i]]]

=============================================================================
