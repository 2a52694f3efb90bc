-------------------------- MODULE SubsequenceProofs --------------------------
(***************************************************************************)
(* That Ascending sorts and Subsequence keeps order, for sets and          *)
(* sequences of any size: by counting, with no induction.                  *)
(***************************************************************************)
EXTENDS Subsequences, SequencesExt, FiniteSetTheorems, WellFoundedInduction, TLAPS

(* How many members of S are not above x.                                  *)
Rank(S, x) == Cardinality({y \in S : y <= x})

(* How many numbers of S are not above x, which is the place of x.         *)
LEMMA RankType ==
  ASSUME NEW S \in SUBSET Int, IsFiniteSet(S), NEW x \in S
  PROVE  /\ Cardinality(S) \in Nat /\ IsFiniteSet({y \in S : y <= x})
         /\ Rank(S, x) \in 1 .. Cardinality(S)
<1> DEFINE B == {y \in S : y <= x}
<1>1. IsFiniteSet(B) /\ Cardinality(B) <= Cardinality(S)
  <2>1. B \in SUBSET S
    OBVIOUS
  <2> HIDE DEF B
  <2> QED  BY <2>1, FS_Subset
<1>2. Cardinality(B) \in Nat /\ Cardinality(S) \in Nat
  BY <1>1, FS_CardinalityType
<1>3. Cardinality(B) # 0
  <2>1. x \in B
    OBVIOUS
  <2> HIDE DEF B
  <2> QED  BY <1>1, <2>1, FS_EmptySet
<1> QED  BY <1>1, <1>2, <1>3 DEF Rank

(* A greater number has a later place.                                     *)
LEMMA RankGrows ==
  ASSUME NEW S \in SUBSET Int, IsFiniteSet(S), NEW x \in S, NEW y \in S, x < y
  PROVE  Rank(S, x) < Rank(S, y)
<1> DEFINE A == {z \in S : z <= x}
           B == {z \in S : z <= y}
<1>1. IsFiniteSet(A) /\ IsFiniteSet(B)
  BY RankType
<1>2. A \in SUBSET (B \ {y}) /\ y \in B
  <2>1. x \in Int /\ y \in Int /\ \A z \in S : z \in Int
    OBVIOUS
  <2>2. /\ \A z \in S : z <= x => z <= y /\ z # y
        /\ y <= y
    BY <2>1
  <2>3. \A z \in A : z \in B \ {y}
    BY <2>2
  <2> QED  BY <2>2, <2>3, Zenon
<1> HIDE DEF A, B
<1>3. IsFiniteSet(B \ {y}) /\ Cardinality(B \ {y}) = Cardinality(B) - 1
  BY <1>1, <1>2, FS_RemoveElement
<1>4. Cardinality(A) <= Cardinality(B \ {y})
  BY <1>2, <1>3, FS_Subset
<1>5. Cardinality(A) \in Nat /\ Cardinality(B) \in Nat
  BY <1>1, FS_CardinalityType
<1> QED  BY <1>3, <1>4, <1>5 DEF Rank, A, B

(* Ranks tell members apart, so every number up to the size is one.        *)
LEMMA RankOnto ==
  ASSUME NEW S \in SUBSET Int, IsFiniteSet(S), NEW i \in 1 .. Cardinality(S)
  PROVE  \E x \in S : Rank(S, x) = i
<1> DEFINE n == Cardinality(S)
           f == [x \in S |-> Rank(S, x)]
<1>1. n \in Nat /\ IsFiniteSet(1 .. n) /\ Cardinality(1 .. n) = n
  BY FS_CardinalityType, FS_Interval
<1>2. f \in [S -> 1 .. n]
  BY RankType
<1>3. ASSUME NEW x \in S, NEW y \in S, f[x] = f[y] PROVE x = y
  <2>1. Rank(S, x) = Rank(S, y) /\ x \in Int /\ y \in Int
    BY <1>3
  <2>3. Rank(S, x) \in 1 .. n
    BY RankType
  <2>2. ~(x < y) /\ ~(y < x)
    BY <1>1, <2>1, <2>3, RankGrows
  <2> QED  BY <2>1, <2>2
<1>4. f \in Injection(S, 1 .. n)
  BY <1>2, <1>3 DEF Injection, IsInjective
<1> HIDE DEF f
<1>5. f \in Surjection(S, 1 .. n)
  BY <1>1, <1>4, FS_Injection
<1>6. \E x \in S : f[x] = i
  BY <1>5 DEF Surjection
<1> QED  BY <1>6 DEF f

(* slices.Sort: a strictly ascending sequence of just the members.         *)
LEMMA AscendingOk ==
  ASSUME NEW S \in SUBSET Int, IsFiniteSet(S)
  PROVE  /\ Cardinality(S) \in Nat
         /\ Ascending(S) \in [1 .. Cardinality(S) -> S]
         /\ \A i, j \in 1 .. Cardinality(S) : i < j => Ascending(S)[i] < Ascending(S)[j]
         /\ \A x \in S : \E i \in 1 .. Cardinality(S) : Ascending(S)[i] = x
<1> DEFINE n == Cardinality(S)
           a == Ascending(S)
<1>1. n \in Nat
  BY FS_CardinalityType
<1>2. ASSUME NEW i \in 1 .. n PROVE a[i] \in S /\ Rank(S, a[i]) = i
  BY RankOnto DEF Ascending, Rank
<1>3. a \in [1 .. n -> S]
  BY <1>2 DEF Ascending
<1> HIDE DEF a
<1>4. ASSUME NEW i \in 1 .. n, NEW j \in 1 .. n, i < j PROVE a[i] < a[j]
  <2>1. a[i] \in Int /\ a[j] \in Int /\ a[i] # a[j]
    <3>1. a[i] \in S /\ a[j] \in S /\ Rank(S, a[i]) = i /\ Rank(S, a[j]) = j
      BY <1>2
    <3>2. i # j
      BY <1>1, <1>4
    <3> QED  BY <3>1, <3>2
  <2>2. ~(a[j] < a[i])
    <3>1. a[j] < a[i] => Rank(S, a[j]) < Rank(S, a[i])
      BY <1>2, RankGrows
    <3> QED  BY <1>1, <1>2, <1>4, <3>1
  <2> QED  BY <2>1, <2>2
<1>5. ASSUME NEW x \in S PROVE \E i \in 1 .. n : a[i] = x
  <2> DEFINE i == Rank(S, x)
  <2>1. i \in 1 .. n
    BY RankType
  <2>2. ~(a[i] < x) /\ ~(x < a[i])
    <3>1. Rank(S, a[i]) = Rank(S, x) /\ a[i] \in S /\ Rank(S, x) \in Int
      BY <1>1, <1>2, <2>1
    <3> HIDE DEF i
    <3>2. a[i] < x => Rank(S, a[i]) < Rank(S, x)
      BY <3>1, RankGrows
    <3>3. x < a[i] => Rank(S, x) < Rank(S, a[i])
      BY <3>1, RankGrows
    <3> QED  BY <3>1, <3>2, <3>3
  <2>3. a[i] \in Int /\ x \in Int
    BY <1>2, <2>1
  <2> QED  BY <2>1, <2>2, <2>3
<1> QED  BY <1>1, <1>3, <1>4, <1>5 DEF a

(* All places up to n are in order already.                                *)
LEMMA AscendingInterval ==
  ASSUME NEW n \in Nat
  PROVE  /\ IsFiniteSet(1 .. n) /\ Cardinality(1 .. n) = n
         /\ \A i \in 1 .. n : Ascending(1 .. n)[i] = i
<1>1. IsFiniteSet(1 .. n) /\ Cardinality(1 .. n) = n
  BY FS_Interval
<1>2. ASSUME NEW x \in 1 .. n PROVE Cardinality({y \in 1 .. n : y <= x}) = x
  <2>1. {y \in 1 .. n : y <= x} = 1 .. x
    OBVIOUS
  <2>2. Cardinality(1 .. x) = x
    <3>1. x \in Int /\ 1 <= x
      OBVIOUS
    <3>2. Cardinality(1 .. x) = IF 1 > x THEN 0 ELSE x - 1 + 1
      BY <3>1, FS_Interval
    <3> QED  BY <3>1, <3>2
  <2> QED  BY <2>1, <2>2
<1>3. ASSUME NEW i \in 1 .. n PROVE Ascending(1 .. n)[i] = i
  <2>1. Ascending(1 .. n)[i] = CHOOSE x \in 1 .. n : Cardinality({y \in 1 .. n : y <= x}) = i
    BY <1>1 DEF Ascending
  <2>2. \A x \in 1 .. n : Cardinality({y \in 1 .. n : y <= x}) = i => x = i
    BY <1>2
  <2> QED  BY <1>2, <2>1, <2>2
<1> QED  BY <1>1, <1>3

(* There is one way only to put a set in ascending order.                  *)
LEMMA AscendingUnique ==
  ASSUME NEW S \in SUBSET Int, NEW n \in Nat, NEW f \in [1 .. n -> S],
         \A i, j \in 1 .. n : i < j => f[i] < f[j],
         \A x \in S : \E i \in 1 .. n : f[i] = x
  PROVE  /\ IsFiniteSet(S) /\ Cardinality(S) = n
         /\ \A i \in 1 .. n : Ascending(S)[i] = f[i]
<1>1. \A i, j \in 1 .. n : f[i] \in Int /\ (f[i] = f[j] => i = j)
  <2>1. ASSUME NEW i \in 1 .. n, NEW j \in 1 .. n PROVE f[i] \in Int /\ (f[i] = f[j] => i = j)
    <3>1. f[i] \in Int /\ f[j] \in Int
      OBVIOUS
    <3>2. (i < j => f[i] < f[j]) /\ (j < i => f[j] < f[i])
      OBVIOUS
    <3> QED  BY <3>1, <3>2
  <2> QED  BY <2>1
<1>2. /\ IsFiniteSet(S) /\ Cardinality(S) = n
  <2>1. f \in Surjection(1 .. n, S) /\ f \in Injection(1 .. n, S)
    BY <1>1 DEF Surjection, Injection, IsInjective
  <2>2. IsFiniteSet(1 .. n) /\ Cardinality(1 .. n) = n
    BY AscendingInterval
  <2> QED  BY <2>1, <2>2, FS_Surjection
<1>3. ASSUME NEW i \in 1 .. n PROVE Rank(S, f[i]) = i
  <2> DEFINE B == {y \in S : y <= f[i]}
             g == [k \in 1 .. i |-> f[k]]
  <2>1. i \in Nat /\ \A k \in 1 .. i : k \in 1 .. n
    OBVIOUS
  <2>2. \A k \in 1 .. i : f[k] \in B
    <3>1. ASSUME NEW k \in 1 .. i PROVE f[k] <= f[i]
      <4>1. k < i \/ k = i
        OBVIOUS
      <4> QED  BY <1>1, <2>1, <4>1
    <3> QED  BY <2>1, <3>1
  <2>3. ASSUME NEW y \in B PROVE \E k \in 1 .. i : f[k] = y
    <3>1. PICK k \in 1 .. n : f[k] = y
      OBVIOUS
    <3>2. ~(i < k)
      <4>1. f[k] <= f[i] /\ f[k] \in Int /\ f[i] \in Int
        BY <1>1, <3>1
      <4>2. i < k => f[i] < f[k]
        OBVIOUS
      <4> QED  BY <4>1, <4>2
    <3> QED  BY <3>1, <3>2
  <2>4. g \in [1 .. i -> B]
    BY <2>2
  <2>5. \A y \in B : \E k \in 1 .. i : g[k] = y
    BY <2>3
  <2>6. \A k, l \in 1 .. i : g[k] = g[l] => k = l
    BY <1>1, <2>1
  <2> HIDE DEF B, g
  <2>7. g \in Surjection(1 .. i, B) /\ g \in Injection(1 .. i, B)
    BY <2>4, <2>5, <2>6 DEF Surjection, Injection, IsInjective
  <2>8. IsFiniteSet(1 .. i) /\ Cardinality(1 .. i) = i
    BY <2>1, AscendingInterval
  <2>9. Cardinality(B) = i
    BY <2>7, <2>8, FS_Surjection
  <2> QED  BY <2>9 DEF B, Rank
<1>4. ASSUME NEW i \in 1 .. n, NEW x \in S, Rank(S, x) = i PROVE x = f[i]
  <2>1. PICK k \in 1 .. n : f[k] = x
    OBVIOUS
  <2> QED  BY <1>3, <1>4, <2>1
<1>5. ASSUME NEW i \in 1 .. n PROVE Ascending(S)[i] = f[i]
  <2>1. Ascending(S)[i] = CHOOSE x \in S : Rank(S, x) = i
    BY <1>2 DEF Ascending, Rank
  <2>2. f[i] \in S /\ Rank(S, f[i]) = i
    BY <1>3
  <2> QED  BY <1>4, <2>1, <2>2
<1> QED  BY <1>2, <1>5

-----------------------------------------------------------------------------

(* A filtering loop: elements at ascending places, and no others.          *)
LEMMA SubsequenceOk ==
  ASSUME NEW T, NEW s \in Seq(T), NEW P \in SUBSET DOMAIN s
  PROVE  /\ IsFiniteSet(P) /\ Cardinality(P) \in Nat /\ Cardinality(P) <= Len(s)
         /\ Subsequence(s, P) \in Seq(T)
         /\ Len(Subsequence(s, P)) = Cardinality(P)
         /\ DOMAIN Subsequence(s, P) = 1 .. Cardinality(P)
         /\ \A i \in 1 .. Cardinality(P) :
              Ascending(P)[i] \in P /\ Subsequence(s, P)[i] = s[Ascending(P)[i]]
         /\ ToSet(Subsequence(s, P)) = {s[p] : p \in P}
<1> DEFINE n == Cardinality(P)
           r == Subsequence(s, P)
<1>1. DOMAIN s = 1 .. Len(s) /\ Len(s) \in Nat /\ P \in SUBSET Int
  OBVIOUS
<1>2. IsFiniteSet(P) /\ n <= Len(s)
  <2>1. IsFiniteSet(1 .. Len(s)) /\ Cardinality(1 .. Len(s)) = Len(s)
    BY <1>1, AscendingInterval
  <2> QED  BY <1>1, <2>1, FS_Subset
<1>3. /\ n \in Nat
      /\ \A i \in 1 .. n : Ascending(P)[i] \in P
      /\ \A x \in P : \E i \in 1 .. n : Ascending(P)[i] = x
  BY <1>1, <1>2, AscendingOk
<1>4. DOMAIN r = 1 .. n /\ \A i \in 1 .. n : r[i] = s[Ascending(P)[i]]
  BY DEF Subsequence
<1>5. r \in [1 .. n -> T]
  BY <1>1, <1>3 DEF Subsequence
<1> HIDE DEF r
<1>6. r \in Seq(T) /\ Len(r) = n
  BY <1>3, <1>5
<1>7. ToSet(r) = {s[p] : p \in P}
  BY <1>3, <1>4 DEF ToSet
<1> QED  BY <1>2, <1>3, <1>4, <1>6, <1>7 DEF r

(* A loop that keeps everything.                                           *)
LEMMA SubsequenceWhole ==
  ASSUME NEW T, NEW s \in Seq(T)
  PROVE  Subsequence(s, DOMAIN s) = s
<1>1. DOMAIN s = 1 .. Len(s) /\ Len(s) \in Nat /\ s = [i \in 1 .. Len(s) |-> s[i]]
  OBVIOUS
<1> QED  BY <1>1, AscendingInterval DEF Subsequence

(* A loop that leaves something out yields less.                           *)
LEMMA SubsequenceShorter ==
  ASSUME NEW T, NEW s \in Seq(T), NEW P \in SUBSET DOMAIN s, P # DOMAIN s
  PROVE  Len(Subsequence(s, P)) < Len(s)
<1>1. DOMAIN s = 1 .. Len(s) /\ Len(s) \in Nat
  OBVIOUS
<1>2. IsFiniteSet(1 .. Len(s)) /\ Cardinality(1 .. Len(s)) = Len(s)
  BY <1>1, AscendingInterval
<1>3. Cardinality(P) # Len(s)
  BY <1>1, <1>2, FS_Subset
<1> QED  BY <1>1, <1>3, SubsequenceOk

-----------------------------------------------------------------------------

(* Elements are of the sequence's type.                                    *)
LEMMA SeqElements ==
  ASSUME NEW T, NEW s \in Seq(T)
  PROVE  DOMAIN s = 1 .. Len(s) /\ Len(s) \in Nat /\ \A x \in ToSet(s) : x \in T
BY DEF ToSet

(* s[:m] *)
LEMMA PrefixOk ==
  ASSUME NEW T, NEW s \in Seq(T), NEW m \in 0 .. Len(s)
  PROVE  /\ SubSeq(s, 1, m) \in Seq(T) /\ Len(SubSeq(s, 1, m)) = m
         /\ DOMAIN SubSeq(s, 1, m) = 1 .. m
         /\ \A i \in 1 .. m : SubSeq(s, 1, m)[i] = s[i]
OBVIOUS

(* A set of instants no later than some instant has a latest one.          *)
LEMMA LatestExists ==
  ASSUME NEW S \in SUBSET Int, S # {}, NEW b \in Int, \A x \in S : x <= b
  PROVE  Max(S) \in S /\ \A x \in S : x <= Max(S)
<1> DEFINE T == {n \in Nat : b - n \in S}
<1>1. \A x \in S : b - x \in T
  OBVIOUS
<1>2. T # {} /\ T \subseteq Nat
  BY <1>1
<1>3. PICK n \in T : \A m \in T : ~(<<m, n>> \in OpToRel(<, Nat))
  <2> HIDE DEF T
  <2> QED  BY <1>2, NatLessThanWellFounded, WFMin
<1>4. \A m \in T : ~(m < n)
  BY <1>3 DEF OpToRel
<1>5. b - n \in S /\ \A x \in S : b - n >= x
  <2>1. n \in Nat /\ b - n \in S
    OBVIOUS
  <2>2. ASSUME NEW x \in S PROVE b - n >= x
    <3>1. x \in Int /\ b - x \in T /\ b - x \in Int
      BY <1>1
    <3>2. ~(b - x < n)
      BY <1>4, <3>1
    <3> QED  BY <2>1, <3>1, <3>2
  <2> QED  BY <2>1, <2>2
<1>6. \E x \in S : \A y \in S : x >= y
  BY <1>5
<1> QED  BY <1>6 DEF Max

(* So does every finite set of instants.                                   *)
LEMMA FiniteHasLatest ==
  ASSUME NEW S \in SUBSET Int, S # {}, IsFiniteSet(S)
  PROVE  Max(S) \in S /\ \A x \in S : x <= Max(S)
<1> DEFINE n == Cardinality(S)
           a == Ascending(S)
<1>1. /\ n \in Nat /\ a \in [1 .. n -> S]
      /\ \A i, j \in 1 .. n : i < j => a[i] < a[j]
      /\ \A x \in S : \E i \in 1 .. n : a[i] = x
  BY AscendingOk
<1> HIDE DEF n, a
<1>2. n \in 1 .. n /\ a[n] \in Int
  <2>1. PICK i \in 1 .. n : TRUE
    BY <1>1
  <2>2. n \in 1 .. n
    BY <1>1, <2>1
  <2>3. a[n] \in S
    BY <1>1, <2>2
  <2> QED  BY <2>2, <2>3
<1>3. ASSUME NEW x \in S PROVE x <= a[n]
  <2>1. PICK i \in 1 .. n : a[i] = x
    BY <1>1
  <2>2. i = n \/ i < n
    BY <1>1
  <2>3. i < n => a[i] < a[n]
    BY <1>1, <1>2
  <2> QED  BY <1>1, <1>2, <2>1, <2>2, <2>3
<1> QED  BY <1>2, <1>3, LatestExists

=============================================================================
