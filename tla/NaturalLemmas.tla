---------------------------- MODULE NaturalLemmas ----------------------------
(* Facts about naturals and finite sets that the proofs share. *)
EXTENDS FiniteSetsExt, FiniteSetTheorems, TLAPS

(***************************************************************************)
(* Every non-empty set of naturals has a smallest element.                 *)
(***************************************************************************)
LEMMA NatHasMin ==
    ASSUME NEW T \in SUBSET Nat, T # {}
    PROVE  \E x \in T : \A y \in T : x <= y
<1>1. \E x \in T : \A y \in T : <<y, x>> \notin OpToRel(<, Nat)
  BY NatLessThanWellFounded, WFMin
<1>2. \A x, y \in T : <<y, x>> \notin OpToRel(<, Nat) => x <= y
  BY DEF OpToRel
<1>. QED  BY <1>1, <1>2

(***************************************************************************)
(* Min, as the scans of FindBucketInternal and of the set of compacted     *)
(* buckets use it, is an element and a lower bound of its set.             *)
(***************************************************************************)
LEMMA MinProperties ==
    ASSUME NEW T \in SUBSET Nat, T # {}
    PROVE  Min(T) \in T /\ \A y \in T : Min(T) <= y
BY NatHasMin DEF Min

(***************************************************************************)
(* A non-empty bounded set of naturals has a largest element.              *)
(***************************************************************************)
LEMMA MaxProperties ==
    ASSUME NEW T \in SUBSET Nat, T # {}, NEW n \in Nat, \A y \in T : y <= n
    PROVE  Max(T) \in T /\ \A y \in T : y <= Max(T)
<1>. DEFINE S == {x \in 0..n : n - x \in T}
<1>1. S \in SUBSET Nat /\ S # {}
  <2>1. PICK y \in T : TRUE  OBVIOUS
  <2>2. n - y \in 0..n /\ n - (n - y) = y  BY <2>1
  <2>3. n - y \in S  BY <2>1, <2>2
  <2>4. \A x \in S : x \in Nat  OBVIOUS
  <2>. HIDE DEF S
  <2>. QED  BY <2>3, <2>4
<1>2. PICK x \in S : \A z \in S : x <= z  BY <1>1, NatHasMin
<1>3. \A y \in T : y <= n - x
  <2>1. TAKE y \in T
  <2>2. n - y \in 0..n /\ n - (n - y) = y  BY <2>1
  <2>3. n - y \in S  BY <2>2
  <2>. QED  BY <2>2, <2>3, <1>2
<1>4. n - x \in T  BY <1>2
<1>. QED  BY <1>3, <1>4 DEF Max

(***************************************************************************)
(* Sets of indices are finite, and unsigned division is a natural number.  *)
(***************************************************************************)
LEMMA IndexSets ==
    ASSUME NEW n \in Nat, NEW S \in SUBSET (1..n)
    PROVE  IsFiniteSet(S) /\ Cardinality(S) \in Nat /\ Cardinality(S) <= n
<1>1. 1 \in Int /\ n \in Int  OBVIOUS
<1>2. IsFiniteSet(1..n) /\ Cardinality(1..n) = IF 1 > n THEN 0 ELSE n - 1 + 1
  BY <1>1, FS_Interval
<1>3. IsFiniteSet(S) /\ Cardinality(S) <= Cardinality(1..n)  BY <1>2, FS_Subset
<1>4. Cardinality(S) \in Nat  BY <1>3, FS_CardinalityType
<1>. QED  BY <1>2, <1>3, <1>4

LEMMA DivNat ==
    ASSUME NEW x \in Nat, NEW y \in Nat \ {0}
    PROVE  x \div y \in Nat
OBVIOUS
=============================================================================
