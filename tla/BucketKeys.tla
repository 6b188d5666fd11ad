----------------------------- MODULE BucketKeys -----------------------------
(***************************************************************************)
(* User keys, key ranges and the key arithmetic of BucketManager           *)
(* (db/column_family.cc).  A key is the byte string the code holds in a    *)
(* std::string; the code compares with operator< of std::string, which is  *)
(* lexicographic on unsigned bytes.  The empty string plays three parts in *)
(* the code and plays them here: the bound -infinity when it is a min_key, *)
(* the bound +infinity when it is a max_key, "none" when it is a median.   *)
(***************************************************************************)
EXTENDS Integers, Sequences, FiniteSets, FiniteSetsExt

Byte == 0..255
Key == Seq(Byte)
Empty == << >>

(***************************************************************************)
(* a < b for std::string: at the first position where they differ a has    *)
(* the smaller byte, or has no byte left.                                  *)
(***************************************************************************)
KeyLT(a, b) ==
    \E i \in 1..Len(b) :
        /\ i <= Len(a) + 1
        /\ \A j \in 1..(i - 1) : a[j] = b[j]
        /\ i = Len(a) + 1 \/ a[i] < b[i]

KeyRange == [min_key : Key, max_key : Key]

\* mutant: the lower bound is exclusive
GtMin(k, min) == min = Empty \/ KeyLT(min, k)
GeMin(k, min) == min = Empty \/ ~KeyLT(k, min)
LtMax(k, max) == max = Empty \/ KeyLT(k, max)
InRange(k, r) == GeMin(k, r.min_key) /\ LtMax(k, r.max_key)

(***************************************************************************)
(* FindBucketInternal and FindBucketInSnapshot: the first range that holds *)
(* the key, or the last range when none does.                              *)
(***************************************************************************)
FindBucketIn(ranges, k) ==
    LET hits == {i \in DOMAIN ranges : InRange(k, ranges[i])}
    IN  IF hits = {} THEN Len(ranges) ELSE Min(hits)

(***************************************************************************)
(* The overlap test of FindBucketsInRange(Internal).                       *)
(***************************************************************************)
EndsBefore(r, s) ==
    r.max_key # Empty /\ s.min_key # Empty /\ ~KeyLT(s.min_key, r.max_key)
RangesOverlap(r, s) == ~EndsBefore(r, s) /\ ~EndsBefore(s, r)

(***************************************************************************)
(* The key at position size/2 (counted from 0) of the sorted list of the   *)
(* keys in the range of ms: v.size()/2 after std::sort(v).                 *)
(***************************************************************************)
KeysBelow(ms, i) == {j \in DOMAIN ms : KeyLT(ms[j], ms[i])}
KeysUpTo(ms, i) == {j \in DOMAIN ms : ~KeyLT(ms[i], ms[j])}
MedianKey(ms) ==
    LET half == Cardinality(DOMAIN ms) \div 2
    IN  ms[CHOOSE i \in DOMAIN ms :
               /\ Cardinality(KeysBelow(ms, i)) <= half
               /\ half < Cardinality(KeysUpTo(ms, i))]

(***************************************************************************)
(* ComputeMidpointKey.  The comparison b[0] > '\x01' is on plain char,     *)
(* signed in the x86-64 build, so a first byte of 128 or more fails it.    *)
(***************************************************************************)
MidpointBelow(b) == IF b[1] \in 2..127 THEN <<b[1] - 1>> ELSE <<1>>

MidpointCandidate(a, b) ==
    LET smaller == {i \in 1..Len(a) : i <= Len(b) /\ a[i] < b[i]}
    IN  IF smaller # {}
        THEN LET i == Min(smaller)
             IN  Append(SubSeq(a, 1, i - 1), (a[i] + b[i]) \div 2)
        ELSE IF Len(a) < Len(b)
             THEN Append(a, b[Len(a) + 1] \div 2)
             ELSE Append(a, 128)

ComputeMidpointKey(a, b) ==
    CASE a = Empty /\ b = Empty -> <<77>>
      [] a = Empty /\ b # Empty -> MidpointBelow(b)
      [] a # Empty /\ b = Empty -> Append(a, 128)
      [] a # Empty /\ b # Empty ->
            LET c == MidpointCandidate(a, b)
            IN  IF KeyLT(a, c) /\ KeyLT(c, b) THEN c ELSE Append(a, 128)
=============================================================================
