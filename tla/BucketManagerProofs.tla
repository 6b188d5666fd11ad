------------------------- MODULE BucketManagerProofs -------------------------
(***************************************************************************)
(* Proofs about BucketManager for every set of jobs, memtables, compaction *)
(* inputs, window size and target count.                                   *)
(*                                                                         *)
(* The inductive invariant IInv joins the type invariant, Partition,       *)
(* SnapshotFresh and EventsInWindow with two facts they need: a snapshot   *)
(* is never from a later epoch, and before the manager is initialised no   *)
(* job has a snapshot and no compaction adjusts buckets.                   *)
(*                                                                         *)
(* Facts about sequences that are cut and joined come first, then facts    *)
(* about keys, ranges, medians and midpoints, for all keys.                *)
(***************************************************************************)
EXTENDS BucketManager, NaturalLemmas, SequenceTheorems

-----------------------------------------------------------------------------
(* Sequences that are cut and joined.                                       *)

\* s is a sequence, of whatever elements.
IsSeq(s) == s \in Seq(Range(s))

(***************************************************************************)
(* A function on 1..n is a sequence of length n.                           *)
(***************************************************************************)
LEMMA FunctionIsSeq ==
    ASSUME NEW n \in Nat, NEW s, DOMAIN s = 1..n, s = [i \in 1..n |-> s[i]]
    PROVE  IsSeq(s) /\ Len(s) = n
<1>1. s \in [1..n -> Range(s)]  BY DEF Range
<1>. QED  BY <1>1 DEF IsSeq

LEMMA SeqIsSeq ==
    ASSUME NEW S, NEW s \in Seq(S)
    PROVE  IsSeq(s)
<1>1. Len(s) \in Nat /\ DOMAIN s = 1..Len(s) /\ s = [i \in 1..Len(s) |-> s[i]]
  OBVIOUS
<1>. QED  BY <1>1, FunctionIsSeq

LEMMA SeqDomain ==
    ASSUME NEW s, IsSeq(s)
    PROVE  Len(s) \in Nat /\ DOMAIN s = 1..Len(s) /\ s = [i \in 1..Len(s) |-> s[i]]
BY DEF IsSeq

(***************************************************************************)
(* A part of a sequence replaced by another sequence, element by element.  *)
(***************************************************************************)
Splice(s, a, b, m) == SubSeq(s, 1, a) \o m \o SubSeq(s, b + 1, Len(s))
SpliceAt(s, a, b, m, k) ==
    IF k <= a THEN s[k] ELSE IF k <= a + Len(m) THEN m[k - a] ELSE s[k - (a + Len(m)) + b]

LEMMA SpliceElements ==
    ASSUME NEW S, NEW s \in Seq(S), NEW a \in 0..Len(s), NEW b \in a..Len(s), NEW m \in Seq(S)
    PROVE  /\ Splice(s, a, b, m) \in Seq(S)
           /\ Len(Splice(s, a, b, m)) = (a + Len(m)) + (Len(s) - b)
           /\ \A k \in 1..((a + Len(m)) + (Len(s) - b)) :
                 Splice(s, a, b, m)[k] = SpliceAt(s, a, b, m, k)
<1>. DEFINE u == SubSeq(s, 1, a)
            v == u \o m
            w == SubSeq(s, b + 1, Len(s))
            t == v \o w
            n == a + Len(m)
            z == Len(s) - b
<1>1. Len(s) \in Nat /\ Len(m) \in Nat /\ a \in Nat /\ b \in Nat /\ n \in Nat /\ z \in Nat
  OBVIOUS
<1>2. u \in Seq(S) /\ Len(u) = a /\ \A k \in 1..a : u[k] = s[k]  BY <1>1
<1>3. w \in Seq(S) /\ Len(w) = z /\ \A k \in 1..z : w[k] = s[k + b]  BY <1>1
<1>. HIDE DEF u, w
<1>4. v \in Seq(S) /\ Len(v) = n /\ \A k \in 1..n : v[k] = IF k <= a THEN u[k] ELSE m[k - a]
  BY <1>1, <1>2, ConcatProperties
<1>. HIDE DEF v, z, n
<1>5. /\ t \in Seq(S) /\ Len(t) = n + z
      /\ \A k \in 1..(n + z) : t[k] = IF k <= n THEN v[k] ELSE w[k - n]
  BY <1>1, <1>3, <1>4, ConcatProperties
<1>. HIDE DEF t
<1>. USE DEF n
<1>6. ASSUME NEW k \in 1..(n + z)
      PROVE  t[k] = IF k <= a THEN s[k] ELSE IF k <= n THEN m[k - a] ELSE s[k - n + b]
  <2>1. CASE k <= n  BY <1>1, <1>2, <1>4, <1>5, <2>1
  <2>2. CASE ~(k <= n)
    <3>1. k - n \in 1..z /\ ~(k <= a)  BY <1>1, <2>2
    <3>2. t[k] = w[k - n]  BY <1>5, <2>2
    <3>. QED  BY <1>3, <2>2, <3>1, <3>2
  <2>. QED  BY <2>1, <2>2
<1>. QED  BY <1>5, <1>6 DEF t, u, v, w, z, Splice, SpliceAt

(***************************************************************************)
(* SplitBucket and MergeWithAdjacentBucket, element by element.            *)
(***************************************************************************)
WithTwo(s, i, l, r) == SubSeq(s, 1, i - 1) \o <<l, r>> \o SubSeq(s, i + 1, Len(s))
WithMerged(s, i, m) == SubSeq(s, 1, i - 1) \o <<m>> \o SubSeq(s, i + 2, Len(s))

LEMMA SplitElements ==
    ASSUME NEW s, IsSeq(s), NEW i \in 1..Len(s), NEW l, NEW r
    PROVE  LET t == WithTwo(s, i, l, r)
           IN  /\ IsSeq(t)
               /\ Len(t) = Len(s) + 1
               /\ \A k \in 1..(Len(s) + 1) :
                     t[k] = IF k < i THEN s[k] ELSE IF k = i THEN l
                            ELSE IF k = i + 1 THEN r ELSE s[k - 1]
<1>. DEFINE S == Range(s) \cup {l, r}
            m == <<l, r>>
            a == i - 1
            t == Splice(s, a, i, m)
<1>1. s \in Seq(S) /\ Len(s) \in Nat /\ m \in Seq(S) /\ Len(m) = 2 /\ m[1] = l /\ m[2] = r
  BY DEF IsSeq
<1>2. a \in 0..Len(s) /\ i \in a..Len(s) /\ i \in Nat  BY <1>1
<1>3. (a + Len(m)) + (Len(s) - i) = Len(s) + 1  BY <1>1, <1>2
<1>. HIDE DEF S, m
<1>4. /\ t \in Seq(S) /\ Len(t) = Len(s) + 1
      /\ \A k \in 1..(Len(s) + 1) :
           t[k] = IF k <= a THEN s[k] ELSE IF k <= a + Len(m) THEN m[k - a]
                  ELSE s[k - (a + Len(m)) + i]
  <2>. HIDE DEF a
  <2>1. /\ Splice(s, a, i, m) \in Seq(S)
        /\ Len(Splice(s, a, i, m)) = (a + Len(m)) + (Len(s) - i)
        /\ \A k \in 1..((a + Len(m)) + (Len(s) - i)) :
              Splice(s, a, i, m)[k] = SpliceAt(s, a, i, m, k)
    BY <1>1, <1>2, SpliceElements, Zenon
  <2>. QED  BY <2>1, <1>3, Zenon DEF SpliceAt
<1>. HIDE DEF t
<1>5. ASSUME NEW k \in 1..(Len(s) + 1)
      PROVE  t[k] = IF k < i THEN s[k] ELSE IF k = i THEN l
                    ELSE IF k = i + 1 THEN r ELSE s[k - 1]
  <2>1. /\ k <= a <=> k < i
        /\ k <= a + Len(m) <=> k <= i + 1
        /\ k - (a + Len(m)) + i = k - 1
        /\ k = i => k - a = 1
        /\ k = i + 1 => k - a = 2
        /\ k <= i + 1 <=> k < i \/ k = i \/ k = i + 1
    BY <1>1, <1>2
  <2>. HIDE DEF a
  <2>. QED  BY <2>1, <1>1, <1>4
<1>6. IsSeq(t)  BY <1>4, SeqIsSeq
<1>. QED  BY <1>4, <1>5, <1>6 DEF t, m, Splice, WithTwo

LEMMA MergeElements ==
    ASSUME NEW s, IsSeq(s), NEW i \in 1..(Len(s) - 1), NEW m
    PROVE  LET t == WithMerged(s, i, m)
           IN  /\ IsSeq(t)
               /\ Len(t) = Len(s) - 1
               /\ \A k \in 1..(Len(s) - 1) :
                     t[k] = IF k < i THEN s[k] ELSE IF k = i THEN m ELSE s[k + 1]
<1>. DEFINE S == Range(s) \cup {m}
            q == <<m>>
            a == i - 1
            b == i + 1
            t == Splice(s, a, b, q)
<1>1. s \in Seq(S) /\ Len(s) \in Nat /\ q \in Seq(S) /\ Len(q) = 1 /\ q[1] = m
  BY DEF IsSeq
<1>2. a \in 0..Len(s) /\ b \in a..Len(s) /\ i \in Nat /\ b + 1 = i + 2  BY <1>1
<1>3. (a + Len(q)) + (Len(s) - b) = Len(s) - 1  BY <1>1, <1>2
<1>. HIDE DEF S, q
<1>4. /\ t \in Seq(S) /\ Len(t) = Len(s) - 1
      /\ \A k \in 1..(Len(s) - 1) :
           t[k] = IF k <= a THEN s[k] ELSE IF k <= a + Len(q) THEN q[k - a]
                  ELSE s[k - (a + Len(q)) + b]
  <2>. HIDE DEF a, b
  <2>1. /\ Splice(s, a, b, q) \in Seq(S)
        /\ Len(Splice(s, a, b, q)) = (a + Len(q)) + (Len(s) - b)
        /\ \A k \in 1..((a + Len(q)) + (Len(s) - b)) :
              Splice(s, a, b, q)[k] = SpliceAt(s, a, b, q, k)
    BY <1>1, <1>2, SpliceElements, Zenon
  <2>. QED  BY <2>1, <1>3, Zenon DEF SpliceAt
<1>5. t = WithMerged(s, i, m)  BY <1>2 DEF q, Splice, WithMerged
<1>. HIDE DEF t
<1>6. ASSUME NEW k \in 1..(Len(s) - 1)
      PROVE  t[k] = IF k < i THEN s[k] ELSE IF k = i THEN m ELSE s[k + 1]
  <2>1. /\ k <= a <=> k < i
        /\ k <= a + Len(q) <=> k <= i
        /\ k - (a + Len(q)) + b = k + 1
        /\ k = i => k - a = 1
        /\ k <= i <=> k < i \/ k = i
    BY <1>1, <1>2
  <2>. HIDE DEF a, b
  <2>. QED  BY <2>1, <1>1, <1>4
<1>7. IsSeq(t)  BY <1>4, SeqIsSeq
<1>. QED  BY <1>4, <1>5, <1>6, <1>7

(***************************************************************************)
(* A boundary of the partition comes and goes.                             *)
(***************************************************************************)
WithInserted(s, i, x) == SubSeq(s, 1, i - 1) \o <<x>> \o SubSeq(s, i, Len(s))
Without(s, i) == SubSeq(s, 1, i - 1) \o SubSeq(s, i + 1, Len(s))

LEMMA InsertElements ==
    ASSUME NEW S, NEW s \in Seq(S), NEW i \in 1..(Len(s) + 1), NEW x \in S
    PROVE  LET t == WithInserted(s, i, x)
           IN  /\ t \in Seq(S)
               /\ Len(t) = Len(s) + 1
               /\ \A k \in 1..(Len(s) + 1) :
                     t[k] = IF k < i THEN s[k] ELSE IF k = i THEN x ELSE s[k - 1]
<1>. DEFINE q == <<x>>
            a == i - 1
            t == Splice(s, a, a, q)
<1>1. Len(s) \in Nat /\ q \in Seq(S) /\ Len(q) = 1 /\ q[1] = x  OBVIOUS
<1>2. a \in 0..Len(s) /\ a \in a..Len(s) /\ i \in Nat /\ a + 1 = i  BY <1>1
<1>3. (a + Len(q)) + (Len(s) - a) = Len(s) + 1  BY <1>1, <1>2
<1>. HIDE DEF q
<1>4. /\ t \in Seq(S) /\ Len(t) = Len(s) + 1
      /\ \A k \in 1..(Len(s) + 1) :
           t[k] = IF k <= a THEN s[k] ELSE IF k <= a + Len(q) THEN q[k - a]
                  ELSE s[k - (a + Len(q)) + a]
  <2>. HIDE DEF a
  <2>1. /\ Splice(s, a, a, q) \in Seq(S)
        /\ Len(Splice(s, a, a, q)) = (a + Len(q)) + (Len(s) - a)
        /\ \A k \in 1..((a + Len(q)) + (Len(s) - a)) :
              Splice(s, a, a, q)[k] = SpliceAt(s, a, a, q, k)
    BY <1>1, <1>2, SpliceElements, Zenon
  <2>. QED  BY <2>1, <1>3, Zenon DEF SpliceAt
<1>5. t = WithInserted(s, i, x)  BY <1>2 DEF q, Splice, WithInserted
<1>. HIDE DEF t
<1>6. ASSUME NEW k \in 1..(Len(s) + 1)
      PROVE  t[k] = IF k < i THEN s[k] ELSE IF k = i THEN x ELSE s[k - 1]
  <2>1. /\ k <= a <=> k < i
        /\ k <= a + Len(q) <=> k <= i
        /\ k - (a + Len(q)) + a = k - 1
        /\ k = i => k - a = 1
        /\ k <= i <=> k < i \/ k = i
    BY <1>1, <1>2
  <2>. HIDE DEF a
  <2>. QED  BY <2>1, <1>1, <1>4
<1>. QED  BY <1>4, <1>5, <1>6

LEMMA RemoveElements ==
    ASSUME NEW S, NEW s \in Seq(S), NEW i \in 1..Len(s)
    PROVE  LET t == Without(s, i)
           IN  /\ t \in Seq(S)
               /\ Len(t) = Len(s) - 1
               /\ \A k \in 1..(Len(s) - 1) : t[k] = IF k < i THEN s[k] ELSE s[k + 1]
<1>. DEFINE a == SubSeq(s, 1, i - 1)
            b == SubSeq(s, i + 1, Len(s))
            t == a \o b
<1>1. Len(s) \in Nat /\ i \in Nat \ {0} /\ i <= Len(s)  OBVIOUS
<1>2. a \in Seq(S) /\ Len(a) = i - 1 /\ \A k \in 1..(i - 1) : a[k] = s[k]  BY <1>1
<1>3. /\ b \in Seq(S) /\ Len(b) = Len(s) - i
      /\ \A k \in 1..(Len(s) - i) : b[k] = s[k + i]
  BY <1>1
<1>. HIDE DEF a, b
<1>4. /\ t \in Seq(S) /\ Len(t) = Len(a) + Len(b)
      /\ \A k \in 1..(Len(a) + Len(b)) : t[k] = IF k <= Len(a) THEN a[k] ELSE b[k - Len(a)]
  BY <1>2, <1>3, ConcatProperties
<1>. HIDE DEF t
<1>5. Len(a) + Len(b) = Len(s) - 1  BY <1>1, <1>2, <1>3
<1>6. ASSUME NEW k \in 1..(Len(s) - 1)
      PROVE  t[k] = IF k < i THEN s[k] ELSE s[k + 1]
  <2>1. CASE k < i  BY <1>1, <1>2, <1>4, <1>5, <2>1
  <2>2. CASE k >= i
    <3>1. k - (i - 1) \in 1..(Len(s) - i) /\ (k - (i - 1)) + i = k + 1  BY <1>1, <2>2
    <3>2. t[k] = b[k - (i - 1)]  BY <1>1, <1>2, <1>4, <1>5, <2>2
    <3>. QED  BY <1>1, <1>3, <2>2, <3>1, <3>2
  <2>. QED  BY <1>1, <2>1, <2>2
<1>. QED  BY <1>4, <1>5, <1>6 DEF t, a, b, Without

-----------------------------------------------------------------------------
(* Keys.                                                                    *)

(***************************************************************************)
(* A byte is an integer, and halving bytes as ComputeMidpointKey does      *)
(* gives a byte.                                                           *)
(***************************************************************************)
LEMMA ByteArithmetic ==
    ASSUME NEW x \in Byte, NEW y \in Byte
    PROVE  x \in Int /\ x \div 2 \in Byte /\ (x + y) \div 2 \in Byte
<1>1. x \in 0..255 /\ y \in 0..255  BY DEF Byte
<1>2. x \div 2 \in 0..255 /\ (x + y) \div 2 \in 0..255  BY <1>1
<1>. QED  BY <1>1, <1>2 DEF Byte

(***************************************************************************)
(* A key is a finite string of bytes.                                      *)
(***************************************************************************)
LEMMA KeyBytes ==
    ASSUME NEW a \in Key
    PROVE  /\ Len(a) \in Nat
           /\ DOMAIN a = 1..Len(a)
           /\ \A i \in 1..Len(a) : a[i] \in Byte /\ a[i] \in Int
<1>1. a \in Seq(Byte)  BY DEF Key
<1>2. Len(a) \in Nat /\ DOMAIN a = 1..Len(a)  BY <1>1
<1>3. \A i \in 1..Len(a) : a[i] \in Byte  BY <1>1
<1>4. \A i \in 1..Len(a) : a[i] \in Int  BY <1>3, ByteArithmetic
<1>. QED  BY <1>2, <1>3, <1>4

(***************************************************************************)
(* The comparison of std::string is irreflexive and transitive.            *)
(***************************************************************************)
LEMMA KeyLTIrreflexive ==
    ASSUME NEW a \in Key
    PROVE  ~KeyLT(a, a)
<1>1. SUFFICES ASSUME NEW i \in 1..Len(a), i = Len(a) + 1 \/ a[i] < a[i]
               PROVE  FALSE
  BY DEF KeyLT
<1>. QED  BY <1>1, KeyBytes

LEMMA KeyLTTransitive ==
    ASSUME NEW a \in Key, NEW b \in Key, NEW c \in Key,
           KeyLT(a, b), KeyLT(b, c)
    PROVE  KeyLT(a, c)
<1>0. /\ Len(a) \in Nat /\ Len(b) \in Nat /\ Len(c) \in Nat
      /\ \A i \in 1..Len(a) : a[i] \in Int
      /\ \A i \in 1..Len(b) : b[i] \in Int
      /\ \A i \in 1..Len(c) : c[i] \in Int
  BY KeyBytes
<1>1. PICK i \in 1..Len(b) :
        /\ i <= Len(a) + 1
        /\ \A j \in 1..(i - 1) : a[j] = b[j]
        /\ i = Len(a) + 1 \/ a[i] < b[i]
  BY DEF KeyLT
<1>2. PICK k \in 1..Len(c) :
        /\ k <= Len(b) + 1
        /\ \A j \in 1..(k - 1) : b[j] = c[j]
        /\ k = Len(b) + 1 \/ b[k] < c[k]
  BY DEF KeyLT
<1>3. CASE i < k
  <2>1. i \in 1..Len(c) /\ b[i] = c[i]  BY <1>0, <1>1, <1>2, <1>3
  <2>2. \A j \in 1..(i - 1) : a[j] = c[j]  BY <1>0, <1>1, <1>2, <1>3
  <2>. QED  BY <1>0, <1>1, <2>1, <2>2 DEF KeyLT
<1>4. CASE k < i
  <2>1. k <= Len(a) + 1 /\ a[k] < c[k]  BY <1>0, <1>1, <1>2, <1>4
  <2>2. \A j \in 1..(k - 1) : a[j] = c[j]  BY <1>0, <1>1, <1>2, <1>4
  <2>. QED  BY <1>0, <1>1, <1>2, <2>1, <2>2 DEF KeyLT
<1>5. CASE i = k
  <2>1. \A j \in 1..(i - 1) : a[j] = c[j]  BY <1>0, <1>1, <1>2, <1>5
  <2>2. i = Len(a) + 1 \/ a[i] < c[i]  BY <1>0, <1>1, <1>2, <1>5
  <2>. QED  BY <1>0, <1>1, <1>2, <1>5, <2>1, <2>2 DEF KeyLT
<1>. QED  BY <1>0, <1>1, <1>2, <1>3, <1>4, <1>5

(***************************************************************************)
(* The sorted list of finitely many keys has an element at position        *)
(* size/2: the choice in MedianKey is never void.  The element is one with *)
(* the most keys below it among those with at most size/2 keys below them. *)
(***************************************************************************)
LEMMA MedianExists ==
    ASSUME NEW ms, IsFiniteSet(DOMAIN ms), DOMAIN ms # {},
           \A i \in DOMAIN ms : ms[i] \in Key,
           NEW half \in Nat, half < Cardinality(DOMAIN ms)
    PROVE  \E i \in DOMAIN ms : /\ Cardinality(KeysBelow(ms, i)) <= half
                               /\ half < Cardinality(KeysUpTo(ms, i))
<1>. DEFINE D == DOMAIN ms
            B(i) == KeysBelow(ms, i)
            U(i) == KeysUpTo(ms, i)
<1>1. \A i \in D : /\ B(i) \subseteq D /\ IsFiniteSet(B(i)) /\ Cardinality(B(i)) \in Nat
                   /\ U(i) \subseteq D /\ IsFiniteSet(U(i)) /\ Cardinality(U(i)) \in Nat
  <2>1. \A i \in D : B(i) \subseteq D /\ U(i) \subseteq D  BY DEF KeysBelow, KeysUpTo
  <2>. QED  BY <2>1, FS_Subset, FS_CardinalityType
<1>2. \A i, j \in D : j \in B(i) => B(j) \subseteq B(i) /\ j \notin B(j)
  BY KeyLTTransitive, KeyLTIrreflexive DEF KeysBelow
<1>3. \A i, j \in D : j \in B(i) => Cardinality(B(j)) < Cardinality(B(i))
  <2>1. SUFFICES ASSUME NEW i \in D, NEW j \in D, j \in B(i)
                 PROVE  Cardinality(B(j)) < Cardinality(B(i))
    OBVIOUS
  <2>2. B(j) \subseteq B(i) /\ B(j) # B(i)  BY <1>2, <2>1
  <2>3. B(j) \in SUBSET B(i)  BY <2>2
  <2>4. /\ Cardinality(B(j)) <= Cardinality(B(i))
        /\ Cardinality(B(j)) = Cardinality(B(i)) => B(i) = B(j)
    BY <1>1, <2>3, FS_Subset
  <2>. QED  BY <1>1, <2>2, <2>4
<1>4. ASSUME NEW T \in SUBSET D, T # {}
      PROVE  \E i \in T : \A j \in T : Cardinality(B(i)) <= Cardinality(B(j))
  <2>. DEFINE C == {Cardinality(B(i)) : i \in T}
  <2>1. C \in SUBSET Nat /\ C # {}  BY <1>1, <1>4
  <2>. HIDE DEF C
  <2>2. PICK c \in C : \A y \in C : c <= y  BY <2>1, NatHasMin
  <2>. USE DEF C
  <2>. QED  BY <2>2
<1>. DEFINE S == {i \in D : Cardinality(B(i)) <= half}
<1>5. S # {}
  <2>1. PICK i \in D : \A j \in D : Cardinality(B(i)) <= Cardinality(B(j))  BY <1>4
  <2>2. B(i) = {}  BY <1>1, <1>3, <2>1
  <2>3. Cardinality(B(i)) = 0  BY <2>2, FS_EmptySet
  <2>. QED  BY <2>3
<1>6. PICK i \in S : \A j \in S : Cardinality(B(j)) <= Cardinality(B(i))
  <2>. DEFINE C == {half - Cardinality(B(j)) : j \in S}
  <2>1. C \in SUBSET Nat /\ C # {}  BY <1>1, <1>5
  <2>. HIDE DEF C
  <2>2. PICK c \in C : \A y \in C : c <= y  BY <2>1, NatHasMin
  <2>. USE DEF C
  <2>3. PICK i \in S : c = half - Cardinality(B(i))  BY <2>2
  <2>4. \A j \in S : half - Cardinality(B(i)) <= half - Cardinality(B(j))  BY <2>2, <2>3
  <2>. QED  BY <1>1, <2>4
<1>7. half < Cardinality(U(i))
  <2>1. SUFFICES ASSUME Cardinality(U(i)) <= half  PROVE FALSE
    BY <1>1, <1>6
  <2>. DEFINE T == D \ U(i)
  <2>2. T # {}
    <3>1. Cardinality(U(i)) # Cardinality(D)  BY <1>1, <1>6, <2>1
    <3>. QED  BY <1>1, <1>6, <3>1
  <2>3. PICK j \in T : \A k \in T : Cardinality(B(j)) <= Cardinality(B(k))  BY <1>4, <2>2
  <2>4. B(j) \subseteq U(i)
    <3>1. SUFFICES ASSUME NEW k \in B(j), k \notin U(i)  PROVE FALSE
      OBVIOUS
    <3>2. k \in T  BY <1>1, <2>3, <3>1
    <3>. QED  BY <1>1, <1>3, <2>3, <3>1, <3>2
  <2>5. Cardinality(B(j)) <= half  BY <1>1, <1>6, <2>1, <2>3, <2>4, FS_Subset
  <2>6. i \in B(j)  BY <1>6, <2>3 DEF KeysUpTo, KeysBelow
  <2>. QED  BY <1>1, <1>3, <1>6, <2>3, <2>5, <2>6
<1>. QED  BY <1>6, <1>7

(***************************************************************************)
(* The median of keys is one of them.                                      *)
(***************************************************************************)
LEMMA MedianKeyIsElement ==
    ASSUME NEW ms, IsFiniteSet(DOMAIN ms), DOMAIN ms # {},
           \A i \in DOMAIN ms : ms[i] \in Key
    PROVE  MedianKey(ms) \in Key /\ \E i \in DOMAIN ms : MedianKey(ms) = ms[i]
<1>. DEFINE half == Cardinality(DOMAIN ms) \div 2
<1>1. Cardinality(DOMAIN ms) \in Nat /\ Cardinality(DOMAIN ms) # 0
  BY FS_CardinalityType, FS_EmptySet
<1>2. half \in Nat /\ half < Cardinality(DOMAIN ms)  BY <1>1
<1>. HIDE DEF half
<1>3. \E i \in DOMAIN ms : /\ Cardinality(KeysBelow(ms, i)) <= half
                           /\ half < Cardinality(KeysUpTo(ms, i))
  BY <1>2, MedianExists
<1>. USE DEF half
<1>. QED  BY <1>3 DEF MedianKey

(***************************************************************************)
(* ComputeMidpointKey returns a key, and never the empty one, which the    *)
(* bucket manager would take for an infinite bound.                        *)
(***************************************************************************)
LEMMA MidpointIsKey ==
    ASSUME NEW a \in Key, NEW b \in Key
    PROVE  ComputeMidpointKey(a, b) \in Key /\ ComputeMidpointKey(a, b) # Empty
<1>1. ASSUME NEW s \in Key, NEW x \in Byte
      PROVE  Append(s, x) \in Key /\ Append(s, x) # Empty
  <2>1. s \in Seq(Byte)  BY DEF Key
  <2>2. Append(s, x) \in Seq(Byte) /\ Len(Append(s, x)) = Len(s) + 1  BY <2>1
  <2>3. Len(s) \in Nat /\ Len(<< >>) = 0  BY <2>1
  <2>. QED  BY <2>2, <2>3 DEF Key, Empty
<1>2. ASSUME NEW x \in Byte
      PROVE  <<x>> \in Key /\ <<x>> # Empty
  <2>1. <<x>> \in Seq(Byte) /\ Len(<<x>>) = 1 /\ Len(<< >>) = 0  OBVIOUS
  <2>. QED  BY <2>1 DEF Key, Empty
<1>3. 77 \in Byte /\ 128 \in Byte /\ 1 \in Byte  BY DEF Byte
<1>4. ASSUME b # Empty
      PROVE  MidpointBelow(b) \in Key /\ MidpointBelow(b) # Empty
  <2>1. b[1] \in 2..127 => b[1] - 1 \in Byte  BY DEF Byte
  <2>. QED  BY <1>2, <1>3, <2>1 DEF MidpointBelow
<1>5. MidpointCandidate(a, b) \in Key /\ MidpointCandidate(a, b) # Empty
  <2>. DEFINE smaller == {i \in 1..Len(a) : i <= Len(b) /\ a[i] < b[i]}
              i == Min(smaller)
  <2>1. ASSUME smaller # {}
        PROVE  /\ Append(SubSeq(a, 1, i - 1), (a[i] + b[i]) \div 2) \in Key
               /\ Append(SubSeq(a, 1, i - 1), (a[i] + b[i]) \div 2) # Empty
    <3>1. smaller \in SUBSET Nat  OBVIOUS
    <3>2. i \in smaller  BY <2>1, <3>1, MinProperties
    <3>3. i \in 1..Len(a) /\ i \in 1..Len(b)  BY <3>2, KeyBytes
    <3>. HIDE DEF i
    <3>4. a[i] \in Byte /\ b[i] \in Byte  BY <3>3, KeyBytes
    <3>5. (a[i] + b[i]) \div 2 \in Byte  BY <3>4, ByteArithmetic
    <3>6. SubSeq(a, 1, i - 1) \in Key  BY <3>3, KeyBytes DEF Key
    <3>. QED  BY <1>1, <3>5, <3>6
  <2>2. ASSUME Len(a) < Len(b)
        PROVE  Append(a, b[Len(a) + 1] \div 2) \in Key /\ Append(a, b[Len(a) + 1] \div 2) # Empty
    <3>1. b[Len(a) + 1] \in Byte  BY <2>2, KeyBytes
    <3>2. b[Len(a) + 1] \div 2 \in Byte  BY <3>1, ByteArithmetic
    <3>. QED  BY <1>1, <3>2
  <2>3. Append(a, 128) \in Key /\ Append(a, 128) # Empty  BY <1>1, <1>3
  <2>. QED  BY <2>1, <2>2, <2>3 DEF MidpointCandidate
<1>6. Append(a, 128) \in Key /\ Append(a, 128) # Empty  BY <1>1, <1>3
<1>7. <<77>> \in Key /\ <<77>> # Empty  BY <1>2, <1>3
<1>. QED  BY <1>4, <1>5, <1>6, <1>7 DEF ComputeMidpointKey

(***************************************************************************)
(* A chain of ranges from -infinity to +infinity leaves no key out, even   *)
(* if its boundaries do not ascend: the first range that ends above the    *)
(* key starts at or below it.  (FindBucketInternal: "Should never reach    *)
(* here if buckets cover entire key space".)                               *)
(***************************************************************************)
LEMMA ChainCovers ==
    ASSUME NEW n \in Nat \ {0}, NEW r,
           r[1].min_key = Empty, r[n].max_key = Empty,
           \A i \in 1..(n - 1) : r[i].max_key = r[i + 1].min_key,
           NEW k
    PROVE  \E i \in 1..n : InRange(k, r[i])
<1>. DEFINE T == {i \in 1..n : LtMax(k, r[i].max_key)}
<1>1. n \in T  BY DEF LtMax
<1>a. T \in SUBSET Nat  OBVIOUS
<1>. HIDE DEF T
<1>2. PICK i \in T : \A y \in T : i <= y  BY <1>1, <1>a, NatHasMin
<1>. USE DEF T
<1>3. CASE i = 1  BY <1>2, <1>3 DEF InRange, GeMin
<1>4. CASE i # 1
  <2>1. i - 1 \in 1..(n - 1) /\ i - 1 \in 1..n  BY <1>2, <1>4
  <2>2. ~LtMax(k, r[i - 1].max_key)  BY <1>2, <2>1
  <2>3. r[i - 1].max_key = r[(i - 1) + 1].min_key  BY <2>1
  <2>4. r[i].min_key = r[i - 1].max_key  BY <2>1, <2>3
  <2>. QED  BY <1>2, <2>2, <2>4 DEF InRange, GeMin, LtMax
<1>. QED  BY <1>3, <1>4

(***************************************************************************)
(* FindBucketInternal and FindBucketInSnapshot return a range that holds   *)
(* the key when there is one.                                              *)
(***************************************************************************)
LEMMA FindBucketInHolds ==
    ASSUME NEW r, NEW n \in Nat, DOMAIN r = 1..n,
           NEW k, \E i \in 1..n : InRange(k, r[i])
    PROVE  /\ FindBucketIn(r, k) \in 1..n
           /\ InRange(k, r[FindBucketIn(r, k)])
<1>. DEFINE hits == {i \in DOMAIN r : InRange(k, r[i])}
<1>1. hits \in SUBSET Nat /\ hits # {}  OBVIOUS
<1>2. Min(hits) \in hits  BY <1>1, MinProperties
<1>3. FindBucketIn(r, k) = Min(hits)  BY <1>1 DEF FindBucketIn
<1>. QED  BY <1>2, <1>3

-----------------------------------------------------------------------------
(* The invariant.                                                           *)

EpochsBehind ==
    \A j \in Jobs : pc[j] = "build" => snap[j].epoch <= structure_epoch
BeforeInitialize ==
    ~initialized => adjusting.todo = {} /\ \A j \in Jobs : pc[j] # "build"

IInv ==
    /\ TypeOK
    /\ Partition
    /\ SnapshotFresh
    /\ EventsInWindow
    /\ EpochsBehind
    /\ BeforeInitialize

(***************************************************************************)
(* What the proofs need to know of a list of buckets: every bucket is well *)
(* typed after n flushes, and its events lie in the window that ends at n. *)
(***************************************************************************)
InWindow(b, n) ==
    \A id \in DOMAIN b.flush_events : n - WindowSize < id /\ id <= n
BucketOK(b, n) == BucketType(b, n) /\ InWindow(b, n)


BucketsOK(bs, n) ==
    /\ IsSeq(bs)
    /\ IsChain(bs)
    /\ \A i \in 1..Len(bs) : BucketOK(bs[i], n)

-----------------------------------------------------------------------------
(* The first flush.                                                         *)

(***************************************************************************)
(* The split points of the first flush are keys of the memtable: the       *)
(* iterator of WriteBucketLevel0Table is valid wherever one is read.       *)
(***************************************************************************)
LEMMA SplitPointsAreKeys ==
    ASSUME NEW m \in Memtable
    PROVE  InitialSplitPoints(m) \in Seq(Key)
<1>. DEFINE epb == (Len(m.keys) + m.range_dels) \div TargetCount
            reached == {i \in 1..(TargetCount - 1) : i * epb < Len(m.keys)}
<1>1. m.keys \in Seq(Key) /\ m.range_dels \in Nat  BY DEF Memtable
<1>2. Len(m.keys) \in Nat /\ TargetCount \in Nat \ {0}  BY <1>1, SizeAssumption
<1>3. epb \in Nat  BY <1>1, <1>2, DivNat
<1>. HIDE DEF epb
<1>4. /\ IsFiniteSet(reached) /\ Cardinality(reached) \in Nat
      /\ reached \in SUBSET (1..(TargetCount - 1))
  BY <1>2, IndexSets
<1>5. ASSUME NEW i \in 1..Cardinality(reached)
      PROVE  i * epb < Len(m.keys)
  <2>1. SUFFICES ASSUME ~(i * epb < Len(m.keys))
                 PROVE  Cardinality(reached) <= i - 1
    BY <1>4
  <2>2. ASSUME NEW k \in reached, k >= i  PROVE FALSE
    <3>1. k \in Nat /\ i \in Nat /\ k * epb < Len(m.keys)  BY <1>2, <1>4, <2>2
    <3>2. i * epb <= k * epb  BY <1>3, <2>2, <3>1
    <3>. QED  BY <1>2, <1>3, <2>1, <3>1, <3>2
  <2>3. reached \in SUBSET (1..(i - 1))  BY <1>2, <1>4, <2>2
  <2>4. i - 1 \in Nat  BY <1>4
  <2>. QED  BY <2>3, <2>4, IndexSets
<1>6. ASSUME NEW i \in 1..Cardinality(reached)
      PROVE  m.keys[i * epb + 1] \in Key
  <2>1. i * epb \in Nat  BY <1>3, <1>4
  <2>. QED  BY <1>1, <1>2, <1>5, <2>1
<1>7. [i \in 1..Cardinality(reached) |-> m.keys[i * epb + 1]] \in Seq(Key)
  BY <1>4, <1>6
<1>. QED  BY <1>7 DEF InitialSplitPoints, epb

(***************************************************************************)
(* InitializeFromFirstFlush builds a chain from any split points.          *)
(***************************************************************************)
LEMMA InitialBucketsOK ==
    ASSUME NEW sp \in Seq(Key), NEW n \in Nat
    PROVE  BucketsOK(InitialBuckets(sp), n)
<1>. DEFINE bs == InitialBuckets(sp)
            len == Len(sp) + 1
<1>1. Len(sp) \in Nat /\ \A i \in 1..Len(sp) : sp[i] \in Key  OBVIOUS
<1>2. Empty \in Key  BY DEF Empty, Key
<1>3. /\ DOMAIN bs = 1..len /\ bs = [i \in 1..len |-> bs[i]]
      /\ \A i \in 1..len :
            /\ bs[i].min_key = IF i = 1 THEN Empty ELSE sp[i - 1]
            /\ bs[i].max_key = IF i = len THEN Empty ELSE sp[i]
            /\ bs[i].flush_events = << >>
  BY DEF InitialBuckets, NewBucket, MakeBucket
<1>. HIDE DEF bs
<1>4. IsSeq(bs) /\ Len(bs) = len  BY <1>1, <1>3, FunctionIsSeq
<1>5. IsChain(bs)
  <2>1. ASSUME NEW i \in 1..(len - 1)
        PROVE  bs[i].max_key = bs[i + 1].min_key
    BY <1>1, <1>3
  <2>3. len > 0 /\ 1 \in 1..len /\ len \in 1..len  BY <1>1
  <2>. HIDE DEF len
  <2>2. bs[1].min_key = Empty /\ bs[len].max_key = Empty  BY <1>3, <2>3
  <2>. QED  BY <1>4, <2>1, <2>2, <2>3 DEF IsChain
<1>6. ASSUME NEW i \in 1..len  PROVE BucketOK(bs[i], n)
  <2>1. bs[i].min_key \in Key /\ bs[i].max_key \in Key  BY <1>1, <1>2, <1>3
  <2>2. DOMAIN bs[i].flush_events = {}  BY <1>3
  <2>. QED  BY <2>1, <2>2 DEF BucketOK, BucketType, InWindow
<1>. QED  BY <1>4, <1>5, <1>6 DEF BucketsOK, bs

-----------------------------------------------------------------------------
(* OnFlushCompleted.                                                        *)

LEMMA FlushResultsOK ==
    ASSUME NEW ranges \in Seq(KeyRange), NEW m \in Memtable
    PROVE  LET results == FlushResults(ranges, m)
           IN  /\ DOMAIN results = 1..Len(ranges)
               /\ IsSeq(results)
               /\ Len(results) = Len(ranges)
               /\ \A i \in 1..Len(ranges) :
                     /\ results[i].min_key \in Key /\ results[i].max_key \in Key
                     /\ results[i].median_key \in Key
<1>. DEFINE results == FlushResults(ranges, m)
<1>1. Len(ranges) \in Nat /\ DOMAIN ranges = 1..Len(ranges)  OBVIOUS
<1>2. \A i \in 1..Len(ranges) : ranges[i].min_key \in Key /\ ranges[i].max_key \in Key
  <2>1. ASSUME NEW i \in 1..Len(ranges)  PROVE ranges[i] \in KeyRange  OBVIOUS
  <2>. QED  BY <2>1 DEF KeyRange
<1>3. m.keys \in Seq(Key) /\ Len(m.keys) \in Nat  BY DEF Memtable
<1>4. ASSUME NEW i \in 1..Len(ranges)
      PROVE  BucketMedianKey(ranges, m, i) \in Key
  <2>. DEFINE C == CountedIn(ranges, m, i)
              ms == [k \in C |-> m.keys[k]]
  <2>1. C \in SUBSET (1..Len(m.keys))  BY DEF CountedIn
  <2>2. IsFiniteSet(C)  BY <1>3, <2>1, IndexSets
  <2>. HIDE DEF C
  <2>3. DOMAIN ms = C /\ \A k \in DOMAIN ms : ms[k] \in Key  BY <1>3, <2>1
  <2>. HIDE DEF ms
  <2>4. C # {} => MedianKey(ms) \in Key  BY <2>2, <2>3, MedianKeyIsElement
  <2>5. Empty \in Key  BY DEF Empty, Key
  <2>. QED  BY <2>4, <2>5 DEF BucketMedianKey, C, ms
<1>5. /\ DOMAIN results = 1..Len(ranges) /\ results = [i \in 1..Len(ranges) |-> results[i]]
      /\ \A i \in 1..Len(ranges) :
            /\ results[i].min_key = ranges[i].min_key
            /\ results[i].max_key = ranges[i].max_key
            /\ results[i].median_key = BucketMedianKey(ranges, m, i)
  BY <1>1 DEF FlushResults
<1>. HIDE DEF results
<1>6. IsSeq(results) /\ Len(results) = Len(ranges)  BY <1>1, <1>5, FunctionIsSeq
<1>. QED  BY <1>2, <1>4, <1>5, <1>6 DEF results

(***************************************************************************)
(* The slow path gives every current bucket an event with a key as median. *)
(***************************************************************************)
LEMMA SlowPathOK ==
    ASSUME NEW results, NEW len \in Nat, DOMAIN results = 1..len,
           \A i \in 1..len : results[i].min_key \in Key /\ results[i].max_key \in Key,
           \A i \in DOMAIN buckets : buckets[i].min_key \in Key /\ buckets[i].max_key \in Key
    PROVE  /\ DOMAIN SlowPathEvents(results) = DOMAIN buckets
           /\ \A i \in DOMAIN buckets : SlowPathEvents(results)[i].median_key \in Key
<1>. DEFINE from(i) == {r \in DOMAIN results : i \in FindBucketsInRange(results[r])}
            ms(i) == [r \in from(i) |-> IntersectionMedian(buckets[i], results[r])]
            median(i) == IF from(i) = {} THEN Empty ELSE MedianKey(ms(i))
<1>1. ASSUME NEW i \in DOMAIN buckets, NEW r \in 1..len
      PROVE  IntersectionMedian(buckets[i], results[r]) \in Key
  BY MidpointIsKey DEF IntersectionMedian
<1>2. ASSUME NEW i \in DOMAIN buckets
      PROVE  median(i) \in Key
  <2>1. from(i) \in SUBSET (1..len)  OBVIOUS
  <2>2. IsFiniteSet(from(i))  BY <2>1, IndexSets
  <2>3. DOMAIN ms(i) = from(i) /\ \A r \in DOMAIN ms(i) : ms(i)[r] \in Key  BY <1>1, <2>1
  <2>. HIDE DEF from, ms
  <2>4. from(i) # {} => MedianKey(ms(i)) \in Key  BY <2>2, <2>3, MedianKeyIsElement
  <2>5. Empty \in Key  BY DEF Empty, Key
  <2>. QED  BY <2>4, <2>5
<1>3. /\ DOMAIN SlowPathEvents(results) = DOMAIN buckets
      /\ \A i \in DOMAIN buckets : SlowPathEvents(results)[i].median_key = median(i)
  BY DEF SlowPathEvents
<1>. HIDE DEF median
<1>. QED  BY <1>2, <1>3

LEMMA RemovedEvents ==
    ASSUME NEW b, NEW id
    PROVE  LET r == RemoveFlushEvent(b, id)
           IN  /\ r.min_key = b.min_key /\ r.max_key = b.max_key
               /\ DOMAIN r.flush_events = DOMAIN b.flush_events \ {id}
               /\ \A k \in DOMAIN r.flush_events :
                     r.flush_events[k] = b.flush_events[k]
<1>1. CASE id \in DOMAIN b.flush_events
  <2>. DEFINE ev == [i \in DOMAIN b.flush_events \ {id} |-> b.flush_events[i]]
              w == MinusStats(b.window, b.flush_events[id].stats)
  <2>1. RemoveFlushEvent(b, id) = MakeBucket(b.min_key, b.max_key, ev, w)
    BY <1>1 DEF RemoveFlushEvent
  <2>2. /\ DOMAIN ev = DOMAIN b.flush_events \ {id}
        /\ \A k \in DOMAIN ev : ev[k] = b.flush_events[k]
    OBVIOUS
  <2>. HIDE DEF ev, w
  <2>. QED  BY <2>1, <2>2 DEF MakeBucket
<1>2. CASE id \notin DOMAIN b.flush_events
  BY <1>2 DEF RemoveFlushEvent
<1>. QED  BY <1>1, <1>2

(***************************************************************************)
(* Adding the event of flush n + 1 to every bucket, and removing the event *)
(* that leaves the window, keeps types and ranges and moves the window on. *)
(***************************************************************************)
LEMMA CompletedOK ==
    ASSUME NEW bs, NEW n \in Nat, IsSeq(bs),
           \A i \in 1..Len(bs) : BucketOK(bs[i], n),
           NEW events, \A i \in 1..Len(bs) : events[i].median_key \in Key
    PROVE  LET t == Completed(bs, n + 1, events)
           IN  /\ IsSeq(t) /\ Len(t) = Len(bs) /\ DOMAIN t = DOMAIN bs
               /\ \A i \in 1..Len(bs) :
                     /\ t[i].min_key = bs[i].min_key
                     /\ t[i].max_key = bs[i].max_key
                     /\ BucketOK(t[i], n + 1)
<1>. DEFINE t == Completed(bs, n + 1, events)
            old == (n + 1) - WindowSize
            added(i) == AddFlushEvent(bs[i], n + 1, events[i])
<1>1. Len(bs) \in Nat /\ DOMAIN bs = 1..Len(bs)  BY SeqDomain
<1>a. t = [i \in DOMAIN bs |-> RemoveFlushEvent(added(i), old)]
  BY DEF Completed
<1>. HIDE DEF t, added, old
<1>2. /\ DOMAIN t = 1..Len(bs) /\ t = [i \in 1..Len(bs) |-> t[i]]
      /\ \A i \in 1..Len(bs) : t[i] = RemoveFlushEvent(added(i), old)
  BY <1>1, <1>a
<1>3. IsSeq(t) /\ Len(t) = Len(bs)  BY <1>1, <1>2, FunctionIsSeq
<1>4. WindowSize \in Nat \ {0}  BY SizeAssumption
<1>5. ASSUME NEW i \in 1..Len(bs)
      PROVE  /\ t[i].min_key = bs[i].min_key
             /\ t[i].max_key = bs[i].max_key
             /\ BucketOK(t[i], n + 1)
  <2>. DEFINE b == bs[i]
              a == added(i)
              D == DOMAIN b.flush_events
  <2>1. /\ b.min_key \in Key /\ b.max_key \in Key /\ D \subseteq 1..n
        /\ \A id \in D : b.flush_events[id].median_key \in Key
        /\ \A id \in D : n - WindowSize < id /\ id <= n
    BY <1>5 DEF BucketOK, BucketType, InWindow
  <2>2. /\ a.min_key = b.min_key /\ a.max_key = b.max_key
        /\ DOMAIN a.flush_events = D \cup {n + 1}
        /\ \A id \in D \cup {n + 1} :
              a.flush_events[id] = IF id = n + 1 THEN events[i] ELSE b.flush_events[id]
    BY DEF AddFlushEvent, MakeBucket, added
  <2>3. \A id \in DOMAIN a.flush_events : a.flush_events[id].median_key \in Key
    BY <1>5, <2>1, <2>2
  <2>. HIDE DEF a
  <2>4. /\ t[i].min_key = a.min_key /\ t[i].max_key = a.max_key
        /\ DOMAIN t[i].flush_events = DOMAIN a.flush_events \ {old}
        /\ \A id \in DOMAIN a.flush_events \ {old} :
              t[i].flush_events[id] = a.flush_events[id]
    <3>1. t[i] = RemoveFlushEvent(a, old)  BY <1>2 DEF a
    <3>. QED  BY <3>1, RemovedEvents
  <2>5. DOMAIN t[i].flush_events \subseteq 1..(n + 1)  BY <2>1, <2>2, <2>4
  <2>6. ASSUME NEW id \in DOMAIN t[i].flush_events
        PROVE  (n + 1) - WindowSize < id /\ id <= n + 1
    <3>a. id # old /\ (id \in D \/ id = n + 1)  BY <2>2, <2>4
    <3>1. id # (n + 1) - WindowSize /\ (id \in D \/ id = n + 1)
      BY <3>a DEF old
    <3>2. CASE id \in D
      <4>1. id \in Nat /\ n - WindowSize < id /\ id <= n  BY <2>1, <3>2
      <4>. QED  BY <1>4, <3>1, <4>1
    <3>3. CASE id = n + 1  BY <1>4, <3>3
    <3>. QED  BY <3>1, <3>2, <3>3
  <2>7. BucketType(t[i], n + 1)  BY <2>1, <2>2, <2>3, <2>4, <2>5 DEF BucketType
  <2>8. InWindow(t[i], n + 1)  BY <2>6 DEF InWindow
  <2>9. BucketOK(t[i], n + 1)  BY <2>7, <2>8 DEF BucketOK
  <2>. QED  BY <2>2, <2>4, <2>9
<1>. QED  BY <1>1, <1>2, <1>3, <1>5 DEF t

-----------------------------------------------------------------------------
(* AdjustAfterCompaction.                                                   *)

LEMMA SplitPointIsKey ==
    ASSUME NEW b, NEW n \in Nat, BucketType(b, n)
    PROVE  SplitPoint(b) \in Key
<1>. DEFINE used == {id \in DOMAIN b.flush_events :
                        /\ b.flush_events[id].median_key # Empty
                        /\ b.flush_events[id].stats.file_count > 0}
            ms == [id \in used |-> b.flush_events[id].median_key]
<1>1. /\ b.min_key \in Key /\ b.max_key \in Key
      /\ DOMAIN b.flush_events \subseteq 1..n
      /\ \A id \in DOMAIN b.flush_events : b.flush_events[id].median_key \in Key
  BY DEF BucketType
<1>2. used \in SUBSET (1..n)  BY <1>1
<1>3. IsFiniteSet(used)  BY <1>2, IndexSets
<1>4. DOMAIN ms = used /\ \A id \in DOMAIN ms : ms[id] \in Key  BY <1>1
<1>. HIDE DEF used, ms
<1>5. used # {} => MedianKey(ms) \in Key  BY <1>3, <1>4, MedianKeyIsElement
<1>6. Empty \in Key  BY DEF Empty, Key
<1>7. ComputeSplitPoint(b) \in Key  BY <1>5, <1>6 DEF ComputeSplitPoint, used, ms
<1>. QED  BY <1>1, <1>7, MidpointIsKey DEF SplitPoint

(***************************************************************************)
(* Splitting any bucket of a chain gives a chain, wherever the split point *)
(* lies, and keeps every event inside the window.                          *)
(***************************************************************************)
LEMMA SplitOK ==
    ASSUME NEW bs, NEW n \in Nat, BucketsOK(bs, n), NEW i \in 1..Len(bs)
    PROVE  BucketsOK(SplitBucket(bs, i), n)
<1>. DEFINE sp == SplitPoint(bs[i])
            l == LeftHalf(bs[i], sp)
            r == RightHalf(bs[i], sp)
            t == SplitBucket(bs, i)
<1>1. /\ IsSeq(bs) /\ IsChain(bs) /\ Len(bs) \in Nat
      /\ \A k \in 1..Len(bs) : BucketOK(bs[k], n)
  BY SeqDomain DEF BucketsOK
<1>2. BucketType(bs[i], n) /\ InWindow(bs[i], n)  BY <1>1 DEF BucketOK
<1>3. sp \in Key  BY <1>2, SplitPointIsKey
<1>4. /\ l.min_key = bs[i].min_key /\ l.max_key = sp
      /\ r.min_key = sp /\ r.max_key = bs[i].max_key
  BY DEF LeftHalf, RightHalf, RecalculateWindowStats, MakeBucket
<1>5. BucketOK(l, n) /\ BucketOK(r, n)
  <2>1. /\ DOMAIN l.flush_events \subseteq DOMAIN bs[i].flush_events
        /\ \A id \in DOMAIN l.flush_events : l.flush_events[id] = bs[i].flush_events[id]
    BY DEF LeftHalf, RecalculateWindowStats, MakeBucket, EventsAt, EventsBelow
  <2>2. /\ DOMAIN r.flush_events \subseteq DOMAIN bs[i].flush_events
        /\ \A id \in DOMAIN r.flush_events : r.flush_events[id] = bs[i].flush_events[id]
    BY DEF RightHalf, RecalculateWindowStats, MakeBucket, EventsAt
  <2>. HIDE DEF l, r, sp
  <2>. QED  BY <1>2, <1>3, <1>4, <2>1, <2>2 DEF BucketOK, BucketType, InWindow
<1>. HIDE DEF l, r
<1>6. /\ IsSeq(t) /\ Len(t) = Len(bs) + 1
      /\ \A k \in 1..(Len(bs) + 1) :
            t[k] = IF k < i THEN bs[k] ELSE IF k = i THEN l
                   ELSE IF k = i + 1 THEN r ELSE bs[k - 1]
  <2>1. t = WithTwo(bs, i, l, r)  BY DEF SplitBucket, WithTwo, l, r
  <2>. HIDE DEF t
  <2>. QED  BY <1>1, <2>1, SplitElements
<1>. HIDE DEF t, sp
<1>7. ASSUME NEW k \in 1..Len(t)  PROVE BucketOK(t[k], n)
  BY <1>1, <1>5, <1>6
<1>8. IsChain(t)
  <2>0. /\ bs[1].min_key = Empty /\ bs[Len(bs)].max_key = Empty
        /\ \A k \in 1..(Len(bs) - 1) : bs[k].max_key = bs[k + 1].min_key
    BY <1>1 DEF IsChain
  <2>1. t[1].min_key = Empty  BY <1>1, <1>4, <1>6, <2>0
  <2>2. t[Len(t)].max_key = Empty  BY <1>1, <1>4, <1>6, <2>0
  <2>3. ASSUME NEW k \in 1..(Len(t) - 1)
        PROVE  t[k].max_key = t[k + 1].min_key
    <3>1. CASE k + 1 < i  BY <1>1, <1>6, <2>0, <3>1
    <3>2. CASE k + 1 = i  BY <1>1, <1>4, <1>6, <2>0, <3>2
    <3>3. CASE k = i  BY <1>1, <1>4, <1>6, <3>3
    <3>4. CASE k = i + 1
      <4>1. t[k] = r /\ t[k + 1] = bs[(k + 1) - 1] /\ (k + 1) - 1 = i + 1
        BY <1>1, <1>6, <3>4
      <4>2. i \in 1..(Len(bs) - 1)  BY <1>1, <1>6, <3>4
      <4>. QED  BY <1>4, <2>0, <4>1, <4>2
    <3>5. CASE k > i + 1
      <4>1. t[k] = bs[k - 1] /\ t[k + 1] = bs[k]  BY <1>1, <1>6, <3>5
      <4>2. k - 1 \in 1..(Len(bs) - 1) /\ (k - 1) + 1 = k  BY <1>1, <1>6, <3>5
      <4>. QED  BY <2>0, <4>1, <4>2
    <3>. QED  BY <1>1, <1>6, <3>1, <3>2, <3>3, <3>4, <3>5
  <2>. QED  BY <1>1, <1>6, <2>1, <2>2, <2>3 DEF IsChain
<1>. QED  BY <1>6, <1>7, <1>8 DEF BucketsOK, t

(***************************************************************************)
(* So does merging a bucket with either neighbour.                         *)
(***************************************************************************)
LEMMA MergeOK ==
    ASSUME NEW bs, NEW n \in Nat, BucketsOK(bs, n), NEW i \in 1..Len(bs), Len(bs) > 1
    PROVE  BucketsOK(MergeWithAdjacentBucket(bs, i), n)
<1>. DEFINE left == IF MergeTarget(bs, i) < i THEN MergeTarget(bs, i) ELSE i
            m == MergedBucket(bs[left], bs[left + 1])
            t == MergeWithAdjacentBucket(bs, i)
<1>1. /\ IsSeq(bs) /\ IsChain(bs) /\ Len(bs) \in Nat
      /\ \A k \in 1..Len(bs) : BucketOK(bs[k], n)
  BY SeqDomain DEF BucketsOK
<1>2. left \in 1..(Len(bs) - 1)
  <2>1. CASE MergeTarget(bs, i) = i - 1 /\ i > 1  BY <1>1, <2>1
  <2>2. CASE MergeTarget(bs, i) = i + 1 /\ i < Len(bs)  BY <1>1, <2>2
  <2>. QED  BY <1>1, <2>1, <2>2 DEF MergeTarget
<1>. HIDE DEF left
<1>3. left + 1 \in 1..Len(bs) /\ left \in 1..Len(bs)  BY <1>1, <1>2
<1>4. /\ BucketType(bs[left], n) /\ InWindow(bs[left], n)
      /\ BucketType(bs[left + 1], n) /\ InWindow(bs[left + 1], n)
  BY <1>1, <1>3 DEF BucketOK
<1>5. /\ m.min_key = bs[left].min_key /\ m.max_key = bs[left + 1].max_key
      /\ m.flush_events = MergedEvents(bs[left].flush_events, bs[left + 1].flush_events)
  BY DEF MergedBucket, RecalculateWindowStats, MakeBucket
<1>6. BucketOK(m, n)
  <2>. DEFINE L == bs[left].flush_events
              R == bs[left + 1].flush_events
  <2>1. /\ DOMAIN m.flush_events = DOMAIN L \cup DOMAIN R
        /\ \A id \in DOMAIN m.flush_events :
              \/ id \in DOMAIN L /\ m.flush_events[id].median_key = L[id].median_key
              \/ id \in DOMAIN R /\ m.flush_events[id].median_key = R[id].median_key
    <3>1. m.flush_events = MergedEvents(L, R)  BY <1>5
    <3>. HIDE DEF m, L, R
    <3>. QED  BY <3>1 DEF MergedEvents
  <2>. HIDE DEF m
  <2>. QED  BY <1>4, <1>5, <2>1 DEF BucketOK, BucketType, InWindow
<1>. HIDE DEF m
<1>7. /\ IsSeq(t) /\ Len(t) = Len(bs) - 1
      /\ \A k \in 1..(Len(bs) - 1) :
            t[k] = IF k < left THEN bs[k] ELSE IF k = left THEN m ELSE bs[k + 1]
  <2>1. t = WithMerged(bs, left, m)
    BY DEF MergeWithAdjacentBucket, WithMerged, m, left
  <2>. HIDE DEF t
  <2>. QED  BY <1>1, <1>2, <2>1, MergeElements
<1>. HIDE DEF t
<1>8. ASSUME NEW k \in 1..Len(t)  PROVE BucketOK(t[k], n)
  BY <1>1, <1>2, <1>6, <1>7
<1>9. IsChain(t)
  <2>0. /\ bs[1].min_key = Empty /\ bs[Len(bs)].max_key = Empty
        /\ \A k \in 1..(Len(bs) - 1) : bs[k].max_key = bs[k + 1].min_key
    BY <1>1 DEF IsChain
  <2>1. t[1].min_key = Empty  BY <1>1, <1>2, <1>5, <1>7, <2>0
  <2>2. t[Len(t)].max_key = Empty
    <3>1. CASE left = Len(bs) - 1  BY <1>1, <1>2, <1>5, <1>7, <2>0, <3>1
    <3>2. CASE left < Len(bs) - 1
      <4>1. t[Len(bs) - 1] = bs[(Len(bs) - 1) + 1] /\ (Len(bs) - 1) + 1 = Len(bs)
        BY <1>1, <1>2, <1>7, <3>2
      <4>. QED  BY <1>7, <2>0, <4>1
    <3>. QED  BY <1>1, <1>2, <3>1, <3>2
  <2>3. ASSUME NEW k \in 1..(Len(t) - 1)
        PROVE  t[k].max_key = t[k + 1].min_key
    <3>1. CASE k + 1 < left  BY <1>1, <1>2, <1>7, <2>0, <3>1
    <3>2. CASE k + 1 = left
      <4>1. t[k] = bs[k] /\ t[k + 1] = m  BY <1>1, <1>2, <1>7, <3>2
      <4>2. k \in 1..(Len(bs) - 1)  BY <1>1, <1>2, <3>2
      <4>. QED  BY <1>5, <2>0, <3>2, <4>1, <4>2
    <3>3. CASE k = left  BY <1>1, <1>2, <1>5, <1>7, <2>0, <3>3
    <3>4. CASE k > left
      <4>1. t[k] = bs[k + 1] /\ t[k + 1] = bs[(k + 1) + 1]  BY <1>1, <1>2, <1>7, <3>4
      <4>2. k + 1 \in 1..(Len(bs) - 1)  BY <1>1, <1>2, <1>7, <3>4
      <4>. QED  BY <2>0, <4>1, <4>2
    <3>. QED  BY <1>1, <1>2, <1>7, <3>1, <3>2, <3>3, <3>4
  <2>. QED  BY <1>1, <1>7, <2>1, <2>2, <2>3 DEF IsChain
<1>. QED  BY <1>7, <1>8, <1>9 DEF BucketsOK, t

-----------------------------------------------------------------------------
(* The inductive invariant.                                                 *)

\* The part of IInv that is about the list of buckets, in one predicate.
BucketPart ==
    /\ buckets \in Seq(Range(buckets))
    /\ \A i \in DOMAIN buckets : BucketType(buckets[i], global_flush_counter)
    /\ initialized => IsChain(buckets)
    /\ EventsInWindow

LEMMA BucketsOKOfIInv ==
    ASSUME IInv, initialized
    PROVE  BucketsOK(buckets, global_flush_counter)
<1>1. IsSeq(buckets)  BY DEF IInv, TypeOK, IsSeq
<1>2. DOMAIN buckets = 1..Len(buckets)  BY <1>1, SeqDomain
<1>. QED
  BY <1>1, <1>2
  DEF BucketsOK, BucketOK, InWindow, IInv, TypeOK, Partition, EventsInWindow

LEMMA BucketPartOfBucketsOK ==
    ASSUME BucketsOK(buckets', global_flush_counter')
    PROVE  BucketPart'
<1>1. IsSeq(buckets') /\ DOMAIN buckets' = 1..Len(buckets')
  BY SeqDomain DEF BucketsOK
<1>2. buckets' \in Seq(Range(buckets'))  BY <1>1 DEF IsSeq
<1>. QED  BY <1>1, <1>2 DEF BucketPart, BucketsOK, BucketOK, InWindow, EventsInWindow

LEMMA BucketPartUnchanged ==
    ASSUME IInv, UNCHANGED <<initialized, buckets, global_flush_counter>>
    PROVE  BucketPart'
<1>1. BucketPart  BY DEF BucketPart, IInv, TypeOK, Partition
<1>. QED  BY <1>1 DEF BucketPart, EventsInWindow

(***************************************************************************)
(* The ranges a flush job copies into its snapshot are a chain of ranges.  *)
(***************************************************************************)
LEMMA RangesOK ==
    ASSUME NEW bs, NEW n \in Nat, BucketsOK(bs, n)
    PROVE  /\ Ranges(bs) \in Seq(KeyRange)
           /\ IsChain(Ranges(bs))
           /\ Len(Ranges(bs)) = Len(bs) /\ DOMAIN Ranges(bs) = 1..Len(bs)
<1>. DEFINE t == Ranges(bs)
<1>1. Len(bs) \in Nat /\ DOMAIN bs = 1..Len(bs) /\ IsChain(bs)  BY SeqDomain DEF BucketsOK
<1>2. t = [i \in 1..Len(bs) |-> [min_key |-> bs[i].min_key, max_key |-> bs[i].max_key]]
  BY <1>1 DEF Ranges
<1>3. \A i \in 1..Len(bs) : [min_key |-> bs[i].min_key, max_key |-> bs[i].max_key] \in KeyRange
  BY DEF BucketsOK, BucketOK, BucketType, KeyRange
<1>4. t \in Seq(KeyRange) /\ Len(t) = Len(bs) /\ DOMAIN t = 1..Len(bs)  BY <1>1, <1>2, <1>3
<1>5. \A i \in 1..Len(bs) : t[i].min_key = bs[i].min_key /\ t[i].max_key = bs[i].max_key
  BY <1>2
<1>. HIDE DEF t
<1>6. IsChain(t)  BY <1>1, <1>4, <1>5 DEF IsChain
<1>. QED  BY <1>4, <1>6 DEF t

LEMMA InitIInv == Init => IInv
<1>. SUFFICES ASSUME Init PROVE IInv  OBVIOUS
<1>. USE DEF Init
<1>1. NoMemtable \in Memtable  BY DEF NoMemtable, Memtable
<1>2. NoSnapshot \in [epoch : Nat, ranges : Seq(KeyRange)]  BY DEF NoSnapshot
<1>3. NotAdjusting \in [keys : SUBSET Key, todo : SUBSET (Nat \ {0})] /\ NotAdjusting.todo = {}
  BY DEF NotAdjusting
<1>4. buckets \in Seq(Range(buckets)) /\ DOMAIN buckets = {}  BY DEF Range
<1>5. TypeOK  BY <1>1, <1>2, <1>3, <1>4 DEF TypeOK
<1>. QED
  BY <1>3, <1>4, <1>5
  DEF IInv, Partition, SnapshotFresh, EventsInWindow, EpochsBehind, BeforeInitialize

-----------------------------------------------------------------------------
(* Every step preserves IInv: one lemma for each action.                    *)

\* The rest of IInv.
JobPart ==
    /\ initialized \in BOOLEAN /\ structure_epoch \in Nat /\ global_flush_counter \in Nat
    /\ pc \in [Jobs -> {"idle", "initialize", "snapshot", "build"}]
    /\ mem \in [Jobs -> Memtable]
    /\ snap \in [Jobs -> [epoch : Nat, ranges : Seq(KeyRange)]]
    /\ adjusting \in [keys : SUBSET Key, todo : SUBSET (Nat \ {0})]
    /\ \A j \in Jobs : pc[j] = "build" => IsChain(snap[j].ranges)
    /\ SnapshotFresh
    /\ EpochsBehind
    /\ BeforeInitialize

LEMMA IInvParts == IInv <=> BucketPart /\ JobPart
BY DEF IInv, BucketPart, JobPart, TypeOK, Partition

LEMMA IInvPartsPrime == BucketPart' /\ JobPart' => IInv'
BY DEF IInv, BucketPart, JobPart, TypeOK, Partition

LEMMA NoInput ==
    /\ NoMemtable \in Memtable
    /\ NoSnapshot \in [epoch : Nat, ranges : Seq(KeyRange)]
    /\ NotAdjusting \in [keys : SUBSET Key, todo : SUBSET (Nat \ {0})]
    /\ NotAdjusting.todo = {}
BY DEF NoMemtable, Memtable, NoSnapshot, NotAdjusting

LEMMA StartFlushStep ==
    ASSUME IInv, NEW j \in Jobs, StartFlush(j)
    PROVE  IInv'
<1>1. BucketPart'  BY BucketPartUnchanged DEF StartFlush, managerVars
<1>2. PICK m \in Memtables, l0_empty \in BOOLEAN :
        /\ mem' = [mem EXCEPT ![j] = m]
        /\ pc' = [pc EXCEPT ![j] = IF l0_empty /\ ~initialized
                                   THEN "initialize" ELSE "snapshot"]
  BY DEF StartFlush
<1>3. UNCHANGED <<initialized, buckets, structure_epoch, global_flush_counter, snap, adjusting>>
  BY DEF StartFlush, managerVars
<1>4. m \in Memtable  BY MemtablesAssumption
<1>5. JobPart  BY IInvParts
<1>6. JobPart'
  BY <1>2, <1>3, <1>4, <1>5 DEF JobPart, SnapshotFresh, EpochsBehind, BeforeInitialize
<1>. QED  BY <1>1, <1>6, IInvPartsPrime

LEMMA InitializeStep ==
    ASSUME IInv, NEW j \in Jobs, InitializeFromFirstFlush(j)
    PROVE  IInv'
<1>1. JobPart  BY IInvParts
<1>2. /\ pc[j] = "initialize" /\ pc' = [pc EXCEPT ![j] = "snapshot"] /\ initialized' = TRUE
      /\ UNCHANGED <<structure_epoch, global_flush_counter, mem, snap, adjusting>>
      /\ buckets' = IF initialized THEN buckets
                    ELSE InitialBuckets(InitialSplitPoints(mem[j]))
  BY DEF InitializeFromFirstFlush
<1>3. CASE initialized
  <2>1. BucketPart'  BY <1>2, <1>3, BucketPartUnchanged
  <2>2. JobPart'
    BY <1>1, <1>2, <1>3 DEF JobPart, SnapshotFresh, EpochsBehind, BeforeInitialize
  <2>. QED  BY <2>1, <2>2, IInvPartsPrime
<1>4. CASE ~initialized
  <2>1. mem[j] \in Memtable /\ global_flush_counter \in Nat  BY <1>1 DEF JobPart
  <2>2. InitialSplitPoints(mem[j]) \in Seq(Key)  BY <2>1, SplitPointsAreKeys
  <2>3. BucketsOK(buckets', global_flush_counter')
    BY <1>2, <1>4, <2>1, <2>2, InitialBucketsOK
  <2>4. BucketPart'  BY <2>3, BucketPartOfBucketsOK
  <2>5. \A k \in Jobs : pc[k] # "build" /\ pc'[k] # "build"
    BY <1>1, <1>2, <1>4 DEF JobPart, BeforeInitialize
  <2>6. JobPart'
    BY <1>1, <1>2, <2>5 DEF JobPart, SnapshotFresh, EpochsBehind, BeforeInitialize
  <2>. QED  BY <2>4, <2>6, IInvPartsPrime
<1>. QED  BY <1>3, <1>4

LEMMA FallBackStep ==
    ASSUME IInv, NEW j \in Jobs, FallBackToRegularFlush(j)
    PROVE  IInv'
<1>1. BucketPart'  BY BucketPartUnchanged DEF FallBackToRegularFlush, managerVars
<1>2. JobPart  BY IInvParts
<1>3. JobPart'
  BY <1>2, NoInput
  DEF FallBackToRegularFlush, managerVars, JobPart, SnapshotFresh, EpochsBehind,
      BeforeInitialize
<1>. QED  BY <1>1, <1>3, IInvPartsPrime

LEMMA GetSnapshotStep ==
    ASSUME IInv, NEW j \in Jobs, GetSnapshot(j)
    PROVE  IInv'
<1>1. BucketPart'  BY BucketPartUnchanged DEF GetSnapshot, managerVars
<1>2. JobPart  BY IInvParts
<1>3. /\ initialized /\ pc' = [pc EXCEPT ![j] = "build"]
      /\ snap' = [snap EXCEPT ![j] = [epoch |-> structure_epoch, ranges |-> Ranges(buckets)]]
      /\ UNCHANGED <<initialized, buckets, structure_epoch, global_flush_counter, mem, adjusting>>
  BY DEF GetSnapshot, managerVars
<1>4. /\ global_flush_counter \in Nat /\ structure_epoch \in Nat
      /\ BucketsOK(buckets, global_flush_counter)
  BY <1>2, <1>3, BucketsOKOfIInv DEF JobPart
<1>5. Ranges(buckets) \in Seq(KeyRange) /\ IsChain(Ranges(buckets))  BY <1>4, RangesOK
<1>6. /\ snap'[j] = [epoch |-> structure_epoch, ranges |-> Ranges(buckets)]
      /\ \A k \in Jobs \ {j} : snap'[k] = snap[k] /\ pc'[k] = pc[k]
      /\ snap' \in [Jobs -> [epoch : Nat, ranges : Seq(KeyRange)]]
      /\ pc' \in [Jobs -> {"idle", "initialize", "snapshot", "build"}]
  BY <1>2, <1>3, <1>4, <1>5 DEF JobPart
<1>7. Ranges(buckets)' = Ranges(buckets)  BY <1>3 DEF Ranges
<1>8. snap'[j].ranges = Ranges(buckets) /\ snap'[j].epoch = structure_epoch  BY <1>6
<1>9. \A k \in Jobs : pc'[k] = "build" => IsChain(snap'[k].ranges)
  BY <1>2, <1>5, <1>6, <1>8 DEF JobPart
<1>10. SnapshotFresh'  BY <1>2, <1>3, <1>6, <1>7, <1>8 DEF JobPart, SnapshotFresh
<1>11. EpochsBehind'  BY <1>2, <1>3, <1>4, <1>6, <1>8 DEF JobPart, EpochsBehind
<1>12. BeforeInitialize'  BY <1>3 DEF BeforeInitialize
<1>13. JobPart'  BY <1>2, <1>3, <1>6, <1>9, <1>10, <1>11, <1>12 DEF JobPart
<1>. QED  BY <1>1, <1>13, IInvPartsPrime

LEMMA EndFlushParts ==
    ASSUME JobPart, NEW j \in Jobs, EndFlush(j)
    PROVE  /\ pc' \in [Jobs -> {"idle", "initialize", "snapshot", "build"}]
           /\ mem' \in [Jobs -> Memtable]
           /\ snap' \in [Jobs -> [epoch : Nat, ranges : Seq(KeyRange)]]
           /\ \A k \in Jobs : pc'[k] = "build" => pc[k] = "build" /\ snap'[k] = snap[k]
BY NoInput DEF JobPart, EndFlush

LEMMA BuildFailsStep ==
    ASSUME IInv, NEW j \in Jobs, BuildFails(j)
    PROVE  IInv'
<1>1. BucketPart'  BY BucketPartUnchanged DEF BuildFails, managerVars
<1>2. JobPart /\ EndFlush(j)  BY IInvParts DEF BuildFails
<1>3. UNCHANGED <<initialized, buckets, structure_epoch, global_flush_counter, adjusting>>
  BY DEF BuildFails, managerVars
<1>4. JobPart'
  BY <1>2, <1>3, EndFlushParts DEF JobPart, SnapshotFresh, EpochsBehind, BeforeInitialize
<1>. QED  BY <1>1, <1>4, IInvPartsPrime

LEMMA OnFlushCompletedStep ==
    ASSUME IInv, NEW j \in Jobs, OnFlushCompleted(j)
    PROVE  IInv'
<1>. DEFINE results == FlushResults(snap[j].ranges, mem[j])
            n == global_flush_counter
            events == IF FastPath(snap[j].epoch, results)
                      THEN FastPathEvents(results) ELSE SlowPathEvents(results)
<1>1. JobPart /\ EndFlush(j)  BY IInvParts DEF OnFlushCompleted
<1>2. /\ pc[j] = "build" /\ global_flush_counter' = n + 1
      /\ UNCHANGED <<initialized, structure_epoch, adjusting>>
      /\ buckets' = Completed(buckets, n + 1, events)
  BY DEF OnFlushCompleted
<1>3. initialized /\ n \in Nat /\ n + 1 \in Nat
  BY <1>1, <1>2 DEF JobPart, BeforeInitialize
<1>4. BucketsOK(buckets, n)  BY <1>3, BucketsOKOfIInv
<1>5. /\ IsSeq(buckets) /\ IsChain(buckets) /\ Len(buckets) \in Nat
      /\ DOMAIN buckets = 1..Len(buckets)
      /\ \A i \in 1..Len(buckets) : BucketOK(buckets[i], n)
  BY <1>4, SeqDomain DEF BucketsOK
<1>6. /\ snap[j].ranges \in Seq(KeyRange) /\ mem[j] \in Memtable
      /\ Len(snap[j].ranges) \in Nat
  <2>1. snap[j] \in [epoch : Nat, ranges : Seq(KeyRange)] /\ mem[j] \in Memtable
    BY <1>1 DEF JobPart
  <2>. QED  BY <2>1
<1>7. /\ DOMAIN results = 1..Len(snap[j].ranges) /\ IsSeq(results)
      /\ Len(results) = Len(snap[j].ranges)
      /\ \A i \in 1..Len(snap[j].ranges) :
            /\ results[i].min_key \in Key /\ results[i].max_key \in Key
            /\ results[i].median_key \in Key
  BY <1>6, FlushResultsOK
<1>. HIDE DEF results
<1>8. \A i \in 1..Len(buckets) : events[i].median_key \in Key
  <2>1. CASE FastPath(snap[j].epoch, results)
    <3>1. 1..Len(buckets) = DOMAIN results  BY <1>7, <2>1 DEF FastPath
    <3>2. \A i \in DOMAIN results : FastPathEvents(results)[i].median_key = results[i].median_key
      BY DEF FastPathEvents
    <3>. QED  BY <1>7, <2>1, <3>1, <3>2
  <2>2. CASE ~FastPath(snap[j].epoch, results)
    <3>1. \A i \in DOMAIN buckets : buckets[i].min_key \in Key /\ buckets[i].max_key \in Key
      BY <1>5 DEF BucketOK, BucketType
    <3>2. \A i \in DOMAIN buckets : SlowPathEvents(results)[i].median_key \in Key
      BY <1>6, <1>7, <3>1, SlowPathOK
    <3>. QED  BY <1>5, <2>2, <3>2
  <2>. QED  BY <2>1, <2>2
<1>. HIDE DEF events, n
<1>9. /\ IsSeq(buckets') /\ Len(buckets') = Len(buckets) /\ DOMAIN buckets' = DOMAIN buckets
      /\ \A i \in 1..Len(buckets) :
            /\ buckets'[i].min_key = buckets[i].min_key
            /\ buckets'[i].max_key = buckets[i].max_key
            /\ BucketOK(buckets'[i], n + 1)
  <2>. DEFINE t == Completed(buckets, n + 1, events)
  <2>1. /\ IsSeq(t) /\ Len(t) = Len(buckets) /\ DOMAIN t = DOMAIN buckets
        /\ \A i \in 1..Len(buckets) :
              /\ t[i].min_key = buckets[i].min_key
              /\ t[i].max_key = buckets[i].max_key
              /\ BucketOK(t[i], n + 1)
    BY <1>3, <1>5, <1>8, CompletedOK
  <2>2. buckets' = t  BY <1>2
  <2>. HIDE DEF t
  <2>. QED  BY <2>1, <2>2
<1>10. IsChain(buckets')
  <2>1. /\ Len(buckets) > 0
        /\ buckets[1].min_key = Empty /\ buckets[Len(buckets)].max_key = Empty
        /\ \A i \in 1..(Len(buckets) - 1) : buckets[i].max_key = buckets[i + 1].min_key
    BY <1>5 DEF IsChain
  <2>2. 1 \in 1..Len(buckets) /\ Len(buckets) \in 1..Len(buckets)  BY <1>5, <2>1
  <2>3. ASSUME NEW i \in 1..(Len(buckets) - 1)
        PROVE  buckets'[i].max_key = buckets'[i + 1].min_key
    <3>1. i \in 1..Len(buckets) /\ i + 1 \in 1..Len(buckets)  BY <1>5
    <3>. QED  BY <1>9, <2>1, <3>1
  <2>4. buckets'[1].min_key = Empty /\ buckets'[Len(buckets)].max_key = Empty
    BY <1>9, <2>1, <2>2
  <2>. QED  BY <1>9, <2>1, <2>3, <2>4 DEF IsChain
<1>11. BucketPart'
  <2>1. BucketsOK(buckets', global_flush_counter')
    BY <1>2, <1>9, <1>10 DEF BucketsOK
  <2>. QED  BY <2>1, BucketPartOfBucketsOK
<1>12. Ranges(buckets)' = Ranges(buckets)
  <2>1. \A i \in DOMAIN buckets : /\ buckets'[i].min_key = buckets[i].min_key
                                  /\ buckets'[i].max_key = buckets[i].max_key
    BY <1>5, <1>9
  <2>. QED  BY <1>9, <2>1 DEF Ranges
<1>13. SnapshotFresh'  BY <1>1, <1>2, <1>12, EndFlushParts DEF JobPart, SnapshotFresh
<1>14. JobPart'
  BY <1>1, <1>2, <1>3, <1>13, EndFlushParts DEF JobPart, EpochsBehind, BeforeInitialize, n
<1>. QED  BY <1>11, <1>14, IInvPartsPrime

LEMMA CollectStep ==
    ASSUME IInv, CollectCompactedBuckets
    PROVE  IInv'
<1>1. UNCHANGED <<initialized, buckets, structure_epoch, global_flush_counter, pc, mem, snap>>
  BY DEF CollectCompactedBuckets, managerVars, jobVars
<1>2. BucketPart'  BY <1>1, BucketPartUnchanged
<1>3. JobPart /\ initialized  BY IInvParts DEF CollectCompactedBuckets
<1>4. PICK ks \in CompactionInputs :
        adjusting' = [keys |-> ks, todo |-> {FindBucketIn(Ranges(buckets), k) : k \in ks}]
  BY DEF CollectCompactedBuckets
<1>5. /\ IsChain(Ranges(buckets)) /\ Len(buckets) \in Nat
      /\ Len(Ranges(buckets)) = Len(buckets) /\ DOMAIN Ranges(buckets) = 1..Len(buckets)
  <2>1. BucketsOK(buckets, global_flush_counter) /\ global_flush_counter \in Nat
    BY <1>3, BucketsOKOfIInv DEF JobPart
  <2>. QED  BY <2>1, RangesOK, SeqDomain DEF BucketsOK
<1>6. ASSUME NEW k  PROVE FindBucketIn(Ranges(buckets), k) \in Nat \ {0}
  <2>. DEFINE r == Ranges(buckets)
              len == Len(buckets)
  <2>0. /\ len \in Nat \ {0} /\ r[1].min_key = Empty /\ r[len].max_key = Empty
        /\ \A i \in 1..(len - 1) : r[i].max_key = r[i + 1].min_key
    <3>. HIDE DEF r, len
    <3>1. IsChain(r) /\ len \in Nat /\ Len(r) = len  BY <1>5 DEF r, len
    <3>. QED  BY <3>1 DEF IsChain
  <2>. HIDE DEF r, len
  <2>1. \E i \in 1..len : InRange(k, r[i])  BY <2>0, ChainCovers
  <2>2. FindBucketIn(r, k) \in 1..len
    <3>1. DOMAIN r = 1..len  BY <1>5 DEF r, len
    <3>. QED  BY <2>0, <2>1, <3>1, FindBucketInHolds
  <2>. QED  BY <2>0, <2>2 DEF r
<1>7. ks \subseteq Key  BY CompactionAssumption
<1>8. adjusting' \in [keys : SUBSET Key, todo : SUBSET (Nat \ {0})]
  BY <1>4, <1>6, <1>7
<1>9. Ranges(buckets)' = Ranges(buckets)  BY <1>1 DEF Ranges
<1>10. JobPart'
  BY <1>1, <1>3, <1>8, <1>9 DEF JobPart, SnapshotFresh, EpochsBehind, BeforeInitialize
<1>. QED  BY <1>2, <1>10, IInvPartsPrime

LEMMA NextIndexOK ==
    ASSUME JobPart, adjusting.todo # {}
    PROVE  NextIndex \in Nat \ {0} /\ NextIndex \in adjusting.todo
<1>1. adjusting.todo \in SUBSET (Nat \ {0})  BY DEF JobPart
<1>2. adjusting.todo \in SUBSET Nat  BY <1>1
<1>3. NextIndex \in adjusting.todo  BY <1>2, MinProperties DEF NextIndex
<1>. QED  BY <1>1, <1>3

LEMMA AdjustmentDoneType ==
    ASSUME JobPart, AdjustmentDone
    PROVE  adjusting' \in [keys : SUBSET Key, todo : SUBSET (Nat \ {0})]
<1>1. CASE adjusting.todo = {NextIndex}  BY <1>1, NoInput DEF AdjustmentDone
<1>2. CASE adjusting.todo # {NextIndex}  BY <1>2 DEF AdjustmentDone, JobPart
<1>. QED  BY <1>1, <1>2

(***************************************************************************)
(* A split or a merge: the epoch moves past every snapshot.                *)
(***************************************************************************)
LEMMA RestructuredStep ==
    ASSUME IInv, NEW bs, Restructured(bs), AdjustmentDone, adjusting.todo # {},
           UNCHANGED <<initialized, global_flush_counter, jobVars>>,
           BucketsOK(bs, global_flush_counter)
    PROVE  IInv'
<1>1. JobPart  BY IInvParts
<1>2. /\ buckets' = bs /\ structure_epoch' = structure_epoch + 1
      /\ UNCHANGED <<initialized, global_flush_counter, pc, mem, snap>>
  BY DEF Restructured, jobVars
<1>3. BucketPart'  BY <1>2, BucketPartOfBucketsOK
<1>4. /\ structure_epoch \in Nat /\ initialized
      /\ \A j \in Jobs : /\ snap[j].epoch \in Nat
                         /\ pc[j] = "build" => snap[j].epoch <= structure_epoch
  BY <1>1 DEF JobPart, EpochsBehind, BeforeInitialize
<1>5. SnapshotFresh' /\ EpochsBehind'  BY <1>2, <1>4 DEF SnapshotFresh, EpochsBehind
<1>6. adjusting' \in [keys : SUBSET Key, todo : SUBSET (Nat \ {0})]
  BY <1>1, AdjustmentDoneType
<1>7. JobPart'  BY <1>1, <1>2, <1>4, <1>5, <1>6 DEF JobPart, BeforeInitialize
<1>. QED  BY <1>3, <1>7, IInvPartsPrime

LEMMA AdjustBySplitStep ==
    ASSUME IInv, AdjustBySplit
    PROVE  IInv'
<1>1. JobPart /\ initialized /\ global_flush_counter \in Nat
  BY IInvParts DEF AdjustBySplit, JobPart, BeforeInitialize
<1>2. BucketsOK(buckets, global_flush_counter)  BY <1>1, BucketsOKOfIInv
<1>3. NextIndex \in 1..Len(buckets)
  BY <1>2, SeqDomain DEF AdjustBySplit, Adjustable, BucketsOK
<1>4. BucketsOK(SplitBucket(buckets, NextIndex), global_flush_counter)
  BY <1>1, <1>2, <1>3, SplitOK
<1>. QED  BY <1>4, RestructuredStep DEF AdjustBySplit

LEMMA AdjustByMergeStep ==
    ASSUME IInv, AdjustByMerge
    PROVE  IInv'
<1>1. JobPart /\ initialized /\ global_flush_counter \in Nat
  BY IInvParts DEF AdjustByMerge, JobPart, BeforeInitialize
<1>2. BucketsOK(buckets, global_flush_counter)  BY <1>1, BucketsOKOfIInv
<1>3. NextIndex \in 1..Len(buckets) /\ Len(buckets) > 1
  BY <1>2, SeqDomain DEF AdjustByMerge, Adjustable, BucketsOK, ShouldMerge
<1>4. BucketsOK(MergeWithAdjacentBucket(buckets, NextIndex), global_flush_counter)
  BY <1>1, <1>2, <1>3, MergeOK
<1>. QED  BY <1>4, RestructuredStep DEF AdjustByMerge

LEMMA AdjustNothingStep ==
    ASSUME IInv, AdjustNothing
    PROVE  IInv'
<1>1. JobPart  BY IInvParts
<1>2. UNCHANGED <<initialized, buckets, structure_epoch, global_flush_counter, pc, mem, snap>>
  BY DEF AdjustNothing, managerVars, jobVars
<1>3. BucketPart'  BY <1>2, BucketPartUnchanged
<1>4. adjusting' \in [keys : SUBSET Key, todo : SUBSET (Nat \ {0})]
  BY <1>1, AdjustmentDoneType DEF AdjustNothing
<1>5. initialized  BY <1>1 DEF AdjustNothing, JobPart, BeforeInitialize
<1>6. Ranges(buckets)' = Ranges(buckets)  BY <1>2 DEF Ranges
<1>7. JobPart'
  BY <1>1, <1>2, <1>4, <1>5, <1>6 DEF JobPart, SnapshotFresh, EpochsBehind, BeforeInitialize
<1>. QED  BY <1>3, <1>7, IInvPartsPrime

LEMMA StutterStep ==
    ASSUME IInv, UNCHANGED vars
    PROVE  IInv'
<1>1. /\ UNCHANGED <<initialized, buckets, structure_epoch, global_flush_counter>>
      /\ UNCHANGED <<pc, mem, snap, adjusting>>
  BY DEF vars, managerVars, jobVars
<1>2. BucketPart'  BY <1>1, BucketPartUnchanged
<1>3. JobPart  BY IInvParts
<1>4. Ranges(buckets)' = Ranges(buckets)  BY <1>1 DEF Ranges
<1>5. JobPart'
  BY <1>1, <1>3, <1>4 DEF JobPart, SnapshotFresh, EpochsBehind, BeforeInitialize
<1>. QED  BY <1>2, <1>5, IInvPartsPrime

LEMMA NextStep == IInv /\ [Next]_vars => IInv'
<1>. SUFFICES ASSUME IInv, [Next]_vars PROVE IInv'  OBVIOUS
<1>1. ASSUME NEW j \in Jobs, FlushStep(j)  PROVE IInv'
  BY <1>1, StartFlushStep, InitializeStep, FallBackStep, GetSnapshotStep, BuildFailsStep,
     OnFlushCompletedStep DEF FlushStep
<1>2. CASE CollectCompactedBuckets  BY <1>2, CollectStep
<1>3. CASE AdjustAfterCompaction
  BY <1>3, AdjustBySplitStep, AdjustByMergeStep, AdjustNothingStep DEF AdjustAfterCompaction
<1>4. CASE UNCHANGED vars  BY <1>4, StutterStep
<1>. QED  BY <1>1, <1>2, <1>3, <1>4 DEF Next

-----------------------------------------------------------------------------
(* The theorems.                                                            *)

LEMMA Invariance == Spec => []IInv
BY InitIInv, NextStep, PTL DEF Spec

(***************************************************************************)
(* The manager's buckets, the snapshots and the indices a compaction is    *)
(* going to adjust are always of their types: in particular every bound    *)
(* ComputeSplitPoint and ComputeMidpointKey compute is a key.              *)
(***************************************************************************)
THEOREM TypeCorrect == Spec => []TypeOK
<1>1. IInv => TypeOK  BY DEF IInv
<1>. QED  BY <1>1, Invariance, PTL

(***************************************************************************)
(* The bucket ranges, and the ranges of every snapshot in use, always form *)
(* a chain from -infinity to +infinity: no sequence of flushes, splits and *)
(* merges opens a gap.                                                     *)
(***************************************************************************)
THEOREM PartitionHolds == Spec => []Partition
<1>1. IInv => Partition  BY DEF IInv
<1>. QED  BY <1>1, Invariance, PTL

(***************************************************************************)
(* OnFlushCompleted's fast path, taken when the epochs agree, always       *)
(* meets the ranges its results were computed for.                         *)
(***************************************************************************)
THEOREM FastPathIsFresh == Spec => []SnapshotFresh
<1>1. IInv => SnapshotFresh  BY DEF IInv
<1>. QED  BY <1>1, Invariance, PTL

(***************************************************************************)
(* No bucket ever holds an event older than the sliding window, or one of  *)
(* a flush that has not completed.                                         *)
(***************************************************************************)
THEOREM WindowSlides == Spec => []EventsInWindow
<1>1. IInv => EventsInWindow  BY DEF IInv
<1>. QED  BY <1>1, Invariance, PTL

(***************************************************************************)
(* WriteBucketLevel0Table writes every entry of the memtables into a file, *)
(* whatever happens to the partition between the snapshot and the end of   *)
(* the flush.                                                              *)
(***************************************************************************)
THEOREM NoEntryIsLost == Spec => []FlushWritesEveryEntry
<1>1. ASSUME IInv, NEW j \in Jobs, pc[j] = "build", NEW e \in 1..Len(mem[j].keys)
      PROVE  \E f \in NonEmptyBuckets(snap[j].ranges, mem[j]) :
                e \in WrittenIn(snap[j].ranges, mem[j], f)
  <2>. DEFINE r == snap[j].ranges
              m == mem[j]
              f == FindBucketIn(r, m.keys[e])
  <2>1. r \in Seq(KeyRange) /\ IsChain(r)
    <3>1. snap[j] \in [epoch : Nat, ranges : Seq(KeyRange)]  BY <1>1 DEF IInv, TypeOK
    <3>. QED  BY <1>1, <3>1 DEF IInv, Partition
  <2>. HIDE DEF r, m
  <2>2. Len(r) \in Nat \ {0} /\ DOMAIN r = 1..Len(r)  BY <2>1 DEF IsChain
  <2>3. \E i \in 1..Len(r) : InRange(m.keys[e], r[i])
    BY <2>1, <2>2, ChainCovers DEF IsChain
  <2>4. f \in 1..Len(r) /\ InRange(m.keys[e], r[f])  BY <2>2, <2>3, FindBucketInHolds
  <2>5. e \in 1..Len(m.keys)  BY <1>1 DEF m
  <2>6. e \in CountedIn(r, m, f)  BY <2>5 DEF CountedIn
  <2>. HIDE DEF f
  <2>7. f \in NonEmptyBuckets(r, m)  BY <2>2, <2>4, <2>6 DEF NonEmptyBuckets
  <2>8. e \in WrittenIn(r, m, f)  BY <2>4, <2>5 DEF WrittenIn
  <2>. QED  BY <2>7, <2>8 DEF r, m
<1>2. IInv => FlushWritesEveryEntry  BY <1>1 DEF FlushWritesEveryEntry
<1>. QED  BY <1>2, Invariance, PTL
=============================================================================
