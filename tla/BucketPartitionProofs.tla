------------------------ MODULE BucketPartitionProofs ------------------------
(***************************************************************************)
(* The bucket manager implements KeyPartition, for every set of jobs,      *)
(* memtables, compaction inputs, window size and target count.  Every step *)
(* of the manager from a state of IInv is a step of the partition or       *)
(* leaves it unchanged; the chain of ranges in IInv is what makes a split  *)
(* and a merge change one boundary only.                                   *)
(***************************************************************************)
EXTENDS BucketPartition, BucketManagerProofs

(***************************************************************************)
(* The boundaries of a list of buckets, and those a snapshot copies.       *)
(***************************************************************************)
LEMMA BoundariesOK ==
    ASSUME NEW bs, IsSeq(bs), Len(bs) > 0, \A i \in 1..Len(bs) : bs[i].max_key \in Key
    PROVE  /\ Boundaries(bs) \in Seq(Key)
           /\ Len(Boundaries(bs)) = Len(bs) - 1
           /\ \A i \in 1..(Len(bs) - 1) : Boundaries(bs)[i] = bs[i].max_key
<1>1. Len(bs) \in Nat  BY SeqDomain
<1>2. Len(bs) - 1 \in Nat  BY <1>1
<1>3. \A i \in 1..(Len(bs) - 1) : bs[i].max_key \in Key  BY <1>1
<1>. QED  BY <1>2, <1>3 DEF Boundaries

LEMMA BoundariesOfBuckets ==
    ASSUME NEW bs, NEW n \in Nat, BucketsOK(bs, n)
    PROVE  /\ Len(bs) \in Nat \ {0}
           /\ Boundaries(bs) \in Seq(Key)
           /\ Len(Boundaries(bs)) = Len(bs) - 1
           /\ \A i \in 1..(Len(bs) - 1) : Boundaries(bs)[i] = bs[i].max_key
<1>1. IsSeq(bs) /\ IsChain(bs) /\ \A i \in 1..Len(bs) : BucketOK(bs[i], n)
  BY DEF BucketsOK
<1>2. Len(bs) \in Nat /\ Len(bs) > 0  BY <1>1, SeqDomain DEF IsChain
<1>3. \A i \in 1..Len(bs) : bs[i].max_key \in Key  BY <1>1 DEF BucketOK, BucketType
<1>. QED  BY <1>1, <1>2, <1>3, BoundariesOK

LEMMA SnapshotBoundaries ==
    ASSUME NEW bs, NEW n \in Nat, BucketsOK(bs, n)
    PROVE  Boundaries(Ranges(bs)) = Boundaries(bs)
<1>1. DOMAIN bs = 1..Len(bs) /\ Len(bs) \in Nat  BY SeqDomain DEF BucketsOK
<1>2. Len(Ranges(bs)) = Len(bs)  BY RangesOK
<1>3. \A i \in 1..(Len(bs) - 1) : Ranges(bs)[i].max_key = bs[i].max_key
  BY <1>1 DEF Ranges
<1>. QED  BY <1>2, <1>3 DEF Boundaries

(***************************************************************************)
(* Two sequences with the same elements are the same.                      *)
(***************************************************************************)
LEMMA SameElements ==
    ASSUME NEW S, NEW s \in Seq(S), NEW t \in Seq(S), Len(s) = Len(t),
           \A k \in 1..Len(s) : s[k] = t[k]
    PROVE  s = t
OBVIOUS

(***************************************************************************)
(* A split inserts the split point, a merge removes the boundary between   *)
(* the two buckets.                                                        *)
(***************************************************************************)
LEMMA SplitInserts ==
    ASSUME NEW bs, NEW n \in Nat, BucketsOK(bs, n), NEW i \in 1..Len(bs)
    PROVE  LET b == Boundaries(bs)
               c == Boundaries(SplitBucket(bs, i))
           IN  /\ i \in 1..(Len(b) + 1) /\ Len(c) = Len(b) + 1
               /\ c[i] \in Key /\ c = WithInserted(b, i, c[i])
<1>. DEFINE sp == SplitPoint(bs[i])
            l == LeftHalf(bs[i], sp)
            r == RightHalf(bs[i], sp)
            t == SplitBucket(bs, i)
            b == Boundaries(bs)
            c == Boundaries(t)
            d == WithInserted(b, i, sp)
<1>1. IsSeq(bs) /\ BucketOK(bs[i], n)  BY DEF BucketsOK
<1>2. sp \in Key  BY <1>1, SplitPointIsKey DEF BucketOK
<1>3. l.max_key = sp /\ r.max_key = bs[i].max_key
  BY DEF LeftHalf, RightHalf, RecalculateWindowStats, MakeBucket
<1>. HIDE DEF l, r
<1>4. /\ Len(t) = Len(bs) + 1
      /\ \A k \in 1..(Len(bs) + 1) :
            t[k] = IF k < i THEN bs[k] ELSE IF k = i THEN l
                   ELSE IF k = i + 1 THEN r ELSE bs[k - 1]
  <2>1. t = WithTwo(bs, i, l, r)  BY DEF SplitBucket, WithTwo, l, r
  <2>. HIDE DEF t
  <2>. QED  BY <1>1, <2>1, SplitElements
<1>5. BucketsOK(t, n)  BY SplitOK
<1>. HIDE DEF t, sp
<1>6. /\ Len(bs) \in Nat \ {0} /\ b \in Seq(Key) /\ Len(b) = Len(bs) - 1
      /\ \A k \in 1..(Len(bs) - 1) : b[k] = bs[k].max_key
  BY BoundariesOfBuckets
<1>7. /\ c \in Seq(Key) /\ Len(c) = Len(bs)
      /\ \A k \in 1..Len(bs) : c[k] = t[k].max_key
  <2>1. /\ c \in Seq(Key) /\ Len(c) = Len(t) - 1
        /\ \A k \in 1..(Len(t) - 1) : c[k] = t[k].max_key
    BY <1>5, BoundariesOfBuckets
  <2>2. Len(t) - 1 = Len(bs)  BY <1>4, <1>6
  <2>. QED  BY <2>1, <2>2
<1>. HIDE DEF b, c, d
<1>8. i \in 1..(Len(b) + 1) /\ Len(b) + 1 = Len(bs)  BY <1>6
<1>9. /\ d \in Seq(Key) /\ Len(d) = Len(bs)
      /\ \A k \in 1..Len(bs) : d[k] = IF k < i THEN b[k] ELSE IF k = i THEN sp ELSE b[k - 1]
  <2>1. /\ d \in Seq(Key) /\ Len(d) = Len(b) + 1
        /\ \A k \in 1..(Len(b) + 1) :
              d[k] = IF k < i THEN b[k] ELSE IF k = i THEN sp ELSE b[k - 1]
    BY <1>2, <1>6, <1>8, InsertElements DEF d
  <2>. QED  BY <1>8, <2>1
<1>10. ASSUME NEW k \in 1..Len(bs)  PROVE c[k] = d[k]
  <2>0. c[k] = t[k].max_key /\ k \in 1..(Len(bs) + 1) /\ k \in Nat  BY <1>6, <1>7
  <2>1. CASE k < i
    <3>1. t[k] = bs[k] /\ d[k] = b[k] /\ k \in 1..(Len(bs) - 1)
      BY <1>4, <1>6, <1>9, <2>0, <2>1
    <3>. QED  BY <1>6, <2>0, <3>1
  <2>2. CASE k = i  BY <1>3, <1>4, <1>9, <2>0, <2>2
  <2>3. CASE k = i + 1
    <3>1. t[k] = r /\ d[k] = b[k - 1] /\ k - 1 = i /\ i \in 1..(Len(bs) - 1)
      BY <1>4, <1>6, <1>9, <2>0, <2>3
    <3>. QED  BY <1>3, <1>6, <2>0, <3>1
  <2>4. CASE k > i + 1
    <3>1. t[k] = bs[k - 1] /\ d[k] = b[k - 1] /\ k - 1 \in 1..(Len(bs) - 1)
      BY <1>4, <1>6, <1>9, <2>0, <2>4
    <3>. QED  BY <1>6, <2>0, <3>1
  <2>. QED  BY <2>0, <2>1, <2>2, <2>3, <2>4
<1>11. c = d  BY <1>7, <1>9, <1>10, SameElements
<1>12. c[i] = sp  BY <1>9, <1>11
<1>. QED  BY <1>2, <1>7, <1>8, <1>11, <1>12 DEF b, c, d, t

LEMMA MergeRemoves ==
    ASSUME NEW bs, NEW n \in Nat, BucketsOK(bs, n), NEW i \in 1..Len(bs), Len(bs) > 1
    PROVE  \E k \in 1..Len(Boundaries(bs)) :
              Boundaries(MergeWithAdjacentBucket(bs, i)) = Without(Boundaries(bs), k)
<1>. DEFINE left == IF MergeTarget(bs, i) < i THEN MergeTarget(bs, i) ELSE i
            m == MergedBucket(bs[left], bs[left + 1])
            t == MergeWithAdjacentBucket(bs, i)
            b == Boundaries(bs)
            c == Boundaries(t)
            d == Without(b, left)
<1>1. IsSeq(bs)  BY DEF BucketsOK
<1>2. /\ Len(bs) \in Nat \ {0} /\ b \in Seq(Key) /\ Len(b) = Len(bs) - 1
      /\ \A k \in 1..(Len(bs) - 1) : b[k] = bs[k].max_key
  BY BoundariesOfBuckets
<1>3. left \in 1..(Len(bs) - 1)
  <2>1. CASE MergeTarget(bs, i) = i - 1 /\ i > 1  BY <1>2, <2>1
  <2>2. CASE MergeTarget(bs, i) = i + 1 /\ i < Len(bs)  BY <1>2, <2>2
  <2>. QED  BY <1>2, <2>1, <2>2 DEF MergeTarget
<1>4. t = WithMerged(bs, left, m)
  BY DEF MergeWithAdjacentBucket, WithMerged, m, left
<1>5. BucketsOK(t, n)  BY MergeOK
<1>. HIDE DEF left, t
<1>6. m.max_key = bs[left + 1].max_key
  BY DEF MergedBucket, RecalculateWindowStats, MakeBucket
<1>. HIDE DEF m
<1>7. /\ Len(t) = Len(bs) - 1
      /\ \A k \in 1..(Len(bs) - 1) :
            t[k] = IF k < left THEN bs[k] ELSE IF k = left THEN m ELSE bs[k + 1]
  BY <1>1, <1>3, <1>4, MergeElements
<1>8. /\ c \in Seq(Key) /\ Len(c) = Len(bs) - 2
      /\ \A k \in 1..(Len(bs) - 2) : c[k] = t[k].max_key
  <2>1. /\ c \in Seq(Key) /\ Len(c) = Len(t) - 1
        /\ \A k \in 1..(Len(t) - 1) : c[k] = t[k].max_key
    BY <1>5, BoundariesOfBuckets
  <2>2. Len(t) - 1 = Len(bs) - 2  BY <1>2, <1>7
  <2>. QED  BY <2>1, <2>2
<1>. HIDE DEF b, c, d
<1>9. left \in 1..Len(b) /\ Len(b) - 1 = Len(bs) - 2  BY <1>2, <1>3
<1>10. /\ d \in Seq(Key) /\ Len(d) = Len(bs) - 2
       /\ \A k \in 1..(Len(bs) - 2) : d[k] = IF k < left THEN b[k] ELSE b[k + 1]
  <2>1. /\ d \in Seq(Key) /\ Len(d) = Len(b) - 1
        /\ \A k \in 1..(Len(b) - 1) : d[k] = IF k < left THEN b[k] ELSE b[k + 1]
    BY <1>2, <1>9, RemoveElements DEF d
  <2>. QED  BY <1>9, <2>1
<1>11. ASSUME NEW k \in 1..(Len(bs) - 2)  PROVE c[k] = d[k]
  <2>0. /\ c[k] = t[k].max_key /\ k \in Nat
        /\ k \in 1..(Len(bs) - 1) /\ k + 1 \in 1..(Len(bs) - 1)
    BY <1>2, <1>8
  <2>1. CASE k < left
    <3>1. t[k] = bs[k] /\ d[k] = b[k]  BY <1>3, <1>7, <1>10, <2>0, <2>1
    <3>. QED  BY <1>2, <2>0, <3>1
  <2>2. CASE k = left
    <3>1. t[k] = m /\ d[k] = b[k + 1]  BY <1>3, <1>7, <1>10, <2>0, <2>2
    <3>. QED  BY <1>2, <1>6, <2>0, <2>2, <3>1
  <2>3. CASE k > left
    <3>1. t[k] = bs[k + 1] /\ d[k] = b[k + 1]  BY <1>3, <1>7, <1>10, <2>0, <2>3
    <3>. QED  BY <1>2, <2>0, <3>1
  <2>. QED  BY <1>3, <2>0, <2>1, <2>2, <2>3
<1>12. c = d
  <2>1. \A k \in 1..Len(c) : c[k] = d[k]  BY <1>8, <1>11
  <2>. QED  BY <1>8, <1>10, <2>1, SameElements
<1>. QED  BY <1>9, <1>12 DEF b, c, d, t

-----------------------------------------------------------------------------
(* The initial state and the steps.                                         *)

\* What the partition sees of the jobs.
Views == [j \in Jobs |-> View(j)]

LEMMA InitImplements == Init => Abstract!Init
<1>. SUFFICES ASSUME Init PROVE Abstract!Init  OBVIOUS
<1>1. Boundaries(buckets) = << >>  BY DEF Init, Boundaries
<1>2. \A j \in Jobs : View(j) = NoView  BY DEF Init, View
<1>. QED  BY <1>1, <1>2 DEF Init, Abstract!Init

\* The step is one of the partition, or the partition does not see it.
StepImplements == Abstract!Next \/ UNCHANGED Abstract!vars

LEMMA Unseen ==
    ASSUME UNCHANGED <<initialized, structure_epoch>>,
           Boundaries(buckets)' = Boundaries(buckets),
           \A j \in Jobs : View(j)' = View(j)
    PROVE  StepImplements
BY DEF StepImplements, Abstract!vars

(***************************************************************************)
(* A job that is not building sees nothing; one step of it changes what    *)
(* it sees, and what no other job sees.                                    *)
(***************************************************************************)
LEMMA OtherViews ==
    ASSUME IInv, NEW j \in Jobs, NEW p, pc' = [pc EXCEPT ![j] = p],
           snap' = snap \/ \E v : snap' = [snap EXCEPT ![j] = v]
    PROVE  /\ pc'[j] = p
           /\ \A k \in Jobs \ {j} : View(k)' = View(k)
<1>1. pc \in [Jobs -> {"idle", "initialize", "snapshot", "build"}] /\ DOMAIN snap = Jobs
  BY DEF IInv, TypeOK
<1>2. pc'[j] = p /\ \A k \in Jobs \ {j} : pc'[k] = pc[k] /\ snap'[k] = snap[k]  BY <1>1
<1>. QED  BY <1>2 DEF View

LEMMA NotBuilding ==
    ASSUME IInv, NEW j \in Jobs, NEW p, pc' = [pc EXCEPT ![j] = p], UNCHANGED snap,
           pc[j] # "build", p # "build"
    PROVE  \A k \in Jobs : View(k)' = View(k)
<1>1. pc'[j] = p /\ \A k \in Jobs \ {j} : View(k)' = View(k)  BY OtherViews
<1>2. View(j)' = View(j)  BY <1>1 DEF View
<1>. QED  BY <1>1, <1>2

LEMMA StartFlushImplements ==
    ASSUME IInv, NEW j \in Jobs, StartFlush(j)
    PROVE  StepImplements
<1>1. PICK p : pc' = [pc EXCEPT ![j] = p] /\ p # "build"  BY DEF StartFlush
<1>2. pc[j] # "build" /\ UNCHANGED <<initialized, buckets, structure_epoch, snap>>
  BY DEF StartFlush, managerVars
<1>3. \A k \in Jobs : View(k)' = View(k)  BY <1>1, <1>2, NotBuilding
<1>4. Boundaries(buckets)' = Boundaries(buckets)  BY <1>2 DEF Boundaries
<1>. QED  BY <1>2, <1>3, <1>4, Unseen

LEMMA InitializeImplements ==
    ASSUME IInv, IInv', NEW j \in Jobs, InitializeFromFirstFlush(j)
    PROVE  StepImplements
<1>1. /\ pc[j] # "build" /\ pc' = [pc EXCEPT ![j] = "snapshot"] /\ initialized' = TRUE
      /\ UNCHANGED <<structure_epoch, snap>>
      /\ initialized => UNCHANGED buckets
  BY DEF InitializeFromFirstFlush
<1>2. \A k \in Jobs : View(k)' = View(k)  BY <1>1, NotBuilding
<1>3. CASE initialized
  <2>1. Boundaries(buckets)' = Boundaries(buckets)  BY <1>1, <1>3 DEF Boundaries
  <2>2. UNCHANGED initialized  BY <1>1, <1>3
  <2>. QED  BY <1>1, <1>2, <2>1, <2>2, Unseen
<1>4. CASE ~initialized
  <2>1. Boundaries(buckets)' \in Seq(Key)
    <3>1. mem[j] \in Memtable /\ global_flush_counter \in Nat  BY DEF IInv, TypeOK
    <3>2. BucketsOK(buckets', global_flush_counter)
      BY <1>4, <3>1, SplitPointsAreKeys, InitialBucketsOK DEF InitializeFromFirstFlush
    <3>. QED  BY <3>1, <3>2, BoundariesOfBuckets
  <2>2. Abstract!Open  BY <1>1, <1>2, <1>4, <2>1 DEF Abstract!Open
  <2>. QED  BY <2>2 DEF StepImplements, Abstract!Next
<1>. QED  BY <1>3, <1>4

LEMMA FallBackImplements ==
    ASSUME IInv, NEW j \in Jobs, FallBackToRegularFlush(j)
    PROVE  StepImplements
<1>1. /\ pc[j] # "build" /\ pc' = [pc EXCEPT ![j] = "idle"]
      /\ UNCHANGED <<initialized, buckets, structure_epoch, snap>>
  BY DEF FallBackToRegularFlush, managerVars
<1>2. \A k \in Jobs : View(k)' = View(k)  BY <1>1, NotBuilding
<1>3. Boundaries(buckets)' = Boundaries(buckets)  BY <1>1 DEF Boundaries
<1>. QED  BY <1>1, <1>2, <1>3, Unseen

LEMMA GetSnapshotImplements ==
    ASSUME IInv, NEW j \in Jobs, GetSnapshot(j)
    PROVE  StepImplements
<1>. DEFINE now == [version |-> structure_epoch, boundaries |-> Boundaries(buckets)]
            s == [epoch |-> structure_epoch, ranges |-> Ranges(buckets)]
<1>1. /\ pc[j] # "build" /\ pc' = [pc EXCEPT ![j] = "build"] /\ initialized
      /\ snap' = [snap EXCEPT ![j] = s]
      /\ UNCHANGED <<initialized, buckets, structure_epoch>>
  BY DEF GetSnapshot, managerVars
<1>2. pc'[j] = "build" /\ \A k \in Jobs \ {j} : View(k)' = View(k)  BY <1>1, OtherViews
<1>3. Boundaries(Ranges(buckets)) = Boundaries(buckets)
  <2>1. BucketsOK(buckets, global_flush_counter) /\ global_flush_counter \in Nat
    BY <1>1, BucketsOKOfIInv DEF IInv, TypeOK
  <2>. QED  BY <2>1, SnapshotBoundaries
<1>4. View(j) = NoView  BY <1>1 DEF View
<1>5. View(j)' = now
  <2>1. snap'[j] = s  BY <1>1 DEF IInv, TypeOK
  <2>2. snap'[j].epoch = structure_epoch /\ snap'[j].ranges = Ranges(buckets)  BY <2>1
  <2>3. View(j)' = [version |-> snap'[j].epoch, boundaries |-> Boundaries(snap'[j].ranges)]
    BY <1>2 DEF View, Boundaries
  <2>. QED  BY <1>3, <2>2, <2>3
<1>6. Boundaries(buckets)' = Boundaries(buckets)  BY <1>1 DEF Boundaries
<1>. HIDE DEF now
<1>7. Views' = [Views EXCEPT ![j] = now]  BY <1>2, <1>5 DEF Views
<1>8. Abstract!Look(j)
  BY <1>1, <1>4, <1>6, <1>7 DEF Abstract!Look, Views, now
<1>. QED  BY <1>8 DEF StepImplements, Abstract!Next

(***************************************************************************)
(* The end of a flush, reported to the manager or not.                     *)
(***************************************************************************)
LEMMA EndFlushImplements ==
    ASSUME IInv, NEW j \in Jobs, EndFlush(j), UNCHANGED <<initialized, structure_epoch>>,
           Boundaries(buckets)' = Boundaries(buckets)
    PROVE  StepImplements
<1>1. pc'[j] = "idle" /\ \A k \in Jobs \ {j} : View(k)' = View(k)
  BY OtherViews DEF EndFlush
<1>2. View(j)' = NoView  BY <1>1 DEF View
<1>3. Views' = [Views EXCEPT ![j] = NoView]  BY <1>1, <1>2 DEF Views
<1>4. Abstract!LookAway(j)  BY <1>3 DEF Abstract!LookAway, Views
<1>. QED  BY <1>4 DEF StepImplements, Abstract!Next

LEMMA BuildFailsImplements ==
    ASSUME IInv, NEW j \in Jobs, BuildFails(j)
    PROVE  StepImplements
<1>1. EndFlush(j) /\ UNCHANGED <<initialized, buckets, structure_epoch>>
  BY DEF BuildFails, managerVars
<1>2. Boundaries(buckets)' = Boundaries(buckets)  BY <1>1 DEF Boundaries
<1>. QED  BY <1>1, <1>2, EndFlushImplements

LEMMA OnFlushCompletedImplements ==
    ASSUME IInv, NEW j \in Jobs, OnFlushCompleted(j)
    PROVE  StepImplements
<1>1. EndFlush(j) /\ UNCHANGED <<initialized, structure_epoch>>  BY DEF OnFlushCompleted
<1>2. PICK events : buckets' = Completed(buckets, global_flush_counter', events)
  BY DEF OnFlushCompleted
<1>3. IsSeq(buckets) /\ DOMAIN buckets = 1..Len(buckets) /\ Len(buckets) \in Nat
  BY SeqDomain DEF IInv, TypeOK, IsSeq
<1>4. /\ DOMAIN buckets' = DOMAIN buckets /\ buckets' = [i \in DOMAIN buckets |-> buckets'[i]]
      /\ \A i \in DOMAIN buckets : buckets'[i].max_key = buckets[i].max_key
  BY <1>2 DEF Completed, AddFlushEvent, RemoveFlushEvent, MakeBucket
<1>5. Len(buckets') = Len(buckets)  BY <1>3, <1>4, FunctionIsSeq
<1>6. \A i \in 1..(Len(buckets) - 1) : buckets'[i].max_key = buckets[i].max_key
  BY <1>3, <1>4
<1>7. Boundaries(buckets)' = Boundaries(buckets)  BY <1>5, <1>6 DEF Boundaries
<1>. QED  BY <1>1, <1>7, EndFlushImplements

-----------------------------------------------------------------------------
(* The adjustments.                                                         *)

LEMMA JobsKeepViews ==
    ASSUME UNCHANGED jobVars
    PROVE  \A k \in Jobs : View(k)' = View(k)
BY DEF jobVars, View, Boundaries

LEMMA AdjustBySplitImplements ==
    ASSUME IInv, AdjustBySplit
    PROVE  StepImplements
<1>1. initialized /\ global_flush_counter \in Nat
  BY DEF AdjustBySplit, IInv, TypeOK, BeforeInitialize
<1>2. BucketsOK(buckets, global_flush_counter)  BY <1>1, BucketsOKOfIInv
<1>3. NextIndex \in 1..Len(buckets)
  BY <1>2, SeqDomain DEF AdjustBySplit, Adjustable, BucketsOK
<1>4. /\ buckets' = SplitBucket(buckets, NextIndex) /\ structure_epoch' = structure_epoch + 1
      /\ UNCHANGED initialized /\ UNCHANGED jobVars
  BY DEF AdjustBySplit, Restructured
<1>5. \A k \in Jobs : View(k)' = View(k)  BY <1>4, JobsKeepViews
<1>6. Boundaries(buckets)' = Boundaries(SplitBucket(buckets, NextIndex))
  BY <1>4 DEF Boundaries
<1>7. Abstract!Change  BY <1>1, <1>4, <1>5 DEF Abstract!Change
<1>. DEFINE b == Boundaries(buckets)
            c == Boundaries(SplitBucket(buckets, NextIndex))
            i == NextIndex
<1>8. i \in 1..(Len(b) + 1) /\ Len(c) = Len(b) + 1 /\ c[i] \in Key /\ c = WithInserted(b, i, c[i])
  BY <1>1, <1>2, <1>3, SplitInserts
<1>. HIDE DEF b, c, i
<1>9. \E k \in 1..(Len(b) + 1) : c[k] \in Key /\ c = WithInserted(b, k, c[k])  BY <1>8
<1>10. Abstract!InsertBoundary
  BY <1>6, <1>7, <1>8, <1>9 DEF Abstract!InsertBoundary, WithInserted, b, c
<1>. QED  BY <1>10 DEF StepImplements, Abstract!Next

LEMMA AdjustByMergeImplements ==
    ASSUME IInv, AdjustByMerge
    PROVE  StepImplements
<1>1. initialized /\ global_flush_counter \in Nat
  BY DEF AdjustByMerge, IInv, TypeOK, BeforeInitialize
<1>2. BucketsOK(buckets, global_flush_counter)  BY <1>1, BucketsOKOfIInv
<1>3. NextIndex \in 1..Len(buckets) /\ Len(buckets) > 1
  BY <1>2, SeqDomain DEF AdjustByMerge, Adjustable, BucketsOK, ShouldMerge
<1>4. /\ buckets' = MergeWithAdjacentBucket(buckets, NextIndex)
      /\ structure_epoch' = structure_epoch + 1
      /\ UNCHANGED initialized /\ UNCHANGED jobVars
  BY DEF AdjustByMerge, Restructured
<1>5. \A k \in Jobs : View(k)' = View(k)  BY <1>4, JobsKeepViews
<1>6. Boundaries(buckets)' = Boundaries(MergeWithAdjacentBucket(buckets, NextIndex))
  BY <1>4 DEF Boundaries
<1>7. Abstract!Change  BY <1>1, <1>4, <1>5 DEF Abstract!Change
<1>8. \E k \in 1..Len(Boundaries(buckets)) :
        Boundaries(MergeWithAdjacentBucket(buckets, NextIndex))
            = Without(Boundaries(buckets), k)
  BY <1>1, <1>2, <1>3, MergeRemoves
<1>9. Abstract!RemoveBoundary  BY <1>6, <1>7, <1>8 DEF Abstract!RemoveBoundary, Without
<1>. QED  BY <1>9 DEF StepImplements, Abstract!Next

(***************************************************************************)
(* Every step of the manager is a step of the partition, or a stutter.     *)
(***************************************************************************)
LEMMA NextImplements == IInv /\ IInv' /\ [Next]_vars => StepImplements
<1>. SUFFICES ASSUME IInv, IInv', [Next]_vars PROVE StepImplements  OBVIOUS
<1>1. ASSUME NEW j \in Jobs, FlushStep(j)  PROVE StepImplements
  BY <1>1, StartFlushImplements, InitializeImplements, FallBackImplements,
     GetSnapshotImplements, BuildFailsImplements, OnFlushCompletedImplements DEF FlushStep
<1>2. ASSUME UNCHANGED <<managerVars, jobVars>>  PROVE StepImplements
  <2>1. UNCHANGED <<initialized, buckets, structure_epoch>> /\ UNCHANGED jobVars
    BY <1>2 DEF managerVars
  <2>2. Boundaries(buckets)' = Boundaries(buckets)  BY <2>1 DEF Boundaries
  <2>. QED  BY <2>1, <2>2, JobsKeepViews, Unseen
<1>3. CASE CollectCompactedBuckets \/ AdjustNothing \/ UNCHANGED vars
  BY <1>2, <1>3 DEF CollectCompactedBuckets, AdjustNothing, vars
<1>4. CASE AdjustBySplit \/ AdjustByMerge
  BY <1>4, AdjustBySplitImplements, AdjustByMergeImplements
<1>. QED  BY <1>1, <1>3, <1>4 DEF Next, AdjustAfterCompaction

(***************************************************************************)
(* Whatever flushes and compactions do, and in whatever order, the users   *)
(* of the bucket manager see a KeyPartition: opened once, changed by one   *)
(* boundary and one epoch at a time, and fixed in every snapshot.          *)
(***************************************************************************)
THEOREM ManagerImplementsPartition == Spec => ImplementsPartition
<1>1. IInv /\ IInv' /\ [Next]_vars => [Abstract!Next]_(Abstract!vars)
  BY NextImplements DEF StepImplements
<1>. QED
  BY <1>1, InitImplements, Invariance, PTL DEF Spec, ImplementsPartition, Abstract!Spec
=============================================================================
