---------------------------- MODULE BucketManager ----------------------------
(***************************************************************************)
(* The bucket manager of a column family (class BucketManager and struct   *)
(* Bucket, db/column_family.{h,cc}) with its two users:                    *)
(*                                                                         *)
(*   - flush jobs (WriteBucketLevel0Table, db/flush_job.cc), which read    *)
(*     the manager without the db mutex: they initialise it, take a        *)
(*     snapshot of the ranges, build one file per non-empty bucket, and    *)
(*     report what they wrote with OnFlushCompleted;                       *)
(*   - the installation of a compaction out of L0                          *)
(*     (InstallCompactionResults, db/compaction/compaction_job.cc), which  *)
(*     runs under the db mutex and adjusts, one after the other, the       *)
(*     buckets its L0 inputs fell in.                                      *)
(*                                                                         *)
(* Every action below is one critical section of BucketManager::mutex_, or *)
(* one unlocked read of the manager.  The manager is not persisted.        *)
(*                                                                         *)
(* Indices count from 1 here and from 0 in the code.                       *)
(***************************************************************************)
EXTENDS BucketKeys

CONSTANTS
    Jobs,                     \* flush jobs that may run at the same time
    Memtables,                \* what one flush may have to write, see below
    CompactionInputs,         \* sets of smallest keys of compacted L0 files
    TargetCount,              \* initial_split_count
    WindowSize,               \* Bucket::WINDOW_SIZE
    EntryBytes,               \* file bytes per entry
    EnableBucketAdjustment,   \* the option of that name
    MaxFlushes,               \* bound on the flushes that complete
    MaxEpoch                  \* no compaction starts to adjust from here on

(***************************************************************************)
(* What a flush writes: the user keys of the merged, sorted memtables (a   *)
(* key occurs once for each of its versions), and the number of range      *)
(* deletions, which NumEntries() counts and the iterator does not visit.   *)
(***************************************************************************)
Memtable == [keys : Seq(Key), range_dels : Nat]
SortedKeys(s) == \A i, j \in 1..Len(s) : i < j => ~KeyLT(s[j], s[i])

ASSUME MemtablesAssumption ==
    \A m \in Memtables : m \in Memtable /\ SortedKeys(m.keys)
ASSUME CompactionAssumption ==
    \A ks \in CompactionInputs : ks \subseteq Key /\ ks # {}
ASSUME SizeAssumption ==
    /\ TargetCount \in Nat \ {0}
    /\ WindowSize \in Nat \ {0}
    /\ EntryBytes \in Nat \ {0}
ASSUME BoundsAssumption ==
    MaxFlushes \in Nat /\ MaxEpoch \in Nat /\ EnableBucketAdjustment \in BOOLEAN

VARIABLES
    initialized,            \* initialized_
    buckets,                \* buckets_
    structure_epoch,        \* structure_epoch_
    global_flush_counter,   \* global_flush_counter_
    pc,                     \* where each flush job is
    mem,                    \* what it flushes
    snap,                   \* its BucketSnapshot
    adjusting,              \* the compaction being installed: the smallest
                            \* keys of its L0 inputs, the indices to adjust
    flushed                 \* history: what each completed flush reported

jobVars == <<pc, mem, snap>>
managerVars == <<initialized, buckets, structure_epoch, global_flush_counter>>
vars == <<managerVars, jobVars, adjusting, flushed>>

-----------------------------------------------------------------------------
(* Statistics: file_count, entry_count and data_bytes always move together. *)

ZeroStats == [file_count |-> 0, entry_count |-> 0, data_bytes |-> 0]

PlusStats(s, t) ==
    [file_count  |-> s.file_count + t.file_count,
     entry_count |-> s.entry_count + t.entry_count,
     data_bytes  |-> s.data_bytes + t.data_bytes]

MinusStats(s, t) ==
    [file_count  |-> s.file_count - t.file_count,
     entry_count |-> s.entry_count - t.entry_count,
     data_bytes  |-> s.data_bytes - t.data_bytes]

\* mutant: every overlapping bucket gets the whole
UndividedStats(s, n) == s
DivStats(s, n) ==
    [file_count  |-> s.file_count \div n,
     entry_count |-> s.entry_count \div n,
     data_bytes  |-> s.data_bytes \div n]

SumStats(f) ==
    [file_count  |-> SumFunction([x \in DOMAIN f |-> f[x].file_count]),
     entry_count |-> SumFunction([x \in DOMAIN f |-> f[x].entry_count]),
     data_bytes  |-> SumFunction([x \in DOMAIN f |-> f[x].data_bytes])]

-----------------------------------------------------------------------------
(* struct Bucket.  flush_events maps a flush id to an event; window holds   *)
(* window_file_count, window_entry_count and window_data_bytes.             *)

MakeBucket(min, max, events, window) ==
    [min_key |-> min, max_key |-> max, flush_events |-> events, window |-> window]

NewBucket(min, max) == MakeBucket(min, max, << >>, ZeroStats)

AddFlushEvent(b, id, event) ==
    MakeBucket(b.min_key, b.max_key,
               [i \in DOMAIN b.flush_events \cup {id} |->
                   IF i = id THEN event ELSE b.flush_events[i]],
               PlusStats(b.window, event.stats))

\* mutant: the aggregates are not decremented
RemoveFlushEventOnly(b, id) ==
    [b EXCEPT !.flush_events = [i \in DOMAIN @ \ {id} |-> @[i]]]
RemoveFlushEvent(b, id) ==
    IF id \in DOMAIN b.flush_events
    THEN MakeBucket(b.min_key, b.max_key,
                    [i \in DOMAIN b.flush_events \ {id} |-> b.flush_events[i]],
                    MinusStats(b.window, b.flush_events[id].stats))
    ELSE b

EventSum(events) == SumStats([id \in DOMAIN events |-> events[id].stats])

\* A bucket whose events were replaced, its aggregates computed from scratch.
RecalculateWindowStats(min, max, events) ==
    MakeBucket(min, max, events, EventSum(events))

Ranges(bs) ==
    [i \in DOMAIN bs |-> [min_key |-> bs[i].min_key, max_key |-> bs[i].max_key]]

TotalWindow == SumStats([i \in DOMAIN buckets |-> buckets[i].window])

-----------------------------------------------------------------------------
(* The flush job's side: first split points, and what it reports.           *)

(***************************************************************************)
(* The i-th split point is the user key of the entry number                *)
(* i * entries_per_bucket (from 0), as long as the iterator is valid there.*)
(***************************************************************************)
InitialSplitPoints(m) ==
    LET entries_per_bucket == (Len(m.keys) + m.range_dels) \div TargetCount
        reached == {i \in 1..(TargetCount - 1) :
                        i * entries_per_bucket < Len(m.keys)}
    IN  IF entries_per_bucket = 0 THEN << >>
        ELSE [i \in 1..Cardinality(reached) |->
                 m.keys[i * entries_per_bucket + 1]]

InitialBuckets(split_points) ==
    [i \in 1..(Len(split_points) + 1) |->
        NewBucket(IF i = 1 THEN Empty ELSE split_points[i - 1],
                  IF i = Len(split_points) + 1 THEN Empty ELSE split_points[i])]

\* The entries the counting scan assigns to bucket i (bucket_keys[i]).
CountedIn(ranges, m, i) ==
    {n \in 1..Len(m.keys) : FindBucketIn(ranges, m.keys[n]) = i}

\* The entries BucketBoundedIterator yields for bucket i.
WrittenIn(ranges, m, i) ==
    {n \in 1..Len(m.keys) : InRange(m.keys[n], ranges[i])}

\* A file is written for the buckets whose count is not 0.
NonEmptyBuckets(ranges, m) ==
    {i \in DOMAIN ranges : CountedIn(ranges, m, i) # {}}

BucketMedianKey(ranges, m, i) ==
    IF CountedIn(ranges, m, i) = {} THEN Empty
    ELSE MedianKey([n \in CountedIn(ranges, m, i) |-> m.keys[n]])

\* data_bytes goes to the bucket of the file's smallest key.
ReportedBytes(ranges, m, i) ==
    LET smallest(f) == m.keys[Min(WrittenIn(ranges, m, f))]
        files == {f \in NonEmptyBuckets(ranges, m) :
                      FindBucketIn(ranges, smallest(f)) = i}
    IN  SumFunction([f \in files |->
                        EntryBytes * Cardinality(WrittenIn(ranges, m, f))])

FlushResults(ranges, m) ==
    [i \in DOMAIN ranges |->
        [min_key |-> ranges[i].min_key, max_key |-> ranges[i].max_key,
         stats |-> [file_count |->
                        IF i \in NonEmptyBuckets(ranges, m) THEN 1 ELSE 0,
                    entry_count |-> Cardinality(CountedIn(ranges, m, i)),
                    data_bytes |-> ReportedBytes(ranges, m, i)],
         median_key |-> BucketMedianKey(ranges, m, i)]]

-----------------------------------------------------------------------------
(* OnFlushCompleted: the events of one flush, by the fast or the slow path. *)

FastPathEvents(results) ==
    [i \in DOMAIN results |->
        [stats |-> results[i].stats, median_key |-> results[i].median_key]]

\* FindBucketsInRangeInternal
FindBucketsInRange(r) == {i \in DOMAIN buckets : RangesOverlap(buckets[i], r)}

\* The midpoint of the intersection of the two ranges.
IntersectionMedian(b, r) ==
    LET min == IF b.min_key # Empty /\ (r.min_key = Empty \/ KeyLT(r.min_key, b.min_key))
               THEN b.min_key ELSE r.min_key
        max == IF b.max_key # Empty /\ (r.max_key = Empty \/ KeyLT(b.max_key, r.max_key))
               THEN b.max_key ELSE r.max_key
    IN  ComputeMidpointKey(min, max)

\* Each result is spread evenly, in integers, over the buckets it overlaps.
SlowPathEvents(results) ==
    LET from(i) == {r \in DOMAIN results : i \in FindBucketsInRange(results[r])}
        share(r) == DivStats(results[r].stats,
                             Cardinality(FindBucketsInRange(results[r])))
    IN  [i \in DOMAIN buckets |->
            [stats |-> SumStats([r \in from(i) |-> share(r)]),
             median_key |->
                IF from(i) = {} THEN Empty
                ELSE MedianKey([r \in from(i) |->
                                   IntersectionMedian(buckets[i], results[r])])]]

FastPath(snapshot_epoch, results) ==
    snapshot_epoch = structure_epoch /\ Len(results) = Len(buckets)

\* mutant: the flush id is read before the counter is incremented
CompletedWithOldId(bs, id, events) ==
    [i \in DOMAIN bs |->
        RemoveFlushEvent(AddFlushEvent(bs[i], id - 1, events[i]), id - WindowSize)]
\* mutant: the window slides one flush late
CompletedWithLateSlide(bs, id, events) ==
    [i \in DOMAIN bs |->
        RemoveFlushEvent(AddFlushEvent(bs[i], id, events[i]), id - WindowSize - 1)]
\* Every bucket gets one event; the event that leaves the window is removed.
Completed(bs, id, events) ==
    [i \in DOMAIN bs |->
        RemoveFlushEvent(AddFlushEvent(bs[i], id, events[i]), id - WindowSize)]

-----------------------------------------------------------------------------
(* SplitBucket and MergeWithAdjacentBucket.                                 *)

\* ComputeSplitPoint: the median of the medians, Empty if there is none.
ComputeSplitPoint(b) ==
    LET used == {id \in DOMAIN b.flush_events :
                    /\ b.flush_events[id].median_key # Empty
                    /\ b.flush_events[id].stats.file_count > 0}
    IN  IF used = {} THEN Empty
        ELSE MedianKey([id \in used |-> b.flush_events[id].median_key])

\* The two checks of SplitBucket; the midpoint itself is not checked again.
InsideBucket(sp, b) ==
    /\ sp # Empty
    /\ b.min_key # Empty => KeyLT(b.min_key, sp)
    /\ LtMax(sp, b.max_key)

SplitPoint(b) ==
    LET sp == ComputeSplitPoint(b)
    IN  IF InsideBucket(sp, b) THEN sp
        ELSE ComputeMidpointKey(b.min_key, b.max_key)

\* An event goes whole to the side of its median.
EventsAt(b, ids) == [id \in ids |-> b.flush_events[id]]
EventsBelow(b, sp) ==
    {id \in DOMAIN b.flush_events : KeyLT(b.flush_events[id].median_key, sp)}

LeftHalf(b, sp) ==
    RecalculateWindowStats(b.min_key, sp, EventsAt(b, EventsBelow(b, sp)))
RightHalf(b, sp) ==
    RecalculateWindowStats(sp, b.max_key,
        EventsAt(b, DOMAIN b.flush_events \ EventsBelow(b, sp)))

SplitBucket(bs, i) ==
    LET sp == SplitPoint(bs[i])
    IN  SubSeq(bs, 1, i - 1) \o <<LeftHalf(bs[i], sp), RightHalf(bs[i], sp)>>
        \o SubSeq(bs, i + 1, Len(bs))

\* The neighbour with fewer bytes, the right one when they are equal.
MergeTarget(bs, i) ==
    IF i > 1 /\ (i = Len(bs) \/ bs[i - 1].window.data_bytes
                                    < bs[i + 1].window.data_bytes)
    THEN i - 1 ELSE i + 1

\* mutant: an event of the same flush is kept, not added to
MergedEventsKeepingLeft(l, r) ==
    [id \in DOMAIN l \cup DOMAIN r |-> IF id \in DOMAIN l THEN l[id] ELSE r[id]]
\* Events of the same flush are added up under the left median.
MergedEvents(l, r) ==
    [id \in DOMAIN l \cup DOMAIN r |->
        IF id \notin DOMAIN r THEN l[id]
        ELSE IF id \notin DOMAIN l THEN r[id]
        ELSE [stats |-> PlusStats(l[id].stats, r[id].stats),
              median_key |-> l[id].median_key]]

\* mutant: the left bucket keeps its upper bound
MergedBucketWithLeftRange(l, r) ==
    RecalculateWindowStats(l.min_key, l.max_key,
                           MergedEvents(l.flush_events, r.flush_events))
MergedBucket(l, r) ==
    RecalculateWindowStats(l.min_key, r.max_key,
                           MergedEvents(l.flush_events, r.flush_events))

MergeWithAdjacentBucket(bs, i) ==
    LET left == IF MergeTarget(bs, i) < i THEN MergeTarget(bs, i) ELSE i
    IN  SubSeq(bs, 1, left - 1) \o <<MergedBucket(bs[left], bs[left + 1])>>
        \o SubSeq(bs, left + 2, Len(bs))

(***************************************************************************)
(* The thresholds of AdjustAfterCompaction, bytes/total > 1.5/n and        *)
(* bytes/total < 0.5/n, multiplied out.                                    *)
(***************************************************************************)
HasWindowData == TotalWindow.file_count # 0 /\ TotalWindow.data_bytes # 0
ShouldSplit(i) ==
    2 * buckets[i].window.data_bytes * Len(buckets) > 3 * TotalWindow.data_bytes
ShouldMerge(i) ==
    /\ 2 * buckets[i].window.data_bytes * Len(buckets) < TotalWindow.data_bytes
    /\ Len(buckets) > 1

-----------------------------------------------------------------------------
NoMemtable == [keys |-> << >>, range_dels |-> 0]
NoSnapshot == [epoch |-> 0, ranges |-> << >>]
NotAdjusting == [keys |-> {}, todo |-> {}]

Init ==
    /\ initialized = FALSE
    /\ buckets = << >>
    /\ structure_epoch = 0
    /\ global_flush_counter = 0
    /\ pc = [j \in Jobs |-> "idle"]
    /\ mem = [j \in Jobs |-> NoMemtable]
    /\ snap = [j \in Jobs |-> NoSnapshot]
    /\ adjusting = NotAdjusting
    /\ flushed = << >>

(***************************************************************************)
(* A flush job starts: it learns, under the db mutex, whether L0 is empty, *)
(* and then reads initialized_ without any lock.                           *)
(***************************************************************************)
StartFlush(j) ==
    /\ pc[j] = "idle"
    /\ \E m \in Memtables, l0_empty \in BOOLEAN :
        /\ mem' = [mem EXCEPT ![j] = m]
        /\ pc' = [pc EXCEPT ![j] = IF l0_empty /\ ~initialized
                                   THEN "initialize" ELSE "snapshot"]
    /\ UNCHANGED <<managerVars, snap, adjusting, flushed>>

\* InitializeFromFirstFlush: a second caller finds it done and changes nothing.
InitializeFromFirstFlush(j) ==
    /\ pc[j] = "initialize"
    /\ pc' = [pc EXCEPT ![j] = "snapshot"]
    /\ initialized' = TRUE
    /\ buckets' = IF initialized THEN buckets
                  ELSE InitialBuckets(InitialSplitPoints(mem[j]))
    /\ UNCHANGED <<structure_epoch, global_flush_counter, mem, snap, adjusting,
                   flushed>>

\* Not initialised and L0 not empty (as after a restart): a regular flush.
FallBackToRegularFlush(j) ==
    /\ pc[j] = "snapshot"
    /\ ~initialized
    /\ pc' = [pc EXCEPT ![j] = "idle"]
    /\ mem' = [mem EXCEPT ![j] = NoMemtable]
    /\ UNCHANGED <<managerVars, snap, adjusting, flushed>>

GetSnapshot(j) ==
    /\ pc[j] = "snapshot"
    /\ initialized
    /\ pc' = [pc EXCEPT ![j] = "build"]
    /\ snap' = [snap EXCEPT ![j] = [epoch |-> structure_epoch,
                                    ranges |-> Ranges(buckets)]]
    /\ UNCHANGED <<managerVars, mem, adjusting, flushed>>

EndFlush(j) ==
    /\ pc' = [pc EXCEPT ![j] = "idle"]
    /\ mem' = [mem EXCEPT ![j] = NoMemtable]
    /\ snap' = [snap EXCEPT ![j] = NoSnapshot]

\* A file could not be built: nothing is reported to the manager.
BuildFails(j) ==
    /\ pc[j] = "build"
    /\ EndFlush(j)
    /\ UNCHANGED <<managerVars, adjusting, flushed>>

OnFlushCompleted(j) ==
    /\ pc[j] = "build"
    /\ global_flush_counter < MaxFlushes
    /\ global_flush_counter' = global_flush_counter + 1
    /\ LET results == FlushResults(snap[j].ranges, mem[j])
       IN  /\ buckets' = Completed(buckets, global_flush_counter',
                             IF FastPath(snap[j].epoch, results)
                             THEN FastPathEvents(results)
                             ELSE SlowPathEvents(results))
           /\ flushed' = Append(flushed,
                             SumStats([i \in DOMAIN results |-> results[i].stats]))
    /\ EndFlush(j)
    /\ UNCHANGED <<initialized, structure_epoch, adjusting>>

(***************************************************************************)
(* InstallCompactionResults collects the indices of the buckets of its L0  *)
(* inputs, and then adjusts them in ascending order.  The db mutex is held *)
(* throughout, so no other compaction comes between; flush jobs may.       *)
(***************************************************************************)
CollectCompactedBuckets ==
    /\ initialized
    /\ adjusting.todo = {}
    /\ structure_epoch < MaxEpoch
    /\ \E ks \in CompactionInputs :
        adjusting' = [keys |-> ks,
                      todo |-> {FindBucketIn(Ranges(buckets), k) : k \in ks}]
    /\ UNCHANGED <<managerVars, jobVars, flushed>>

NextIndex == Min(adjusting.todo)
AdjustmentDone ==
    adjusting' = IF adjusting.todo = {NextIndex} THEN NotAdjusting
                 ELSE [adjusting EXCEPT !.todo = @ \ {NextIndex}]

Adjustable == EnableBucketAdjustment /\ NextIndex \in DOMAIN buckets /\ HasWindowData

\* mutant: the epoch is not incremented
RestructuredSilently(bs) == buckets' = bs /\ UNCHANGED structure_epoch
Restructured(bs) == buckets' = bs /\ structure_epoch' = structure_epoch + 1

AdjustBySplit ==
    /\ adjusting.todo # {}
    /\ Adjustable /\ ShouldSplit(NextIndex)
    /\ Restructured(SplitBucket(buckets, NextIndex))
    /\ AdjustmentDone
    /\ UNCHANGED <<initialized, global_flush_counter, jobVars, flushed>>

AdjustByMerge ==
    /\ adjusting.todo # {}
    /\ Adjustable /\ ~ShouldSplit(NextIndex) /\ ShouldMerge(NextIndex)
    /\ Restructured(MergeWithAdjacentBucket(buckets, NextIndex))
    /\ AdjustmentDone
    /\ UNCHANGED <<initialized, global_flush_counter, jobVars, flushed>>

AdjustNothing ==
    /\ adjusting.todo # {}
    /\ ~(Adjustable /\ (ShouldSplit(NextIndex) \/ ShouldMerge(NextIndex)))
    /\ AdjustmentDone
    /\ UNCHANGED <<managerVars, jobVars, flushed>>

FlushStep(j) ==
    \/ StartFlush(j)
    \/ InitializeFromFirstFlush(j)
    \/ FallBackToRegularFlush(j)
    \/ GetSnapshot(j)
    \/ BuildFails(j)
    \/ OnFlushCompleted(j)

AdjustAfterCompaction == AdjustBySplit \/ AdjustByMerge \/ AdjustNothing

Next ==
    \/ \E j \in Jobs : FlushStep(j)
    \/ CollectCompactedBuckets
    \/ AdjustAfterCompaction

Spec == Init /\ [][Next]_vars

-----------------------------------------------------------------------------
(* Properties.                                                              *)

Event == [stats : [file_count : Nat, entry_count : Nat, data_bytes : Nat],
          median_key : Key]

(***************************************************************************)
(* The type invariant: the manager's and the jobs' state.  The counters in *)
(* the events and in the windows are the subject of WindowSums.            *)
(***************************************************************************)
BucketType(b, flushes) ==
    /\ b.min_key \in Key /\ b.max_key \in Key
    /\ DOMAIN b.flush_events \subseteq 1..flushes
    /\ \A id \in DOMAIN b.flush_events : b.flush_events[id].median_key \in Key
TypeOK ==
    /\ initialized \in BOOLEAN
    /\ structure_epoch \in Nat
    /\ global_flush_counter \in Nat
    /\ buckets \in Seq(Range(buckets))
    /\ \A i \in DOMAIN buckets : BucketType(buckets[i], global_flush_counter)
    /\ pc \in [Jobs -> {"idle", "initialize", "snapshot", "build"}]
    /\ mem \in [Jobs -> Memtable]
    /\ snap \in [Jobs -> [epoch : Nat, ranges : Seq(KeyRange)]]
    /\ adjusting \in [keys : SUBSET Key, todo : SUBSET (Nat \ {0})]

(***************************************************************************)
(* The ranges of the buckets, current or of a snapshot, form a chain from  *)
(* -infinity to +infinity in which each bucket starts where the one before *)
(* it ends: Initialize, Split and Merge leave no gap.                      *)
(***************************************************************************)
IsChain(ranges) ==
    /\ Len(ranges) > 0
    /\ ranges[1].min_key = Empty
    /\ ranges[Len(ranges)].max_key = Empty
    /\ \A i \in 1..(Len(ranges) - 1) :
          ranges[i].max_key = ranges[i + 1].min_key
Partition ==
    /\ initialized => IsChain(buckets)
    /\ \A j \in Jobs : pc[j] = "build" => IsChain(snap[j].ranges)

(***************************************************************************)
(* A flush job whose snapshot is being overtaken by splits and merges      *)
(* still writes every entry of its memtables into one of its files: the    *)
(* bucket the scan of WriteBucketLevel0Table counts the entry in gets a    *)
(* file, and that file's BucketBoundedIterator yields the entry.           *)
(***************************************************************************)
FlushWritesEveryEntry ==
    \A j \in Jobs : pc[j] = "build" =>
        \A n \in 1..Len(mem[j].keys) :
            \E f \in NonEmptyBuckets(snap[j].ranges, mem[j]) :
                n \in WrittenIn(snap[j].ranges, mem[j], f)

(***************************************************************************)
(* No entry is written twice by one flush: what flush_job.cc calls "the    *)
(* non-overlapping guarantee" of flushing by bucket.                       *)
(***************************************************************************)
FlushFilesDisjoint ==
    \A j \in Jobs : pc[j] = "build" =>
        \A f, g \in NonEmptyBuckets(snap[j].ranges, mem[j]) :
            f # g => WrittenIn(snap[j].ranges, mem[j], f)
                        \cap WrittenIn(snap[j].ranges, mem[j], g) = {}

(***************************************************************************)
(* The epoch protects OnFlushCompleted's fast path: while structure_epoch  *)
(* is the snapshot's epoch the ranges are those of the snapshot, so the    *)
(* i-th result is about the i-th bucket.                                   *)
(***************************************************************************)
SnapshotFresh ==
    \A j \in Jobs :
        pc[j] = "build" /\ snap[j].epoch = structure_epoch
            => snap[j].ranges = Ranges(buckets)

(***************************************************************************)
(* The incremental aggregates (AddFlushEvent, RemoveFlushEvent) are at all *)
(* times the sums RecalculateWindowStats would compute, whatever splits,   *)
(* merges and window slides came between; so they never underflow.         *)
(***************************************************************************)
WindowSums ==
    \A i \in DOMAIN buckets :
        /\ \A id \in DOMAIN buckets[i].flush_events :
              buckets[i].flush_events[id] \in Event
        /\ buckets[i].window = EventSum(buckets[i].flush_events)

(***************************************************************************)
(* A bucket remembers flushes of the last WindowSize ids only: merging and *)
(* splitting bring back no event that slid out of the window.              *)
(***************************************************************************)
EventsInWindow ==
    \A i \in DOMAIN buckets : \A id \in DOMAIN buckets[i].flush_events :
        global_flush_counter - WindowSize < id /\ id <= global_flush_counter

(***************************************************************************)
(* The buckets together never remember more of a flush than it reported,   *)
(* although its results were spread over other ranges than it built.       *)
(***************************************************************************)
Remembered(id) ==
    LET holders == {i \in DOMAIN buckets : id \in DOMAIN buckets[i].flush_events}
    IN  SumStats([i \in holders |-> buckets[i].flush_events[id].stats])
StatsConserved ==
    \A id \in 1..global_flush_counter :
        LET r == Remembered(id)
        IN  /\ r.file_count <= flushed[id].file_count
            /\ r.entry_count <= flushed[id].entry_count
            /\ r.data_bytes <= flushed[id].data_bytes

(***************************************************************************)
(* Split and merge move statistics between buckets without losing or       *)
(* inventing any: "all events preserved" (SplitBucket), "no data loss"     *)
(* (MergeWithAdjacentBucket).                                              *)
(***************************************************************************)
AdjustmentPreservesStats ==
    [][structure_epoch' # structure_epoch =>
          /\ \A id \in 1..global_flush_counter : Remembered(id)' = Remembered(id)
          /\ TotalWindow' = TotalWindow]_vars

(***************************************************************************)
(* GetAllBoundaries "Returns sorted list of boundary keys"                 *)
(* (db/column_family.h): each bucket ends after it starts, so that the     *)
(* boundaries ascend strictly.                                             *)
(***************************************************************************)
BoundariesSorted ==
    \A i \in DOMAIN buckets :
        buckets[i].min_key # Empty /\ buckets[i].max_key # Empty
            => KeyLT(buckets[i].min_key, buckets[i].max_key)

(***************************************************************************)
(* "All buckets track the same global flush IDs" (struct Bucket,           *)
(* db/column_family.h).                                                    *)
(***************************************************************************)
SameFlushIds ==
    \A i, k \in DOMAIN buckets :
        DOMAIN buckets[i].flush_events = DOMAIN buckets[k].flush_events

(***************************************************************************)
(* "adjust ONLY buckets that actually had files compacted"                 *)
(* (InstallCompactionResults): the bucket about to be split or merged      *)
(* holds the smallest key of one of the compaction's L0 inputs.            *)
(***************************************************************************)
AdjustsOnlyCompacted ==
    [][structure_epoch' # structure_epoch =>
          \E k \in adjusting.keys : InRange(k, buckets[NextIndex])]_vars

(***************************************************************************)
(* "SPLIT condition: receiving > 2x expected share", "MERGE condition:     *)
(* receiving < 0.25x expected share" (AdjustAfterCompaction).              *)
(***************************************************************************)
AdjustsAtDocumentedShares ==
    [][structure_epoch' # structure_epoch =>
          LET share == buckets[NextIndex].window.data_bytes * Len(buckets)
              total == TotalWindow.data_bytes
          IN  IF Len(buckets') > Len(buckets) THEN share > 2 * total
              ELSE 4 * share < total]_vars
=============================================================================
