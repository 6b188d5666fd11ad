------------------------- MODULE CompactionOutputs -------------------------
(***************************************************************************)
(* How a leveled compaction writes its output files                        *)
(* (db/compaction/compaction_outputs.cc): each subcompaction takes the     *)
(* sorted stream of its CompactionIterator key by key, decides before      *)
(* every key whether to close the current file, and puts into every closed *)
(* file the range tombstones that reach it, with the boundaries they need. *)
(*                                                                         *)
(* An internal key is a user key with a sequence number, newer first.  A   *)
(* sequence number of kMaxSequenceNumber marks the range tombstone         *)
(* sentinel, the exclusive end of a range.  The inputs are the puts and    *)
(* the range deletions of the files compacted, those that overlap from     *)
(* files of their own; every entry of an output file counts EntryBytes.    *)
(* Output levels above 0 only: a compaction within level 0 writes one file *)
(* and never asks where to cut.  Subcompactions share nothing, so they are *)
(* taken one after the other.                                              *)
(***************************************************************************)
EXTENDS Integers, Sequences, FiniteSets, FiniteSetsExt, SequencesExt

CONSTANTS
    Workloads,             \* sets of inputs, each with the settings they are compacted under
    kMaxSequenceNumber,
    EntryBytes,            \* what one entry adds to the size of a file
    TargetOutputFileSize,
    MaxCompactionBytes,
    None

ASSUME SizesAssumption ==
    /\ {kMaxSequenceNumber, EntryBytes, TargetOutputFileSize} \subseteq Nat \ {0}
    /\ MaxCompactionBytes \in Nat

VARIABLES
    c,          \* the compaction, fixed when it starts
    sub,        \* the subcompaction that runs
    c_iter,     \* the keys its CompactionIterator has still to return
    files,      \* the files finished so far, those of earlier subcompactions included
    before,     \* how many of them earlier subcompactions wrote
    builder,    \* the file being written, or None
    o,          \* the other members of CompactionOutputs
    asserts     \* no assertion of the code has failed

vars == <<c, sub, c_iter, files, before, builder, o, asserts>>

-----------------------------------------------------------------------------
(* Internal keys. *)

Key(user, seq) == [user |-> user, seq |-> seq]

Sentinel(user) == Key(user, kMaxSequenceNumber)

Less(a, b) == a.user < b.user \/ (a.user = b.user /\ a.seq > b.seq)

Leq(a, b) == a = b \/ Less(a, b)

KeyMin(a, b) == IF Leq(a, b) THEN a ELSE b

KeyMax(a, b) == IF Leq(a, b) THEN b ELSE a

IsSentinel(k) == k.seq = kMaxSequenceNumber

\* User keys compare first; at one user key only the sentinel is told apart.
sstableKeyCompare(a, b) ==
    IF a.user # b.user THEN a.user - b.user
    ELSE IF IsSentinel(a) THEN IF IsSentinel(b) THEN 0 ELSE -1
    ELSE IF IsSentinel(b) THEN 1 ELSE 0

-----------------------------------------------------------------------------
(* The compaction: its inputs, the files below, what it may drop. *)

Covers(t, user) == t.start <= user /\ user < t.end

EarliestSnapshot == Min(c.snapshots \cup {kMaxSequenceNumber})

\* The earliest snapshot that sees an entry written at seq.
Stripe(seq) == Min({s \in c.snapshots \cup {kMaxSequenceNumber} : s >= seq})

SmallestInput(w) ==
    LET keys == w.points \cup {Key(t.start, t.seq) : t \in w.tombstones}
    IN  CHOOSE k \in keys : \A p \in keys : Leq(k, p)

LargestInput(w) ==
    LET keys == w.points \cup {Sentinel(t.end) : t \in w.tombstones}
    IN  CHOOSE k \in keys : \A p \in keys : Leq(p, k)

GetGrandparents(w, next_level) ==
    SelectSeq(next_level,
              LAMBDA f : /\ sstableKeyCompare(f.largest, SmallestInput(w)) >= 0
                         /\ sstableKeyCompare(f.smallest, LargestInput(w)) <= 0)

IsBottommostLevel(w, next_level) ==
    \A i \in DOMAIN next_level :
        \/ next_level[i].largest.user < SmallestInput(w).user
        \/ next_level[i].smallest.user > LargestInput(w).user

\* Old and large files of the output level; none for a bottommost compaction.
FillFilesToCutForTtl(old_files, bottommost) == IF bottommost THEN <<>> ELSE old_files

\* The round-robin cursor of the output level, when it is inside the inputs.
OutputSplitKey(w, cursor) ==
    IF /\ cursor # None
       /\ cursor.user > SmallestInput(w).user
       /\ cursor.user <= LargestInput(w).user
    THEN cursor ELSE None

\* The compaction of the writes w under the settings s.
Compaction(w, s) ==
    LET bottommost == IsBottommostLevel(w, s.next_level)
    IN  [points |-> w.points, tombstones |-> w.tombstones,
         snapshots |-> s.snapshots,
         next_level |-> s.next_level,
         grandparents |-> GetGrandparents(w, s.next_level),
         bottommost_level |-> bottommost,
         files_to_cut_for_ttl |-> FillFilesToCutForTtl(w.old_files, bottommost),
         bucket_snapshot |-> s.buckets,
         boundaries |-> s.boundaries,
         output_split_key |-> OutputSplitKey(w, s.cursor),
         partitioned |-> s.partitioned]

max_output_file_size ==
    IF c.bottommost_level \/ c.grandparents = <<>> THEN TargetOutputFileSize
                                              ELSE 2 * TargetOutputFileSize

-----------------------------------------------------------------------------
(* The stream of a subcompaction: the entries some snapshot or the newest  *)
(* reader still needs, and the start keys of the range tombstones.         *)

SubStart(s) == IF s = 1 THEN None ELSE c.boundaries[s - 1]

SubEnd(s) == IF s > Len(c.boundaries) THEN None ELSE c.boundaries[s]

\* The cursor, when it is also inside the subcompaction.
SetOutputSlitKey ==
    IF /\ c.output_split_key # None
       /\ SubEnd(sub) # None => c.output_split_key.user < SubEnd(sub)
       /\ SubStart(sub) # None => c.output_split_key.user > SubStart(sub)
    THEN c.output_split_key ELSE None

InSubcompaction(s, user) ==
    /\ SubStart(s) # None => user >= SubStart(s)
    /\ SubEnd(s) # None => user < SubEnd(s)

\* ShouldDelete: a range tombstone of the same stripe is newer.
ShouldDelete(p) ==
    \E t \in c.tombstones : /\ Covers(t, p.user)
                            /\ t.seq > p.seq
                            /\ Stripe(t.seq) = Stripe(p.seq)

\* A newer entry of the same user key is in the same stripe.
HiddenByNewer(p) ==
    \E q \in c.points : /\ q.user = p.user
                        /\ q.seq > p.seq
                        /\ Stripe(q.seq) = Stripe(p.seq)

\* The sequence number an entry is written with.
OutputSeq(p) ==
    IF c.bottommost_level /\ p.seq <= EarliestSnapshot THEN 0 ELSE p.seq

CompactionIterator(s) ==
    LET entries == {p \in c.points : /\ InSubcompaction(s, p.user)
                                     /\ ~HiddenByNewer(p)
                                     /\ ~ShouldDelete(p)}
        starts == {t \in c.tombstones : InSubcompaction(s, t.start)}
        items == {[key |-> p, del |-> FALSE] : p \in entries}
                     \cup {[key |-> Key(t.start, t.seq), del |-> TRUE] : t \in starts}
    IN  [i \in 1..Cardinality(items) |->
            LET item == CHOOSE a \in items :
                            Cardinality({b \in items : Less(b.key, a.key)}) = i - 1
            IN  [key |-> IF item.del THEN item.key
                                     ELSE Key(item.key.user, OutputSeq(item.key)),
                 del |-> item.del, written |-> item.key.seq]]

-----------------------------------------------------------------------------
(* Where to cut. *)

HasBuilder == builder # None

\* Position 2i-2 is the gap before grandparent i, 2i-1 is inside it.
InGap(p) == p % 2 = 0

AtGrandparent(p) == (p + 1) \div 2

\* One turn of the loop moves past boundary p of the grandparents.
CrossesBoundary(key, p) ==
    IF InGap(p)
    THEN sstableKeyCompare(key, c.grandparents[AtGrandparent(p + 1)].smallest) >= 0
    ELSE LET i == AtGrandparent(p)
             cmp == sstableKeyCompare(key, c.grandparents[i].largest)
         IN  \/ cmp > 0
             \/ /\ cmp = 0
                /\ i < Len(c.grandparents)
                /\ sstableKeyCompare(key, c.grandparents[i + 1].smallest) >= 0

\* The files that hold the key, when the index points to the last of them.
GetCurrentKeyGrandparentOverlappedBytes(key, p) ==
    LET i == AtGrandparent(p)
        shared == {j \in 1..i : \A m \in j..(i - 1) :
                                    sstableKeyCompare(key, c.grandparents[m].largest) = 0}
    IN  IF InGap(p) THEN 0
        ELSE MapThenSumSet(LAMBDA j : c.grandparents[j].bytes, shared)

UpdateGrandparentBoundaryInfo(key) ==
    LET last == 2 * Len(c.grandparents)
        to == Max({p \in o.gp..last : \A q \in o.gp..(p - 1) : CrossesBoundary(key, q)})
        entered == {AtGrandparent(q + 1) : q \in {r \in o.gp..(to - 1) : InGap(r)}}
    IN  IF c.grandparents = <<>> THEN [o |-> o, crossed |-> 0]
        ELSE IF o.seen_key
        THEN [o |-> [o EXCEPT !.gp = to,
                              !.switched = @ + (to - o.gp),
                              !.overlapped =
                                  @ + MapThenSumSet(LAMBDA j : c.grandparents[j].bytes, entered)],
              crossed |-> to - o.gp]
        ELSE [o |-> [o EXCEPT !.gp = to,
                              !.seen_key = TRUE,
                              !.overlapped = GetCurrentKeyGrandparentOverlappedBytes(key, to)],
              crossed |-> 0]

\* mutant: the end of an old file asks for no cut
CutsOnEntryOnly(key) ==
    LET n == Len(c.files_to_cut_for_ttl)
        next == Min({i \in o.ttl_next..(n + 1) : i <= n => Leq(key, c.files_to_cut_for_ttl[i].largest)})
        found == next <= n /\ Leq(c.files_to_cut_for_ttl[next].smallest, key)
    IN  IF o.ttl_cur # 0
        THEN IF Less(c.files_to_cut_for_ttl[o.ttl_cur].largest, key)
             THEN [cur |-> 0, next |-> o.ttl_cur + 1, stop |-> FALSE]
             ELSE [cur |-> o.ttl_cur, next |-> o.ttl_next, stop |-> FALSE]
        ELSE [cur |-> IF found THEN next ELSE 0, next |-> next, stop |-> found]

\* The file of the output level whose age asks for a cut, 0 for none.
UpdateFilesToCutForTTLStates(key) ==
    LET n == Len(c.files_to_cut_for_ttl)
        next == Min({i \in o.ttl_next..(n + 1) : i <= n => Leq(key, c.files_to_cut_for_ttl[i].largest)})
        found == next <= n /\ Leq(c.files_to_cut_for_ttl[next].smallest, key)
    IN  IF o.ttl_cur # 0
        THEN IF Less(c.files_to_cut_for_ttl[o.ttl_cur].largest, key)
             THEN [cur |-> 0, next |-> o.ttl_cur + 1, stop |-> TRUE]
             ELSE [cur |-> o.ttl_cur, next |-> o.ttl_next, stop |-> FALSE]
        ELSE [cur |-> IF found THEN next ELSE 0, next |-> next, stop |-> found]

MaxSplitSize == (TargetOutputFileSize * 110) \div 100

\* The bucket of a user key in the snapshot taken when the compaction started.
FindBucketInSnapshot(user) == Cardinality({b \in c.bucket_snapshot : b <= user})

\* mutant: the overlap is not looked at
IgnoresOverlap(key, g) ==
    /\ g.crossed > 0
    /\ o.size >= ((TargetOutputFileSize + 99) \div 100) * (50 + Min({g.o.switched * 5, 40}))

\* At a grandparent boundary: too much overlap, a file worth skipping, or
\* large enough for a cut that costs little.
CutsAtGrandparent(key, g) ==
    /\ g.crossed > 0
    /\ \/ g.o.overlapped + o.size > MaxCompactionBytes
       \/ /\ g.crossed >= (IF InGap(g.o.gp) THEN 2 ELSE 3)
          /\ g.o.overlapped - o.overlapped > TargetOutputFileSize \div 8
       \/ o.size >= ((TargetOutputFileSize + 99) \div 100)
                        * (50 + Min({g.o.switched * 5, 40}))

\* mutant: the bound on the size is turned around
TrackBucketWhenLarge(key, asks) ==
    LET tracks == asks /\ c.bucket_snapshot # None /\ o.size >= MaxSplitSize
        bucket == IF tracks THEN FindBucketInSnapshot(key.user) ELSE o.bucket
    IN  [bucket |-> bucket, leaves |-> tracks /\ o.bucket # None /\ bucket # o.bucket]

\* The bucket recorded at the key, when the size of the file lets it ask, and
\* whether the key leaves the recorded one.
TrackBucket(key, asks) ==
    LET tracks == asks /\ c.bucket_snapshot # None /\ o.size <= MaxSplitSize
        bucket == IF tracks THEN FindBucketInSnapshot(key.user) ELSE o.bucket
    IN  [bucket |-> bucket, leaves |-> tracks /\ o.bucket # None /\ bucket # o.bucket]

\* mutant: the cursor itself is not cut at
PassesCursorStrictly(key) ==
    /\ SetOutputSlitKey # None
    /\ ~o.is_split
    /\ Less(SetOutputSlitKey, key)

\* The first key at or after the cursor.
PassesCursor(key) ==
    /\ SetOutputSlitKey # None
    /\ ~o.is_split
    /\ Leq(SetOutputSlitKey, key)

\* required: what the user's partitioner answers.
ShouldStopBefore(key, required) ==
    LET g == UpdateGrandparentBoundaryInfo(key)
        ttl == UpdateFilesToCutForTTLStates(key)
        asks == HasBuilder /\ ~ttl.stop /\ ~required
        b == TrackBucket(key, asks)
        full == o.size >= max_output_file_size
        cursor == asks /\ ~b.leaves /\ ~full /\ PassesCursor(key)
    IN  [o |-> [g.o EXCEPT !.ttl_cur = ttl.cur, !.ttl_next = ttl.next,
                           !.bucket = b.bucket, !.is_split = @ \/ cursor],
         stop |-> /\ HasBuilder
                  /\ \/ ttl.stop \/ required \/ b.leaves \/ full \/ cursor
                     \/ CutsAtGrandparent(key, g)]

-----------------------------------------------------------------------------
(* The range tombstones of a finished file. *)

\* The internal keys [lower, upper] whose tombstones belong to the file; None
\* is unbounded.  A subcompaction boundary belongs to both of its sides.
LowerBound(f, ob) ==
    IF Len(files) = before
    THEN IF SubStart(sub) = None THEN None ELSE Sentinel(SubStart(sub))
    ELSE IF ob.range_tombstone_lower_bound # None THEN ob.range_tombstone_lower_bound
                                                  ELSE f.smallest

UpperBound(f, next_table_min_key) ==
    IF next_table_min_key = None
    THEN IF SubEnd(sub) = None THEN None ELSE Sentinel(SubEnd(sub))
    ELSE IF f.largest # None /\ f.largest.user = next_table_min_key.user
         THEN f.largest
         ELSE Sentinel(next_table_min_key.user)

\* NewIterator: the tombstones that reach the bounds, split at each other's
\* ends, the newest of every stripe.
Fragments(lower, upper) ==
    LET within == {t \in c.tombstones : /\ lower # None => Less(lower, Sentinel(t.end))
                                        /\ upper # None => Leq(Sentinel(t.start), upper)}
        cuts == {t.start : t \in within} \cup {t.end : t \in within}
        covering(a) == {t \in within : Covers(t, a)}
    IN  UNION {{[start |-> a, end |-> Min({b \in cuts : b > a}), seq |-> t.seq] :
                    t \in {u \in covering(a) :
                               ~\E w \in covering(a) : /\ w.seq > u.seq
                                                       /\ Stripe(w.seq) = Stripe(u.seq)}} :
               a \in cuts}

\* Where a fragment begins and ends inside the bounds.
ClippedStart(fr, lower) ==
    IF lower = None THEN Key(fr.start, fr.seq)
    ELSE KeyMax(lower, Key(Max({fr.start, lower.user}), fr.seq))

\* mutant: the end of a fragment is not cut to the file
UnclippedEnd(fr, upper) == Sentinel(fr.end)

ClippedEnd(fr, upper) ==
    IF upper = None THEN Sentinel(fr.end) ELSE KeyMin(Sentinel(fr.end), upper)

\* mutant: the loop does not stop at the upper bound
NeverStartsAfter(fr, lower, upper) == FALSE

\* The loop's break: the fragment, moved to the lower bound's user key, starts
\* after the upper bound.
StartsAfter(fr, lower, upper) ==
    /\ upper # None
    /\ Less(upper, Key(IF lower = None THEN fr.start ELSE Max({fr.start, lower.user}), fr.seq))

\* mutant: a file that ends with the first key of the range is passed
LevelPtrPastEqual(ptr, begin) ==
    Max({ptr, Cardinality({i \in DOMAIN c.next_level : c.next_level[i].largest.user <= begin})})

\* The first file of the next level that level_ptrs_ leaves for a range from begin.
LevelPtr(ptr, begin) ==
    Max({ptr, Cardinality({i \in DOMAIN c.next_level : c.next_level[i].largest.user < begin})})

KeyRangeNotExistsBeyondOutputLevel(begin, end, ptr) ==
    LET i == LevelPtr(ptr, begin) + 1
    IN  i <= Len(c.next_level) => end <= c.next_level[i].smallest.user

AddRangeDels(f, ob, next_table_min_key) ==
    LET lower == LowerBound(f, ob)
        upper == UpperBound(f, next_table_min_key)
        inverted == lower # None /\ upper # None /\ Less(upper, lower)
        reached == {fr \in Fragments(lower, upper) :
                       /\ ~inverted
                       /\ lower # None => Less(lower, Sentinel(fr.end))
                       /\ ~(fr.seq <= EarliestSnapshot /\ c.bottommost_level)
                       /\ ~StartsAfter(fr, lower, upper)}
        start(fr) == ClippedStart(fr, lower)
        end(fr) == ClippedEnd(fr, upper)
        asked == {fr \in reached : fr.seq <= EarliestSnapshot}
        added == {fr \in reached :
                     fr \in asked => ~KeyRangeNotExistsBeyondOutputLevel(
                                          start(fr).user, end(fr).user, ob.level_ptr)}
        smallest == CHOOSE k \in {start(fr) : fr \in added} \cup ({f.smallest} \ {None}) :
                        /\ f.smallest # None => Leq(k, f.smallest)
                        /\ \A fr \in added : Leq(k, start(fr))
        largest == CHOOSE k \in {end(fr) : fr \in added} \cup ({f.largest} \ {None}) :
                        /\ f.largest # None => Leq(f.largest, k)
                        /\ \A fr \in added : Leq(end(fr), k)
        bounds_ok ==
            /\ Len(files) > before =>
                   IF ob.range_tombstone_lower_bound # None
                   THEN f.smallest = None \/ Less(ob.range_tombstone_lower_bound, f.smallest)
                   ELSE f.smallest # None
            /\ next_table_min_key # None =>
                   /\ ~IsSentinel(next_table_min_key)
                   /\ f.largest = None \/ Less(f.largest, next_table_min_key)
                   /\ lower = None \/ Leq(lower, next_table_min_key)
            /\ inverted => f.smallest = None /\ lower.user = upper.user
            /\ SubEnd(sub) # None /\ upper # None => upper.user <= SubEnd(sub)
        added_ok == /\ \A fr \in asked : start(fr).user < end(fr).user
                    /\ \A fr \in added : Leq(start(fr), end(fr))
                    /\ added # {} => Leq(smallest, largest)
    IN  [f |-> IF added = {} THEN f
               ELSE [f EXCEPT !.tombstones = added, !.smallest = smallest, !.largest = largest],
         level_ptr |-> Max({ob.level_ptr} \cup
                               {LevelPtr(ob.level_ptr, start(fr).user) : fr \in asked}),
         asserts |-> bounds_ok /\ added_ok]

\* A file without entries and without tombstones is not kept.
FinishCompactionOutputFile(f, ob, next_table_min_key) ==
    LET added == IF c.tombstones = {}
                 THEN [f |-> f, asserts |-> TRUE, level_ptr |-> ob.level_ptr]
                 ELSE AddRangeDels(f, ob, next_table_min_key)
    IN  [files |-> IF added.f.points = <<>> /\ added.f.tombstones = {}
                   THEN files ELSE Append(files, added.f),
         o |-> [ob EXCEPT !.size = 0, !.level_ptr = added.level_ptr],
         asserts |-> added.asserts]

-----------------------------------------------------------------------------
(* The steps of a compaction. *)

NewFile == [keys |-> <<>>, points |-> <<>>, tombstones |-> {},
            smallest |-> None, largest |-> None]

NewOutputs ==
    [size |-> 0, range_tombstone_lower_bound |-> None,
     gp |-> 0, seen_key |-> FALSE, switched |-> 0, overlapped |-> 0,
     bucket |-> None, ttl_cur |-> 0, ttl_next |-> 1, level_ptr |-> 0, is_split |-> FALSE]

Init ==
    /\ \E load \in Workloads : \E w \in load.writes, s \in load.settings : c = Compaction(w, s)
    /\ sub = 1
    /\ c_iter = CompactionIterator(1)
    /\ files = <<>>
    /\ before = 0
    /\ builder = None
    /\ o = NewOutputs
    /\ asserts = TRUE

Running == sub <= Len(c.boundaries) + 1

\* The assertions on the grandparent the index points to.
IndexAsserts(key, p) ==
    InGap(p) \/ LET i == AtGrandparent(p)
               IN  /\ ~CrossesBoundary(key, p)
                   /\ sstableKeyCompare(key, c.grandparents[i].smallest) >= 0

\* Start keys of range tombstones are not considered at the bottommost level.
IgnoreRangeDelSentinel ==
    /\ c_iter # <<>>
    /\ Head(c_iter).del
    /\ c.bottommost_level
    /\ c_iter' = Tail(c_iter)
    /\ UNCHANGED <<c, sub, files, before, builder, o, asserts>>

\* What a key adds to the open file: a tombstone's start key adds nothing.
WithKey(f, item) ==
    [f EXCEPT !.keys = Append(@, item.key),
              !.points = IF item.del THEN @ ELSE Append(@, item),
              !.smallest = IF item.del \/ @ # None THEN @ ELSE item.key,
              !.largest = IF item.del THEN @ ELSE item.key]

AddToOutput ==
    /\ c_iter # <<>>
    /\ LET item == Head(c_iter)
           key == item.key
       IN  /\ ~(item.del /\ c.bottommost_level)
           /\ \E required \in IF c.partitioned THEN BOOLEAN ELSE {FALSE} :
              \E should \in {ShouldStopBefore(key, required)} :
              \E fin \in {IF should.stop THEN FinishCompactionOutputFile(builder, should.o, key)
                                       ELSE [files |-> files, o |-> should.o, asserts |-> TRUE]} :
                  LET f == WithKey(IF should.stop \/ ~HasBuilder THEN NewFile ELSE builder, item)
                      ob == IF ~should.stop THEN fin.o
                            ELSE [fin.o EXCEPT
                                     !.switched = 0,
                                     !.overlapped = GetCurrentKeyGrandparentOverlappedBytes(key, should.o.gp),
                                     !.range_tombstone_lower_bound = IF item.del THEN key ELSE None]
                  IN  /\ files' = fin.files
                      /\ builder' = f
                      /\ o' = [ob EXCEPT !.size = EntryBytes * Len(f.points)]
                      /\ asserts' = (asserts /\ IndexAsserts(key, should.o.gp) /\ fin.asserts)
    /\ c_iter' = Tail(c_iter)
    /\ UNCHANGED <<c, sub, before>>

\* The end of a subcompaction.  Range deletions alone still get a file.
CloseOutput ==
    /\ Running
    /\ c_iter = <<>>
    /\ LET opens == ~HasBuilder /\ Len(files) = before /\ c.tombstones # {}
       IN  \E fin \in {IF opens \/ HasBuilder
                       THEN FinishCompactionOutputFile(IF opens THEN NewFile ELSE builder, o, None)
                       ELSE [files |-> files, o |-> o, asserts |-> TRUE]} :
               /\ files' = fin.files
               /\ before' = Len(fin.files)
               /\ asserts' = (asserts /\ fin.asserts)
    /\ builder' = None
    /\ o' = NewOutputs
    /\ sub' = sub + 1
    /\ c_iter' = IF sub <= Len(c.boundaries) THEN CompactionIterator(sub + 1) ELSE <<>>
    /\ UNCHANGED c

Next == IgnoreRangeDelSentinel \/ AddToOutput \/ CloseOutput

Spec == Init /\ [][Next]_vars

-----------------------------------------------------------------------------
(* Properties. *)

InternalKeys == [user : Nat, seq : 0..kMaxSequenceNumber]

FileType(f) ==
    /\ DOMAIN f = {"keys", "points", "tombstones", "smallest", "largest"}
    /\ \A i \in DOMAIN f.keys : f.keys[i] \in InternalKeys
    /\ \A i \in DOMAIN f.points : f.points[i].key \in InternalKeys
    /\ f.tombstones \subseteq [start : Nat, end : Nat, seq : 1..kMaxSequenceNumber]
    /\ {f.smallest, f.largest} \subseteq InternalKeys \cup {None}

\* The state has the shape of the members of CompactionOutputs.
TypeOK ==
    /\ sub \in 1..(Len(c.boundaries) + 2)
    /\ \A i \in DOMAIN c_iter : c_iter[i].key \in InternalKeys
    /\ \A i \in DOMAIN files : FileType(files[i])
    /\ before \in 0..Len(files)
    /\ HasBuilder => FileType(builder)
    /\ o.size \in Nat /\ o.switched \in Nat /\ o.overlapped \in Nat
    /\ o.range_tombstone_lower_bound \in InternalKeys \cup {None}
    /\ o.gp \in 0..(2 * Len(c.grandparents))
    /\ o.bucket \in Nat \cup {None}
    /\ o.ttl_cur \in 0..Len(c.files_to_cut_for_ttl)
    /\ o.ttl_next \in 1..(Len(c.files_to_cut_for_ttl) + 1)
    /\ o.level_ptr \in 0..Len(c.next_level)
    /\ {o.seen_key, o.is_split, asserts} \subseteq BOOLEAN

\* The files of a level may not overlap: every file of the compaction, across
\* its subcompactions, ends before the next one begins and bounds its entries,
\* whatever range tombstones stretched it (AddRangeDels).
FilesOrdered ==
    /\ \A i \in 1..(Len(files) - 1) : Less(files[i].largest, files[i + 1].smallest)
    /\ \A i \in DOMAIN files :
          /\ Leq(files[i].smallest, files[i].largest)
          /\ \A j \in DOMAIN files[i].points :
                /\ Leq(files[i].smallest, files[i].points[j].key)
                /\ Leq(files[i].points[j].key, files[i].largest)

\* What the levels below may hold under a user key.
BelowMayHold(user) ==
    \E i \in DOMAIN c.next_level :
        /\ c.next_level[i].smallest.user <= user
        /\ sstableKeyCompare(Key(user, 0), c.next_level[i].largest) <= 0

\* The newest entry a reader at view sees, given the entries and what covers
\* them; an entry of the levels below is written at 0.
Newest(entries) ==
    IF entries = {} THEN None
    ELSE (CHOOSE e \in entries : \A d \in entries : e.seq > d.seq \/ e = d).written

Below(user) == IF BelowMayHold(user) THEN {[seq |-> 0, written |-> 0]} ELSE {}

ReadBefore(user, view) ==
    Newest({e \in {[seq |-> p.seq, written |-> p.seq] :
                       p \in {q \in c.points : q.user = user}} \cup Below(user) :
               /\ e.seq <= view
               /\ ~\E t \in c.tombstones : /\ Covers(t, user)
                                           /\ e.seq < t.seq /\ t.seq <= view})

\* A reader truncates the tombstones of a file to the file's boundaries.
CoveredInFile(f, user, e, view) ==
    /\ \E t \in f.tombstones : Covers(t, user) /\ e.seq < t.seq /\ t.seq <= view
    /\ Leq(f.smallest, Key(user, e.seq))
    /\ IF IsSentinel(f.largest) \/ f.largest.seq = 0
       THEN Less(Key(user, e.seq), f.largest)
       ELSE Leq(Key(user, e.seq), f.largest)

ReadAfter(user, view) ==
    Newest({e \in UNION {{[seq |-> f.points[j].key.seq, written |-> f.points[j].written] :
                              j \in {m \in DOMAIN f.points : f.points[m].key.user = user}} :
                         f \in ToSet(files)} \cup Below(user) :
               /\ e.seq <= view
               /\ ~\E f \in ToSet(files) : CoveredInFile(f, user, e, view)})

\* Once a compaction is written, the newest reader and every snapshot read
\* under every user key what they read from its inputs: no cut between two
\* files or two subcompactions loses an entry or the reach of a range
\* tombstone over this level or the levels below, and none is dropped too early.
ReadsPreserved ==
    ~Running =>
        \A view \in c.snapshots \cup {kMaxSequenceNumber} :
            \A user \in SmallestInput(c).user..LargestInput(c).user :
                ReadAfter(user, view) = ReadBefore(user, view)

\* The bytes of the grandparents that reach the keys from one to another.
OverlappedBytes(from, to) ==
    MapThenSumSet(LAMBDA j : c.grandparents[j].bytes,
        {j \in DOMAIN c.grandparents :
            /\ sstableKeyCompare(c.grandparents[j].smallest, to) <= 0
            /\ sstableKeyCompare(c.grandparents[j].largest, from) >= 0})

\* Every file with a key, the one being written included.
FilesWithKeys == {f \in ToSet(files) \cup ({builder} \ {None}) : f.keys # <<>>}

\* The keys of a file overlap more than max_compaction_bytes of the
\* grandparents only when its first key alone does ("to prevent future bigger
\* than max_compaction_bytes compaction from the current output level").
OverlapBounded ==
    \A f \in FilesWithKeys :
        LET bytes == OverlappedBytes(Head(f.keys), Last(f.keys))
        IN  bytes > MaxCompactionBytes => bytes = OverlappedBytes(Head(f.keys), Head(f.keys))

\* Within a file of an L0 to L1 compaction, past its first key, which may
\* have opened it before its bucket was recorded, the bucket changes only where
\* the file is already larger than 110% of the target.
BucketsCut ==
    c.bucket_snapshot # None =>
        \A f \in FilesWithKeys :
            \A i \in 2..(Len(f.keys) - 1) :
                FindBucketInSnapshot(f.keys[i].user) # FindBucketInSnapshot(f.keys[i + 1].user)
                    => EntryBytes * Cardinality({j \in DOMAIN f.points :
                                       Less(f.points[j].key, f.keys[i + 1])}) > MaxSplitSize

\* No file holds keys of two files that TTL wants apart.
TtlFilesApart ==
    \A f \in FilesWithKeys :
        Cardinality({i \in DOMAIN c.files_to_cut_for_ttl :
            \E j \in DOMAIN f.keys :
                /\ Leq(c.files_to_cut_for_ttl[i].smallest, f.keys[j])
                /\ Leq(f.keys[j], c.files_to_cut_for_ttl[i].largest)}) <= 1

\* Whichever rule cuts first, no file of a subcompaction that has the
\* round-robin cursor inside holds keys on both sides of it.
CursorSplits ==
    HasBuilder /\ SetOutputSlitKey # None =>
        (Less(Head(builder.keys), SetOutputSlitKey) <=> Less(Last(builder.keys), SetOutputSlitKey))

\* No assertion of compaction_outputs.cc, version_edit.h or compaction.cc on
\* the bounds of a file, the tombstones added to it, the range asked of the
\* levels below or the grandparent index fails.
AssertsHold == asserts
=============================================================================
