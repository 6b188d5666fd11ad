---------------------------- MODULE L0Compaction ----------------------------
(***************************************************************************)
(* Compactions out of L0 in bucket mode (use_new_flush = 1): how           *)
(* LevelCompactionBuilder picks their inputs                               *)
(* (db/compaction/compaction_picker_level.cc), several of them running at  *)
(* the same time, with flushes and compactions of L1 in between, and what  *)
(* their installation does to L0 and L1.                                   *)
(*                                                                         *)
(* A flush numbers the versions of the keys it writes; the number stands   *)
(* for their sequence numbers.  Sizes are left out: a decision of the code *)
(* that depends on them may go either way.                                 *)
(***************************************************************************)
EXTENDS Integers, FiniteSets, FiniteSetsExt

CONSTANTS
    Keys,                       \* user keys, integers
    Flushes,                    \* what a flush may write: sets of sets of keys
    enable_intra_l0_compaction, \* the option of that name
    l0_weight_compaction,       \* the option of that name
    Trigger,                    \* level0_file_num_compaction_trigger
    MaxCompactions,             \* background compactions at the same time
    MaxFlushes,                 \* bound on flushes
    MaxErrors                   \* bound on compactions that fail

ASSUME KeysAssumption ==
    Keys \subseteq Nat /\ \E last \in Keys : \A k \in Keys : k <= last
ASSUME FlushesAssumption ==
    \A fl \in Flushes : IsFiniteSet(fl) /\ \A s \in fl : s # {} /\ s \subseteq Keys
ASSUME OptionsAssumption ==
    {enable_intra_l0_compaction, l0_weight_compaction} \subseteq BOOLEAN
ASSUME CompactionBoundsAssumption ==
    {Trigger, MaxCompactions, MaxFlushes, MaxErrors} \subseteq Nat

VARIABLES
    l0, l1,             \* the files of L0 and of L1
    l2,                 \* the version of each key in the levels below
    being_compacted,    \* the files of L0 and of L1 with that flag
    running,            \* compactions_in_progress_
    l0_count,           \* l0_delay_trigger_count_ of the current version
    newest,             \* the last version written of each key
    next_epoch, flushes, errors

vars == <<l0, l1, l2, being_compacted, running, l0_count, newest, next_epoch,
          flushes, errors>>

-----------------------------------------------------------------------------
(* Files, and the order of internal keys: by user key, the newest first.    *)

IKeyLess(a, b) == a.key < b.key \/ (a.key = b.key /\ a.seq > b.seq)
Smallest(f) == LET k == Min(DOMAIN f.versions) IN [key |-> k, seq |-> f.versions[k]]
Largest(f) == LET k == Max(DOMAIN f.versions) IN [key |-> k, seq |-> f.versions[k]]

UserBefore(f, g) == Largest(f).key < Smallest(g).key
InternalBefore(f, g) == IKeyLess(Largest(f), Smallest(g))
ByUserKey(files) == {p \in files \X files : UserBefore(p[1], p[2])}
ByInternalKey(files) == {p \in files \X files : InternalBefore(p[1], p[2])}

RangeStart(files) == Min({Smallest(f).key : f \in files})
RangeEnd(files) == Max({Largest(f).key : f \in files})

\* GetOverlappingInputs of a level: the files that meet a range of user keys.
Overlapping(level, start, end) ==
    {f \in level : Smallest(f).key <= end /\ start <= Largest(f).key}

\* mutant: a merge keeps the oldest version
MergedOldest(files) ==
    [k \in UNION {DOMAIN f.versions : f \in files} |->
        Min({f.versions[k] : f \in {g \in files : k \in DOMAIN g.versions}})]
\* A merge keeps the newest version of every key.
Merged(files) ==
    [k \in UNION {DOMAIN f.versions : f \in files} |->
        Max({f.versions[k] : f \in {g \in files : k \in DOMAIN g.versions}})]

File(epoch, versions) == [epoch |-> epoch, versions |-> versions]
MinInputFileEpochNumber(files) == Min({f.epoch : f \in files})

(***************************************************************************)
(* The classes of the union-find: the overlap of ranges is closed under    *)
(* transitivity, so two files are in one class unless the files can be cut *)
(* in two parts between them, one before the other in the given order.     *)
(***************************************************************************)
Groups(files, before) ==
    LET Cut(f, g) == \E left \in SUBSET files :
            f \in left /\ g \notin left
            /\ left \X (files \ left) \subseteq before
    IN  {{g \in files : ~Cut(f, g) /\ ~Cut(g, f)} : f \in files}

\* The most files that overlap at one key.
MaxDepth(files) ==
    Max({0} \cup {Cardinality(Overlapping(files, k, k)) : k \in Keys})

\* mutant: at one key, files end before others start
CountInside(files, compacting) ==
    Max({0} \cup {Cardinality({f \in files \ compacting :
                                 Smallest(f).key <= k /\ k < Largest(f).key}) : k \in Keys})
CalculateMaxOverlappingGroupSize(files, compacting) == MaxDepth(files \ compacting)

-----------------------------------------------------------------------------
Init ==
    /\ l0 = {} /\ l1 = {}
    /\ l2 = [k \in Keys |-> 0]
    /\ being_compacted = [level \in 0..1 |-> {}]
    /\ running = {}
    /\ l0_count = 0
    /\ newest = [k \in Keys |-> 0]
    /\ next_epoch = 1
    /\ flushes = 0
    /\ errors = 0

(***************************************************************************)
(* A flush installs one file for each bucket it wrote to.  Its epoch       *)
(* numbers are larger than those of earlier flushes (module BucketFlush    *)
(* shows when they are not).                                               *)
(***************************************************************************)
Flush ==
    /\ flushes < MaxFlushes
    /\ flushes' = flushes + 1
    /\ \E fl \in Flushes : \E number \in Injection(fl, 0..(Cardinality(fl) - 1)) :
        /\ \A s, t \in fl : Min(s) < Min(t) => number[s] < number[t]
        /\ l0' = l0 \cup {File(next_epoch + number[s], [k \in s |-> flushes']) : s \in fl}
        /\ newest' = [k \in Keys |-> IF k \in UNION fl THEN flushes' ELSE newest[k]]
        /\ next_epoch' = next_epoch + Cardinality(fl)
    /\ l0_count' = CalculateMaxOverlappingGroupSize(l0', being_compacted[0])
    /\ UNCHANGED <<l1, l2, being_compacted, running, errors>>

-----------------------------------------------------------------------------
(* PickFileToCompact for L0, its alternatives in the order of the code.     *)

(***************************************************************************)
(* TryPickL0TrivialMove: from the oldest file on, as long as each file is  *)
(* on one side of the files before it and nothing of L1 is in the way.     *)
(***************************************************************************)
TrivialMoveFiles ==
    LET UpTo(f) == {g \in l0 : g.epoch <= f.epoch}
        Aside(f) ==
            \/ \A g \in UpTo(f) \ {f} : InternalBefore(f, g)
            \/ \A g \in UpTo(f) \ {f} : InternalBefore(g, f)
        Free(f) == Overlapping(l1, RangeStart(UpTo(f)), RangeEnd(UpTo(f))) = {}
    IN  IF l1 = {} THEN {} ELSE {f \in l0 : \A g \in UpTo(f) : Aside(g) /\ Free(g)}

ActiveL0 == l0 \ being_compacted[0]

\* PickSizeBasedIntraL0Compaction: the groups that it may take when L1 is
\* large enough.
IntraL0Groups ==
    IF enable_intra_l0_compaction
       /\ l1 # {}
       /\ Cardinality(l0) >= Max({2, Trigger})
    THEN {g \in Groups(ActiveL0, ByInternalKey(ActiveL0)) :
             Cardinality(g) >= Max({2, Trigger})}
    ELSE {}

\* mutant: groups are formed by internal keys
GroupsByInternalKey == Groups(ActiveL0, ByInternalKey(ActiveL0))
\* An overlapping group of files that no compaction has.
PickableGroups ==
    LET groups == Groups(ActiveL0, ByUserKey(ActiveL0))
    IN  IF l0_weight_compaction THEN groups
        ELSE {g \in groups : \A h \in groups : Cardinality(h) <= Cardinality(g)}

Compaction(level0, level1, output, move) ==
    [inputs |-> [level \in 0..1 |-> IF level = 0 THEN level0 ELSE level1],
     output |-> output, move |-> move]
InputsOf(c) == c.inputs[0] \cup c.inputs[1]

\* mutant: the files that running compactions take from L1 are looked at only
NoL1RangeOverlap(files, level) ==
    \A c \in running : \A f \in c.inputs[1] :
        c.output = level => RangeEnd(files) < Smallest(f).key \/ Largest(f).key < RangeStart(files)
\* FilesRangeOverlapWithCompaction, negated
NoRangeOverlap(files, level) ==
    \A c \in running :
        c.output = level =>
            \/ RangeEnd(files) < RangeStart(InputsOf(c))
            \/ RangeEnd(InputsOf(c)) < RangeStart(files)

\* ExpandInputsToCleanCut: L1 files that share a user key stay together.
CleanCut(files) ==
    {f \in l1 : ~\E left \in SUBSET l1 :
        /\ \A a \in left, b \in l1 \ left : UserBefore(a, b)
        /\ \/ f \in left /\ files \subseteq l1 \ left
           \/ f \notin left /\ files \subseteq left}

\* SetupOtherInputs: what L1 adds to a group.
OtherInputs(group) ==
    LET files == Overlapping(l1, RangeStart(group), RangeEnd(group))
    IN  IF files = {} THEN {} ELSE CleanCut(files)

\* IsTrivialMove of a group: one file, or an L0 that is known not to overlap
MayMove(group) ==
    \/ Cardinality(group) = 1
    \/ \A f, g \in l0 : f # g => InternalBefore(f, g) \/ InternalBefore(g, f)

\* RegisterCompaction and MarkFilesBeingCompacted
Register(c) ==
    /\ running' = running \cup {c}
    /\ being_compacted' = [level \in 0..1 |->
                              being_compacted[level] \cup c.inputs[level]]
    /\ UNCHANGED <<l0, l1, l2, l0_count, newest, next_epoch, flushes, errors>>

L0NeedsCompaction ==
    /\ l0_count >= Trigger
    /\ Cardinality(running) < MaxCompactions

PickTrivialMove ==
    /\ L0NeedsCompaction
    /\ TrivialMoveFiles # {}
    /\ NoRangeOverlap(TrivialMoveFiles, 1)
    /\ Register(Compaction(TrivialMoveFiles, {}, 1, TRUE))

PickIntraL0 ==
    /\ L0NeedsCompaction
    /\ TrivialMoveFiles = {}
    /\ \E g \in IntraL0Groups : Register(Compaction(g, {}, 0, FALSE))

\* mutant: takes files of L1 that a compaction already has
PickL0GroupAnyway ==
    /\ L0NeedsCompaction
    /\ TrivialMoveFiles = {}
    /\ \E g \in PickableGroups :
        /\ NoRangeOverlap(g \cup OtherInputs(g), 1)
        /\ Register(Compaction(g, OtherInputs(g), 1, FALSE))
PickL0Group ==
    /\ L0NeedsCompaction
    /\ TrivialMoveFiles = {}
    /\ \E g \in PickableGroups :
        LET other == OtherInputs(g)
        IN  /\ other \cap being_compacted[1] = {}
            /\ NoRangeOverlap(g \cup other, 1)
            /\ Register(Compaction(g, other, 1, other = {} /\ MayMove(g)))

(***************************************************************************)
(* A compaction of L1 into L2: neighbouring files, none of them in a       *)
(* compaction.                                                             *)
(***************************************************************************)
PickL1 ==
    /\ Cardinality(running) < MaxCompactions
    /\ \E files \in (SUBSET (l1 \ being_compacted[1])) \ {{}} :
        /\ files = CleanCut(files)
        /\ NoRangeOverlap(files, 2)
        /\ Register(Compaction({}, files, 2, FALSE))

-----------------------------------------------------------------------------
(* The end of a compaction.                                                 *)

\* LogAndApply refuses an edit that deletes a file that is not there.
InPlace(c) == c.inputs[0] \subseteq l0 /\ c.inputs[1] \subseteq l1

Release(c) ==
    /\ running' = running \ {c}
    /\ being_compacted' = [level \in 0..1 |->
                              being_compacted[level] \ c.inputs[level]]

\* What a compaction into L1 may write: it may cut its output anywhere.
L1Outputs(c) ==
    LET versions == Merged(InputsOf(c))
        Piece(ks) == File(MinInputFileEpochNumber(InputsOf(c)), [k \in ks |-> versions[k]])
        Pieces(cut) == {{k \in DOMAIN versions : k < cut}, {k \in DOMAIN versions : k >= cut}} \ {{}}
    IN  {{Piece(ks) : ks \in Pieces(cut)} : cut \in DOMAIN versions}

IntraL0Output(c) == File(MinInputFileEpochNumber(c.inputs[0]), Merged(c.inputs[0]))

\* InstallCompactionResults, and for a trivial move BackgroundCompaction
Install(c) ==
    /\ InPlace(c)
    /\ \/ /\ c.output = 0
          /\ l0' = (l0 \ c.inputs[0]) \cup {IntraL0Output(c)}
          /\ UNCHANGED <<l1, l2>>
       \/ /\ c.output = 1
          /\ l0' = l0 \ c.inputs[0]
          /\ \E outputs \in L1Outputs(c) \cup {c.inputs[0] : m \in {c.move} \cap {TRUE}} :
                l1' = (l1 \ c.inputs[1]) \cup outputs
          /\ UNCHANGED l2
       \/ /\ c.output = 2
          /\ l1' = l1 \ c.inputs[1]
          /\ l2' = [k \in Keys |->
                       LET m == Merged(c.inputs[1])
                       IN  IF k \in DOMAIN m THEN Max({m[k], l2[k]}) ELSE l2[k]]
          /\ UNCHANGED l0
    /\ Release(c)
    /\ l0_count' = CalculateMaxOverlappingGroupSize(l0', being_compacted'[0])
    /\ UNCHANGED <<newest, next_epoch, flushes, errors>>

(***************************************************************************)
(* A failed compaction releases its inputs.  The score is computed again,  *)
(* from the count of the current version.                                  *)
(***************************************************************************)
CompactionFails(c) ==
    /\ IF InPlace(c)
       THEN errors < MaxErrors /\ errors' = errors + 1
       ELSE UNCHANGED errors
    /\ Release(c)
    /\ UNCHANGED <<l0, l1, l2, l0_count, newest, next_epoch, flushes>>

PickL0 == PickTrivialMove \/ PickIntraL0 \/ PickL0Group
Next ==
    \/ Flush
    \/ PickL0
    \/ PickL1
    \/ \E c \in running : Install(c) \/ CompactionFails(c)

Spec == Init /\ [][Next]_vars

(***************************************************************************)
(* Compactions end, and a column family whose L0 score is high is picked   *)
(* from (MaybeScheduleFlushOrCompaction).                                  *)
(***************************************************************************)
Fairness ==
    /\ WF_vars(PickL0)
    /\ WF_vars(\E c \in running : Install(c) \/ CompactionFails(c))
FairSpec == Spec /\ Fairness

-----------------------------------------------------------------------------
(* Properties.                                                              *)

Files == [epoch : Nat, versions : UNION {[S -> 1..MaxFlushes] : S \in (SUBSET Keys) \ {{}}}]

\* Files have a range, only files in place or in a compaction are flagged,
\* and the counters stay within their bounds.
TypeOK ==
    /\ l0 \cup l1 \subseteq Files
    /\ \A k \in Keys : {l2[k], newest[k]} \subseteq 0..MaxFlushes
    /\ \A level \in 0..1 :
        being_compacted[level] \subseteq UNION {c.inputs[level] : c \in running}
    /\ Cardinality(running) <= MaxCompactions
    /\ l0_count \in 0..Cardinality(l0)
    /\ flushes <= MaxFlushes /\ errors <= MaxErrors

\* What Get finds: L0 by epoch number, the newest first, then L1, then below.
Get(k) ==
    LET in0 == {f \in l0 : k \in DOMAIN f.versions}
        in1 == {f \in l1 : k \in DOMAIN f.versions}
    IN  IF in0 # {} THEN (CHOOSE f \in in0 : \A g \in in0 : g.epoch <= f.epoch).versions[k]
        ELSE IF in1 # {} THEN Max({f.versions[k] : f \in in1})
        ELSE l2[k]

(***************************************************************************)
(* A read finds the last version written of every key, whatever            *)
(* compactions run and in whichever order they are installed.              *)
(***************************************************************************)
ReadsNewest == \A k \in Keys : Get(k) = newest[k]

(***************************************************************************)
(* No file is an input of two running compactions: PickFileToCompact looks *)
(* at files without being_compacted only.                                  *)
(***************************************************************************)
NoSharedInputs ==
    \A c, d \in running : c # d =>
        \A level \in 0..1 : c.inputs[level] \cap d.inputs[level] = {}

(***************************************************************************)
(* The files of L1 are in order, without overlaps, though compactions into *)
(* L1 and out of it run at the same time.                                  *)
(***************************************************************************)
L1Sorted == \A f, g \in l1 : f # g => InternalBefore(f, g) \/ InternalBefore(g, f)

\* The newest version of every key is in some file or level: no compaction
\* drops it.
NothingLost ==
    \A k \in Keys :
        newest[k] \in {l2[k]} \cup {f.versions[k] : f \in {g \in l0 \cup l1 : k \in DOMAIN g.versions}}

(***************************************************************************)
(* l0_delay_trigger_count_ is the number of files a read may have to look  *)
(* at: the comment of CalculateMaxOverlappingGroupSize.                    *)
(***************************************************************************)
CountIsReadDepth == l0_count >= MaxDepth(l0)

(***************************************************************************)
(* A point of the key space under Trigger files does not stay so: the      *)
(* files are compacted, also those that were skipped because they were in  *)
(* conflict with a running compaction.  As long as no compaction fails     *)
(* (BackgroundCompaction): a failed one gives its files back, and the      *)
(* score still leaves them out.                                            *)
(***************************************************************************)
DeepL0Compacted == (MaxDepth(l0) >= Trigger) ~> (MaxDepth(l0) < Trigger)
=============================================================================
