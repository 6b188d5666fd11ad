----------------------------- MODULE L0RangeScan -----------------------------
(***************************************************************************)
(* L0RangeScanIterator (db/version_set.cc), the iterator over L0 that      *)
(* new_range_scan turns on: it opens the iterator of a file only when the  *)
(* scan is inside the file's range.  The iterator above it                 *)
(* (MergingIterator) seeks, and then calls Next or Prev while it is valid, *)
(* also one after the other.                                               *)
(*                                                                         *)
(* Internal keys are numbers; no two files hold the same one.              *)
(***************************************************************************)
EXTENDS Integers, FiniteSets, FiniteSetsExt, Functions

CONSTANTS
    Keys,       \* internal keys, numbers from 1 on
    Levels      \* the contents L0 may have: functions from files to sets of keys

ASSUME KeysAssumption == Keys \subseteq Nat \ {0}
ASSUME LevelsAssumption ==
    \A level \in Levels :
        /\ \A f \in DOMAIN level : level[f] # {} /\ level[f] \subseteq Keys
        /\ \A f, g \in DOMAIN level : f # g => level[f] \cap level[g] = {}

VARIABLES
    files,      \* l0_files_: the keys of each file
    pos,        \* active_iterators_: the key each opened file is at, or None
    current,    \* current_index_: the file it stands for, or None
    scan        \* how the scan began: "first", "last", "seek", "prev", or
                \* "turned" once its direction changed

vars == <<files, pos, current, scan>>

None == 0
Valid == current # None
key == pos[current]

-----------------------------------------------------------------------------
(* The iterator of one file, and the choice among the opened ones.          *)

\* Max and Min of an empty set are None: the iterator is not valid.
First(ks) == IF ks = {} THEN None ELSE Min(ks)
Last(ks) == IF ks = {} THEN None ELSE Max(ks)
AtOrPast(f, k) == First({x \in files[f] : x >= k})
AtOrBefore(f, k) == Last({x \in files[f] : x <= k})

ValidIn(p) == {f \in DOMAIN p : p[f] # None}
FindSmallest(p) ==
    IF ValidIn(p) = {} THEN None
    ELSE CHOOSE f \in ValidIn(p) : \A g \in ValidIn(p) : p[f] <= p[g]
FindLargest(p) ==
    IF ValidIn(p) = {} THEN None
    ELSE CHOOSE f \in ValidIn(p) : \A g \in ValidIn(p) : p[f] >= p[g]

\* mutant: the end of the range is outside
BelowEnd(k) == {f \in DOMAIN files : Min(files[f]) <= k /\ k < Max(files[f])}
\* AddOverlappingFiles: the files whose range holds a key
Around(k) == {f \in DOMAIN files : Min(files[f]) <= k /\ k <= Max(files[f])}

\* MaybeAddMoreFilesForward
WithFilesAround(p, k) ==
    [f \in DOMAIN p \cup Around(k) |-> IF f \in DOMAIN p THEN p[f] ELSE AtOrPast(f, k)]

Forward(p) == pos' = p /\ current' = FindSmallest(p) /\ UNCHANGED files
Backward(p) == pos' = p /\ current' = FindLargest(p) /\ UNCHANGED files

-----------------------------------------------------------------------------
Init ==
    /\ files \in Levels
    /\ pos = [f \in {} |-> None]
    /\ current = None
    /\ scan = "first"

SeekToFirst ==
    /\ Forward([f \in DOMAIN files |-> Min(files[f])])
    /\ scan' = "first"

SeekToLast ==
    /\ Backward([f \in DOMAIN files |-> Max(files[f])])
    /\ scan' = "last"

Seek(target) ==
    /\ Forward([f \in Around(target) |-> AtOrPast(f, target)])
    /\ scan' = "seek"

SeekForPrev(target) ==
    /\ Backward([f \in Around(target) |-> AtOrBefore(f, target)])
    /\ scan' = "prev"

\* mutant: any file that is not open comes next
AnyFileOpened(p, last_key) ==
    LET later == DOMAIN files \ DOMAIN p
        k == Min({Min(files[f]) : f \in later})
    IN  IF later = {} THEN p
        ELSE [f \in DOMAIN p \cup {g \in later : Min(files[g]) = k} |->
                 IF f \in DOMAIN p THEN p[f] ELSE k]

(***************************************************************************)
(* TryActivateNextFile: the file that starts next after the last key, and  *)
(* then the files whose range its first key is in.                         *)
(***************************************************************************)
NextFileOpened(p, last_key) ==
    LET later == {f \in DOMAIN files \ DOMAIN p : Min(files[f]) > last_key}
        k == Min({Min(files[f]) : f \in later})
    IN  IF later = {} THEN p
        ELSE WithFilesAround(
                 [f \in DOMAIN p \cup {g \in later : Min(files[g]) = k} |->
                     IF f \in DOMAIN p THEN p[f] ELSE k], k)

\* mutant: moves every file that is open
AllMoved(p) == [f \in DOMAIN p |-> First({x \in files[f] : x > p[f]})]
Moved(p) == [p EXCEPT ![current] = First({x \in files[current] : x > key})]
MovedBack(p) == [p EXCEPT ![current] = Last({x \in files[current] : x < key})]

Next ==
    /\ Valid
    /\ LET p == Moved(pos)
       IN  Forward(IF ValidIn(p) = {} THEN NextFileOpened(p, key)
                   ELSE WithFilesAround(p, p[FindSmallest(p)]))
    /\ scan' = IF scan \in {"first", "seek"} THEN scan ELSE "turned"

Prev ==
    /\ Valid
    /\ Backward(MovedBack(pos))
    /\ scan' = IF scan \in {"last", "prev"} THEN scan ELSE "turned"

Step ==
    \/ SeekToFirst
    \/ SeekToLast
    \/ \E target \in Keys : Seek(target) \/ SeekForPrev(target)
    \/ Next
    \/ Prev

Spec == Init /\ [][Step]_vars

-----------------------------------------------------------------------------
(* Properties.                                                              *)

AllKeys == UNION Range(files)
KeyOr0 == IF Valid THEN key ELSE None

\* An opened file is at one of its keys or at its end, and the current file
\* is one that is not at its end.
TypeOK ==
    /\ DOMAIN pos \subseteq DOMAIN files
    /\ \A f \in DOMAIN pos : pos[f] \in files[f] \cup {None}
    /\ current \in ValidIn(pos) \cup {None}
    /\ scan \in {"first", "last", "seek", "prev", "turned"}

(***************************************************************************)
(* A scan from either end, in one direction, meets every key of L0 in      *)
(* order: SeekToFirst and SeekToLast open all files.                       *)
(***************************************************************************)
FullScanExact ==
    [][/\ scan = "first" /\ Next =>
            KeyOr0' = First({k \in AllKeys : k > key})
       /\ scan = "last" /\ Prev =>
            KeyOr0' = Last({k \in AllKeys : k < key})]_vars

(***************************************************************************)
(* A scan that began with a seek moves on strictly, though files are       *)
(* opened along the way: no key is met twice or out of order.              *)
(***************************************************************************)
ScanMovesOn ==
    [][/\ scan = "seek" /\ Next => KeyOr0' > key \/ ~Valid'
       /\ scan = "prev" /\ Prev => KeyOr0' < key]_vars

(***************************************************************************)
(* A seek to a key that L0 holds stops at it: its file is opened, and the  *)
(* opened files are not ahead of it.                                       *)
(***************************************************************************)
SeekFindsKey ==
    [][\A target \in AllKeys : Seek(target) \/ SeekForPrev(target) => KeyOr0' = target]_vars

\* Seek stops at the first key at or past its target (internal_iterator.h).
SeekLands ==
    [][\A target \in Keys : Seek(target) => KeyOr0' = First({k \in AllKeys : k >= target})]_vars

\* After a seek, Next goes to the next key of L0: files are opened when the
\* scan reaches their range.
NextSkipsNothing ==
    [][scan = "seek" /\ Next => KeyOr0' = First({k \in AllKeys : k > key})]_vars

\* Prev goes to the previous key of L0, also after Next.
PrevAfterNext ==
    [][scan = "first" /\ Prev => KeyOr0' = Last({k \in AllKeys : k < key})]_vars
=============================================================================
