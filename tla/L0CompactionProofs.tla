------------------------- MODULE L0CompactionProofs -------------------------
(***************************************************************************)
(* Proofs about L0Compaction for every set of keys, files and flushes and  *)
(* any number of compactions at a time.  L1 stays in order and the newest  *)
(* version of a key stays in the tree, with compactions inside L0 or       *)
(* without.  Without them compactions share no file, and reads find what   *)
(* was written last.                                                       *)
(*                                                                         *)
(* The inductive invariant Inv has a part for L1, which compactions inside *)
(* L0 cannot disturb, and one for L0, which they can: see the end of the   *)
(* next section.                                                           *)
(***************************************************************************)
EXTENDS L0Compaction, NaturalLemmas

(***************************************************************************)
(* The option that turns compactions inside L0 on is not set.  With it     *)
(* NoSharedInputs and ReadsNewest are false: TryPickL0TrivialMove takes    *)
(* files that are being compacted, and merging inside L0 reorders files.   *)
(***************************************************************************)
NoIntraL0 == enable_intra_l0_compaction = FALSE

-----------------------------------------------------------------------------
(* The inductive invariant.                                                 *)

\* User ranges that have no key in common.
Outside(f, files) ==
    Largest(f).key < RangeStart(files) \/ RangeEnd(files) < Smallest(f).key
RangesApart(files, others) ==
    RangeEnd(files) < RangeStart(others) \/ RangeEnd(others) < RangeStart(files)
UserApart(f, g) == UserBefore(f, g) \/ UserBefore(g, f)
InOrder(files) == \A f, g \in files : f # g => InternalBefore(f, g) \/ InternalBefore(g, f)

Versions == 0..MaxFlushes

StateTypes ==
    /\ l0 \subseteq Files /\ l1 \subseteq Files /\ IsFiniteSet(l0)
    /\ l2 \in [Keys -> Versions] /\ newest \in [Keys -> Versions]
    /\ flushes \in Versions
    /\ next_epoch \in Nat
    /\ \A k \in Keys : newest[k] <= flushes

\* Epoch numbers tell the files of L0 apart.
Epochs ==
    /\ \A f \in l0 : f.epoch < next_epoch
    /\ \A f, g \in l0 : f.epoch = g.epoch => f = g

\* A compaction in progress, with its inputs of L1 in place.
CompactionOK(c) ==
    /\ c.inputs[0] \subseteq Files /\ c.inputs[1] \subseteq l1
    /\ InputsOf(c) # {}
    /\ c.output \in 0..2
    /\ c.output = 0 => c.inputs[1] = {}
    /\ c.output = 2 => c.inputs[0] = {}
    /\ c.move \in BOOLEAN
    /\ c.move => c.inputs[1] = {} /\ InOrder(c.inputs[0])

\* The flags of L1 are those of the compactions, which share none of its files.
InProgress ==
    /\ \A c \in running : CompactionOK(c)
    /\ being_compacted[1] = UNION {c.inputs[1] : c \in running}
    /\ \A c, d \in running : c # d => c.inputs[1] \cap d.inputs[1] = {}

\* Compactions into L1 work on disjoint ranges ...
DisjointRanges ==
    \A c, d \in running :
        c # d /\ c.output = 1 /\ d.output = 1 => RangesApart(InputsOf(c), InputsOf(d))

\* ... and no other file of L1 is in the range of one; one out of L1 has all
\* files of L1 with a user key of its inputs.
L1ClearOf(c) ==
    \A f \in l1 \ c.inputs[1] :
        /\ c.output = 1 => Outside(f, InputsOf(c))
        /\ c.output = 2 => \A g \in c.inputs[1] : UserApart(f, g)
L1Clear == \A c \in running : L1ClearOf(c)

NoneNewer ==
    /\ \A f \in l0 \cup l1 : \A k \in DOMAIN f.versions : f.versions[k] <= newest[k]
    /\ \A k \in Keys : l2[k] <= newest[k]

\* What holds with compactions inside L0 as well ...
L1Inv ==
    /\ StateTypes
    /\ Epochs
    /\ InProgress
    /\ DisjointRanges
    /\ L1Clear
    /\ L1Sorted
    /\ NoneNewer
    /\ NothingLost

\* ... and what only holds without them: the same for the inputs from L0,
L0InProgress ==
    /\ \A c \in running : c.output # 0 /\ c.inputs[0] \subseteq l0
    /\ being_compacted[0] = UNION {c.inputs[0] : c \in running}
    /\ \A c, d \in running : c # d => c.inputs[0] \cap d.inputs[0] = {}

\* in L0 the versions follow the epoch numbers,
EpochsFollowed ==
    \A f, g \in l0 : f.epoch <= g.epoch =>
        \A k \in DOMAIN f.versions \cap DOMAIN g.versions : f.versions[k] <= g.versions[k]

\* what stays in L0 is newer than the inputs of a compaction,
TakesOldestOf(c) ==
    \A g \in c.inputs[0], f \in l0 \ c.inputs[0] :
        \A k \in DOMAIN f.versions \cap DOMAIN g.versions : g.versions[k] <= f.versions[k]
TakesOldest == \A c \in running : TakesOldestOf(c)

\* and versions get older from level to level.
LevelsOrdered ==
    /\ \A f \in l0, g \in l1 :
        \A k \in DOMAIN f.versions \cap DOMAIN g.versions : g.versions[k] <= f.versions[k]
    /\ \A f \in l0 \cup l1 : \A k \in DOMAIN f.versions : l2[k] <= f.versions[k]

L0Inv ==
    /\ L0InProgress
    /\ EpochsFollowed
    /\ TakesOldest
    /\ LevelsOrdered

Inv == L1Inv /\ (NoIntraL0 => L0Inv)

-----------------------------------------------------------------------------
(* Files and their ranges.                                                  *)

(***************************************************************************)
(* A file has a key; its keys and versions are naturals.                   *)
(***************************************************************************)
LEMMA FileShape ==
    ASSUME NEW f \in Files
    PROVE  /\ f.epoch \in Nat
           /\ DOMAIN f.versions \in SUBSET Keys /\ DOMAIN f.versions # {}
           /\ \A k \in DOMAIN f.versions : k \in Nat /\ f.versions[k] \in 1..MaxFlushes
<1>1. f.epoch \in Nat /\ \E S \in (SUBSET Keys) \ {{}} : f.versions \in [S -> 1..MaxFlushes]
  BY DEF Files
<1>2. PICK S \in (SUBSET Keys) \ {{}} : f.versions \in [S -> 1..MaxFlushes]  BY <1>1
<1>. QED  BY <1>1, <1>2, KeysAssumption

(***************************************************************************)
(* The converse: what File makes is a file.                                *)
(***************************************************************************)
LEMMA FileMade ==
    ASSUME NEW e \in Nat, NEW S \in SUBSET Keys, S # {}, NEW v \in [S -> 1..MaxFlushes]
    PROVE  /\ File(e, v) \in Files
           /\ File(e, v).epoch = e /\ File(e, v).versions = v
BY DEF File, Files

(***************************************************************************)
(* Sets of keys have a first and a last one.                               *)
(***************************************************************************)
LEMMA KeyBounds ==
    ASSUME NEW T \in SUBSET Keys, T # {}
    PROVE  /\ Min(T) \in T /\ Max(T) \in T
           /\ \A k \in T : Min(T) <= k /\ k <= Max(T)
<1>1. PICK last \in Keys : \A k \in Keys : k <= last  BY KeysAssumption
<1>2. T \in SUBSET Nat /\ last \in Nat /\ \A k \in T : k <= last  BY <1>1, KeysAssumption
<1>. QED  BY <1>2, MinProperties, MaxProperties

(***************************************************************************)
(* What the type invariant says of the levels and the numbers.             *)
(***************************************************************************)
LEMMA LevelTypes ==
    ASSUME L1Inv
    PROVE  /\ l0 \subseteq Files /\ l1 \subseteq Files /\ IsFiniteSet(l0)
           /\ l2 \in [Keys -> Versions] /\ newest \in [Keys -> Versions]
           /\ flushes \in Nat /\ next_epoch \in Nat /\ MaxFlushes \in Nat
           /\ \A k \in Keys : newest[k] \in Nat /\ l2[k] \in Nat /\ newest[k] <= flushes
           /\ \A v \in Versions : v \in Nat
<1>1. StateTypes  BY DEF L1Inv
<1>2. MaxFlushes \in Nat /\ \A v \in Versions : v \in Nat
  BY CompactionBoundsAssumption DEF Versions
<1>3. /\ l2 \in [Keys -> Versions] /\ newest \in [Keys -> Versions] /\ flushes \in Versions
      /\ \A k \in Keys : newest[k] <= flushes
  BY <1>1 DEF StateTypes
<1>4. \A k \in Keys : newest[k] \in Nat /\ l2[k] \in Nat  BY <1>2, <1>3
<1>. QED  BY <1>1, <1>2, <1>3, <1>4 DEF StateTypes

(***************************************************************************)
(* Sets of versions have a newest one.                                     *)
(***************************************************************************)
LEMMA VersionBound ==
    ASSUME NEW T \in SUBSET Versions, T # {}
    PROVE  Max(T) \in T /\ \A v \in T : v <= Max(T)
<1>1. T \in SUBSET Nat /\ MaxFlushes \in Nat /\ \A v \in T : v <= MaxFlushes
  BY CompactionBoundsAssumption DEF Versions
<1>. QED  BY <1>1, MaxProperties

(***************************************************************************)
(* All keys of a file are between its smallest and its largest one.        *)
(***************************************************************************)
LEMMA FileRange ==
    ASSUME NEW f \in Files
    PROVE  /\ Smallest(f).key \in DOMAIN f.versions /\ Largest(f).key \in DOMAIN f.versions
           /\ Smallest(f).key \in Keys /\ Largest(f).key \in Keys
           /\ Smallest(f).key \in Nat /\ Largest(f).key \in Nat
           /\ Smallest(f).key <= Largest(f).key
           /\ \A k \in DOMAIN f.versions :
                k \in Nat /\ Smallest(f).key <= k /\ k <= Largest(f).key
<1>1. DOMAIN f.versions \in SUBSET Keys /\ DOMAIN f.versions # {}  BY FileShape
<1>2. Smallest(f).key = Min(DOMAIN f.versions) /\ Largest(f).key = Max(DOMAIN f.versions)
  BY DEF Smallest, Largest
<1>. QED  BY <1>1, <1>2, KeyBounds, KeysAssumption

(***************************************************************************)
(* GetRange of several files covers each of them, and no more.             *)
(***************************************************************************)
LEMMA RangeBounds ==
    ASSUME NEW S \in SUBSET Files, S # {}
    PROVE  /\ RangeStart(S) \in Nat /\ RangeEnd(S) \in Nat
           /\ \A f \in S : RangeStart(S) <= Smallest(f).key /\ Largest(f).key <= RangeEnd(S)
           /\ \E f \in S : Smallest(f).key = RangeStart(S)
           /\ \E f \in S : Largest(f).key = RangeEnd(S)
<1>. DEFINE A == {Smallest(f).key : f \in S}
            B == {Largest(f).key : f \in S}
<1>1. A \in SUBSET Keys /\ A # {} /\ B \in SUBSET Keys /\ B # {}  BY FileRange
<1>2. RangeStart(S) = Min(A) /\ RangeEnd(S) = Max(B)  BY DEF RangeStart, RangeEnd
<1>3. /\ Min(A) \in A /\ \A k \in A : Min(A) <= k
      /\ Max(B) \in B /\ \A k \in B : k <= Max(B)
  <2>. HIDE DEF A, B
  <2>. QED  BY <1>1, KeyBounds
<1>. QED  BY <1>1, <1>2, <1>3, KeysAssumption

(***************************************************************************)
(* Files with disjoint user ranges share no key.                           *)
(***************************************************************************)
LEMMA ApartNoKey ==
    ASSUME NEW f \in Files, NEW g \in Files, UserApart(f, g)
    PROVE  DOMAIN f.versions \cap DOMAIN g.versions = {} /\ f # g
BY FileRange DEF UserApart, UserBefore

(***************************************************************************)
(* Sets of files with disjoint ranges share neither a key nor a file.      *)
(***************************************************************************)
LEMMA RangesApartNoKey ==
    ASSUME NEW A \in SUBSET Files, NEW B \in SUBSET Files, A # {}, B # {}, RangesApart(A, B)
    PROVE  \A f \in A, g \in B : UserApart(f, g)
<1>. SUFFICES ASSUME NEW f \in A, NEW g \in B PROVE UserApart(f, g)  OBVIOUS
<1>1. /\ RangeStart(A) \in Nat /\ RangeEnd(A) \in Nat /\ RangeStart(B) \in Nat /\ RangeEnd(B) \in Nat
      /\ RangeStart(A) <= Smallest(f).key /\ Largest(f).key <= RangeEnd(A)
      /\ RangeStart(B) <= Smallest(g).key /\ Largest(g).key <= RangeEnd(B)
  BY RangeBounds
<1>2. /\ Smallest(f).key \in Nat /\ Largest(f).key \in Nat
      /\ Smallest(g).key \in Nat /\ Largest(g).key \in Nat
  BY FileRange
<1>. QED  BY <1>1, <1>2 DEF RangesApart, UserApart, UserBefore
-----------------------------------------------------------------------------
(* Merges and the outputs of compactions.                                   *)

(***************************************************************************)
(* A merge has the keys of its inputs, each with the newest version of     *)
(* them.                                                                   *)
(***************************************************************************)
LEMMA MergeKeepsNewest ==
    ASSUME NEW S \in SUBSET Files
    PROVE  /\ DOMAIN Merged(S) = UNION {DOMAIN f.versions : f \in S}
           /\ \A k \in DOMAIN Merged(S) :
                /\ \E f \in S : k \in DOMAIN f.versions /\ Merged(S)[k] = f.versions[k]
                /\ \A f \in S : k \in DOMAIN f.versions => f.versions[k] <= Merged(S)[k]
<1>1. DOMAIN Merged(S) = UNION {DOMAIN f.versions : f \in S}  BY DEF Merged
<1>. SUFFICES ASSUME NEW k \in DOMAIN Merged(S)
              PROVE  /\ \E f \in S : k \in DOMAIN f.versions /\ Merged(S)[k] = f.versions[k]
                     /\ \A f \in S : k \in DOMAIN f.versions => f.versions[k] <= Merged(S)[k]
  BY <1>1
<1>. DEFINE V == {f.versions[k] : f \in {g \in S : k \in DOMAIN g.versions}}
<1>2. Merged(S)[k] = Max(V)  BY <1>1 DEF Merged
<1>3. V # {}  BY <1>1
<1>4. V \in SUBSET Versions
  <2>1. \A f \in S : k \in DOMAIN f.versions => f.versions[k] \in 1..MaxFlushes  BY FileShape
  <2>. QED  BY <2>1 DEF Versions
<1>5. Max(V) \in V /\ \A v \in V : v <= Max(V)
  <2>. HIDE DEF V
  <2>. QED  BY <1>3, <1>4, VersionBound
<1>. QED  BY <1>2, <1>5

(***************************************************************************)
(* What the outputs of a compaction have in common with its inputs, where  *)
(* they are moved as they are and where they are merged.                   *)
(***************************************************************************)
OutputsOf(outputs, S) ==
    /\ outputs \subseteq Files
    /\ InOrder(outputs)
    /\ \A o \in outputs :
        RangeStart(S) <= Smallest(o).key /\ Largest(o).key <= RangeEnd(S)
    /\ \A o \in outputs : \A k \in DOMAIN o.versions :
        \E f \in S : k \in DOMAIN f.versions /\ o.versions[k] = f.versions[k]
    /\ \A f \in S : \A k \in DOMAIN f.versions :
        \E o \in outputs : k \in DOMAIN o.versions /\ f.versions[k] <= o.versions[k]

(***************************************************************************)
(* Files of which all keys and versions come from S are in the range of S. *)
(***************************************************************************)
LEMMA OutputInRange ==
    ASSUME NEW S \in SUBSET Files, S # {}, NEW o \in Files,
           \A k \in DOMAIN o.versions : \E f \in S : k \in DOMAIN f.versions
    PROVE  RangeStart(S) <= Smallest(o).key /\ Largest(o).key <= RangeEnd(S)
<1>1. Smallest(o).key \in DOMAIN o.versions /\ Largest(o).key \in DOMAIN o.versions
  BY FileRange
<1>2. PICK f \in S : Smallest(o).key \in DOMAIN f.versions  BY <1>1
<1>3. PICK g \in S : Largest(o).key \in DOMAIN g.versions  BY <1>1
<1>4. RangeStart(S) \in Nat /\ RangeEnd(S) \in Nat
      /\ RangeStart(S) <= Smallest(f).key /\ Largest(g).key <= RangeEnd(S)
  BY RangeBounds
<1>5. /\ Smallest(f).key \in Nat /\ Smallest(o).key \in Nat /\ Smallest(f).key <= Smallest(o).key
      /\ Largest(g).key \in Nat /\ Largest(o).key \in Nat /\ Largest(o).key <= Largest(g).key
  BY <1>2, <1>3, FileRange
<1>. QED  BY <1>4, <1>5

(***************************************************************************)
(* Inputs that are moved.                                                  *)
(***************************************************************************)
LEMMA MovedOutputs ==
    ASSUME NEW S \in SUBSET Files, S # {}, InOrder(S)
    PROVE  OutputsOf(S, S)
<1>1. \A o \in S : RangeStart(S) <= Smallest(o).key /\ Largest(o).key <= RangeEnd(S)
  BY RangeBounds
<1>2. \A o \in S : \A k \in DOMAIN o.versions : o.versions[k] <= o.versions[k]
  BY FileShape
<1>. QED  BY <1>1, <1>2 DEF OutputsOf

(***************************************************************************)
(* Inputs that are merged: the pieces of the output.                       *)
(***************************************************************************)
LEMMA MergedOutputs ==
    ASSUME NEW c, InputsOf(c) \in SUBSET Files, InputsOf(c) # {}, NEW outputs \in L1Outputs(c)
    PROVE  OutputsOf(outputs, InputsOf(c))
<1>. DEFINE S == InputsOf(c)
            versions == Merged(S)
            epoch == MinInputFileEpochNumber(S)
            Piece(ks) == File(epoch, [k \in ks |-> versions[k]])
            Low(cut) == {k \in DOMAIN versions : k < cut}
            High(cut) == {k \in DOMAIN versions : k >= cut}
            Pieces(cut) == {Low(cut), High(cut)} \ {{}}
<1>1. PICK cut \in DOMAIN versions : outputs = {Piece(ks) : ks \in Pieces(cut)}
  BY DEF L1Outputs
<1>2. /\ DOMAIN versions = UNION {DOMAIN f.versions : f \in S}
      /\ \A k \in DOMAIN versions :
           /\ \E f \in S : k \in DOMAIN f.versions /\ versions[k] = f.versions[k]
           /\ \A f \in S : k \in DOMAIN f.versions => f.versions[k] <= versions[k]
  BY MergeKeepsNewest
<1>3. epoch \in Nat
  <2>. DEFINE E == {f.epoch : f \in S}
  <2>1. E \in SUBSET Nat /\ E # {}  BY FileShape
  <2>2. Min(E) \in E
    <3>. HIDE DEF E
    <3>. QED  BY <2>1, MinProperties
  <2>. QED  BY <2>1, <2>2 DEF MinInputFileEpochNumber
<1>4. \A k \in DOMAIN versions : k \in Keys /\ k \in Nat /\ versions[k] \in 1..MaxFlushes
  BY <1>2, FileShape
<1>5. \A ks \in Pieces(cut) :
        /\ Piece(ks) \in Files
        /\ DOMAIN Piece(ks).versions = ks
        /\ ks \in SUBSET DOMAIN versions
        /\ \A k \in ks : Piece(ks).versions[k] = versions[k]
  <2>. SUFFICES ASSUME NEW ks \in Pieces(cut)
                PROVE  /\ Piece(ks) \in Files
                       /\ DOMAIN Piece(ks).versions = ks
                       /\ ks \in SUBSET DOMAIN versions
                       /\ \A k \in ks : Piece(ks).versions[k] = versions[k]
    OBVIOUS
  <2>. DEFINE v == [k \in ks |-> versions[k]]
  <2>1. ks \in SUBSET DOMAIN versions /\ ks # {}  OBVIOUS
  <2>2. ks \in SUBSET Keys  BY <2>1, <1>4
  <2>3. v \in [ks -> 1..MaxFlushes]  BY <2>1, <1>4
  <2>4. File(epoch, v) \in Files /\ File(epoch, v).versions = v
    <3>. HIDE DEF v, Pieces, epoch
    <3>. QED  BY <2>1, <2>2, <2>3, <1>3, FileMade
  <2>. QED  BY <2>1, <2>4
<1>6. cut \in Nat /\ High(cut) \in Pieces(cut)  BY <1>4
<1>7. outputs \subseteq Files  BY <1>1, <1>5
<1>8. \A o \in outputs : \A k \in DOMAIN o.versions :
        \E f \in S : k \in DOMAIN f.versions /\ o.versions[k] = f.versions[k]
  <2>. SUFFICES ASSUME NEW o \in outputs, NEW k \in DOMAIN o.versions
                PROVE  \E f \in S : k \in DOMAIN f.versions /\ o.versions[k] = f.versions[k]
    OBVIOUS
  <2>1. PICK ks \in Pieces(cut) : o = Piece(ks)  BY <1>1
  <2>2. k \in DOMAIN versions /\ o.versions[k] = versions[k]  BY <2>1, <1>5
  <2>. QED  BY <2>2, <1>2
<1>9. \A f \in S : \A k \in DOMAIN f.versions :
        \E o \in outputs : k \in DOMAIN o.versions /\ f.versions[k] <= o.versions[k]
  <2>. SUFFICES ASSUME NEW f \in S, NEW k \in DOMAIN f.versions
                PROVE  \E o \in outputs : k \in DOMAIN o.versions /\ f.versions[k] <= o.versions[k]
    OBVIOUS
  <2>1. k \in DOMAIN versions /\ f.versions[k] <= versions[k]  BY <1>2
  <2>2. \E ks \in Pieces(cut) : k \in ks
    <3>1. k \in Nat  BY <2>1, <1>4
    <3>2. CASE k < cut  BY <3>2, <2>1
    <3>3. CASE k >= cut  BY <3>3, <2>1
    <3>. QED  BY <3>1, <3>2, <3>3, <1>6
  <2>3. PICK ks \in Pieces(cut) : k \in ks  BY <2>2
  <2>4. Piece(ks) \in outputs  BY <1>1
  <2>. QED  BY <2>1, <2>3, <2>4, <1>5
<1>10. \A o \in outputs : RangeStart(S) <= Smallest(o).key /\ Largest(o).key <= RangeEnd(S)
  <2>. HIDE DEF S
  <2>. QED  BY <1>7, <1>8, OutputInRange DEF S
<1>11. InOrder(outputs)
  <2>1. \A ks \in Pieces(cut) : ks = Low(cut) \/ ks = High(cut)  OBVIOUS
  <2>2. ASSUME NEW f \in outputs, NEW g \in outputs, DOMAIN f.versions = Low(cut),
               DOMAIN g.versions = High(cut)
        PROVE  InternalBefore(f, g)
    <3>1. f \in Files /\ g \in Files  BY <1>7
    <3>2. Largest(f).key \in Low(cut) /\ Smallest(g).key \in High(cut)
      BY <2>2, <3>1, FileRange
    <3>3. Largest(f).key < Smallest(g).key  BY <3>2, <1>4, <1>6
    <3>. QED  BY <3>3 DEF InternalBefore, IKeyLess
  <2>3. ASSUME NEW f \in outputs, NEW g \in outputs, f # g
        PROVE  InternalBefore(f, g) \/ InternalBefore(g, f)
    <3>1. PICK ks \in Pieces(cut) : f = Piece(ks)  BY <1>1
    <3>2. PICK ls \in Pieces(cut) : g = Piece(ls)  BY <1>1
    <3>3. DOMAIN f.versions = ks /\ DOMAIN g.versions = ls  BY <3>1, <3>2, <1>5
    <3>4. ks # ls  BY <3>1, <3>2, <2>3
    <3>. QED  BY <3>3, <3>4, <2>1, <2>2
  <2>. QED  BY <2>3 DEF InOrder
<1>. QED  BY <1>7, <1>8, <1>9, <1>10, <1>11 DEF OutputsOf
(***************************************************************************)
(* Inputs that are merged into one file of L0, with the smallest of their  *)
(* epoch numbers.                                                          *)
(***************************************************************************)
LEMMA IntraL0Outputs ==
    ASSUME NEW c, c.inputs[0] \in SUBSET Files, c.inputs[0] # {}
    PROVE  /\ IntraL0Output(c) \in Files
           /\ \E f \in c.inputs[0] : IntraL0Output(c).epoch = f.epoch
           /\ \A k \in DOMAIN IntraL0Output(c).versions :
                \E f \in c.inputs[0] : k \in DOMAIN f.versions
                                       /\ IntraL0Output(c).versions[k] = f.versions[k]
           /\ \A f \in c.inputs[0] : \A k \in DOMAIN f.versions :
                /\ k \in DOMAIN IntraL0Output(c).versions
                /\ f.versions[k] <= IntraL0Output(c).versions[k]
<1>. DEFINE S == c.inputs[0]
            v == Merged(S)
            E == {f.epoch : f \in S}
<1>1. /\ DOMAIN v = UNION {DOMAIN f.versions : f \in S}
      /\ \A k \in DOMAIN v :
           /\ \E f \in S : k \in DOMAIN f.versions /\ v[k] = f.versions[k]
           /\ \A f \in S : k \in DOMAIN f.versions => f.versions[k] <= v[k]
  BY MergeKeepsNewest
<1>2. DOMAIN v \in SUBSET Keys /\ DOMAIN v # {}  BY <1>1, FileShape
<1>3. \A k \in DOMAIN v : v[k] \in 1..MaxFlushes  BY <1>1, FileShape
<1>4. v \in [DOMAIN v -> 1..MaxFlushes]
  <2>1. v = [k \in DOMAIN v |-> v[k]]  BY DEF Merged
  <2>. QED  BY <2>1, <1>3
<1>5. E \in SUBSET Nat /\ E # {}  BY FileShape
<1>6. Min(E) \in E /\ Min(E) \in Nat
  <2>. HIDE DEF E
  <2>. QED  BY <1>5, MinProperties
<1>7. IntraL0Output(c) = File(Min(E), v)  BY DEF IntraL0Output, MinInputFileEpochNumber
<1>. HIDE DEF v
<1>8. /\ File(Min(E), v) \in Files
      /\ File(Min(E), v).epoch = Min(E) /\ File(Min(E), v).versions = v
  <2>. HIDE DEF E
  <2>. QED  BY <1>2, <1>4, <1>6, FileMade
<1>. QED  BY <1>1, <1>6, <1>7, <1>8

-----------------------------------------------------------------------------
(* Choosing inputs.                                                         *)

(***************************************************************************)
(* ExpandInputsToCleanCut: no other file of L1 shares a user key with the  *)
(* files, and those before one of them are before all of them.             *)
(***************************************************************************)
LEMMA CleanCutApart ==
    ASSUME NEW S \in SUBSET l1, NEW f \in l1 \ CleanCut(S)
    PROVE  \/ \A g \in S \cup CleanCut(S) : UserBefore(f, g)
           \/ \A g \in S \cup CleanCut(S) : UserBefore(g, f)
<1>1. PICK left \in SUBSET l1 :
        /\ \A a \in left, b \in l1 \ left : UserBefore(a, b)
        /\ \/ f \in left /\ S \subseteq l1 \ left
           \/ f \notin left /\ S \subseteq left
  BY DEF CleanCut
<1>2. \A g \in CleanCut(S) :
        ~ (\/ g \in left /\ S \subseteq l1 \ left
           \/ g \notin left /\ S \subseteq left)
  BY <1>1 DEF CleanCut
<1>3. CleanCut(S) \subseteq l1  BY DEF CleanCut
<1>4. CASE f \in left /\ S \subseteq l1 \ left  BY <1>1, <1>2, <1>3, <1>4
<1>5. CASE f \notin left /\ S \subseteq left  BY <1>1, <1>2, <1>3, <1>5
<1>. QED  BY <1>1, <1>4, <1>5

(***************************************************************************)
(* The files that a clean cut is made for are in it.                       *)
(***************************************************************************)
LEMMA CleanCutContains ==
    ASSUME NEW S \in SUBSET l1, S # {}
    PROVE  S \subseteq CleanCut(S) /\ CleanCut(S) \subseteq l1
BY DEF CleanCut

(***************************************************************************)
(* SetupOtherInputs: what L1 keeps is outside the range of the compaction. *)
(***************************************************************************)
LEMMA OtherInputsClear ==
    ASSUME l1 \subseteq Files, NEW G \in SUBSET Files, G # {}
    PROVE  /\ OtherInputs(G) \subseteq l1
           /\ \A f \in l1 \ OtherInputs(G) : Outside(f, G \cup OtherInputs(G))
<1>. DEFINE S == Overlapping(l1, RangeStart(G), RangeEnd(G))
            other == OtherInputs(G)
<1>1. S \in SUBSET l1 /\ other = IF S = {} THEN {} ELSE CleanCut(S)
  BY DEF OtherInputs, Overlapping
<1>2. \A f \in l1 : f \in S <=> Smallest(f).key <= RangeEnd(G) /\ RangeStart(G) <= Largest(f).key
  BY DEF Overlapping
<1>. HIDE DEF S, other
<1>3. other \subseteq l1 /\ S \subseteq other  BY <1>1, CleanCutContains
<1>4. RangeStart(G) \in Nat /\ RangeEnd(G) \in Nat  BY RangeBounds
<1>5. ASSUME NEW f \in l1 \ other
      PROVE  Outside(f, G \cup other)
  <2>. DEFINE A == G \cup other
  <2>1. A \in SUBSET Files /\ A # {}  BY <1>3
  <2>2. PICK lo \in A : Smallest(lo).key = RangeStart(A)  BY <2>1, RangeBounds
  <2>3. PICK hi \in A : Largest(hi).key = RangeEnd(A)  BY <2>1, RangeBounds
  <2>4. f \notin S  BY <1>3, <1>5
  <2>5. Smallest(f).key \in Nat /\ Largest(f).key \in Nat /\ Smallest(f).key <= Largest(f).key
    BY FileRange
  <2>6. Largest(f).key < RangeStart(G) \/ RangeEnd(G) < Smallest(f).key
    BY <1>2, <1>4, <2>4, <2>5
  <2>7. \A g \in G : /\ RangeStart(G) <= Smallest(g).key /\ Largest(g).key <= RangeEnd(G)
                     /\ Smallest(g).key \in Nat /\ Largest(g).key \in Nat
    BY RangeBounds, FileRange
  <2>8. CASE S = {}
    <3>1. other = {}  BY <1>1, <2>8
    <3>. QED  BY <3>1, <2>6 DEF Outside
  <2>9. CASE S # {}
    <3>1. other = CleanCut(S)  BY <1>1, <2>9
    <3>2. PICK s \in S : TRUE  BY <2>9
    <3>3. s \in l1 /\ Smallest(s).key <= RangeEnd(G) /\ RangeStart(G) <= Largest(s).key
          /\ Smallest(s).key \in Nat /\ Largest(s).key \in Nat
      BY <1>1, <1>2, <3>2, FileRange
    <3>4. \/ \A g \in other : UserBefore(f, g)
          \/ \A g \in other : UserBefore(g, f)
      BY <1>1, <1>5, <3>1, CleanCutApart
    <3>5. s \in other  BY <1>3, <3>2
    <3>6. CASE \A g \in other : UserBefore(f, g)
      <4>1. Largest(f).key < Smallest(s).key  BY <3>5, <3>6 DEF UserBefore
      <4>2. Largest(f).key < RangeStart(G)  BY <4>1, <3>3, <2>5, <2>6, <1>4
      <4>3. Largest(f).key < Smallest(lo).key
        BY <4>2, <3>6, <2>2, <2>5, <2>7, <1>4 DEF UserBefore
      <4>. QED  BY <4>3, <2>2 DEF Outside
    <3>7. CASE \A g \in other : UserBefore(g, f)
      <4>1. Largest(s).key < Smallest(f).key  BY <3>5, <3>7 DEF UserBefore
      <4>2. RangeEnd(G) < Smallest(f).key  BY <4>1, <3>3, <2>5, <2>6, <1>4
      <4>3. Largest(hi).key < Smallest(f).key
        BY <4>2, <3>7, <2>3, <2>5, <2>7, <1>4 DEF UserBefore
      <4>. QED  BY <4>3, <2>3 DEF Outside
    <3>. QED  BY <3>4, <3>6, <3>7
  <2>. QED  BY <2>8, <2>9
<1>. QED  BY <1>3, <1>5 DEF other

(***************************************************************************)
(* The groups of the union-find: a file has a group, and files of          *)
(* different groups are before or after one another.                       *)
(***************************************************************************)
LEMMA GroupsApart ==
    ASSUME NEW A, NEW g \in Groups(A, ByUserKey(A))
    PROVE  /\ g \subseteq A /\ g # {}
           /\ \A f \in g, h \in A \ g : UserApart(f, h)
<1>. DEFINE Cut(x, y) == \E left \in SUBSET A :
                x \in left /\ y \notin left
                /\ left \X (A \ left) \subseteq ByUserKey(A)
<1>1. PICK e \in A : g = {x \in A : ~Cut(e, x) /\ ~Cut(x, e)}  BY DEF Groups
<1>2. e \in g  BY <1>1
<1>3. ASSUME NEW f \in g, NEW h \in A \ g
      PROVE  UserApart(f, h)
  <2>1. Cut(e, h) \/ Cut(h, e)  BY <1>1, <1>3
  <2>2. f \in A /\ ~Cut(e, f) /\ ~Cut(f, e)  BY <1>1, <1>3
  <2>3. ASSUME NEW x \in A, NEW y \in A, NEW left \in SUBSET A, x \in left, y \notin left,
               left \X (A \ left) \subseteq ByUserKey(A)
        PROVE  UserBefore(x, y)
    <3>1. <<x, y>> \in left \X (A \ left)  BY <2>3
    <3>2. <<x, y>> \in ByUserKey(A)  BY <3>1, <2>3
    <3>. QED  BY <3>2 DEF ByUserKey
  <2>4. CASE Cut(e, h)
    <3>1. PICK left \in SUBSET A : e \in left /\ h \notin left
                                   /\ left \X (A \ left) \subseteq ByUserKey(A)
      BY <2>4
    <3>2. f \in left  BY <3>1, <2>2
    <3>. QED  BY <3>1, <3>2, <2>2, <2>3 DEF UserApart
  <2>5. CASE Cut(h, e)
    <3>1. PICK left \in SUBSET A : h \in left /\ e \notin left
                                   /\ left \X (A \ left) \subseteq ByUserKey(A)
      BY <2>5
    <3>2. f \notin left  BY <3>1, <2>2
    <3>. QED  BY <3>1, <3>2, <2>2, <2>3 DEF UserApart
  <2>. QED  BY <2>1, <2>4, <2>5
<1>. QED  BY <1>1, <1>2, <1>3
(***************************************************************************)
(* TryPickL0TrivialMove: the files are the oldest ones of L0, in order,    *)
(* and nothing of L1 is in their range.                                    *)
(***************************************************************************)
LEMMA TrivialMoveOldest ==
    ASSUME StateTypes, Epochs, TrivialMoveFiles # {}
    PROVE  /\ TrivialMoveFiles \subseteq l0
           /\ InOrder(TrivialMoveFiles)
           /\ \A f \in l0 \ TrivialMoveFiles, g \in TrivialMoveFiles : g.epoch <= f.epoch
           /\ \A f \in l1 : Outside(f, TrivialMoveFiles)
<1>. DEFINE T == TrivialMoveFiles
            UpTo(f) == {g \in l0 : g.epoch <= f.epoch}
            Aside(f) ==
                \/ \A g \in UpTo(f) \ {f} : InternalBefore(f, g)
                \/ \A g \in UpTo(f) \ {f} : InternalBefore(g, f)
            Free(f) == Overlapping(l1, RangeStart(UpTo(f)), RangeEnd(UpTo(f))) = {}
<1>1. T = {f \in l0 : \A g \in UpTo(f) : Aside(g) /\ Free(g)}  BY DEF TrivialMoveFiles
<1>2. \A f \in l0 : f \in Files /\ f.epoch \in Nat  BY FileShape DEF StateTypes
<1>3. next_epoch \in Nat /\ \A f \in l0 : f.epoch < next_epoch  BY DEF StateTypes, Epochs
<1>4. T \subseteq l0  BY <1>1
<1>5. PICK last \in T : \A f \in T : f.epoch <= last.epoch
  <2>. DEFINE E == {f.epoch : f \in T}
  <2>1. E \in SUBSET Nat /\ E # {}  BY <1>2, <1>4
  <2>2. \A e \in E : e <= next_epoch  BY <1>2, <1>3, <1>4
  <2>3. Max(E) \in E /\ \A e \in E : e <= Max(E)
    <3>. HIDE DEF E
    <3>. QED  BY <2>1, <2>2, <1>3, MaxProperties
  <2>. QED  BY <2>3
<1>6. \A f \in T : f \in UpTo(f) /\ Aside(f) /\ Free(f)  BY <1>1, <1>2
<1>7. \A f \in l0, g \in T : f.epoch <= g.epoch => f \in T
  <2>. SUFFICES ASSUME NEW f \in l0, NEW g \in T, f.epoch <= g.epoch
                PROVE  f \in T
    OBVIOUS
  <2>1. \A h \in UpTo(f) : h \in UpTo(g)  BY <1>2, <1>4
  <2>2. \A h \in UpTo(g) : Aside(h) /\ Free(h)  BY <1>1
  <2>. HIDE DEF UpTo, Aside, Free
  <2>. QED  BY <2>1, <2>2, <1>1
<1>8. T = UpTo(last)  BY <1>4, <1>5, <1>7
<1>9. InOrder(T)
  <2>. SUFFICES ASSUME NEW f \in T, NEW g \in T, f # g
                PROVE  InternalBefore(f, g) \/ InternalBefore(g, f)
    BY DEF InOrder
  <2>1. f.epoch <= g.epoch \/ g.epoch <= f.epoch  BY <1>2, <1>4
  <2>2. f \in UpTo(g) \ {g} \/ g \in UpTo(f) \ {f}  BY <2>1, <1>4
  <2>3. Aside(f) /\ Aside(g)  BY <1>6
  <2>. HIDE DEF T, UpTo
  <2>. QED  BY <2>2, <2>3
<1>10. \A f \in l0 \ T, g \in T : g.epoch <= f.epoch  BY <1>2, <1>4, <1>7
<1>11. ASSUME NEW f \in l1
       PROVE  Outside(f, T)
  <2>1. Overlapping(l1, RangeStart(T), RangeEnd(T)) = {}
    <3>1. Free(last)  BY <1>6
    <3>. HIDE DEF T
    <3>. QED  BY <3>1, <1>8
  <2>2. ~(Smallest(f).key <= RangeEnd(T) /\ RangeStart(T) <= Largest(f).key)
    BY <2>1 DEF Overlapping
  <2>3. T \in SUBSET Files /\ T # {} /\ f \in Files  BY <1>2, <1>4 DEF StateTypes
  <2>4. RangeStart(T) \in Nat /\ RangeEnd(T) \in Nat
    <3>. HIDE DEF T
    <3>. QED  BY <2>3, RangeBounds
  <2>5. Smallest(f).key \in Nat /\ Largest(f).key \in Nat  BY <2>3, FileRange
  <2>. HIDE DEF T
  <2>. QED  BY <2>2, <2>4, <2>5 DEF Outside
<1>. QED  BY <1>4, <1>9, <1>10, <1>11

-----------------------------------------------------------------------------
(* A compaction starts.                                                     *)

(***************************************************************************)
(* The parts of a compaction.                                              *)
(***************************************************************************)
LEMMA CompactionParts ==
    ASSUME NEW a, NEW b, NEW o, NEW m
    PROVE  /\ Compaction(a, b, o, m).inputs[0] = a /\ Compaction(a, b, o, m).inputs[1] = b
           /\ InputsOf(Compaction(a, b, o, m)) = a \cup b
           /\ Compaction(a, b, o, m).output = o /\ Compaction(a, b, o, m).move = m
BY DEF Compaction, InputsOf

\* What a new compaction has to be for the invariant to hold of it.
FitsL1(c) ==
    /\ CompactionOK(c)
    /\ \A d \in running : c.inputs[1] \cap d.inputs[1] = {}
    /\ c.output = 1 =>
        \A d \in running : d.output = 1 => RangesApart(InputsOf(c), InputsOf(d))
    /\ L1ClearOf(c)
FitsL0(c) ==
    /\ c.output # 0 /\ c.inputs[0] \subseteq l0
    /\ \A d \in running : c.inputs[0] \cap d.inputs[0] = {}
    /\ TakesOldestOf(c)

(***************************************************************************)
(* RegisterCompaction of a compaction that fits keeps the invariant.       *)
(***************************************************************************)
LEMMA RegisterKeepsL1 ==
    ASSUME L1Inv, NEW c, FitsL1(c), Register(c)
    PROVE  L1Inv'
<1>1. /\ running' = running \cup {c}
      /\ being_compacted' = [level \in 0..1 |-> being_compacted[level] \cup c.inputs[level]]
      /\ UNCHANGED <<l0, l1, l2, newest, next_epoch, flushes>>
  BY DEF Register
<1>2. StateTypes' /\ Epochs' /\ L1Sorted' /\ NoneNewer' /\ NothingLost'
  BY <1>1 DEF L1Inv, StateTypes, Epochs, L1Sorted, NoneNewer, NothingLost
<1>3. InProgress'
  <2>1. \A d \in running' : CompactionOK(d)'
    BY <1>1 DEF L1Inv, InProgress, FitsL1, CompactionOK
  <2>2. being_compacted'[1] = UNION {d.inputs[1] : d \in running'}
    BY <1>1 DEF L1Inv, InProgress
  <2>3. \A d, e \in running' : d # e => d.inputs[1] \cap e.inputs[1] = {}
    BY <1>1 DEF L1Inv, InProgress, FitsL1
  <2>. QED  BY <2>1, <2>2, <2>3 DEF InProgress
<1>4. DisjointRanges'  BY <1>1 DEF L1Inv, DisjointRanges, FitsL1, RangesApart
<1>5. L1Clear'  BY <1>1 DEF L1Inv, L1Clear, L1ClearOf, FitsL1
<1>. QED  BY <1>2, <1>3, <1>4, <1>5 DEF L1Inv

\* The same for the part of the invariant about L0.
LEMMA RegisterKeepsL0 ==
    ASSUME L0Inv, NEW c, FitsL0(c), Register(c)
    PROVE  L0Inv'
<1>1. /\ running' = running \cup {c}
      /\ being_compacted' = [level \in 0..1 |-> being_compacted[level] \cup c.inputs[level]]
      /\ UNCHANGED <<l0, l1, l2>>
  BY DEF Register
<1>2. EpochsFollowed' /\ LevelsOrdered'
  BY <1>1 DEF L0Inv, EpochsFollowed, LevelsOrdered
<1>3. L0InProgress'
  <2>1. being_compacted'[0] = UNION {d.inputs[0] : d \in running'}
    BY <1>1 DEF L0Inv, L0InProgress
  <2>. QED  BY <2>1, <1>1 DEF L0Inv, L0InProgress, FitsL0
<1>4. TakesOldest'  BY <1>1 DEF L0Inv, TakesOldest, TakesOldestOf, FitsL0
<1>. QED  BY <1>2, <1>3, <1>4 DEF L0Inv

(***************************************************************************)
(* A compaction into L1 that FilesRangeOverlapWithCompaction lets through  *)
(* shares no key of L0 with one that runs.                                 *)
(***************************************************************************)
LEMMA NoOverlapApart ==
    ASSUME L1Inv, L0Inv, NEW A \in SUBSET l0, NEW B \in SUBSET l1, A \cup B # {},
           NoRangeOverlap(A \cup B, 1)
    PROVE  \A d \in running : \A g \in A, f \in d.inputs[0] : UserApart(f, g) /\ f # g
<1>. SUFFICES ASSUME NEW d \in running, NEW g \in A, NEW f \in d.inputs[0]
              PROVE  UserApart(f, g) /\ f # g
  OBVIOUS
<1>1. A \cup B \in SUBSET Files  BY DEF L1Inv, StateTypes
<1>2. CompactionOK(d) /\ d.output # 0  BY DEF L1Inv, InProgress, L0Inv, L0InProgress
<1>3. d.output = 1  BY <1>2 DEF CompactionOK
<1>4. RangesApart(A \cup B, InputsOf(d))  BY <1>3 DEF NoRangeOverlap, RangesApart
<1>5. InputsOf(d) \in SUBSET Files /\ InputsOf(d) # {} /\ f \in InputsOf(d)
  BY <1>2 DEF CompactionOK, InputsOf, L1Inv, StateTypes
<1>6. UserApart(g, f)  BY <1>1, <1>4, <1>5, RangesApartNoKey
<1>7. f \in Files /\ g \in Files  BY <1>1, <1>5
<1>. QED  BY <1>6, <1>7, ApartNoKey DEF UserApart

(***************************************************************************)
(* What the picker takes keeps the invariant: a trivial move, ...          *)
(***************************************************************************)
LEMMA PickTrivialMoveKeeps ==
    ASSUME L1Inv, PickTrivialMove
    PROVE  L1Inv' /\ (L0Inv => L0Inv')
<1>. DEFINE T == TrivialMoveFiles
            c == Compaction(T, {}, 1, TRUE)
<1>1. T # {} /\ NoRangeOverlap(T, 1) /\ Register(c)  BY DEF PickTrivialMove
<1>2. /\ T \subseteq l0 /\ InOrder(T)
      /\ \A f \in l0 \ T, g \in T : g.epoch <= f.epoch
      /\ \A f \in l1 : Outside(f, T)
  BY <1>1, TrivialMoveOldest DEF L1Inv
<1>3. /\ c.inputs[0] = T /\ c.inputs[1] = {}
      /\ InputsOf(c) = T /\ c.output = 1 /\ c.move \in BOOLEAN
  BY DEF Compaction, InputsOf
<1>. HIDE DEF T, c
<1>4. FitsL1(c)
  <2>1. T \subseteq Files  BY <1>2 DEF L1Inv, StateTypes
  <2>2. CompactionOK(c)  BY <2>1, <1>1, <1>2, <1>3 DEF CompactionOK
  <2>3. \A d \in running : d.output = 1 => RangesApart(T, InputsOf(d))
    BY <1>1 DEF NoRangeOverlap, RangesApart
  <2>4. L1ClearOf(c)  BY <1>2, <1>3 DEF L1ClearOf
  <2>. QED  BY <2>2, <2>3, <2>4, <1>3 DEF FitsL1
<1>5. ASSUME L0Inv PROVE FitsL0(c)
  <2>1. T \cup {} = T /\ T \in SUBSET l0 /\ {} \in SUBSET l1  BY <1>2
  <2>2. \A d \in running : \A g \in T, f \in d.inputs[0] : f # g
    BY <2>1, <1>1, <1>5, NoOverlapApart
  <2>3. TakesOldestOf(c)  BY <1>2, <1>3, <1>5 DEF L0Inv, EpochsFollowed, TakesOldestOf
  <2>. QED  BY <2>2, <2>3, <1>2, <1>3 DEF FitsL0
<1>. QED  BY <1>1, <1>4, <1>5, RegisterKeepsL1, RegisterKeepsL0

(***************************************************************************)
(* ... files of L0 for a compaction inside it, ...                         *)
(***************************************************************************)
LEMMA PickIntraL0Keeps ==
    ASSUME L1Inv, PickIntraL0
    PROVE  L1Inv'
<1>1. PICK g \in IntraL0Groups : Register(Compaction(g, {}, 0, FALSE))
  BY DEF PickIntraL0
<1>. DEFINE c == Compaction(g, {}, 0, FALSE)
<1>2. /\ c.inputs[0] = g /\ c.inputs[1] = {}
      /\ InputsOf(c) = g /\ c.output = 0 /\ c.move \in BOOLEAN /\ ~c.move
  BY DEF Compaction, InputsOf
<1>3. Register(c)  BY <1>1
<1>. HIDE DEF c
<1>4. g \in Groups(ActiveL0, ByInternalKey(ActiveL0))  BY DEF IntraL0Groups
<1>5. g \subseteq ActiveL0 /\ g # {}  BY <1>4 DEF Groups
<1>6. g \subseteq Files  BY <1>5 DEF ActiveL0, L1Inv, StateTypes
<1>7. CompactionOK(c)  BY <1>2, <1>5, <1>6 DEF CompactionOK
<1>8. FitsL1(c)  BY <1>2, <1>7 DEF FitsL1, L1ClearOf
<1>. QED  BY <1>3, <1>8, RegisterKeepsL1

(***************************************************************************)
(* ... a group of L0 with what it overlaps in L1, ...                      *)
(***************************************************************************)
LEMMA PickL0GroupKeeps ==
    ASSUME L1Inv, PickL0Group
    PROVE  L1Inv' /\ (L0Inv => L0Inv')
<1>1. PICK g \in PickableGroups :
        /\ OtherInputs(g) \cap being_compacted[1] = {}
        /\ NoRangeOverlap(g \cup OtherInputs(g), 1)
        /\ Register(Compaction(g, OtherInputs(g), 1, OtherInputs(g) = {} /\ MayMove(g)))
  BY DEF PickL0Group
<1>. DEFINE other == OtherInputs(g)
            move == other = {} /\ MayMove(g)
            c == Compaction(g, other, 1, move)
<1>2. g \in Groups(ActiveL0, ByUserKey(ActiveL0))  BY DEF PickableGroups
<1>3. /\ g \subseteq ActiveL0 /\ g # {}
      /\ \A f \in g, h \in ActiveL0 \ g : UserApart(f, h)
  BY <1>2, GroupsApart
<1>4. g \subseteq l0 /\ l0 \in SUBSET Files /\ l1 \in SUBSET Files
  BY <1>3 DEF ActiveL0, L1Inv, StateTypes
<1>5. other \subseteq l1 /\ \A f \in l1 \ other : Outside(f, g \cup other)
  BY <1>3, <1>4, OtherInputsClear
<1>6. /\ c.inputs[0] = g /\ c.inputs[1] = other
      /\ InputsOf(c) = g \cup other /\ c.output = 1 /\ c.move = move
  BY CompactionParts
<1>7. move \in BOOLEAN /\ (move => other = {} /\ InOrder(g))
  <2>1. ASSUME MayMove(g) PROVE InOrder(g)
    <3>1. CASE Cardinality(g) = 1
      <4>1. IsFiniteSet(l0)  BY DEF L1Inv, StateTypes
      <4>2. IsFiniteSet(g)  BY <4>1, <1>4, FS_Subset
      <4>3. \E x : g = {x}  BY <4>2, <3>1, FS_Singleton
      <4>. QED  BY <4>3 DEF InOrder
    <3>2. CASE \A f, h \in l0 : f # h => InternalBefore(f, h) \/ InternalBefore(h, f)
      BY <3>2, <1>4 DEF InOrder
    <3>. QED  BY <2>1, <3>1, <3>2 DEF MayMove
  <2>. QED  BY <2>1
<1>8. Register(c) /\ NoRangeOverlap(g \cup other, 1) /\ other \cap being_compacted[1] = {}
  BY <1>1
<1>. HIDE DEF other, move, c
<1>9. FitsL1(c)
  <2>1. CompactionOK(c)  BY <1>3, <1>4, <1>5, <1>6, <1>7 DEF CompactionOK
  <2>2. \A d \in running : other \cap d.inputs[1] = {}
    BY <1>8 DEF L1Inv, InProgress
  <2>3. \A d \in running : d.output = 1 => RangesApart(g \cup other, InputsOf(d))
    BY <1>8 DEF NoRangeOverlap, RangesApart
  <2>4. L1ClearOf(c)  BY <1>5, <1>6 DEF L1ClearOf
  <2>. QED  BY <2>1, <2>2, <2>3, <2>4, <1>6 DEF FitsL1
<1>10. ASSUME L0Inv PROVE FitsL0(c)
  <2>1. \A d \in running : \A x \in g, f \in d.inputs[0] : UserApart(f, x) /\ f # x
    <3>1. g \in SUBSET l0 /\ other \in SUBSET l1 /\ g \cup other # {}  BY <1>3, <1>4, <1>5
    <3>. QED  BY <3>1, <1>8, <1>10, NoOverlapApart
  <2>2. ASSUME NEW x \in g, NEW f \in l0 \ g
        PROVE  DOMAIN f.versions \cap DOMAIN x.versions = {}
    <3>1. f \in Files /\ x \in Files  BY <1>4
    <3>2. CASE f \in being_compacted[0]
      <4>1. \E d \in running : f \in d.inputs[0]  BY <3>2, <1>10 DEF L0Inv, L0InProgress
      <4>2. UserApart(f, x)  BY <4>1, <2>1
      <4>. QED  BY <3>1, <4>2, ApartNoKey
    <3>3. CASE f \notin being_compacted[0]
      <4>1. f \in ActiveL0 \ g  BY <3>3 DEF ActiveL0
      <4>2. UserApart(x, f)  BY <4>1, <1>3
      <4>. QED  BY <3>1, <4>2, ApartNoKey
    <3>. QED  BY <3>2, <3>3
  <2>3. TakesOldestOf(c)  BY <2>2, <1>6 DEF TakesOldestOf
  <2>. QED  BY <2>1, <2>3, <1>4, <1>6 DEF FitsL0
<1>. QED  BY <1>8, <1>9, <1>10, RegisterKeepsL1, RegisterKeepsL0

(***************************************************************************)
(* ... or files of L1.                                                     *)
(***************************************************************************)
LEMMA PickL1Keeps ==
    ASSUME L1Inv, PickL1
    PROVE  L1Inv' /\ (L0Inv => L0Inv')
<1>1. PICK S \in (SUBSET (l1 \ being_compacted[1])) \ {{}} :
        S = CleanCut(S) /\ Register(Compaction({}, S, 2, FALSE))
  BY DEF PickL1
<1>. DEFINE c == Compaction({}, S, 2, FALSE)
<1>2. /\ c.inputs[0] = {} /\ c.inputs[1] = S
      /\ InputsOf(c) = S /\ c.output = 2 /\ c.move \in BOOLEAN /\ ~c.move
  BY DEF Compaction, InputsOf
<1>3. Register(c)  BY <1>1
<1>. HIDE DEF c
<1>4. CompactionOK(c)  BY <1>1, <1>2 DEF CompactionOK
<1>5. \A d \in running : S \cap d.inputs[1] = {}  BY <1>1 DEF L1Inv, InProgress
<1>6. \A f \in l1 \ S : \A g \in S : UserApart(f, g)
  BY <1>1, CleanCutApart DEF UserApart
<1>7. FitsL1(c)  BY <1>2, <1>4, <1>5, <1>6 DEF FitsL1, L1ClearOf
<1>8. FitsL0(c)  BY <1>2 DEF FitsL0, TakesOldestOf
<1>. QED  BY <1>3, <1>7, <1>8, RegisterKeepsL1, RegisterKeepsL0
-----------------------------------------------------------------------------
(* A flush.                                                                 *)

(***************************************************************************)
(* The files of a flush have the newest versions and the largest epoch     *)
(* numbers, so the invariant is kept.                                      *)
(***************************************************************************)
LEMMA FlushKeeps ==
    ASSUME L1Inv, Flush
    PROVE  L1Inv' /\ (L0Inv => L0Inv')
<1>1. PICK fl \in Flushes : \E number \in Injection(fl, 0..(Cardinality(fl) - 1)) :
        /\ l0' = l0 \cup {File(next_epoch + number[s], [k \in s |-> flushes']) : s \in fl}
        /\ newest' = [k \in Keys |-> IF k \in UNION fl THEN flushes' ELSE newest[k]]
        /\ next_epoch' = next_epoch + Cardinality(fl)
  BY DEF Flush
<1>2. PICK number \in Injection(fl, 0..(Cardinality(fl) - 1)) :
        /\ l0' = l0 \cup {File(next_epoch + number[s], [k \in s |-> flushes']) : s \in fl}
        /\ newest' = [k \in Keys |-> IF k \in UNION fl THEN flushes' ELSE newest[k]]
        /\ next_epoch' = next_epoch + Cardinality(fl)
  BY <1>1
<1>3. /\ flushes < MaxFlushes /\ flushes' = flushes + 1
      /\ UNCHANGED <<l1, l2, being_compacted, running>>
  BY DEF Flush
<1>4. /\ l0 \subseteq Files /\ l1 \subseteq Files /\ IsFiniteSet(l0)
      /\ l2 \in [Keys -> Versions] /\ newest \in [Keys -> Versions]
      /\ flushes \in Nat /\ next_epoch \in Nat /\ MaxFlushes \in Nat
      /\ \A k \in Keys : newest[k] \in Nat /\ l2[k] \in Nat /\ newest[k] <= flushes
  BY LevelTypes
<1>5. flushes' \in 1..MaxFlushes /\ flushes' \in Versions /\ flushes' \in Nat /\ flushes < flushes'
  BY <1>3, <1>4 DEF Versions
<1>6. IsFiniteSet(fl) /\ Cardinality(fl) \in Nat /\ \A s \in fl : s # {} /\ s \in SUBSET Keys
  BY FlushesAssumption, FS_CardinalityType
<1>7. /\ \A s \in fl : number[s] \in Nat /\ number[s] < Cardinality(fl)
      /\ \A s, t \in fl : number[s] = number[t] => s = t
  BY <1>6 DEF Injection, IsInjective
<1>. DEFINE NewFile(s) == File(next_epoch + number[s], [k \in s |-> flushes'])
            new == {NewFile(s) : s \in fl}
<1>8. \A s \in fl : /\ NewFile(s) \in Files
                    /\ NewFile(s).epoch = next_epoch + number[s]
                    /\ NewFile(s).versions = [k \in s |-> flushes']
  <2>. SUFFICES ASSUME NEW s \in fl
                PROVE  /\ NewFile(s) \in Files
                       /\ NewFile(s).epoch = next_epoch + number[s]
                       /\ NewFile(s).versions = [k \in s |-> flushes']
    OBVIOUS
  <2>. DEFINE v == [k \in s |-> flushes']
              e == next_epoch + number[s]
  <2>1. v \in [s -> 1..MaxFlushes] /\ e \in Nat  BY <1>4, <1>5, <1>7
  <2>2. s \in SUBSET Keys /\ s # {}  BY <1>6
  <2>3. File(e, v) \in Files /\ File(e, v).epoch = e /\ File(e, v).versions = v
    <3>. HIDE DEF v, e
    <3>. QED  BY <2>1, <2>2, FileMade
  <2>. QED  BY <2>3
<1>9. l0' = l0 \cup new  BY <1>2
<1>10. \A x \in new :
         /\ x \in Files
         /\ x.epoch \in Nat /\ next_epoch <= x.epoch /\ x.epoch < next_epoch + Cardinality(fl)
         /\ DOMAIN x.versions \subseteq UNION fl
         /\ \A k \in DOMAIN x.versions : k \in Keys /\ x.versions[k] = flushes'
  <2>. SUFFICES ASSUME NEW s \in fl
                PROVE  LET x == NewFile(s) IN
                       /\ x \in Files
                       /\ x.epoch \in Nat /\ next_epoch <= x.epoch
                       /\ x.epoch < next_epoch + Cardinality(fl)
                       /\ DOMAIN x.versions \subseteq UNION fl
                       /\ \A k \in DOMAIN x.versions : k \in Keys /\ x.versions[k] = flushes'
    OBVIOUS
  <2>. DEFINE e == next_epoch + number[s]
  <2>1. e \in Nat /\ next_epoch <= e /\ e < next_epoch + Cardinality(fl)
    BY <1>4, <1>6, <1>7
  <2>2. s \subseteq UNION fl /\ \A k \in s : k \in Keys  BY <1>6
  <2>. HIDE DEF NewFile
  <2>. QED  BY <2>1, <2>2, <1>8
<1>11. \A x, y \in new : x.epoch = y.epoch => x = y
  <2>. SUFFICES ASSUME NEW s \in fl, NEW t \in fl, NewFile(s).epoch = NewFile(t).epoch
                PROVE  s = t
    OBVIOUS
  <2>1. next_epoch + number[s] = next_epoch + number[t]  BY <1>8
  <2>. QED  BY <2>1, <1>4, <1>7
<1>12. \A k \in UNION fl : \E x \in new : k \in DOMAIN x.versions /\ x.versions[k] = flushes'
  <2>. SUFFICES ASSUME NEW s \in fl, NEW k \in s
                PROVE  \E x \in new : k \in DOMAIN x.versions /\ x.versions[k] = flushes'
    OBVIOUS
  <2>1. NewFile(s) \in new  OBVIOUS
  <2>. HIDE DEF NewFile, new
  <2>. QED  BY <2>1, <1>8
<1>13. IsFiniteSet(new)
  <2>. DEFINE m == [s \in fl |-> NewFile(s)]
  <2>1. m \in Surjection(fl, new)  BY DEF Surjection
  <2>. HIDE DEF m, new
  <2>. QED  BY <2>1, <1>6, FS_Surjection
<1>. HIDE DEF NewFile, new
<1>14. \A k \in Keys : /\ newest'[k] \in Versions /\ newest[k] <= newest'[k] /\ newest'[k] <= flushes'
                       /\ k \in UNION fl => newest'[k] = flushes'
                       /\ k \notin UNION fl => newest'[k] = newest[k]
  BY <1>2, <1>4, <1>5
<1>15. StateTypes'
  <2>1. newest' \in [Keys -> Versions]  BY <1>2, <1>4, <1>5
  <2>2. IsFiniteSet(l0')  BY <1>4, <1>9, <1>13, FS_Union
  <2>3. next_epoch' \in Nat  BY <1>2, <1>4, <1>6
  <2>. QED  BY <2>1, <2>2, <2>3, <1>3, <1>4, <1>5, <1>9, <1>10, <1>14 DEF StateTypes
<1>16. \A f \in l0 : /\ f \in Files /\ f.epoch \in Nat /\ f.epoch < next_epoch
                     /\ \A k \in DOMAIN f.versions :
                          k \in Keys /\ f.versions[k] \in Nat /\ f.versions[k] <= flushes
  <2>1. \A f \in l0 : f \in Files /\ f.epoch \in Nat /\ f.epoch < next_epoch
    <3>1. \A f \in l0 : f \in Files /\ f.epoch < next_epoch  BY <1>4 DEF L1Inv, Epochs
    <3>. QED  BY <3>1, FileShape
  <2>2. \A f \in l0 : \A k \in DOMAIN f.versions :
          k \in Keys /\ f.versions[k] \in Nat /\ f.versions[k] <= newest[k]
    BY <1>4, FileShape DEF L1Inv, NoneNewer
  <2>. QED  BY <2>1, <2>2, <1>4
<1>17. \A f \in l1 : \A k \in DOMAIN f.versions :
         k \in Keys /\ f.versions[k] \in Nat /\ f.versions[k] <= newest[k] /\ f.versions[k] <= flushes
  <2>1. \A f \in l1 : \A k \in DOMAIN f.versions :
          k \in Keys /\ f.versions[k] \in Nat /\ f.versions[k] <= newest[k]
    BY <1>4, FileShape DEF L1Inv, NoneNewer
  <2>. QED  BY <2>1, <1>4
<1>18. Epochs'
  <2>1. ASSUME NEW f \in l0'
        PROVE  f.epoch < next_epoch'
    <3>1. next_epoch' = next_epoch + Cardinality(fl)  BY <1>2
    <3>2. CASE f \in l0
      <4>1. f.epoch \in Nat /\ f.epoch < next_epoch  BY <3>2, <1>16
      <4>. QED  BY <3>1, <4>1, <1>4, <1>6
    <3>3. CASE f \in new  BY <3>1, <3>3, <1>10
    <3>. QED  BY <3>2, <3>3, <1>9
  <2>2. \A f, g \in l0' : f.epoch = g.epoch => f = g
    <3>1. \A f, g \in l0 : f.epoch = g.epoch => f = g  BY DEF L1Inv, Epochs
    <3>. QED  BY <3>1, <1>4, <1>9, <1>10, <1>11, <1>16
  <2>. QED  BY <2>1, <2>2 DEF Epochs
<1>19. InProgress'
  <2>1. \A c \in running : CompactionOK(c)'
    BY <1>3 DEF L1Inv, InProgress, CompactionOK
  <2>. QED  BY <2>1, <1>3 DEF L1Inv, InProgress
<1>20. DisjointRanges' /\ L1Clear' /\ L1Sorted'
  BY <1>3 DEF L1Inv, DisjointRanges, L1Clear, L1ClearOf, L1Sorted
<1>21. NoneNewer'
  <2>1. \A k \in Keys : l2[k] <= newest[k]  BY DEF L1Inv, NoneNewer
  <2>2. \A k \in Keys : l2[k] <= newest'[k]  BY <2>1, <1>4, <1>14 DEF Versions
  <2>3. ASSUME NEW f \in l0' \cup l1, NEW k \in DOMAIN f.versions
        PROVE  f.versions[k] <= newest'[k]
    <3>1. CASE f \in l0 \cup l1
      <4>1. f.versions[k] <= newest[k]  BY <3>1 DEF L1Inv, NoneNewer
      <4>2. k \in Keys /\ f.versions[k] \in Nat  BY <3>1, <1>16, <1>17
      <4>. QED  BY <4>1, <4>2, <1>4, <1>14 DEF Versions
    <3>2. CASE f \in new
      <4>1. k \in Keys /\ k \in UNION fl /\ f.versions[k] = flushes'  BY <3>2, <1>10
      <4>. QED  BY <4>1, <1>5, <1>14
    <3>. QED  BY <3>1, <3>2, <1>9
  <2>. QED  BY <2>2, <2>3, <1>3 DEF NoneNewer
<1>22. NothingLost'
  <2>. SUFFICES ASSUME NEW k \in Keys
                PROVE  \/ newest'[k] = l2[k]
                       \/ \E f \in l0' \cup l1 : k \in DOMAIN f.versions /\ newest'[k] = f.versions[k]
    BY <1>3 DEF NothingLost
  <2>1. CASE k \in UNION fl  BY <2>1, <1>9, <1>12, <1>14
  <2>2. CASE k \notin UNION fl
    <3>1. \/ newest[k] = l2[k]
          \/ \E f \in l0 \cup l1 : k \in DOMAIN f.versions /\ newest[k] = f.versions[k]
      BY DEF L1Inv, NothingLost
    <3>. QED  BY <3>1, <2>2, <1>9, <1>14
  <2>. QED  BY <2>1, <2>2
<1>23. ASSUME L0Inv PROVE L0Inv'
  <2>1. \A c \in running : c.inputs[0] \subseteq l0  BY <1>23 DEF L0Inv, L0InProgress
  <2>2. L0InProgress'  BY <2>1, <1>3, <1>9, <1>23 DEF L0Inv, L0InProgress
  <2>3. EpochsFollowed'
    <3>1. ASSUME NEW f \in l0', NEW g \in l0', f.epoch <= g.epoch,
                 NEW k \in DOMAIN f.versions \cap DOMAIN g.versions
          PROVE  f.versions[k] <= g.versions[k]
      <4>1. CASE f \in l0 /\ g \in l0  BY <3>1, <4>1, <1>23 DEF L0Inv, EpochsFollowed
      <4>2. CASE g \in new  BY <4>2, <1>4, <1>5, <1>9, <1>10, <1>16
      <4>3. CASE f \in new /\ g \in l0  BY <3>1, <4>3, <1>4, <1>10, <1>16
      <4>. QED  BY <4>1, <4>2, <4>3, <1>9
    <3>. QED  BY <3>1 DEF EpochsFollowed
  <2>4. TakesOldest'
    <3>. SUFFICES ASSUME NEW c \in running, NEW g \in c.inputs[0], NEW f \in l0' \ c.inputs[0],
                         NEW k \in DOMAIN f.versions \cap DOMAIN g.versions
                  PROVE  g.versions[k] <= f.versions[k]
      BY <1>3 DEF TakesOldest, TakesOldestOf
    <3>1. g \in l0  BY <2>1
    <3>2. CASE f \in l0  BY <3>2, <1>23 DEF L0Inv, TakesOldest, TakesOldestOf
    <3>3. CASE f \in new  BY <3>1, <3>3, <1>4, <1>5, <1>10, <1>16
    <3>. QED  BY <3>2, <3>3, <1>9
  <2>5. LevelsOrdered'
    <3>1. ASSUME NEW f \in l0', NEW g \in l1, NEW k \in DOMAIN f.versions \cap DOMAIN g.versions
          PROVE  g.versions[k] <= f.versions[k]
      <4>1. CASE f \in l0  BY <4>1, <1>23 DEF L0Inv, LevelsOrdered
      <4>2. CASE f \in new  BY <4>2, <1>4, <1>5, <1>10, <1>17
      <4>. QED  BY <4>1, <4>2, <1>9
    <3>2. ASSUME NEW f \in l0' \cup l1, NEW k \in DOMAIN f.versions
          PROVE  l2[k] <= f.versions[k]
      <4>1. CASE f \in l0 \cup l1  BY <4>1, <1>23 DEF L0Inv, LevelsOrdered
      <4>2. CASE f \in new
        <5>1. k \in Keys /\ f.versions[k] = flushes'  BY <4>2, <1>10
        <5>2. l2[k] <= newest[k]  BY <5>1 DEF L1Inv, NoneNewer
        <5>. QED  BY <5>1, <5>2, <1>4, <1>5
      <4>. QED  BY <4>1, <4>2, <1>9
    <3>. QED  BY <3>1, <3>2, <1>3 DEF LevelsOrdered
  <2>. QED  BY <2>2, <2>3, <2>4, <2>5 DEF L0Inv
<1>24. L1Inv'  BY <1>15, <1>18, <1>19, <1>20, <1>21, <1>22 DEF L1Inv
<1>. QED  BY <1>23, <1>24
-----------------------------------------------------------------------------
(* The end of a compaction.                                                 *)

(***************************************************************************)
(* ReleaseCompactionFiles: the flags are those of the other compactions,   *)
(* as no file is in two.                                                   *)
(***************************************************************************)
LEMMA ReleaseKeepsFlags ==
    ASSUME L1Inv, NEW c \in running, Release(c)
    PROVE  /\ running' = running \ {c}
           /\ being_compacted'[1] = UNION {d.inputs[1] : d \in running'}
           /\ L0Inv => being_compacted'[0] = UNION {d.inputs[0] : d \in running'}
<1>1. /\ running' = running \ {c}
      /\ being_compacted' = [level \in 0..1 |-> being_compacted[level] \ c.inputs[level]]
  BY DEF Release
<1>2. being_compacted'[1] = UNION {d.inputs[1] : d \in running'}
  BY <1>1 DEF L1Inv, InProgress
<1>3. ASSUME L0Inv PROVE being_compacted'[0] = UNION {d.inputs[0] : d \in running'}
  BY <1>1, <1>3 DEF L0Inv, L0InProgress
<1>. QED  BY <1>1, <1>2, <1>3

(***************************************************************************)
(* A compaction that fails gives its files back.                           *)
(***************************************************************************)
LEMMA CompactionFailsKeeps ==
    ASSUME L1Inv, NEW c \in running, CompactionFails(c)
    PROVE  L1Inv' /\ (L0Inv => L0Inv')
<1>1. Release(c) /\ UNCHANGED <<l0, l1, l2, newest, next_epoch, flushes>>
  BY DEF CompactionFails
<1>2. /\ running' = running \ {c}
      /\ being_compacted'[1] = UNION {d.inputs[1] : d \in running'}
      /\ L0Inv => being_compacted'[0] = UNION {d.inputs[0] : d \in running'}
  BY <1>1, ReleaseKeepsFlags
<1>3. StateTypes' /\ Epochs' /\ L1Sorted' /\ NoneNewer' /\ NothingLost'
  BY <1>1 DEF L1Inv, StateTypes, Epochs, L1Sorted, NoneNewer, NothingLost
<1>4. InProgress'
  <2>1. \A d \in running' : CompactionOK(d)'
    BY <1>1, <1>2 DEF L1Inv, InProgress, CompactionOK
  <2>. QED  BY <2>1, <1>2 DEF L1Inv, InProgress
<1>5. DisjointRanges' /\ L1Clear'
  BY <1>1, <1>2 DEF L1Inv, DisjointRanges, L1Clear, L1ClearOf
<1>6. ASSUME L0Inv PROVE L0Inv'
  <2>1. L0InProgress'  BY <1>1, <1>2, <1>6 DEF L0Inv, L0InProgress
  <2>2. EpochsFollowed' /\ TakesOldest' /\ LevelsOrdered'
    BY <1>1, <1>2, <1>6 DEF L0Inv, EpochsFollowed, TakesOldest, TakesOldestOf, LevelsOrdered
  <2>. QED  BY <2>1, <2>2 DEF L0Inv
<1>7. L1Inv'  BY <1>3, <1>4, <1>5 DEF L1Inv
<1>. QED  BY <1>6, <1>7

(***************************************************************************)
(* A compaction inside L0 is installed, if its inputs are still there: its *)
(* output takes their place.                                               *)
(***************************************************************************)
LEMMA InstallL0Keeps ==
    ASSUME L1Inv, NEW c \in running, Install(c), c.output = 0
    PROVE  L1Inv'
<1>. DEFINE S == c.inputs[0]
            o == IntraL0Output(c)
<1>1. /\ Release(c) /\ UNCHANGED <<l1, l2, newest, next_epoch, flushes>>
      /\ S \subseteq l0 /\ l0' = (l0 \ S) \cup {o}
  BY DEF Install, InPlace
<1>2. /\ running' = running \ {c}
      /\ being_compacted'[1] = UNION {d.inputs[1] : d \in running'}
  BY <1>1, ReleaseKeepsFlags
<1>3. CompactionOK(c)  BY DEF L1Inv, InProgress
<1>4. S \in SUBSET Files /\ S # {}  BY <1>3 DEF CompactionOK, InputsOf
<1>5. /\ o \in Files
      /\ \E f \in S : o.epoch = f.epoch
      /\ \A k \in DOMAIN o.versions :
           \E f \in S : k \in DOMAIN f.versions /\ o.versions[k] = f.versions[k]
      /\ \A f \in S : \A k \in DOMAIN f.versions :
           k \in DOMAIN o.versions /\ f.versions[k] <= o.versions[k]
  BY <1>4, IntraL0Outputs
<1>. HIDE DEF S, o
<1>6. StateTypes'
  <2>1. IsFiniteSet(l0)  BY DEF L1Inv, StateTypes
  <2>2. IsFiniteSet(l0 \ S) /\ IsFiniteSet({o})  BY <2>1, FS_Subset, FS_Singleton
  <2>3. IsFiniteSet(l0')  BY <2>2, <1>1, FS_Union
  <2>. QED  BY <2>3, <1>1, <1>5 DEF L1Inv, StateTypes
<1>7. Epochs'
  <2>1. PICK f \in S : o.epoch = f.epoch  BY <1>5
  <2>2. \A g \in l0 \ S : g.epoch # o.epoch  BY <2>1, <1>1 DEF L1Inv, Epochs
  <2>. QED  BY <2>1, <2>2, <1>1 DEF L1Inv, Epochs
<1>8. InProgress'
  <2>1. \A d \in running' : CompactionOK(d)'
    BY <1>1, <1>2 DEF L1Inv, InProgress, CompactionOK
  <2>. QED  BY <2>1, <1>2 DEF L1Inv, InProgress
<1>9. DisjointRanges' /\ L1Clear' /\ L1Sorted'
  BY <1>1, <1>2 DEF L1Inv, DisjointRanges, L1Clear, L1ClearOf, L1Sorted
<1>10. \A f \in l0 : \A k \in DOMAIN f.versions : f.versions[k] <= newest[k]
  BY DEF L1Inv, NoneNewer
<1>11. \A k \in DOMAIN o.versions : o.versions[k] <= newest[k]
  BY <1>1, <1>5, <1>10
<1>12. NoneNewer'  BY <1>1, <1>11 DEF L1Inv, NoneNewer
<1>13. NothingLost'
  <2>. SUFFICES ASSUME NEW k \in Keys
                PROVE  \/ newest[k] = l2[k]
                       \/ \E f \in l0' \cup l1 : k \in DOMAIN f.versions /\ newest[k] = f.versions[k]
    BY <1>1 DEF NothingLost
  <2>1. \/ newest[k] = l2[k]
        \/ \E f \in l0 \cup l1 : k \in DOMAIN f.versions /\ newest[k] = f.versions[k]
    BY DEF L1Inv, NothingLost
  <2>2. ASSUME NEW f \in S, k \in DOMAIN f.versions, newest[k] = f.versions[k]
        PROVE  k \in DOMAIN o.versions /\ newest[k] = o.versions[k]
    <3>1. k \in DOMAIN o.versions /\ f.versions[k] <= o.versions[k] /\ o.versions[k] <= newest[k]
      BY <2>2, <1>5, <1>11
    <3>2. f \in Files  BY <1>4
    <3>3. f.versions[k] \in Nat /\ o.versions[k] \in Nat  BY <2>2, <3>1, <3>2, <1>5, FileShape
    <3>. QED  BY <2>2, <3>1, <3>3
  <2>. QED  BY <2>1, <2>2, <1>1
<1>. QED  BY <1>6, <1>7, <1>8, <1>9, <1>12, <1>13 DEF L1Inv
(***************************************************************************)
(* A compaction into L1 is installed: its outputs take the place of its    *)
(* inputs, in their range.                                                 *)
(***************************************************************************)
LEMMA InstallL1Keeps ==
    ASSUME L1Inv, NEW c \in running, Install(c), c.output = 1
    PROVE  L1Inv' /\ (L0Inv => L0Inv')
<1>. DEFINE S == InputsOf(c)
<1>1. /\ Release(c) /\ UNCHANGED <<l2, newest, next_epoch, flushes>>
      /\ c.inputs[0] \subseteq l0 /\ l0' = l0 \ c.inputs[0]
      /\ \E outputs \in L1Outputs(c) \cup {c.inputs[0] : m \in {c.move} \cap {TRUE}} :
            l1' = (l1 \ c.inputs[1]) \cup outputs
  BY DEF Install, InPlace
<1>2. PICK outputs \in L1Outputs(c) \cup {c.inputs[0] : m \in {c.move} \cap {TRUE}} :
        l1' = (l1 \ c.inputs[1]) \cup outputs
  BY <1>1
<1>3. /\ running' = running \ {c}
      /\ being_compacted'[1] = UNION {d.inputs[1] : d \in running'}
      /\ L0Inv => being_compacted'[0] = UNION {d.inputs[0] : d \in running'}
  BY <1>1, ReleaseKeepsFlags
<1>4. /\ l0 \subseteq Files /\ l1 \subseteq Files /\ IsFiniteSet(l0)
      /\ \A k \in Keys : l2[k] \in Nat /\ newest[k] \in Nat
  BY LevelTypes
<1>5. CompactionOK(c)  BY DEF L1Inv, InProgress
<1>6. /\ c.inputs[0] \subseteq l0 /\ c.inputs[1] \subseteq l1
      /\ S = c.inputs[0] \cup c.inputs[1] /\ S \in SUBSET Files /\ S # {}
  BY <1>1, <1>4, <1>5 DEF CompactionOK, InputsOf
<1>7. OutputsOf(outputs, S)
  <2>1. CASE outputs \in L1Outputs(c)  BY <2>1, <1>6, MergedOutputs
  <2>2. CASE outputs \notin L1Outputs(c)
    <3>1. c.move /\ outputs = c.inputs[0]  BY <2>2
    <3>2. c.inputs[1] = {} /\ InOrder(c.inputs[0])  BY <3>1, <1>5 DEF CompactionOK
    <3>3. S = c.inputs[0]  BY <3>2, <1>6
    <3>4. OutputsOf(S, S)  BY <3>2, <3>3, <1>6, MovedOutputs
    <3>. QED  BY <3>1, <3>3, <3>4
  <2>. QED  BY <2>1, <2>2
<1>. HIDE DEF S
<1>8. /\ outputs \subseteq Files /\ InOrder(outputs)
      /\ \A o \in outputs : RangeStart(S) <= Smallest(o).key /\ Largest(o).key <= RangeEnd(S)
      /\ \A o \in outputs : \A k \in DOMAIN o.versions :
           \E f \in S : k \in DOMAIN f.versions /\ o.versions[k] = f.versions[k]
      /\ \A f \in S : \A k \in DOMAIN f.versions :
           \E o \in outputs : k \in DOMAIN o.versions /\ f.versions[k] <= o.versions[k]
  BY <1>7 DEF OutputsOf
<1>9. RangeStart(S) \in Nat /\ RangeEnd(S) \in Nat  BY <1>6, RangeBounds
<1>10. \A o \in outputs, f \in Files : Outside(f, S) => UserApart(f, o)
  <2>. SUFFICES ASSUME NEW o \in outputs, NEW f \in Files, Outside(f, S)
                PROVE  UserApart(f, o)
    OBVIOUS
  <2>1. o \in Files  BY <1>8
  <2>2. /\ Smallest(o).key \in Nat /\ Largest(o).key \in Nat
        /\ Smallest(f).key \in Nat /\ Largest(f).key \in Nat
    BY <2>1, FileRange
  <2>3. RangeStart(S) <= Smallest(o).key /\ Largest(o).key <= RangeEnd(S)  BY <1>8
  <2>. QED  BY <2>2, <2>3, <1>9 DEF Outside, UserApart, UserBefore
<1>11. \A f \in l1 \ c.inputs[1] : Outside(f, S)  BY DEF L1Inv, L1Clear, L1ClearOf, S
<1>12. StateTypes'
  <2>1. l0' \subseteq Files /\ l1' \subseteq Files  BY <1>1, <1>2, <1>4, <1>8
  <2>2. IsFiniteSet(l0')  BY <1>1, <1>4, FS_Subset
  <2>. QED  BY <2>1, <2>2, <1>1 DEF L1Inv, StateTypes
<1>13. Epochs'
  BY <1>1 DEF L1Inv, Epochs
<1>14. \A d \in running' : d \in running /\ d # c /\ d.inputs[1] \cap c.inputs[1] = {}
  BY <1>3 DEF L1Inv, InProgress
<1>15. InProgress'
  <2>1. ASSUME NEW d \in running' PROVE CompactionOK(d)'
    <3>1. CompactionOK(d)  BY <1>14 DEF L1Inv, InProgress
    <3>2. d.inputs[1] \subseteq l1'  BY <3>1, <1>2, <1>14 DEF CompactionOK
    <3>. QED  BY <3>1, <3>2 DEF CompactionOK
  <2>. QED  BY <2>1, <1>3 DEF L1Inv, InProgress
<1>16. DisjointRanges'  BY <1>14 DEF L1Inv, DisjointRanges
<1>17. L1Clear'
  <2>. SUFFICES ASSUME NEW d \in running', NEW f \in l1' \ d.inputs[1]
                PROVE  /\ d.output = 1 => Outside(f, InputsOf(d))
                       /\ d.output = 2 => \A g \in d.inputs[1] : UserApart(f, g)
    BY DEF L1Clear, L1ClearOf
  <2>1. CASE f \in l1  BY <2>1, <1>14 DEF L1Inv, L1Clear, L1ClearOf
  <2>2. CASE f \in outputs
    <3>1. ASSUME d.output = 1 PROVE Outside(f, InputsOf(d))
      <4>1. RangesApart(S, InputsOf(d))  BY <3>1, <1>14 DEF L1Inv, DisjointRanges, S
      <4>2. InputsOf(d) \in SUBSET Files /\ InputsOf(d) # {}
        BY <1>4, <1>14 DEF L1Inv, InProgress, CompactionOK, InputsOf
      <4>3. RangeStart(InputsOf(d)) \in Nat /\ RangeEnd(InputsOf(d)) \in Nat
        BY <4>2, RangeBounds
      <4>4. f \in Files  BY <2>2, <1>8
      <4>5. Smallest(f).key \in Nat /\ Largest(f).key \in Nat  BY <4>4, FileRange
      <4>6. RangeStart(S) <= Smallest(f).key /\ Largest(f).key <= RangeEnd(S)  BY <2>2, <1>8
      <4>. QED  BY <4>1, <4>3, <4>5, <4>6, <1>9 DEF RangesApart, Outside
    <3>2. ASSUME d.output = 2, NEW g \in d.inputs[1] PROVE UserApart(f, g)
      <4>1. g \in l1 \ c.inputs[1]
        BY <1>14 DEF L1Inv, InProgress, CompactionOK
      <4>2. UserApart(g, f)  BY <4>1, <2>2, <1>4, <1>10, <1>11
      <4>. QED  BY <4>2 DEF UserApart
    <3>. QED  BY <3>1, <3>2
  <2>. QED  BY <2>1, <2>2, <1>2
<1>18. L1Sorted'
  <2>1. ASSUME NEW f \in l1', NEW g \in l1', f # g
        PROVE  InternalBefore(f, g) \/ InternalBefore(g, f)
    <3>1. CASE f \in l1 /\ g \in l1  BY <2>1, <3>1 DEF L1Inv, L1Sorted
    <3>2. CASE f \in outputs /\ g \in outputs  BY <2>1, <3>2, <1>8 DEF InOrder
    <3>3. CASE f \in l1 \ c.inputs[1] /\ g \in outputs
      <4>1. UserApart(f, g)  BY <3>3, <1>4, <1>10, <1>11
      <4>. QED  BY <4>1 DEF UserApart, UserBefore, InternalBefore, IKeyLess
    <3>4. CASE f \in outputs /\ g \in l1 \ c.inputs[1]
      <4>1. UserApart(g, f)  BY <3>4, <1>4, <1>10, <1>11
      <4>. QED  BY <4>1 DEF UserApart, UserBefore, InternalBefore, IKeyLess
    <3>. QED  BY <3>1, <3>2, <3>3, <3>4, <1>2
  <2>. QED  BY <2>1 DEF L1Sorted
<1>19. S \subseteq l0 \cup l1  BY <1>6
<1>20. \A f \in S \cup outputs : \A k \in DOMAIN f.versions : k \in Keys /\ f.versions[k] \in Nat
  BY <1>6, <1>8, FileShape
<1>21. NoneNewer'
  <2>1. ASSUME NEW f \in l0' \cup l1', NEW k \in DOMAIN f.versions
        PROVE  f.versions[k] <= newest[k]
    <3>1. CASE f \in l0 \cup l1  BY <3>1 DEF L1Inv, NoneNewer
    <3>2. CASE f \in outputs
      <4>1. PICK h \in S : k \in DOMAIN h.versions /\ f.versions[k] = h.versions[k]
        BY <3>2, <1>8
      <4>. QED  BY <4>1, <1>19 DEF L1Inv, NoneNewer
    <3>. QED  BY <3>1, <3>2, <1>1, <1>2
  <2>. QED  BY <2>1, <1>1 DEF L1Inv, NoneNewer
<1>22. NothingLost'
  <2>. SUFFICES ASSUME NEW k \in Keys
                PROVE  \/ newest[k] = l2[k]
                       \/ \E f \in l0' \cup l1' : k \in DOMAIN f.versions /\ newest[k] = f.versions[k]
    BY <1>1 DEF NothingLost
  <2>1. \/ newest[k] = l2[k]
        \/ \E f \in l0 \cup l1 : k \in DOMAIN f.versions /\ newest[k] = f.versions[k]
    BY DEF L1Inv, NothingLost
  <2>2. ASSUME NEW f \in l0 \cup l1, k \in DOMAIN f.versions, newest[k] = f.versions[k]
        PROVE  \E g \in l0' \cup l1' : k \in DOMAIN g.versions /\ newest[k] = g.versions[k]
    <3>1. CASE f \notin S  BY <2>2, <3>1, <1>1, <1>2, <1>6
    <3>2. CASE f \in S
      <4>1. PICK o \in outputs : k \in DOMAIN o.versions /\ f.versions[k] <= o.versions[k]
        BY <2>2, <3>2, <1>8
      <4>2. PICK h \in S : k \in DOMAIN h.versions /\ o.versions[k] = h.versions[k]
        BY <4>1, <1>8
      <4>3. h.versions[k] <= newest[k]  BY <4>2, <1>19 DEF L1Inv, NoneNewer
      <4>4. o.versions[k] \in Nat /\ newest[k] \in Nat  BY <4>1, <1>4, <1>20
      <4>5. newest[k] = o.versions[k]  BY <4>1, <4>2, <4>3, <4>4, <2>2
      <4>6. o \in l1'  BY <4>1, <1>2
      <4>. QED  BY <4>1, <4>5, <4>6
    <3>. QED  BY <3>1, <3>2
  <2>. QED  BY <2>1, <2>2
<1>23. ASSUME L0Inv PROVE L0Inv'
  <2>1. \A d \in running' : d \in running /\ d # c /\ d.inputs[0] \cap c.inputs[0] = {}
    BY <1>3, <1>23 DEF L0Inv, L0InProgress
  <2>2. L0InProgress'
    <3>1. \A d \in running' : d.output # 0 /\ d.inputs[0] \subseteq l0'
      BY <2>1, <1>1, <1>23 DEF L0Inv, L0InProgress
    <3>. QED  BY <2>1, <3>1, <1>3, <1>23 DEF L0Inv, L0InProgress
  <2>3. EpochsFollowed'  BY <1>1, <1>23 DEF L0Inv, EpochsFollowed
  <2>4. TakesOldest'  BY <2>1, <1>1, <1>23 DEF L0Inv, TakesOldest, TakesOldestOf
  <2>5. LevelsOrdered'
    <3>1. ASSUME NEW f \in l0', NEW g \in l1', NEW k \in DOMAIN f.versions \cap DOMAIN g.versions
          PROVE  g.versions[k] <= f.versions[k]
      <4>1. f \in l0 \ c.inputs[0]  BY <1>1
      <4>2. CASE g \in l1  BY <4>1, <4>2, <1>23 DEF L0Inv, LevelsOrdered
      <4>3. CASE g \in outputs
        <5>1. PICK h \in S : k \in DOMAIN h.versions /\ g.versions[k] = h.versions[k]
          BY <4>3, <1>8
        <5>2. CASE h \in c.inputs[0]
          BY <4>1, <5>1, <5>2, <1>23 DEF L0Inv, TakesOldest, TakesOldestOf
        <5>3. CASE h \in c.inputs[1]
          <6>1. h \in l1  BY <5>3, <1>6
          <6>. QED  BY <4>1, <5>1, <6>1, <1>23 DEF L0Inv, LevelsOrdered
        <5>. QED  BY <5>2, <5>3, <1>6
      <4>. QED  BY <4>2, <4>3, <1>2
    <3>2. ASSUME NEW f \in l0' \cup l1', NEW k \in DOMAIN f.versions
          PROVE  l2[k] <= f.versions[k]
      <4>1. CASE f \in l0 \cup l1  BY <4>1, <1>23 DEF L0Inv, LevelsOrdered
      <4>2. CASE f \in outputs
        <5>1. PICK h \in S : k \in DOMAIN h.versions /\ f.versions[k] = h.versions[k]
          BY <4>2, <1>8
        <5>. QED  BY <5>1, <1>19, <1>23 DEF L0Inv, LevelsOrdered
      <4>. QED  BY <4>1, <4>2, <1>1, <1>2
    <3>. QED  BY <3>1, <3>2, <1>1 DEF LevelsOrdered
  <2>. QED  BY <2>2, <2>3, <2>4, <2>5 DEF L0Inv
<1>24. L1Inv'  BY <1>12, <1>13, <1>15, <1>16, <1>17, <1>18, <1>21, <1>22 DEF L1Inv
<1>. QED  BY <1>23, <1>24

(***************************************************************************)
(* A compaction of L1 into the levels below is installed: L1 keeps no      *)
(* version of its keys, L0 only newer ones.                                *)
(***************************************************************************)
LEMMA InstallL2Keeps ==
    ASSUME L1Inv, NEW c \in running, Install(c), c.output = 2
    PROVE  L1Inv' /\ (L0Inv => L0Inv')
<1>. DEFINE S == c.inputs[1]
            m == Merged(S)
<1>1. /\ Release(c) /\ UNCHANGED <<l0, newest, next_epoch, flushes>>
      /\ l1' = l1 \ S
      /\ l2' = [k \in Keys |-> IF k \in DOMAIN m THEN Max({m[k], l2[k]}) ELSE l2[k]]
  BY DEF Install
<1>2. /\ running' = running \ {c}
      /\ being_compacted'[1] = UNION {d.inputs[1] : d \in running'}
      /\ L0Inv => being_compacted'[0] = UNION {d.inputs[0] : d \in running'}
  BY <1>1, ReleaseKeepsFlags
<1>3. /\ l0 \subseteq Files /\ l1 \subseteq Files
      /\ \A k \in Keys : l2[k] \in Versions /\ newest[k] \in Versions
      /\ \A v \in Versions : v \in Nat
  BY LevelTypes
<1>4. S \subseteq l1 /\ S \in SUBSET Files
  BY <1>3 DEF L1Inv, InProgress, CompactionOK
<1>5. \A f \in l0 \cup l1 : \A k \in DOMAIN f.versions : k \in Keys /\ f.versions[k] \in Versions
  <2>1. \A f \in l0 \cup l1 : f \in Files  BY <1>3
  <2>. QED  BY <2>1, FileShape, CompactionBoundsAssumption DEF Versions
<1>6. /\ DOMAIN m = UNION {DOMAIN f.versions : f \in S}
      /\ \A k \in DOMAIN m :
           /\ \E f \in S : k \in DOMAIN f.versions /\ m[k] = f.versions[k]
           /\ \A f \in S : k \in DOMAIN f.versions => f.versions[k] <= m[k]
  BY <1>4, MergeKeepsNewest
<1>. HIDE DEF S, m
<1>7. \A k \in Keys :
        /\ l2'[k] \in Versions /\ l2[k] <= l2'[k]
        /\ k \in DOMAIN m => m[k] <= l2'[k] /\ l2'[k] \in {m[k], l2[k]}
        /\ k \notin DOMAIN m => l2'[k] = l2[k]
  <2>. SUFFICES ASSUME NEW k \in Keys
                PROVE  /\ l2'[k] \in Versions /\ l2[k] <= l2'[k]
                       /\ k \in DOMAIN m => m[k] <= l2'[k] /\ l2'[k] \in {m[k], l2[k]}
                       /\ k \notin DOMAIN m => l2'[k] = l2[k]
    OBVIOUS
  <2>1. CASE k \notin DOMAIN m  BY <2>1, <1>1, <1>3
  <2>2. CASE k \in DOMAIN m
    <3>1. m[k] \in Versions  BY <2>2, <1>4, <1>5, <1>6
    <3>. DEFINE V == {m[k], l2[k]}
    <3>2. V \in SUBSET Versions /\ V # {}  BY <3>1, <1>3
    <3>3. Max(V) \in V /\ \A v \in V : v <= Max(V)
      <4>. HIDE DEF V
      <4>. QED  BY <3>2, VersionBound
    <3>4. l2'[k] = Max(V)  BY <2>2, <1>1
    <3>. QED  BY <2>2, <3>2, <3>3, <3>4
  <2>. QED  BY <2>1, <2>2
<1>8. \A f \in l1 \ S : \A g \in S : DOMAIN f.versions \cap DOMAIN g.versions = {}
  <2>. SUFFICES ASSUME NEW f \in l1 \ S, NEW g \in S
                PROVE  DOMAIN f.versions \cap DOMAIN g.versions = {}
    OBVIOUS
  <2>1. UserApart(f, g)  BY DEF L1Inv, L1Clear, L1ClearOf, S
  <2>2. f \in Files /\ g \in Files  BY <1>3, <1>4
  <2>. QED  BY <2>1, <2>2, ApartNoKey
<1>9. StateTypes'
  <2>1. l2' \in [Keys -> Versions]
    <3>1. DOMAIN l2' = Keys /\ l2' = [k \in Keys |-> l2'[k]]  BY <1>1
    <3>. QED  BY <3>1, <1>7
  <2>. QED  BY <2>1, <1>1 DEF L1Inv, StateTypes
<1>10. Epochs'  BY <1>1 DEF L1Inv, Epochs
<1>11. \A d \in running' : d \in running /\ d # c /\ d.inputs[1] \cap S = {}
  BY <1>2 DEF L1Inv, InProgress, S
<1>12. InProgress'
  <2>1. ASSUME NEW d \in running' PROVE CompactionOK(d)'
    <3>1. CompactionOK(d)  BY <1>11 DEF L1Inv, InProgress
    <3>2. d.inputs[1] \subseteq l1'  BY <3>1, <1>1, <1>11 DEF CompactionOK
    <3>. QED  BY <3>1, <3>2 DEF CompactionOK
  <2>. QED  BY <2>1, <1>2 DEF L1Inv, InProgress
<1>13. DisjointRanges'  BY <1>11 DEF L1Inv, DisjointRanges
<1>14. L1Clear' /\ L1Sorted'
  BY <1>1, <1>11 DEF L1Inv, L1Clear, L1ClearOf, L1Sorted
<1>15. NoneNewer'
  <2>1. \A f \in l0 \cup l1 : \A k \in DOMAIN f.versions : f.versions[k] <= newest[k]
    BY DEF L1Inv, NoneNewer
  <2>2. ASSUME NEW k \in Keys
        PROVE  l2'[k] <= newest[k]
    <3>1. l2[k] <= newest[k]  BY DEF L1Inv, NoneNewer
    <3>2. CASE k \notin DOMAIN m  BY <3>1, <3>2, <1>7
    <3>3. CASE k \in DOMAIN m
      <4>1. PICK g \in S : k \in DOMAIN g.versions /\ m[k] = g.versions[k]  BY <3>3, <1>6
      <4>2. m[k] <= newest[k]  BY <4>1, <2>1, <1>4
      <4>. QED  BY <4>2, <3>1, <3>3, <1>7
    <3>. QED  BY <3>2, <3>3
  <2>. QED  BY <2>1, <2>2, <1>1 DEF NoneNewer
<1>16. NothingLost'
  <2>. SUFFICES ASSUME NEW k \in Keys
                PROVE  \/ newest[k] = l2'[k]
                       \/ \E f \in l0' \cup l1' : k \in DOMAIN f.versions /\ newest[k] = f.versions[k]
    BY <1>1 DEF NothingLost
  <2>1. \/ newest[k] = l2[k]
        \/ \E f \in l0 \cup l1 : k \in DOMAIN f.versions /\ newest[k] = f.versions[k]
    BY DEF L1Inv, NothingLost
  <2>2. l2'[k] <= newest[k]  BY <1>15, <1>1 DEF NoneNewer
  <2>3. l2[k] \in Nat /\ l2'[k] \in Nat /\ newest[k] \in Nat /\ l2[k] <= l2'[k]  BY <1>3, <1>7
  <2>4. CASE newest[k] = l2[k]  BY <2>2, <2>3, <2>4
  <2>5. ASSUME NEW f \in S, k \in DOMAIN f.versions, newest[k] = f.versions[k]
        PROVE  newest[k] = l2'[k]
    <3>1. k \in DOMAIN m /\ f.versions[k] <= m[k]  BY <2>5, <1>6
    <3>2. m[k] <= l2'[k]  BY <3>1, <1>7
    <3>3. m[k] \in Nat  BY <3>1, <1>3, <1>4, <1>5, <1>6
    <3>. QED  BY <2>2, <2>3, <2>5, <3>1, <3>2, <3>3
  <2>. QED  BY <2>1, <2>4, <2>5, <1>1
<1>17. ASSUME L0Inv PROVE L0Inv'
  <2>1. \A d \in running' : d \in running  BY <1>11
  <2>2. L0InProgress'  BY <2>1, <1>1, <1>2, <1>17 DEF L0Inv, L0InProgress
  <2>3. EpochsFollowed'  BY <1>1, <1>17 DEF L0Inv, EpochsFollowed
  <2>4. TakesOldest'  BY <2>1, <1>1, <1>17 DEF L0Inv, TakesOldest, TakesOldestOf
  <2>5. \A f \in l0, g \in l1 :
          \A k \in DOMAIN f.versions \cap DOMAIN g.versions : g.versions[k] <= f.versions[k]
    BY <1>17 DEF L0Inv, LevelsOrdered
  <2>6. \A f \in l0 \cup l1 : \A k \in DOMAIN f.versions : l2[k] <= f.versions[k]
    BY <1>17 DEF L0Inv, LevelsOrdered
  <2>7. ASSUME NEW f \in l0' \cup l1', NEW k \in DOMAIN f.versions
        PROVE  l2'[k] <= f.versions[k]
    <3>1. f \in l0 \/ f \in l1 \ S  BY <1>1
    <3>2. k \in Keys  BY <3>1, <1>5
    <3>3. CASE k \notin DOMAIN m  BY <3>1, <3>2, <3>3, <2>6, <1>7
    <3>4. CASE k \in DOMAIN m
      <4>1. PICK g \in S : k \in DOMAIN g.versions /\ m[k] = g.versions[k]  BY <3>4, <1>6
      <4>2. f \in l0  BY <3>1, <4>1, <1>8
      <4>3. m[k] <= f.versions[k] /\ l2[k] <= f.versions[k]
        BY <4>1, <4>2, <2>5, <2>6, <1>4
      <4>. QED  BY <4>3, <3>2, <3>4, <1>7
    <3>. QED  BY <3>3, <3>4
  <2>8. LevelsOrdered'  BY <2>5, <2>7, <1>1 DEF LevelsOrdered
  <2>. QED  BY <2>2, <2>3, <2>4, <2>8 DEF L0Inv
<1>18. L1Inv'  BY <1>9, <1>10, <1>12, <1>13, <1>14, <1>15, <1>16 DEF L1Inv
<1>. QED  BY <1>17, <1>18
-----------------------------------------------------------------------------
(* The theorems.                                                            *)

(***************************************************************************)
(* The invariant holds initially and is kept by every step.                *)
(***************************************************************************)
LEMMA InitInv == Init => Inv
<1>. SUFFICES ASSUME Init PROVE Inv  OBVIOUS
<1>. USE DEF Init
<1>1. IsFiniteSet(l0)  BY FS_EmptySet
<1>2. StateTypes  BY <1>1, CompactionBoundsAssumption DEF StateTypes, Versions
<1>3. Epochs /\ DisjointRanges /\ L1Clear /\ L1Sorted
  BY DEF Epochs, DisjointRanges, L1Clear, L1Sorted
<1>4. InProgress /\ L0InProgress  BY DEF InProgress, L0InProgress
<1>5. NoneNewer /\ NothingLost  BY DEF NoneNewer, NothingLost
<1>6. EpochsFollowed /\ TakesOldest /\ LevelsOrdered
  BY DEF EpochsFollowed, TakesOldest, LevelsOrdered
<1>. QED  BY <1>2, <1>3, <1>4, <1>5, <1>6 DEF Inv, L1Inv, L0Inv

\* Every step keeps the invariant.
LEMMA NextInv == Inv /\ [Next]_vars => Inv'
<1>. SUFFICES ASSUME Inv, [Next]_vars PROVE Inv'  OBVIOUS
<1>. USE DEF Inv
<1>1. CASE Flush  BY <1>1, FlushKeeps
<1>2. CASE PickTrivialMove  BY <1>2, PickTrivialMoveKeeps
<1>3. CASE PickIntraL0
  <2>1. ~NoIntraL0  BY <1>3 DEF PickIntraL0, IntraL0Groups, NoIntraL0
  <2>. QED  BY <2>1, <1>3, PickIntraL0Keeps
<1>4. CASE PickL0Group  BY <1>4, PickL0GroupKeeps
<1>5. CASE PickL1  BY <1>5, PickL1Keeps
<1>6. ASSUME NEW c \in running, Install(c) PROVE Inv'
  <2>1. CompactionOK(c)  BY DEF L1Inv, InProgress
  <2>2. c.output = 0 \/ c.output = 1 \/ c.output = 2  BY <2>1 DEF CompactionOK
  <2>3. CASE c.output = 0
    <3>1. ~NoIntraL0  BY <2>3 DEF L0Inv, L0InProgress
    <3>. QED  BY <2>3, <3>1, <1>6, InstallL0Keeps
  <2>4. CASE c.output = 1  BY <2>4, <1>6, InstallL1Keeps
  <2>5. CASE c.output = 2  BY <2>5, <1>6, InstallL2Keeps
  <2>. QED  BY <2>2, <2>3, <2>4, <2>5
<1>7. ASSUME NEW c \in running, CompactionFails(c) PROVE Inv'
  BY <1>7, CompactionFailsKeeps
<1>8. CASE UNCHANGED vars
  <2>1. L1Inv'
    BY <1>8 DEF vars, L1Inv, StateTypes, Epochs, InProgress, CompactionOK, DisjointRanges,
                L1Clear, L1ClearOf, L1Sorted, NoneNewer, NothingLost
  <2>2. L0Inv => L0Inv'
    BY <1>8 DEF vars, L0Inv, L0InProgress, EpochsFollowed, TakesOldest, TakesOldestOf,
                LevelsOrdered
  <2>. QED  BY <2>1, <2>2
<1>. QED  BY <1>1, <1>2, <1>3, <1>4, <1>5, <1>6, <1>7, <1>8 DEF Next, PickL0

(***************************************************************************)
(* The inductive invariant of compactions, with those inside L0 (L1Inv)    *)
(* and without them (L0Inv too).                                           *)
(***************************************************************************)
THEOREM CompactionInvariant == Spec => []Inv
BY InitInv, NextInv, PTL DEF Spec

(***************************************************************************)
(* L1 stays sorted, though compactions into it and out of it overlap in    *)
(* time, and compactions inside L0 with moves of the same files.           *)
(***************************************************************************)
THEOREM L1StaysSorted == Spec => []L1Sorted
<1>1. Inv => L1Sorted  BY DEF Inv, L1Inv
<1>. QED  BY <1>1, CompactionInvariant, PTL

(***************************************************************************)
(* No compaction drops the newest version of a key: not one whose inputs   *)
(* were taken by another one, either.                                      *)
(***************************************************************************)
THEOREM NewestKept == Spec => []NothingLost
<1>1. Inv => NothingLost  BY DEF Inv, L1Inv
<1>. QED  BY <1>1, CompactionInvariant, PTL

(***************************************************************************)
(* Under the invariant Get finds the last version written: in L0 the file  *)
(* with the largest epoch number has the newest version of the key.        *)
(***************************************************************************)
LEMMA InvReadsNewest == L1Inv /\ L0Inv => ReadsNewest
<1>. SUFFICES ASSUME L1Inv, L0Inv, NEW k \in Keys PROVE Get(k) = newest[k]  BY DEF ReadsNewest
<1>. DEFINE in0 == {f \in l0 : k \in DOMAIN f.versions}
            in1 == {f \in l1 : k \in DOMAIN f.versions}
<1>1. \A f \in l0 \cup l1 : f \in Files  BY DEF L1Inv, StateTypes
<1>2. newest[k] \in Nat /\ l2[k] \in Nat /\ next_epoch \in Nat
  BY LevelTypes
<1>3. \A f \in in0 \cup in1 : f.versions[k] \in Versions /\ f.versions[k] \in Nat
                              /\ l2[k] <= f.versions[k] /\ f.versions[k] <= newest[k]
  <2>1. \A f \in in0 \cup in1 : f.versions[k] \in 1..MaxFlushes  BY <1>1, FileShape
  <2>2. \A f \in in0 \cup in1 : l2[k] <= f.versions[k] /\ f.versions[k] <= newest[k]
    BY DEF L1Inv, L0Inv, LevelsOrdered, NoneNewer
  <2>. QED  BY <2>1, <2>2, CompactionBoundsAssumption DEF Versions
<1>4. newest[k] = l2[k] \/ \E f \in in0 \cup in1 : newest[k] = f.versions[k]
  BY DEF L1Inv, NothingLost
<1>5. CASE in0 # {}
  <2>. DEFINE E == {f.epoch : f \in in0}
              top == CHOOSE f \in in0 : \A g \in in0 : g.epoch <= f.epoch
  <2>1. E \in SUBSET Nat /\ E # {} /\ \A e \in E : e <= next_epoch
    <3>1. \A f \in in0 : f.epoch \in Nat /\ f.epoch < next_epoch
      BY <1>1, FileShape DEF L1Inv, Epochs
    <3>. QED  BY <3>1, <1>2, <1>5
  <2>2. Max(E) \in E /\ \A e \in E : e <= Max(E)
    <3>. HIDE DEF E
    <3>. QED  BY <2>1, <1>2, MaxProperties
  <2>3. \E f \in in0 : \A g \in in0 : g.epoch <= f.epoch  BY <2>2
  <2>4. top \in in0 /\ \A g \in in0 : g.epoch <= top.epoch
    <3>. HIDE DEF in0
    <3>. QED  BY <2>3
  <2>5. Get(k) = top.versions[k]  BY <1>5 DEF Get
  <2>. HIDE DEF top
  <2>6. \A g \in in0 : g.versions[k] <= top.versions[k]  BY <2>4 DEF L0Inv, EpochsFollowed
  <2>7. \A g \in in1 : g.versions[k] <= top.versions[k]  BY <2>4 DEF L0Inv, LevelsOrdered
  <2>. HIDE DEF in0, in1
  <2>8. newest[k] <= top.versions[k]  BY <2>4, <2>6, <2>7, <1>3, <1>4
  <2>9. top.versions[k] \in Nat /\ top.versions[k] <= newest[k]  BY <2>4, <1>3
  <2>. QED  BY <2>5, <2>8, <2>9, <1>2
<1>6. CASE in0 = {} /\ in1 # {}
  <2>. DEFINE V == {f.versions[k] : f \in in1}
  <2>1. V \in SUBSET Versions /\ V # {}  BY <1>3, <1>6
  <2>2. Max(V) \in V /\ \A v \in V : v <= Max(V)
    <3>. HIDE DEF V
    <3>. QED  BY <2>1, VersionBound
  <2>3. Get(k) = Max(V)  BY <1>6 DEF Get
  <2>. HIDE DEF in0, in1
  <2>4. PICK f \in in1 : Max(V) = f.versions[k]  BY <2>2
  <2>5. Max(V) \in Nat /\ Max(V) <= newest[k] /\ l2[k] <= Max(V)  BY <2>4, <1>3
  <2>6. \A g \in in1 : g.versions[k] <= Max(V)  BY <2>2
  <2>7. newest[k] <= Max(V)  BY <2>5, <2>6, <1>4, <1>6
  <2>. QED  BY <2>3, <2>5, <2>7, <1>2
<1>7. CASE in0 = {} /\ in1 = {}
  <2>1. Get(k) = l2[k]  BY <1>7 DEF Get
  <2>. HIDE DEF in0, in1
  <2>. QED  BY <2>1, <1>4, <1>7
<1>. QED  BY <1>5, <1>6, <1>7

(***************************************************************************)
(* Without compactions inside L0 no two running compactions share an       *)
(* input, however flushes, picks, failures and installations interleave.   *)
(***************************************************************************)
THEOREM InputsNotShared == NoIntraL0 => (Spec => []NoSharedInputs)
<1>. SUFFICES ASSUME NoIntraL0 PROVE Spec => []NoSharedInputs  OBVIOUS
<1>1. ASSUME Inv PROVE NoSharedInputs
  <2>. SUFFICES ASSUME NEW c \in running, NEW d \in running, c # d, NEW level \in 0..1
                PROVE  c.inputs[level] \cap d.inputs[level] = {}
    BY DEF NoSharedInputs
  <2>1. level = 0 \/ level = 1  OBVIOUS
  <2>2. L1Inv /\ L0Inv  BY <1>1 DEF Inv
  <2>. QED  BY <2>1, <2>2 DEF L1Inv, InProgress, L0Inv, L0InProgress
<1>. QED  BY <1>1, CompactionInvariant, PTL

(***************************************************************************)
(* Without compactions inside L0, Get finds the last version written of    *)
(* every key.                                                              *)
(***************************************************************************)
THEOREM ReadsFindNewest == NoIntraL0 => (Spec => []ReadsNewest)
<1>. SUFFICES ASSUME NoIntraL0 PROVE Spec => []ReadsNewest  OBVIOUS
<1>1. Inv => ReadsNewest  BY InvReadsNewest DEF Inv
<1>. QED  BY <1>1, CompactionInvariant, PTL
=============================================================================
