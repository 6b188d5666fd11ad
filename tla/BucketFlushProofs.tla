-------------------------- MODULE BucketFlushProofs --------------------------
(***************************************************************************)
(* Proofs about BucketFlush for every set of keys, jobs, memtables and     *)
(* bucket snapshots, and every number of failures and crashes.             *)
(*                                                                         *)
(* The inductive invariant IInv has five parts next to the types.  The     *)
(* list holds the newest memtables, without a gap.  The jobs share out the *)
(* memtables in progress, and one of them at most commits a prefix of the  *)
(* list.  Completed memtables fall into the groups that were flushed       *)
(* together: neighbours with one file number, whose first has the files of *)
(* all.  A job's files, and before them its buckets, cover the puts of its *)
(* memtables.  L0 holds what was installed and nothing else.               *)
(***************************************************************************)
EXTENDS BucketFlush, NaturalLemmas

\* The job has memtables, from PickMemTable to the end of its flush.
Active == {"start", "build", "regular", "finish", "failed"}
BucketFile == [keys : SUBSET Keys, epoch : Nat \ {0},
               status : {"new", "built", "failed", "aborted"}]
JobType == [pc : Active \cup {"idle", "commit"}, mems : SUBSET (1..MaxMemtables),
            epoch : Nat, l0_empty : BOOLEAN, buckets : Seq(SUBSET Keys),
            todo : SUBSET Nat, files : Seq(BucketFile \cup InstalledFile),
            batch : SUBSET (1..MaxMemtables)]

TypeInv ==
    /\ content \in Seq(Writes) /\ Len(content) <= MaxMemtables
    /\ memlist \subseteq 1..Len(content)
    /\ in_progress \subseteq memlist /\ completed \subseteq in_progress
    /\ edit \in [1..MaxMemtables -> SUBSET InstalledFile]
    /\ batch \in [1..MaxMemtables -> Nat]
    /\ imm_flush_needed \in BOOLEAN /\ commit_in_progress \in BOOLEAN
    /\ initialized \in BOOLEAN /\ bg_error \in BOOLEAN
    /\ next_epoch \in Nat \ {0}
    /\ l0 \subseteq InstalledFile
    /\ job \in [Jobs -> JobType]

ListInv ==
    /\ \A i \in memlist, m \in 1..Len(content) : i < m => m \in memlist
    /\ num_flush_not_started = Cardinality(Waiting)
    /\ Waiting # {} => imm_flush_needed

Contiguous(S) == \A a, b \in S : \A m \in a..b : m \in S

OwnInv ==
    /\ \A j \in Jobs :
        /\ job[j].pc \in Active => job[j].mems # {}
        /\ job[j].pc \notin Active => job[j].mems = {}
        /\ job[j].mems \subseteq in_progress \ completed
        /\ Contiguous(job[j].mems)
    /\ \A i, j \in Jobs : i # j => job[i].mems \cap job[j].mems = {}
    /\ \A m \in in_progress \ completed : \E j \in Jobs : m \in job[j].mems

\* Distinct flushes have distinct epoch numbers.
EpochInv ==
    /\ \A j \in Jobs : job[j].pc \in Active => 0 < job[j].epoch /\ job[j].epoch < next_epoch
    /\ \A i, j \in Jobs : i # j /\ job[i].pc \in Active /\ job[j].pc \in Active
                              => job[i].epoch # job[j].epoch
    /\ \A m \in completed : batch[m] < next_epoch
    /\ \A j \in Jobs : job[j].pc \in Active => \A m \in completed : batch[m] # job[j].epoch

\* What is committed at once: a prefix of the list, and whole flushes.
BatchOK(list, done, bat, ids) ==
    /\ ids # {} /\ ids \subseteq done
    /\ \A i \in ids, m \in list : m <= i => m \in ids
    /\ \A i \in ids, m \in done : bat[m] = bat[i] => m \in ids
CommitInv ==
    /\ \A j \in Jobs : IF job[j].pc = "commit"
                     THEN BatchOK(memlist, completed, batch, job[j].batch)
                     ELSE job[j].batch = {}
    /\ \A i, j \in Jobs : job[i].pc = "commit" /\ job[j].pc = "commit" => i = j
    /\ commit_in_progress <=> \E j \in Jobs : job[j].pc = "commit"
    /\ \A i \in completed : (\A m \in memlist : i <= m) => commit_in_progress

\* A file of the flush of memtables ids, whose contents are in c.
FileOf(c, f, ids) ==
    /\ f \in InstalledFile
    /\ f.synced \/ SyncMayFail
    /\ \A k \in DOMAIN f.versions : 
          /\ f.versions[k] \in ids
          /\ k \in c[f.versions[k]].puts \cup c[f.versions[k]].range_dels
Has(files, i, k) == \E f \in files : k \in DOMAIN f.versions /\ f.versions[k] >= i
Covers(c, files, i) == \A k \in c[i].puts : Has(files, i, k)

Group(done, bat, h) == {m \in done : bat[m] = bat[h]}
IsHead(done, bat, h) == h \in done /\ (h - 1 \in done => bat[h - 1] # bat[h])
GroupInv ==
    /\ \A a, b \in completed : batch[a] = batch[b] =>
          \A m \in a..b : m \in completed /\ batch[m] = batch[a]
    /\ \A h \in 1..MaxMemtables : \A f \in edit[h] :
          h \in completed /\ FileOf(content, f, Group(completed, batch, h)) /\ f.epoch < next_epoch
    /\ \A i \in completed : \A k \in content[i].puts :
          \E h \in Group(completed, batch, i) :
              IsHead(completed, batch, h) /\ Has(edit[h], i, k)

\* The record of a job in a state with contents c and next epoch number ne.
Building(c, ne, r) ==
    /\ r.files \in Seq(BucketFile)
    /\ r.todo \subseteq DOMAIN r.buckets
    /\ \A n \in DOMAIN r.files : r.epoch <= r.files[n].epoch /\ r.files[n].epoch < ne
    /\ \A i \in r.mems : \A k \in c[i].puts :
          \/ \E b \in r.todo : k \in r.buckets[b]
          \/ \E n \in DOMAIN r.files : k \in r.files[n].keys
Built(c, ne, r) ==
    /\ \A n \in DOMAIN r.files :
          /\ FileOf(c, r.files[n], r.mems)
          /\ r.epoch <= r.files[n].epoch /\ r.files[n].epoch < ne
    /\ \A i \in r.mems : Covers(c, Range(r.files), i)
FilesOK(c, ne, r) ==
    /\ r.pc = "start" => r.files = << >>
    /\ r.pc = "build" => Building(c, ne, r)
    /\ r.pc = "finish" => Built(c, ne, r)
FileInv == \A j \in Jobs : FilesOK(content, next_epoch, job[j])

Installed == (1..Len(content)) \ memlist
L0Inv ==
    /\ \A f \in l0 : FileOf(content, f, Installed) /\ f.epoch < next_epoch
    /\ ~SyncMayFail => \A i \in Installed : Covers(content, l0, i)

IInv == /\ TypeInv /\ ListInv /\ OwnInv /\ EpochInv /\ CommitInv
        /\ GroupInv /\ FileInv /\ L0Inv

-----------------------------------------------------------------------------
(* Helpers.                                                                 *)

(***************************************************************************)
(* Memtables are numbered from one.                                        *)
(***************************************************************************)
LEMMA MemtableIds ==
    ASSUME TypeInv
    PROVE  /\ Len(content) \in Nat /\ Len(content) <= MaxMemtables
           /\ MaxMemtables \in Nat
           /\ memlist \subseteq 1..MaxMemtables /\ memlist \subseteq Nat
           /\ in_progress \subseteq memlist /\ completed \subseteq memlist
           /\ completed \subseteq 1..MaxMemtables
           /\ DOMAIN content = 1..Len(content)
           /\ \A i \in 1..Len(content) : content[i] \in Writes /\ content[i].puts \subseteq Keys
<1>1. Len(content) \in Nat /\ DOMAIN content = 1..Len(content)  BY DEF TypeInv
<1>2. \A i \in 1..Len(content) : content[i] \in Writes  BY DEF TypeInv
<1>3. \A i \in 1..Len(content) : content[i].puts \subseteq Keys
  BY <1>2, WritesAssumption
<1>4. 1..Len(content) \subseteq 1..MaxMemtables  BY <1>1, BoundsAssumption DEF TypeInv
<1>5. memlist \subseteq 1..MaxMemtables /\ memlist \subseteq Nat  BY <1>1, <1>4 DEF TypeInv
<1>. QED  BY <1>1, <1>2, <1>3, <1>4, <1>5, BoundsAssumption DEF TypeInv

(***************************************************************************)
(* What the newest puts of memtables ids to the given keys look like.      *)
(***************************************************************************)
LEMMA PutVersionsProperties ==
    ASSUME TypeInv, NEW ids \in SUBSET (1..Len(content)), NEW keys \in SUBSET Keys
    PROVE  LET vs == PutVersions(ids, keys)
           IN  /\ vs \in Versions
               /\ DOMAIN vs = {x \in keys : \E i \in ids : x \in content[i].puts}
               /\ \A k \in DOMAIN vs : vs[k] \in ids /\ k \in content[vs[k]].puts
               /\ \A i \in ids : \A k \in content[i].puts \cap keys :
                     k \in DOMAIN vs /\ vs[k] >= i
<1>. DEFINE D == {x \in keys : \E i \in ids : x \in content[i].puts}
            M(k) == {i \in ids : k \in content[i].puts}
            vs == PutVersions(ids, keys)
<1>1. Len(content) \in Nat /\ 1..Len(content) \subseteq 1..MaxMemtables
  BY BoundsAssumption DEF TypeInv
<1>2. vs = [k \in D |-> Max(M(k))]  BY DEF PutVersions
<1>. HIDE DEF vs
<1>3. \A k \in D : Max(M(k)) \in M(k) /\ \A y \in M(k) : y <= Max(M(k))
  <2>1. TAKE k \in D
  <2>2. PICK i \in ids : k \in content[i].puts  OBVIOUS
  <2>3. i \in M(k)  BY <2>2
  <2>4. \A y \in M(k) : y \in Nat /\ y <= Len(content)  BY <1>1
  <2>. HIDE DEF M
  <2>5. M(k) \in SUBSET Nat /\ M(k) # {}  BY <2>3, <2>4, Zenon
  <2>. QED  BY <2>4, <2>5, <1>1, MaxProperties, Zenon
<1>4. vs \in [D -> 1..MaxMemtables]  BY <1>1, <1>2, <1>3, Zenon
<1>5. D \in SUBSET Keys  OBVIOUS
<1>6. vs \in Versions  BY <1>4, <1>5, Zenon DEF Versions
<1>7. \A k \in D : vs[k] \in M(k) /\ \A y \in M(k) : y <= vs[k]  BY <1>2, <1>3, Zenon
<1>. QED
  <2>1. DOMAIN vs = D  BY <1>2
  <2>2. \A k \in D : vs[k] \in ids /\ k \in content[vs[k]].puts  BY <1>7
  <2>3. \A i \in ids : \A k \in content[i].puts \cap keys : k \in D /\ vs[k] >= i
    BY <1>1, <1>7
  <2>. QED  BY <1>6, <2>1, <2>2, <2>3 DEF vs
(***************************************************************************)
(* What the newest puts and range deletions of memtables ids look like.    *)
(***************************************************************************)
LEMMA AllVersionsProperties ==
    ASSUME TypeInv, NEW ids \in SUBSET (1..Len(content))
    PROVE  LET vs == AllVersions(ids)
           IN  /\ vs \in Versions
               /\ DOMAIN vs = {x \in Keys : \E i \in ids : Touches(i, x)}
               /\ \A k \in DOMAIN vs : vs[k] \in ids /\ Touches(vs[k], k)
               /\ \A i \in ids : \A k \in content[i].puts :
                     k \in DOMAIN vs /\ vs[k] >= i
<1>. DEFINE D == {x \in Keys : \E i \in ids : Touches(i, x)}
            M(k) == {i \in ids : Touches(i, k)}
            vs == AllVersions(ids)
<1>1. Len(content) \in Nat /\ 1..Len(content) \subseteq 1..MaxMemtables
  BY BoundsAssumption DEF TypeInv
<1>2. vs = [k \in D |-> Max(M(k))]  BY DEF AllVersions
<1>. HIDE DEF vs
<1>3. \A k \in D : Max(M(k)) \in M(k) /\ \A y \in M(k) : y <= Max(M(k))
  <2>1. TAKE k \in D
  <2>2. PICK i \in ids : Touches(i, k)  OBVIOUS
  <2>3. i \in M(k)  BY <2>2
  <2>4. \A y \in M(k) : y \in Nat /\ y <= Len(content)  BY <1>1
  <2>. HIDE DEF M
  <2>5. M(k) \in SUBSET Nat /\ M(k) # {}  BY <2>3, <2>4, Zenon
  <2>. QED  BY <2>4, <2>5, <1>1, MaxProperties, Zenon
<1>4. vs \in [D -> 1..MaxMemtables]  BY <1>1, <1>2, <1>3, Zenon
<1>5. D \in SUBSET Keys  OBVIOUS
<1>6. vs \in Versions  BY <1>4, <1>5, Zenon DEF Versions
<1>7. \A k \in D : vs[k] \in M(k) /\ \A y \in M(k) : y <= vs[k]  BY <1>2, <1>3, Zenon
<1>. QED
  <2>1. DOMAIN vs = D  BY <1>2
  <2>2. \A k \in D : vs[k] \in ids /\ Touches(vs[k], k)  BY <1>7
  <2>3. \A i \in ids : \A k \in content[i].puts : k \in D /\ vs[k] >= i
    <3>. TAKE i \in ids
    <3>. TAKE k \in content[i].puts
    <3>1. k \in Keys /\ Touches(i, k)
      <4>1. content[i] \in Writes  BY DEF TypeInv
      <4>. QED  BY <4>1, WritesAssumption DEF Touches
    <3>2. k \in D /\ i \in M(k)  BY <3>1
    <3>. QED  BY <1>1, <1>7, <3>2
  <2>. QED  BY <1>6, <2>1, <2>2, <2>3 DEF vs

-----------------------------------------------------------------------------
(* The steps of a job between PickMemTable and the end of its flush.        *)

\* The step leaves alone what the other parts of the invariant look at.
SameRole(i) ==
    /\ job'[i].mems = job[i].mems /\ job'[i].batch = job[i].batch
    /\ job'[i].epoch = job[i].epoch
    /\ job'[i].pc \in Active <=> job[i].pc \in Active
    /\ job'[i].pc = "commit" <=> job[i].pc = "commit"

LEMMA FileFields ==
    ASSUME NEW e \in Nat \ {0}, NEW vs \in Versions, NEW s \in BOOLEAN
    PROVE  /\ File(e, vs, s) \in InstalledFile
           /\ File(e, vs, s).epoch = e /\ File(e, vs, s).versions = vs
           /\ File(e, vs, s).synced = s
BY DEF File, InstalledFile

LEMMA DisjointUnion ==
    ASSUME NEW S, NEW T, IsFiniteSet(S), IsFiniteSet(T), S \cap T = {}
    PROVE  Cardinality(S \cup T) = Cardinality(S) + Cardinality(T)
<1>1. Cardinality(S \cup T) = Cardinality(S) + Cardinality(T) - Cardinality(S \cap T)
  BY FS_Union
<1>2. Cardinality(S \cap T) = 0  BY FS_EmptySet
<1>3. Cardinality(S) \in Nat /\ Cardinality(T) \in Nat  BY FS_CardinalityType
<1>. QED  BY <1>1, <1>2, <1>3

(***************************************************************************)
(* Epoch numbers stay distinct while flushes end and memtables leave.      *)
(***************************************************************************)
LEMMA EpochsKept ==
    ASSUME EpochInv, next_epoch' = next_epoch,
           \A m \in completed' : m \in completed /\ batch'[m] = batch[m],
           \A i \in Jobs : job'[i].pc \in Active =>
                             job[i].pc \in Active /\ job'[i].epoch = job[i].epoch
    PROVE  EpochInv'
<1>1. (\A j \in Jobs : job[j].pc \in Active => 0 < job[j].epoch /\ job[j].epoch < next_epoch)'
  BY Zenon DEF EpochInv
<1>2. (\A i, j \in Jobs : i # j /\ job[i].pc \in Active /\ job[j].pc \in Active
                              => job[i].epoch # job[j].epoch)'
  BY Zenon DEF EpochInv
<1>3. (\A m \in completed : batch[m] < next_epoch)'  BY Zenon DEF EpochInv
<1>4. (\A j \in Jobs : job[j].pc \in Active => \A m \in completed : batch[m] # job[j].epoch)'
  BY Zenon DEF EpochInv
<1>. QED  BY <1>1, <1>2, <1>3, <1>4, Zenon DEF EpochInv

(***************************************************************************)
(* A larger next epoch number leaves the groups of flushes as they are.    *)
(***************************************************************************)
LEMMA GroupsKept ==
    ASSUME TypeInv, GroupInv, UNCHANGED <<content, completed, batch, edit>>,
           next_epoch \in Nat, next_epoch' \in Nat, next_epoch <= next_epoch'
    PROVE  GroupInv'
<1>1. (\A a, b \in completed : batch[a] = batch[b] =>
         \A m \in a..b : m \in completed /\ batch[m] = batch[a])'
  <2>1. \A a, b \in completed : batch[a] = batch[b] =>
          \A m \in a..b : m \in completed /\ batch[m] = batch[a]
    BY Zenon DEF GroupInv
  <2>. QED  BY <2>1
<1>2. (\A h \in 1..MaxMemtables : \A f \in edit[h] :
         h \in completed /\ FileOf(content, f, Group(completed, batch, h)))'
  <2>1. \A h \in 1..MaxMemtables : \A f \in edit[h] :
          h \in completed /\ FileOf(content, f, Group(completed, batch, h))
    BY Zenon DEF GroupInv
  <2>. QED  BY <2>1
<1>3. (\A i \in completed : \A k \in content[i].puts :
         \E h \in Group(completed, batch, i) :
            IsHead(completed, batch, h) /\ Has(edit[h], i, k))'
  <2>1. \A i \in completed : \A k \in content[i].puts :
          \E h \in Group(completed, batch, i) :
             IsHead(completed, batch, h) /\ Has(edit[h], i, k)
    BY Zenon DEF GroupInv
  <2>. QED  BY <2>1
<1>4. (\A h \in 1..MaxMemtables : \A f \in edit[h] : f.epoch < next_epoch)'
  <2>1. \A h \in 1..MaxMemtables : \A f \in edit[h] : f.epoch < next_epoch
    BY Zenon DEF GroupInv
  <2>2. \A h \in 1..MaxMemtables : \A f \in edit[h] : f.epoch \in Nat
    BY DEF TypeInv, InstalledFile
  <2>. QED  BY <2>1, <2>2
<1>. QED  BY <1>1, <1>2, <1>3, <1>4, Zenon DEF GroupInv

(***************************************************************************)
(* While a job writes its files the list, the other jobs and L0 stand.     *)
(***************************************************************************)
LEMMA Working ==
    ASSUME IInv, UNCHANGED <<content, listVars, commit_in_progress, l0>>,
           next_epoch' \in Nat, next_epoch <= next_epoch',
           \A i \in Jobs : SameRole(i)
    PROVE  ListInv' /\ OwnInv' /\ EpochInv' /\ CommitInv' /\ GroupInv' /\ L0Inv'
<1>. USE DEF listVars
<1>0. next_epoch \in Nat  BY DEF IInv, TypeInv
<1>1. ListInv'  BY DEF IInv, ListInv, Waiting
<1>2. OwnInv'  BY DEF IInv, OwnInv, SameRole
<1>3. EpochInv'
  <2>1. \A m \in completed : batch[m] \in Nat  BY MemtableIds, Zenon DEF IInv, TypeInv
  <2>2. \A j \in Jobs : job[j].epoch \in Nat  BY DEF IInv, TypeInv, JobType
  <2>3. EpochInv  BY DEF IInv
  <2>. QED  BY <1>0, <2>1, <2>2, <2>3 DEF EpochInv, SameRole
<1>4. CommitInv'  BY DEF IInv, CommitInv, SameRole
<1>5. GroupInv'  BY <1>0, GroupsKept DEF IInv
<1>6. L0Inv'
  <2>1. \A f \in l0 : f.epoch \in Nat  BY DEF IInv, TypeInv, InstalledFile
  <2>. QED  BY <1>0, <2>1 DEF IInv, L0Inv, Installed
<1>. QED  BY <1>1, <1>2, <1>3, <1>4, <1>5, <1>6

(***************************************************************************)
(* What holds of a job's files is not disturbed by new epoch numbers or    *)
(* new memtables.                                                          *)
(***************************************************************************)
LEMMA FilesKept ==
    ASSUME NEW c, NEW d, NEW m \in Nat, NEW n \in Nat, m <= n, NEW r \in JobType,
           FilesOK(c, m, r), \A i \in r.mems : d[i] = c[i]
    PROVE  FilesOK(d, n, r)
<1>1. ASSUME r.pc = "build" PROVE Building(d, n, r)
  <2>1. Building(c, m, r)  BY <1>1 DEF FilesOK
  <2>2. \A k \in DOMAIN r.files : r.files[k].epoch \in Nat
    <3>1. \A k \in DOMAIN r.files : r.files[k] \in BucketFile  BY <2>1 DEF Building
    <3>. QED  BY <3>1 DEF BucketFile
  <2>. QED  BY <2>1, <2>2 DEF Building
<1>2. ASSUME r.pc = "finish" PROVE Built(d, n, r)
  <2>1. Built(c, m, r)  BY <1>2 DEF FilesOK
  <2>2. \A k \in DOMAIN r.files : r.files[k].epoch \in Nat
    BY <2>1 DEF Built, FileOf, InstalledFile
  <2>3. ASSUME NEW k \in DOMAIN r.files  PROVE FileOf(d, r.files[k], r.mems)
    <3>1. FileOf(c, r.files[k], r.mems)  BY <2>1 DEF Built
    <3>. QED  BY <3>1, Zenon DEF FileOf
  <2>4. \A k \in DOMAIN r.files : r.epoch <= r.files[k].epoch /\ r.files[k].epoch < n
    BY <2>1, <2>2 DEF Built
  <2>5. \A i \in r.mems : Covers(d, Range(r.files), i)
    <3>1. \A i \in r.mems : Covers(c, Range(r.files), i)  BY <2>1 DEF Built
    <3>. QED  BY <3>1, Zenon DEF Covers
  <2>. QED  BY <2>3, <2>4, <2>5 DEF Built
<1>. QED  BY <1>1, <1>2 DEF FilesOK

(***************************************************************************)
(* The job's own record is replaced by r; it keeps its memtables.          *)
(***************************************************************************)
LEMMA OwnStep ==
    ASSUME IInv, NEW j \in Jobs, NEW r,
           job' = [job EXCEPT ![j] = r], r \in JobType,
           r.mems = job[j].mems, r.batch = job[j].batch, r.epoch = job[j].epoch,
           job[j].pc \in Active, r.pc \in Active,
           UNCHANGED <<content, listVars, commit_in_progress, l0, bg_error>>,
           initialized' \in BOOLEAN,
           next_epoch' \in Nat \ {0}, next_epoch <= next_epoch',
           FilesOK(content, next_epoch', r)
    PROVE  IInv'
<1>0. job \in [Jobs -> JobType] /\ next_epoch \in Nat  BY DEF IInv, TypeInv
<1>1. job'[j] = r /\ \A i \in Jobs \ {j} : job'[i] = job[i]  BY <1>0
<1>2. \A i \in Jobs : SameRole(i)
  <2>1. "commit" \notin Active  BY DEF Active
  <2>. QED  BY <1>1, <2>1 DEF SameRole
<1>3. ListInv' /\ OwnInv' /\ EpochInv' /\ CommitInv' /\ GroupInv' /\ L0Inv'
  BY <1>2, Working
<1>4. TypeInv'
  <2>1. job' \in [Jobs -> JobType]  BY <1>0
  <2>. QED  BY <2>1 DEF IInv, TypeInv, listVars
<1>5. FileInv'
  <2>1. ASSUME NEW i \in Jobs, i # j
        PROVE  FilesOK(content, next_epoch', job[i])
    <3>1. FilesOK(content, next_epoch, job[i])  BY DEF IInv, FileInv
    <3>2. job[i] \in JobType  BY <1>0
    <3>. QED  BY <1>0, <3>1, <3>2, FilesKept, Zenon
  <2>. QED  BY <1>1, <2>1 DEF FileInv
<1>. QED  BY <1>3, <1>4, <1>5 DEF IInv

LEMMA StartBucketFlushInv ==
    ASSUME IInv, NEW j \in Jobs, StartBucketFlush(j)
    PROVE  IInv'
<1>1. PICK p \in Partitions :
        job' = [job EXCEPT ![j].pc = "build", ![j].buckets = p,
                  ![j].todo = {b \in DOMAIN p : DOMAIN PutVersions(job[j].mems, p[b]) # {}}]
  BY Zenon DEF StartBucketFlush
<1>. DEFINE todo == {b \in DOMAIN p : DOMAIN PutVersions(job[j].mems, p[b]) # {}}
            r == [job[j] EXCEPT !.pc = "build", !.buckets = p, !.todo = todo]
<1>2. job[j] \in JobType /\ job[j].pc = "start" /\ TypeInv
  BY DEF IInv, TypeInv, StartBucketFlush
<1>3. p \in Seq(SUBSET Keys) /\ UNION Range(p) = Keys  BY PartitionsAssumption
<1>4. job' = [job EXCEPT ![j] = r]  BY <1>1, Zenon DEF IInv, TypeInv
<1>5. job[j].mems \in SUBSET (1..Len(content))
  BY <1>2, MemtableIds, Zenon DEF IInv, OwnInv, TypeInv
<1>6. \A i \in job[j].mems : \A k \in content[i].puts : \E b \in todo : k \in p[b]
  <2>. TAKE i \in job[j].mems
  <2>. TAKE k \in content[i].puts
  <2>1. k \in Keys  BY <1>2, <1>5, MemtableIds
  <2>2. PICK b \in DOMAIN p : k \in p[b]  BY <1>3, <2>1 DEF Range
  <2>3. p[b] \in SUBSET Keys  BY <1>3
  <2>4. k \in DOMAIN PutVersions(job[j].mems, p[b])
    BY <1>2, <1>5, <2>2, <2>3, PutVersionsProperties, Zenon
  <2>. QED  BY <2>2, <2>4
<1>7. todo \in SUBSET Nat /\ todo \subseteq DOMAIN p
  <2>1. DOMAIN p \subseteq Nat  BY <1>3
  <2>. QED  BY <2>1
<1>. HIDE DEF todo
<1>8. r \in JobType  BY <1>2, <1>3, <1>7, Zenon DEF JobType, Active
<1>9. FilesOK(content, next_epoch, r)
  <2>1. job[j].files = << >>  BY <1>2 DEF IInv, FileInv, FilesOK
  <2>2. r.files = << >> /\ r.todo = todo /\ r.buckets = p /\ r.mems = job[j].mems
        /\ r.pc = "build"
    BY <1>2, <2>1 DEF JobType
  <2>. HIDE DEF r
  <2>3. Building(content, next_epoch, r)  BY <1>6, <1>7, <2>2 DEF Building
  <2>. QED  BY <2>2, <2>3 DEF FilesOK
<1>10. r.mems = job[j].mems /\ r.batch = job[j].batch /\ r.epoch = job[j].epoch
       /\ r.pc \in Active /\ job[j].pc \in Active
  BY <1>2 DEF JobType, Active
<1>. HIDE DEF r
<1>. QED
  <2>1. UNCHANGED <<content, listVars, commit_in_progress, l0, bg_error>>
    BY DEF StartBucketFlush
  <2>2. initialized' \in BOOLEAN /\ next_epoch' = next_epoch  BY DEF StartBucketFlush
  <2>3. next_epoch' \in Nat \ {0} /\ next_epoch <= next_epoch'  BY <1>2, <2>2 DEF TypeInv
  <2>4. FilesOK(content, next_epoch', r)  BY <1>9, <2>2
  <2>. QED  BY <1>4, <1>8, <1>10, <2>1, <2>2, <2>3, <2>4, OwnStep, Zenon

LEMMA FallBackInv ==
    ASSUME IInv, NEW j \in Jobs, FallBack(j)
    PROVE  IInv'
<1>. DEFINE r == [job[j] EXCEPT !.pc = "regular"]
<1>1. job[j] \in JobType /\ job[j].pc = "start" /\ TypeInv
  BY DEF IInv, TypeInv, FallBack
<1>2. job' = [job EXCEPT ![j] = r]  BY DEF IInv, TypeInv, FallBack
<1>3. r \in JobType /\ r.pc = "regular"  BY <1>1 DEF JobType, Active
<1>4. r.mems = job[j].mems /\ r.batch = job[j].batch /\ r.epoch = job[j].epoch
      /\ r.pc \in Active /\ job[j].pc \in Active
  BY <1>1 DEF JobType, Active
<1>. HIDE DEF r
<1>5. UNCHANGED <<content, listVars, commit_in_progress, l0, bg_error>>  BY DEF FallBack
<1>6. initialized' \in BOOLEAN /\ next_epoch' \in Nat \ {0} /\ next_epoch <= next_epoch'
  BY <1>1 DEF FallBack, TypeInv
<1>7. FilesOK(content, next_epoch', r)  BY <1>3 DEF FilesOK
<1>. QED  BY <1>2, <1>3, <1>4, <1>5, <1>6, <1>7, OwnStep, Zenon

LEMMA AllocateFileInv ==
    ASSUME IInv, NEW j \in Jobs, AllocateFile(j)
    PROVE  IInv'
<1>. DEFINE b == Min(job[j].todo)
            f == [keys |-> job[j].buckets[b], epoch |-> next_epoch, status |-> "new"]
            r == [job[j] EXCEPT !.todo = job[j].todo \ {b}, !.files = Append(job[j].files, f)]
<1>1. job[j] \in JobType /\ job[j].pc = "build" /\ TypeInv /\ job[j].todo # {}
  BY DEF IInv, TypeInv, AllocateFile
<1>2. job' = [job EXCEPT ![j] = r]  BY Zenon DEF IInv, TypeInv, AllocateFile
<1>3. Building(content, next_epoch, job[j])  BY <1>1 DEF IInv, FileInv, FilesOK
<1>4. b \in job[j].todo
  <2>1. job[j].todo \in SUBSET Nat  BY <1>1 DEF JobType
  <2>. QED  BY <1>1, <2>1, MinProperties
<1>5. next_epoch \in Nat \ {0} /\ next_epoch' = next_epoch + 1 /\ next_epoch' \in Nat \ {0}
  BY <1>1 DEF TypeInv, AllocateFile
<1>. HIDE DEF b
<1>6. f \in BucketFile
  <2>1. job[j].buckets[b] \in SUBSET Keys
    <3>1. job[j].buckets \in Seq(SUBSET Keys)  BY <1>1 DEF JobType
    <3>2. b \in DOMAIN job[j].buckets  BY <1>3, <1>4 DEF Building
    <3>. QED  BY <3>1, <3>2
  <2>. QED  BY <1>5, <2>1 DEF BucketFile
<1>7. job[j].files \in Seq(BucketFile)  BY <1>3 DEF Building
<1>8. /\ f.keys = job[j].buckets[b] /\ f.epoch = next_epoch
      /\ job[j].epoch <= next_epoch
  BY <1>1, <1>5 DEF IInv, EpochInv, Active, JobType
<1>. HIDE DEF f
<1>9. /\ r \in JobType /\ r.pc = "build" /\ r.buckets = job[j].buckets
      /\ r.todo = job[j].todo \ {b} /\ r.files = Append(job[j].files, f)
      /\ r.mems = job[j].mems /\ r.batch = job[j].batch /\ r.epoch = job[j].epoch
      /\ r.pc \in Active /\ job[j].pc \in Active
  <2>1. Append(job[j].files, f) \in Seq(BucketFile \cup InstalledFile)  BY <1>6, <1>7
  <2>. QED  BY <1>1, <2>1, Zenon DEF JobType, Active
<1>. HIDE DEF r
<1>10. Building(content, next_epoch', r)
  <2>1. r.files \in Seq(BucketFile) /\ Len(r.files) = Len(job[j].files) + 1
        /\ Len(job[j].files) \in Nat
        /\ r.files[Len(r.files)] = f
        /\ \A n \in 1..Len(job[j].files) : r.files[n] = job[j].files[n]
    BY <1>6, <1>7, <1>9
  <2>2. DOMAIN r.files = 1..Len(r.files) /\ DOMAIN job[j].files = 1..Len(job[j].files)
    BY <2>1, <1>7
  <2>3. \A n \in DOMAIN r.files : r.epoch <= r.files[n].epoch /\ r.files[n].epoch < next_epoch'
    <3>1. \A n \in 1..Len(job[j].files) : job[j].files[n].epoch \in Nat
      <4>1. \A n \in 1..Len(job[j].files) : job[j].files[n] \in BucketFile  BY <1>7
      <4>. QED  BY <4>1 DEF BucketFile
    <3>2. \A n \in DOMAIN job[j].files :
            job[j].epoch <= job[j].files[n].epoch /\ job[j].files[n].epoch < next_epoch
      BY <1>3, Zenon DEF Building
    <3>3. r.epoch = job[j].epoch  BY <1>9
    <3>4. ASSUME NEW n \in 1..Len(job[j].files)
          PROVE  r.epoch <= r.files[n].epoch /\ r.files[n].epoch < next_epoch'
      <4>1. r.files[n] = job[j].files[n]  BY <2>1
      <4>2. PICK e : e = r.files[n].epoch  OBVIOUS
      <4>3. e \in Nat /\ job[j].epoch <= e /\ e < next_epoch  BY <2>2, <3>1, <3>2, <4>1, <4>2
      <4>4. next_epoch \in Nat /\ next_epoch' = next_epoch + 1  BY <1>5
      <4>. QED  BY <3>3, <4>2, <4>3, <4>4
    <3>5. r.epoch <= f.epoch /\ f.epoch < next_epoch'  BY <1>5, <1>8, <3>3
    <3>6. ASSUME NEW n \in DOMAIN r.files  PROVE n \in 1..Len(job[j].files) \/ r.files[n] = f
      BY <2>1, <2>2
    <3>. QED  BY <3>4, <3>5, <3>6, Zenon
  <2>4. ASSUME NEW i \in r.mems, NEW k \in content[i].puts
        PROVE  \/ \E x \in r.todo : k \in r.buckets[x]
               \/ \E n \in DOMAIN r.files : k \in r.files[n].keys
    <3>1. \/ \E x \in job[j].todo : k \in job[j].buckets[x]
          \/ \E n \in DOMAIN job[j].files : k \in job[j].files[n].keys
      BY <1>3, <1>9 DEF Building
    <3>2. ASSUME k \in job[j].buckets[b]
          PROVE  \E n \in DOMAIN r.files : k \in r.files[n].keys
      BY <1>8, <2>1, <2>2, <3>2
    <3>3. ASSUME NEW x \in job[j].todo, k \in job[j].buckets[x], x # b
          PROVE  \E y \in r.todo : k \in r.buckets[y]
      <4>1. x \in r.todo /\ r.buckets = job[j].buckets  BY <1>9, <3>3
      <4>. QED  BY <3>3, <4>1
    <3>4. ASSUME NEW n \in DOMAIN job[j].files, k \in job[j].files[n].keys
          PROVE  \E m \in DOMAIN r.files : k \in r.files[m].keys
      BY <2>1, <2>2, <3>4
    <3>. QED  BY <3>1, <3>2, <3>3, <3>4, Zenon
  <2>. QED  BY <1>3, <1>9, <2>1, <2>3, <2>4 DEF Building
<1>11. FilesOK(content, next_epoch', r)  BY <1>9, <1>10 DEF FilesOK
<1>12. UNCHANGED <<content, listVars, commit_in_progress, l0, bg_error>>
       /\ initialized' \in BOOLEAN /\ next_epoch <= next_epoch'
  BY <1>1, <1>5 DEF AllocateFile, TypeInv
<1>. QED  BY <1>2, <1>5, <1>9, <1>11, <1>12, OwnStep, Zenon

LEMMA BuildBucketInv ==
    ASSUME IInv, NEW j \in Jobs, NEW n \in DOMAIN job[j].files, BuildBucket(j, n)
    PROVE  IInv'
<1>1. PICK result \in {"built", "failed", "aborted"} :
        job' = [job EXCEPT ![j].files[n].status = result]
  BY Zenon DEF BuildBucket
<1>. DEFINE f == [job[j].files[n] EXCEPT !.status = result]
            fs == [job[j].files EXCEPT ![n] = f]
            r == [job[j] EXCEPT !.files = fs]
<1>2. job[j] \in JobType /\ job[j].pc = "build" /\ TypeInv
  BY DEF IInv, TypeInv, BuildBucket
<1>3. job' = [job EXCEPT ![j] = r]
  <2>1. job \in [Jobs -> JobType]  BY DEF IInv, TypeInv
  <2>. QED  BY <1>1, <2>1 DEF JobType
<1>4. Building(content, next_epoch, job[j])  BY <1>2 DEF IInv, FileInv, FilesOK
<1>5. job[j].files \in Seq(BucketFile)  BY <1>4 DEF Building
<1>6. f \in BucketFile /\ f.keys = job[j].files[n].keys /\ f.epoch = job[j].files[n].epoch
  <2>1. job[j].files[n] \in BucketFile  BY <1>5
  <2>. QED  BY <2>1 DEF BucketFile
<1>. HIDE DEF f
<1>7. /\ fs \in Seq(BucketFile) /\ DOMAIN fs = DOMAIN job[j].files /\ fs[n] = f
      /\ \A i \in DOMAIN fs : i # n => fs[i] = job[j].files[i]
  BY <1>5, <1>6
<1>. HIDE DEF fs
<1>8. /\ r \in JobType /\ r.pc = "build" /\ r.buckets = job[j].buckets
      /\ r.todo = job[j].todo /\ r.files = fs
      /\ r.mems = job[j].mems /\ r.batch = job[j].batch /\ r.epoch = job[j].epoch
      /\ r.pc \in Active /\ job[j].pc \in Active
  <2>1. fs \in Seq(BucketFile \cup InstalledFile)  BY <1>7
  <2>. QED  BY <1>2, <2>1, Zenon DEF JobType, Active
<1>. HIDE DEF r
<1>9. Building(content, next_epoch, r)
  <2>1. \A i \in DOMAIN fs : fs[i].keys = job[j].files[i].keys
                             /\ fs[i].epoch = job[j].files[i].epoch
    BY <1>6, <1>7
  <2>. QED  BY <1>4, <1>7, <1>8, <2>1 DEF Building
<1>10. UNCHANGED <<content, listVars, commit_in_progress, l0, bg_error>>
       /\ initialized' \in BOOLEAN /\ next_epoch' = next_epoch
  BY <1>2 DEF BuildBucket, TypeInv
<1>11. next_epoch' \in Nat \ {0} /\ next_epoch <= next_epoch'  BY <1>2, <1>10 DEF TypeInv
<1>12. FilesOK(content, next_epoch', r)  BY <1>8, <1>9, <1>10 DEF FilesOK
<1>. QED  BY <1>3, <1>8, <1>10, <1>11, <1>12, OwnStep, Zenon

LEMMA SyncFilesInv ==
    ASSUME IInv, NEW j \in Jobs, SyncFiles(j)
    PROVE  IInv'
<1>. DEFINE old == job[j].files
            mems == job[j].mems
            file(n, synced) == File(old[n].epoch, PutVersions(mems, old[n].keys), n \in synced)
<1>1. PICK synced \in SyncOutcomes(old) :
        job' = [job EXCEPT
            ![j].pc = IF old = << >> THEN "regular" ELSE "finish",
            ![j].files = [n \in DOMAIN old |-> file(n, synced)]]
  BY Zenon DEF SyncFiles, IInv, TypeInv, JobType
<1>. DEFINE new == [n \in DOMAIN old |-> file(n, synced)]
            pc == IF old = << >> THEN "regular" ELSE "finish"
            r == [job[j] EXCEPT !.pc = pc, !.files = new]
<1>2. job[j] \in JobType /\ job[j].pc = "build" /\ TypeInv /\ job[j].todo = {}
  BY DEF IInv, TypeInv, SyncFiles, BuildsOver
<1>3. job' = [job EXCEPT ![j] = r]
  <2>1. job \in [Jobs -> JobType]  BY DEF IInv, TypeInv
  <2>. QED  BY <1>1, <2>1, Zenon DEF JobType
<1>4. Building(content, next_epoch, job[j])  BY <1>2 DEF IInv, FileInv, FilesOK
<1>5. old \in Seq(BucketFile)  BY <1>4 DEF Building
<1>6. mems \in SUBSET (1..Len(content))
  BY <1>2, MemtableIds, Zenon DEF IInv, OwnInv, TypeInv
<1>7. ASSUME NEW n \in DOMAIN old
      PROVE  /\ FileOf(content, file(n, synced), mems)
             /\ file(n, synced).epoch = old[n].epoch
             /\ \A i \in mems : \A k \in content[i].puts \cap old[n].keys :
                   k \in DOMAIN file(n, synced).versions
                   /\ file(n, synced).versions[k] >= i
  <2>1. old[n].keys \in SUBSET Keys /\ old[n].epoch \in Nat \ {0}
    <3>1. old[n] \in BucketFile  BY <1>5
    <3>. QED  BY <3>1 DEF BucketFile
  <2>. DEFINE ks == old[n].keys
              vs == PutVersions(mems, ks)
  <2>2. /\ vs \in Versions
        /\ \A k \in DOMAIN vs : vs[k] \in mems /\ k \in content[vs[k]].puts
        /\ \A i \in mems : \A k \in content[i].puts \cap ks :
              k \in DOMAIN vs /\ vs[k] >= i
    <3>1. ks \in SUBSET Keys  BY <2>1
    <3>. HIDE DEF ks, mems
    <3>. QED  BY <1>2, <1>6, <3>1, PutVersionsProperties, Zenon
  <2>3. n \in synced \/ SyncMayFail  BY <1>1 DEF SyncOutcomes
  <2>. HIDE DEF vs
  <2>4. /\ file(n, synced).epoch = old[n].epoch /\ file(n, synced).versions = vs
        /\ file(n, synced).synced = (n \in synced)
        /\ file(n, synced) \in InstalledFile
    <3>1. (n \in synced) \in BOOLEAN  OBVIOUS
    <3>2. \A s \in BOOLEAN : LET f == File(old[n].epoch, vs, s) IN
            f \in InstalledFile /\ f.epoch = old[n].epoch /\ f.versions = vs /\ f.synced = s
      BY <2>1, <2>2, FileFields
    <3>3. file(n, synced) = File(old[n].epoch, vs, n \in synced)  BY DEF vs
    <3>. HIDE DEF file
    <3>. QED  BY <3>1, <3>2, <3>3, Zenon
  <2>. HIDE DEF file
  <2>. QED  BY <2>2, <2>3, <2>4, Zenon DEF FileOf
<1>. HIDE DEF file
<1>8. /\ new \in Seq(InstalledFile) /\ DOMAIN new = DOMAIN old
      /\ \A n \in DOMAIN old : new[n] = file(n, synced)
  <2>1. Len(old) \in Nat /\ DOMAIN old = 1..Len(old)  BY <1>5
  <2>2. \A n \in DOMAIN old : file(n, synced) \in InstalledFile  BY <1>7 DEF FileOf
  <2>. QED  BY <2>1, <2>2
<1>. HIDE DEF new
<1>9. /\ r \in JobType /\ r.pc = pc /\ r.files = new
      /\ r.mems = mems /\ r.batch = job[j].batch /\ r.epoch = job[j].epoch
      /\ r.pc \in Active /\ job[j].pc \in Active
  <2>1. new \in Seq(BucketFile \cup InstalledFile)  BY <1>8
  <2>. QED  BY <1>2, <2>1, Zenon DEF JobType, Active
<1>. HIDE DEF r
<1>10. Built(content, next_epoch, r)
  <2>1. ASSUME NEW n \in DOMAIN r.files
        PROVE  /\ FileOf(content, r.files[n], r.mems)
               /\ r.epoch <= r.files[n].epoch /\ r.files[n].epoch < next_epoch
    BY <1>4, <1>7, <1>8, <1>9 DEF Building
  <2>2. ASSUME NEW i \in r.mems, NEW k \in content[i].puts
        PROVE  Has(Range(r.files), i, k)
    <3>1. PICK n \in DOMAIN old : k \in old[n].keys  BY <1>2, <1>4, <1>9 DEF Building
    <3>2. r.files[n] \in Range(r.files)  BY <1>8, <1>9, <3>1 DEF Range
    <3>. QED  BY <1>7, <1>8, <1>9, <3>1, <3>2 DEF Has
  <2>. QED  BY <2>1, <2>2 DEF Built, Covers
<1>11. UNCHANGED <<content, listVars, commit_in_progress, l0, bg_error>>
       /\ initialized' \in BOOLEAN /\ next_epoch' = next_epoch
  BY <1>2 DEF SyncFiles, TypeInv
<1>12. next_epoch' \in Nat \ {0} /\ next_epoch <= next_epoch'  BY <1>2, <1>11 DEF TypeInv
<1>13. FilesOK(content, next_epoch', r)  BY <1>9, <1>10, <1>11 DEF FilesOK
<1>. QED  BY <1>3, <1>9, <1>11, <1>12, <1>13, OwnStep, Zenon

LEMMA WriteLevel0TableInv ==
    ASSUME IInv, NEW j \in Jobs, WriteLevel0Table(j)
    PROVE  IInv'
<1>. DEFINE mems == job[j].mems
            vs == AllVersions(mems)
            f == File(job[j].epoch, vs, TRUE)
            r == [job[j] EXCEPT !.pc = "finish", !.files = <<f>>]
<1>1. job[j] \in JobType /\ job[j].pc = "regular" /\ TypeInv
  BY DEF IInv, TypeInv, WriteLevel0Table
<1>2. job' = [job EXCEPT ![j] = r]
  <2>1. job \in [Jobs -> JobType]  BY DEF IInv, TypeInv
  <2>. QED  BY <2>1, Zenon DEF JobType, WriteLevel0Table
<1>3. mems \in SUBSET (1..Len(content))
  BY <1>1, MemtableIds, Zenon DEF IInv, OwnInv, TypeInv
<1>4. /\ vs \in Versions
      /\ \A k \in DOMAIN vs : vs[k] \in mems /\ Touches(vs[k], k)
      /\ \A i \in mems : \A k \in content[i].puts : k \in DOMAIN vs /\ vs[k] >= i
  <2>. HIDE DEF mems
  <2>. QED  BY <1>1, <1>3, AllVersionsProperties, Zenon
<1>5. job[j].epoch \in Nat \ {0} /\ job[j].epoch < next_epoch
  BY <1>1 DEF IInv, EpochInv, Active, JobType
<1>. HIDE DEF vs
<1>6. /\ f.epoch = job[j].epoch /\ f.versions = vs /\ f.synced = TRUE
      /\ f \in InstalledFile
  BY <1>4, <1>5 DEF File, InstalledFile
<1>. HIDE DEF f
<1>7. FileOf(content, f, mems)
  BY <1>4, <1>6 DEF FileOf, Touches
<1>8. /\ r \in JobType /\ r.pc = "finish" /\ r.files = <<f>>
      /\ r.mems = mems /\ r.batch = job[j].batch /\ r.epoch = job[j].epoch
      /\ r.pc \in Active /\ job[j].pc \in Active
  <2>1. <<f>> \in Seq(BucketFile \cup InstalledFile)  BY <1>6
  <2>. QED  BY <1>1, <2>1, Zenon DEF JobType, Active
<1>. HIDE DEF r
<1>9. Built(content, next_epoch, r)
  <2>1. DOMAIN r.files = {1} /\ r.files[1] = f  BY <1>8
  <2>2. f \in Range(r.files)  BY <2>1 DEF Range
  <2>3. \A i \in r.mems : Covers(content, Range(r.files), i)
    BY <1>4, <1>6, <1>8, <2>2 DEF Covers, Has
  <2>4. job[j].epoch <= job[j].epoch  BY <1>5
  <2>. QED  BY <1>5, <1>6, <1>7, <1>8, <2>1, <2>3, <2>4 DEF Built
<1>10. UNCHANGED <<content, listVars, commit_in_progress, l0, bg_error>>
       /\ initialized' \in BOOLEAN /\ next_epoch' = next_epoch
  BY <1>1 DEF WriteLevel0Table, TypeInv
<1>11. next_epoch' \in Nat \ {0} /\ next_epoch <= next_epoch'  BY <1>1, <1>10 DEF TypeInv
<1>12. FilesOK(content, next_epoch', r)  BY <1>8, <1>9, <1>10 DEF FilesOK
<1>. QED  BY <1>2, <1>8, <1>10, <1>11, <1>12, OwnStep, Zenon

LEMMA FlushFailsInv ==
    ASSUME IInv, NEW j \in Jobs, FlushFails(j)
    PROVE  IInv'
<1>. DEFINE r == [job[j] EXCEPT !.pc = "failed"]
<1>1. job[j] \in JobType /\ job[j].pc \in {"regular", "build"} /\ TypeInv
  BY DEF IInv, TypeInv, FlushFails, BuildsOver
<1>2. job' = [job EXCEPT ![j] = r]  BY DEF IInv, TypeInv, FlushFails
<1>3. r \in JobType /\ r.pc = "failed"  BY <1>1 DEF JobType, Active
<1>4. r.mems = job[j].mems /\ r.batch = job[j].batch /\ r.epoch = job[j].epoch
      /\ r.pc \in Active /\ job[j].pc \in Active
  BY <1>1 DEF JobType, Active
<1>. HIDE DEF r
<1>5. UNCHANGED <<content, listVars, commit_in_progress, l0, bg_error>>  BY DEF FlushFails
<1>6. initialized' \in BOOLEAN /\ next_epoch' \in Nat \ {0} /\ next_epoch <= next_epoch'
  BY <1>1 DEF FlushFails, TypeInv
<1>7. FilesOK(content, next_epoch', r)  BY <1>3 DEF FilesOK
<1>. QED  BY <1>2, <1>3, <1>4, <1>5, <1>6, <1>7, OwnStep, Zenon

-----------------------------------------------------------------------------
(* The list: a new memtable, and a job that takes the oldest.               *)

LEMMA SwitchMemtableInv ==
    ASSUME IInv, SwitchMemtable
    PROVE  IInv'
<1>. DEFINE L == Len(content)
<1>0. TypeInv  BY DEF IInv
<1>1. /\ L \in Nat /\ L < MaxMemtables /\ MaxMemtables \in Nat
      /\ memlist \in SUBSET (1..L) /\ completed \subseteq memlist /\ in_progress \subseteq memlist
  BY <1>0, MemtableIds DEF SwitchMemtable, TypeInv
<1>2. /\ content' \in Seq(Writes) /\ Len(content') = L + 1
      /\ \A i \in 1..L : content'[i] = content[i]
  BY <1>0 DEF SwitchMemtable, TypeInv
<1>3. memlist' = memlist \cup {L + 1} /\ L + 1 \notin memlist
  BY <1>1, <1>2 DEF SwitchMemtable
<1>4. UNCHANGED <<in_progress, completed, edit, batch, commit_in_progress, next_epoch,
                  l0, initialized, bg_error, job>>
  BY DEF SwitchMemtable
<1>. HIDE DEF L
<1>5. TypeInv'
  <2>1. imm_flush_needed' \in BOOLEAN  BY <1>0 DEF SwitchMemtable, TypeInv
  <2>2. Len(content') <= MaxMemtables /\ memlist' \subseteq 1..Len(content')
    BY <1>1, <1>2, <1>3
  <2>. QED  BY <1>0, <1>1, <1>2, <1>3, <1>4, <2>1, <2>2 DEF TypeInv
<1>6. ListInv'
  <2>1. \A i \in memlist', m \in 1..Len(content') : i < m => m \in memlist'
    <3>1. \A i \in memlist, m \in 1..L : i < m => m \in memlist  BY DEF IInv, ListInv, L
    <3>. QED  BY <1>1, <1>2, <1>3, <3>1
  <2>2. Waiting' = Waiting \cup {L + 1} /\ L + 1 \notin Waiting
    BY <1>1, <1>3, <1>4 DEF Waiting
  <2>3. IsFiniteSet(Waiting) /\ Cardinality(Waiting) \in Nat
    <3>1. Waiting \in SUBSET (1..L)  BY <1>1 DEF Waiting
    <3>. QED  BY <1>1, <3>1, IndexSets
  <2>4. Cardinality(Waiting') = Cardinality(Waiting) + 1
    BY <2>2, <2>3, FS_AddElement
  <2>5. num_flush_not_started' = num_flush_not_started + 1
        /\ num_flush_not_started = Cardinality(Waiting)
        /\ imm_flush_needed' = (imm_flush_needed \/ num_flush_not_started' = 1)
    BY DEF IInv, ListInv, SwitchMemtable
  <2>6. Waiting = {} => num_flush_not_started' = 1  BY <2>5, FS_EmptySet
  <2>7. imm_flush_needed'  BY <2>5, <2>6, Zenon DEF IInv, ListInv
  <2>. QED  BY <2>1, <2>4, <2>5, <2>7 DEF ListInv
<1>7. OwnInv' /\ EpochInv'  BY <1>4 DEF IInv, OwnInv, EpochInv
<1>8. CommitInv'
  <2>1. CommitInv  BY DEF IInv
  <2>2. ASSUME NEW j \in Jobs, BatchOK(memlist, completed, batch, job[j].batch)
        PROVE  BatchOK(memlist', completed, batch, job[j].batch)
    <3>1. job[j].batch \subseteq 1..L  BY <2>2, <1>1, Zenon DEF BatchOK
    <3>2. \A i \in job[j].batch : ~(L + 1 <= i)  BY <1>1, <3>1
    <3>. QED  BY <2>2, <1>3, <3>2 DEF BatchOK
  <2>. QED  BY <1>3, <1>4, <2>1, <2>2 DEF CommitInv
<1>9. \A f, ids : ids \subseteq 1..L /\ FileOf(content, f, ids) => FileOf(content', f, ids)
  BY <1>2, Zenon DEF FileOf
<1>10. GroupInv'
  <2>1. GroupInv  BY DEF IInv
  <2>2. \A h : Group(completed, batch, h) \subseteq 1..L  BY <1>1, Zenon DEF Group
  <2>3. \A i \in completed : content'[i] = content[i]  BY <1>1, <1>2
  <2>4. (\A h \in 1..MaxMemtables : \A f \in edit[h] :
           h \in completed /\ FileOf(content, f, Group(completed, batch, h)) /\ f.epoch < next_epoch)'
    <3>1. \A h \in 1..MaxMemtables : \A f \in edit[h] :
            h \in completed /\ FileOf(content, f, Group(completed, batch, h)) /\ f.epoch < next_epoch
      BY <2>1, Zenon DEF GroupInv
    <3>. QED  BY <1>4, <1>9, <2>2, <3>1
  <2>5. (\A i \in completed : \A k \in content[i].puts :
           \E h \in Group(completed, batch, i) :
              IsHead(completed, batch, h) /\ Has(edit[h], i, k))'
    <3>1. \A i \in completed : \A k \in content[i].puts :
            \E h \in Group(completed, batch, i) :
               IsHead(completed, batch, h) /\ Has(edit[h], i, k)
      BY <2>1, Zenon DEF GroupInv
    <3>. QED  BY <1>4, <2>3, <3>1
  <2>6. (\A a, b \in completed : batch[a] = batch[b] =>
           \A m \in a..b : m \in completed /\ batch[m] = batch[a])'
    <3>1. \A a, b \in completed : batch[a] = batch[b] =>
            \A m \in a..b : m \in completed /\ batch[m] = batch[a]
      BY <2>1, Zenon DEF GroupInv
    <3>. QED  BY <1>4, <3>1
  <2>. QED  BY <2>4, <2>5, <2>6, Zenon DEF GroupInv
<1>11. FileInv'
  <2>. SUFFICES ASSUME NEW j \in Jobs PROVE FilesOK(content', next_epoch, job[j])
    BY <1>4 DEF FileInv
  <2>1. FilesOK(content, next_epoch, job[j])  BY DEF IInv, FileInv
  <2>2. job[j] \in JobType /\ next_epoch \in Nat  BY <1>0 DEF TypeInv
  <2>3. \A i \in job[j].mems : content'[i] = content[i]
    <3>1. job[j].mems \subseteq 1..L  BY <1>1, Zenon DEF IInv, OwnInv
    <3>. QED  BY <1>2, <3>1
  <2>4. next_epoch <= next_epoch  BY <2>2
  <2>. QED  BY <2>1, <2>2, <2>3, <2>4, FilesKept
<1>12. L0Inv'
  <2>1. Installed' = Installed /\ Installed \subseteq 1..L
    BY <1>1, <1>2, <1>3 DEF Installed, L
  <2>2. \A i \in Installed : content'[i] = content[i]  BY <1>2, <2>1
  <2>3. L0Inv  BY DEF IInv
  <2>. QED  BY <1>4, <1>9, <2>1, <2>2, <2>3 DEF L0Inv, Covers
<1>. QED  BY <1>5, <1>6, <1>7, <1>8, <1>10, <1>11, <1>12 DEF IInv

(***************************************************************************)
(* The files of the other jobs stand.                                      *)
(***************************************************************************)
LEMMA OtherFiles ==
    ASSUME IInv, NEW j \in Jobs, content' = content,
           \A i \in Jobs \ {j} : job'[i] = job[i],
           next_epoch' \in Nat, next_epoch <= next_epoch',
           FilesOK(content, next_epoch', job'[j])
    PROVE  FileInv'
<1>. SUFFICES ASSUME NEW i \in Jobs, i # j PROVE FilesOK(content, next_epoch', job[i])
  BY DEF FileInv
<1>1. FilesOK(content, next_epoch, job[i])  BY DEF IInv, FileInv
<1>2. job[i] \in JobType /\ next_epoch \in Nat  BY DEF IInv, TypeInv
<1>. QED  BY <1>1, <1>2, FilesKept

(***************************************************************************)
(* PickMemtablesToFlush takes neighbours.                                  *)
(***************************************************************************)
LEMMA PickableProperties ==
    ASSUME IInv
    PROVE  Pickable \subseteq Waiting /\ Contiguous(Pickable)
<1>1. Pickable \subseteq Waiting  BY DEF Pickable
<1>2. ASSUME NEW a \in Pickable, NEW b \in Pickable, NEW m \in a..b
      PROVE  m \in Pickable
  <2>1. /\ Len(content) \in Nat /\ memlist \subseteq 1..Len(content)
        /\ in_progress \subseteq memlist
    BY MemtableIds DEF IInv, TypeInv
  <2>2. Waiting \in SUBSET Nat /\ Waiting # {}  BY <1>1, <1>2, <2>1 DEF Waiting
  <2>3. PICK w \in Waiting : w = Min(Waiting) /\ \A x \in Waiting : w <= x
    BY <2>2, MinProperties, Zenon
  <2>4. /\ a \in Waiting /\ b \in Waiting
        /\ \A i \in in_progress : i < w \/ i > b
    BY <1>1, <1>2, <2>3 DEF Pickable
  <2>5. a \in 1..Len(content) /\ b \in 1..Len(content) /\ w \in Nat /\ w <= a
    <3>1. \A x \in Waiting : x \in 1..Len(content) /\ x \in Nat  BY <2>1 DEF Waiting
    <3>. QED  BY <2>3, <2>4, <3>1
  <2>6. m \in memlist
    <3>1. a \in memlist  BY <2>4 DEF Waiting
    <3>2. m \in 1..Len(content) /\ (a < m \/ a = m)  BY <2>1, <2>5
    <3>. QED  BY <3>1, <3>2 DEF IInv, ListInv
  <2>7. m \notin in_progress  BY <2>4, <2>5
  <2>8. \A i \in in_progress : i \in Nat  BY <2>1
  <2>9. \A i \in in_progress : i < w \/ i > m  BY <2>4, <2>5, <2>8
  <2>. QED  BY <2>3, <2>6, <2>7, <2>9 DEF Pickable, Waiting
<1>. QED  BY <1>1, <1>2 DEF Contiguous

LEMMA IdleJobType ==
    /\ IdleJob \in JobType /\ IdleJob.pc = "idle" /\ IdleJob.mems = {}
    /\ IdleJob.batch = {} /\ IdleJob.files = << >>
<1>1. FALSE \in BOOLEAN /\ 0 \in Nat /\ {} \in SUBSET (1..MaxMemtables)
      /\ {} \in SUBSET Nat /\ << >> \in Seq(SUBSET Keys)
      /\ << >> \in Seq(BucketFile \cup InstalledFile)
  OBVIOUS
<1>. QED  BY <1>1 DEF IdleJob, JobType

LEMMA PickMemTableInv ==
    ASSUME IInv, NEW j \in Jobs, PickMemTable(j)
    PROVE  IInv'
<1>. DEFINE P == Pickable
            e == (l0 = {})
            r == [IdleJob EXCEPT !.pc = "start", !.mems = P, !.epoch = next_epoch,
                                 !.l0_empty = e]
<1>0. TypeInv /\ job[j].pc = "idle"  BY DEF IInv, PickMemTable
<1>1. P \subseteq Waiting /\ Contiguous(P) /\ P # {}
  BY PickableProperties DEF PickMemTable
<1>2. job' = [job EXCEPT ![j] = r]  BY DEF PickMemTable
<1>3. /\ in_progress' = in_progress \cup P
      /\ num_flush_not_started' = num_flush_not_started - Cardinality(P)
      /\ imm_flush_needed' = (num_flush_not_started' # 0)
      /\ next_epoch' = next_epoch + 1 /\ next_epoch \in Nat \ {0}
  BY <1>0 DEF PickMemTable, TypeInv
<1>4. UNCHANGED <<content, memlist, completed, edit, batch, commit_in_progress, l0,
                  initialized, bg_error>>
  BY DEF PickMemTable
<1>. HIDE DEF P
<1>5. /\ P \subseteq memlist /\ P \cap in_progress = {}
      /\ memlist \subseteq 1..MaxMemtables /\ MaxMemtables \in Nat
      /\ completed \subseteq in_progress /\ in_progress \subseteq memlist
  BY <1>0, <1>1, MemtableIds DEF Waiting, TypeInv
<1>6. /\ r \in JobType /\ r.pc = "start" /\ r.mems = P /\ r.epoch = next_epoch
      /\ r.batch = {} /\ r.files = << >>
  <2>1. e \in BOOLEAN /\ P \in SUBSET (1..MaxMemtables)  BY <1>5
  <2>. HIDE DEF e
  <2>2. IdleJob \in JobType /\ IdleJob.batch = {} /\ IdleJob.files = << >>
    BY IdleJobType
  <2>. QED  BY <1>3, <2>1, <2>2, Zenon DEF JobType, Active
<1>. HIDE DEF r
<1>7. /\ job \in [Jobs -> JobType] /\ job' \in [Jobs -> JobType] /\ job'[j] = r
      /\ \A i \in Jobs \ {j} : job'[i] = job[i]
  BY <1>0, <1>2, <1>6 DEF TypeInv
<1>8. TypeInv'
  <2>1. imm_flush_needed' \in BOOLEAN /\ next_epoch' \in Nat \ {0}  BY <1>3
  <2>. QED  BY <1>0, <1>3, <1>4, <1>5, <1>7, <2>1 DEF TypeInv
<1>9. ListInv'
  <2>1. Waiting' = Waiting \ P  BY <1>3, <1>4 DEF Waiting
  <2>2. IsFiniteSet(Waiting) /\ IsFiniteSet(P)
    <3>1. Waiting \in SUBSET (1..MaxMemtables) /\ P \in SUBSET (1..MaxMemtables)
      BY <1>5 DEF Waiting
    <3>. QED  BY <1>5, <3>1, IndexSets
  <2>3. Waiting \cap P = P  BY <1>1
  <2>4. /\ IsFiniteSet(Waiting')
        /\ Cardinality(Waiting') = Cardinality(Waiting) - Cardinality(P)
    BY <2>1, <2>2, <2>3, FS_Difference
  <2>5. num_flush_not_started' = Cardinality(Waiting')
    BY <1>3, <2>4 DEF IInv, ListInv
  <2>6. Waiting' # {} => imm_flush_needed'  BY <1>3, <2>4, <2>5, FS_EmptySet, Zenon
  <2>. QED  BY <1>4, <2>5, <2>6 DEF IInv, ListInv
<1>10. OwnInv'
  <2>1. OwnInv  BY DEF IInv
  <2>2. job[j].mems = {}  BY <1>0, <2>1 DEF OwnInv, Active
  <2>3. r.pc \in Active  BY <1>6 DEF Active
  <2>4. P \subseteq in_progress' \ completed'  BY <1>3, <1>4, <1>5
  <2>5. in_progress \ completed \subseteq in_progress' \ completed'
    BY <1>3, <1>4, <1>5
  <2>6. in_progress' \ completed' \subseteq P \cup (in_progress \ completed)
    BY <1>3, <1>4, <1>5
  <2>7. \A i \in Jobs : job[i].mems \subseteq in_progress \ completed
                        /\ job[i].mems \cap P = {}
    BY <1>5, <2>1, Zenon DEF OwnInv
  <2>8. ASSUME NEW i \in Jobs
        PROVE  /\ job'[i].pc \in Active => job'[i].mems # {}
               /\ job'[i].pc \notin Active => job'[i].mems = {}
               /\ job'[i].mems \subseteq in_progress' \ completed'
               /\ Contiguous(job'[i].mems)
    BY <1>1, <1>6, <1>7, <2>1, <2>3, <2>4, <2>5, <2>7 DEF OwnInv
  <2>9. \A i, h \in Jobs : i # h => job'[i].mems \cap job'[h].mems = {}
    BY <1>6, <1>7, <2>1, <2>7 DEF OwnInv
  <2>10. \A m \in in_progress' \ completed' : \E i \in Jobs : m \in job'[i].mems
    BY <1>6, <1>7, <2>1, <2>2, <2>6 DEF OwnInv
  <2>. QED  BY <2>8, <2>9, <2>10 DEF OwnInv
<1>11. EpochInv'
  <2>1. EpochInv  BY DEF IInv
  <2>2. \A m \in completed : batch[m] \in Nat  BY <1>0, <1>5 DEF TypeInv
  <2>3. \A i \in Jobs : job[i].epoch \in Nat  BY <1>7 DEF JobType
  <2>4. \A i \in Jobs \ {j} : job'[i].pc \in Active => 0 < job'[i].epoch /\ job'[i].epoch < next_epoch
    BY <1>7, <2>1, Zenon DEF EpochInv
  <2>5. \A m \in completed' : batch'[m] < next_epoch /\ batch'[m] \in Nat
    BY <1>4, <2>1, <2>2, Zenon DEF EpochInv
  <2>6. \A i \in Jobs : job'[i].pc \in Active => 0 < job'[i].epoch /\ job'[i].epoch < next_epoch'
    <3>1. 0 < job'[j].epoch /\ job'[j].epoch < next_epoch'  BY <1>3, <1>6, <1>7
    <3>2. \A i \in Jobs \ {j} : job'[i].epoch \in Nat  BY <1>7, <2>3
    <3>. QED  BY <1>3, <2>4, <3>1, <3>2
  <2>7. \A i, h \in Jobs : i # h /\ job'[i].pc \in Active /\ job'[h].pc \in Active
                                 => job'[i].epoch # job'[h].epoch
    <3>1. \A i \in Jobs \ {j} : job'[i].pc \in Active => job'[i].epoch # job'[j].epoch
      <4>1. \A i \in Jobs \ {j} : job'[i].epoch \in Nat  BY <1>7, <2>3
      <4>. QED  BY <1>3, <1>6, <1>7, <2>4, <4>1
    <3>2. \A i, h \in Jobs \ {j} : i # h /\ job'[i].pc \in Active /\ job'[h].pc \in Active
                                          => job'[i].epoch # job'[h].epoch
      BY <1>7, <2>1, Zenon DEF EpochInv
    <3>. QED  BY <3>1, <3>2
  <2>8. \A i \in Jobs : job'[i].pc \in Active => \A m \in completed' : batch'[m] # job'[i].epoch
    <3>1. \A m \in completed' : batch'[m] # job'[j].epoch  BY <1>3, <1>6, <1>7, <2>5
    <3>2. \A i \in Jobs \ {j} : job'[i].pc \in Active =>
             \A m \in completed' : batch'[m] # job'[i].epoch
      BY <1>4, <1>7, <2>1, Zenon DEF EpochInv
    <3>. QED  BY <3>1, <3>2
  <2>9. \A m \in completed' : batch'[m] < next_epoch'  BY <1>3, <2>5
  <2>. QED  BY <2>6, <2>7, <2>8, <2>9, Zenon DEF EpochInv
<1>12. CommitInv'
  <2>1. CommitInv  BY DEF IInv
  <2>. QED  BY <1>0, <1>4, <1>6, <1>7, <2>1 DEF CommitInv
<1>13. GroupInv'
  <2>1. next_epoch' \in Nat /\ next_epoch <= next_epoch'  BY <1>3
  <2>. QED  BY <1>0, <1>3, <1>4, <2>1, GroupsKept DEF IInv
<1>14. FileInv'
  <2>1. next_epoch' \in Nat /\ next_epoch <= next_epoch'  BY <1>3
  <2>2. FilesOK(content, next_epoch', job'[j])  BY <1>6, <1>7 DEF FilesOK
  <2>. QED  BY <1>4, <1>7, <2>1, <2>2, OtherFiles
<1>15. L0Inv'
  <2>1. \A f \in l0 : f.epoch \in Nat  BY <1>0 DEF TypeInv, InstalledFile
  <2>2. L0Inv /\ Installed' = Installed  BY <1>4 DEF IInv, Installed
  <2>3. \A f \in l0 : f.epoch < next_epoch'  BY <1>3, <2>1, <2>2 DEF L0Inv
  <2>. QED  BY <1>4, <2>2, <2>3 DEF L0Inv
<1>. QED  BY <1>8, <1>9, <1>10, <1>11, <1>12, <1>13, <1>14, <1>15 DEF IInv

-----------------------------------------------------------------------------
(* The end of a flush.                                                      *)

\* The memtables of a flush are neighbours.
Grouped(done, bat) ==
    \A a, b \in done : bat[a] = bat[b] => \A m \in a..b : m \in done /\ bat[m] = bat[a]

(***************************************************************************)
(* What the loop of TryInstallMemtableFlushResults commits next is a       *)
(* prefix of the list that holds whole flushes.                            *)
(***************************************************************************)
LEMMA Committable ==
    ASSUME NEW list \in SUBSET Nat, NEW done \in SUBSET list, NEW bat, Grouped(done, bat)
    PROVE  LET ids == CommittableOf(list, done)
           IN  /\ ids \subseteq done
               /\ ids # {} => BatchOK(list, done, bat, ids)
               /\ \A i \in done : (\A m \in list : i <= m) => i \in ids
<1>. DEFINE ids == CommittableOf(list, done)
<1>1. \A m : m \in ids <=> m \in list /\ \A i \in list : i <= m => i \in done
  BY DEF CommittableOf
<1>. HIDE DEF ids
<1>2. ids \subseteq done
  <2>1. \A m \in ids : m \in list /\ m \in Nat  BY <1>1, Zenon
  <2>2. \A m \in ids : m <= m  BY <2>1
  <2>. QED  BY <1>1, <2>1, <2>2
<1>3. \A i \in ids, m \in list : m <= i => m \in ids
  <2>. TAKE i \in ids, m \in list
  <2>. HAVE m <= i
  <2>1. i \in Nat /\ m \in Nat /\ \A x \in list : x \in Nat  BY <1>1, Zenon
  <2>2. \A x \in list : x <= m => x <= i  BY <2>1
  <2>. QED  BY <1>1, <2>2
<1>4. ASSUME NEW i \in ids, NEW m \in done, bat[m] = bat[i]
      PROVE  m \in ids
  <2>1. i \in done /\ i \in Nat /\ m \in Nat  BY <1>2
  <2>2. \A x \in i..m : x \in done  BY <1>4, <2>1 DEF Grouped
  <2>3. ASSUME NEW x \in list, x <= m PROVE x \in done
    <3>1. x <= i \/ x \in i..m  BY <2>1, <2>3
    <3>. QED  BY <1>1, <2>2, <3>1
  <2>. QED  BY <1>1, <2>3
<1>5. \A i \in done : (\A m \in list : i <= m) => i \in ids
  <2>. TAKE i \in done
  <2>. HAVE \A m \in list : i <= m
  <2>1. \A m \in list : m <= i => m = i  OBVIOUS
  <2>. QED  BY <1>1, <2>1
<1>. QED  BY <1>2, <1>3, <1>4, <1>5 DEF BatchOK, ids

LEMMA CommitOrLeaveJob ==
    ASSUME NEW j \in Jobs, job \in [Jobs -> JobType], NEW list \in SUBSET (1..MaxMemtables),
           NEW done, CommitOrLeave(j, list, done)
    PROVE  LET ids == CommittableOf(list, done)
           IN  /\ job' \in [Jobs -> JobType]
               /\ \A i \in Jobs \ {j} : job'[i] = job[i]
               /\ job'[j].mems = {} /\ job'[j].batch = ids
               /\ job'[j].pc = IF ids = {} THEN "idle" ELSE "commit"
<1>. DEFINE ids == CommittableOf(list, done)
            r == [IdleJob EXCEPT !.pc = "commit", !.batch = ids]
<1>1. ids \in SUBSET (1..MaxMemtables)  BY Zenon DEF CommittableOf
<1>2. IF ids = {} THEN job' = [job EXCEPT ![j] = IdleJob] ELSE job' = [job EXCEPT ![j] = r]
  BY DEF CommitOrLeave
<1>. HIDE DEF ids
<1>3. r \in JobType /\ r.pc = "commit" /\ r.batch = ids /\ r.mems = {}
  BY <1>1, IdleJobType, Zenon DEF JobType
<1>. HIDE DEF r
<1>4. CASE ids = {}
  <2>1. job' = [job EXCEPT ![j] = IdleJob]  BY <1>2, <1>4
  <2>2. job'[j] = IdleJob /\ job' \in [Jobs -> JobType]  BY <2>1, IdleJobType
  <2>. QED  BY <1>4, <2>1, <2>2, IdleJobType DEF ids
<1>5. CASE ids # {}
  <2>1. job' = [job EXCEPT ![j] = r]  BY <1>2, <1>5
  <2>2. job'[j] = r /\ job' \in [Jobs -> JobType]  BY <2>1, <1>3
  <2>. QED  BY <1>3, <1>5, <2>1, <2>2 DEF ids
<1>. QED  BY <1>4, <1>5

(***************************************************************************)
(* A completed flush is a new group of memtables next to the others.       *)
(***************************************************************************)
LEMMA GroupAdded ==
    ASSUME IInv, NEW j \in Jobs, job[j].pc = "finish",
           completed' = completed \cup job[j].mems,
           edit' = [edit EXCEPT ![Min(job[j].mems)] = Range(job[j].files)],
           batch' = [i \in DOMAIN batch |-> IF i \in job[j].mems THEN job[j].epoch ELSE batch[i]],
           UNCHANGED <<content, next_epoch>>
    PROVE  GroupInv' /\ edit' \in [1..MaxMemtables -> SUBSET InstalledFile]
           /\ batch' \in [1..MaxMemtables -> Nat]
<1>. DEFINE M == job[j].mems
            e == job[j].epoch
            h0 == Min(M)
            fs == Range(job[j].files)
<1>0. TypeInv /\ job[j] \in JobType /\ job[j].pc \in Active  BY DEF IInv, TypeInv, Active
<1>1. /\ M # {} /\ M \subseteq 1..MaxMemtables /\ M \cap completed = {} /\ Contiguous(M)
      /\ completed \subseteq 1..MaxMemtables
  BY <1>0, MemtableIds DEF IInv, OwnInv
<1>2. e \in Nat /\ e < next_epoch /\ \A m \in completed : batch[m] # e
  BY <1>0 DEF IInv, EpochInv, JobType
<1>3. /\ \A f \in fs : FileOf(content, f, M) /\ f.epoch < next_epoch
      /\ \A i \in M : Covers(content, fs, i)
  <2>1. Built(content, next_epoch, job[j])  BY Zenon DEF IInv, FileInv, FilesOK
  <2>. QED  BY <2>1 DEF Built, Range
<1>4. h0 \in M /\ \A m \in M : h0 <= m
  <2>1. M \in SUBSET Nat  BY <1>1
  <2>. HIDE DEF M
  <2>. QED  BY <1>1, <2>1, MinProperties
<1>. HIDE DEF h0, fs, M, e
<1>5. /\ completed' = completed \cup M
      /\ \A m \in M : batch'[m] = e
      /\ \A m \in completed : batch'[m] = batch[m]
      /\ batch' \in [1..MaxMemtables -> Nat]
  <2>1. batch \in [1..MaxMemtables -> Nat]  BY <1>0 DEF TypeInv
  <2>2. batch' = [i \in 1..MaxMemtables |-> IF i \in M THEN e ELSE batch[i]]
    BY <2>1 DEF M, e
  <2>. QED  BY <1>1, <1>2, <2>1, <2>2 DEF M
<1>6. /\ edit'[h0] = fs /\ \A h \in (1..MaxMemtables) \ {h0} : edit'[h] = edit[h]
      /\ edit' \in [1..MaxMemtables -> SUBSET InstalledFile]
  <2>1. edit \in [1..MaxMemtables -> SUBSET InstalledFile]  BY <1>0 DEF TypeInv
  <2>2. edit' = [edit EXCEPT ![h0] = fs]  BY DEF h0, fs, M
  <2>3. fs \subseteq InstalledFile  BY <1>3 DEF FileOf
  <2>4. h0 \in 1..MaxMemtables  BY <1>1, <1>4
  <2>. QED  BY <2>1, <2>2, <2>3, <2>4, Zenon
<1>7. \A m \in M : Group(completed', batch', m) = M
  BY <1>1, <1>2, <1>5, Zenon DEF Group
<1>8. \A m \in completed : Group(completed', batch', m) = Group(completed, batch, m)
  BY <1>1, <1>2, <1>5, Zenon DEF Group
<1>9. GroupInv  BY DEF IInv
<1>10. Grouped(completed', batch')
  <2>. SUFFICES ASSUME NEW a \in completed', NEW b \in completed', batch'[a] = batch'[b],
                       NEW m \in a..b
                PROVE  m \in completed' /\ batch'[m] = batch'[a]
    BY DEF Grouped
  <2>1. CASE a \in M /\ b \in M
    <3>1. m \in M  BY <1>1, <2>1 DEF Contiguous
    <3>. QED  BY <1>5, <2>1, <3>1
  <2>2. CASE a \in completed /\ b \in completed
    <3>0. batch[a] = batch[b]  BY <1>5, <2>2, Zenon
    <3>1. m \in completed /\ batch[m] = batch[a]  BY <1>9, <2>2, <3>0, Zenon DEF GroupInv
    <3>. QED  BY <1>5, <2>2, <3>1, Zenon
  <2>3. a \in M <=> b \in M
    <3>1. \A x \in completed' : x \in M <=> batch'[x] = e
      <4>1. \A x \in completed : batch'[x] # e  BY <1>2, <1>5, Zenon
      <4>. QED  BY <1>1, <1>5, <4>1, Zenon
    <3>. QED  BY <3>1
  <2>. QED  BY <1>5, <2>1, <2>2, <2>3
<1>11. ASSUME NEW h \in 1..MaxMemtables, NEW f \in edit'[h]
       PROVE  /\ h \in completed' /\ FileOf(content, f, Group(completed', batch', h))
              /\ f.epoch < next_epoch
  <2>1. CASE h = h0
    <3>1. f \in fs /\ h \in M  BY <1>4, <1>6, <1>11, <2>1
    <3>. QED  BY <1>3, <1>5, <1>7, <3>1, Zenon
  <2>2. CASE h # h0
    <3>1. f \in edit[h]  BY <1>6, <1>11, <2>2
    <3>. QED  BY <1>5, <1>8, <1>9, <3>1, Zenon DEF GroupInv
  <2>. QED  BY <2>1, <2>2
<1>12. ASSUME NEW i \in completed', NEW k \in content[i].puts
       PROVE  \E h \in Group(completed', batch', i) :
                  IsHead(completed', batch', h) /\ Has(edit'[h], i, k)
  <2>1. CASE i \in M
    <3>1. Has(fs, i, k)  BY <1>3, <2>1 DEF Covers
    <3>2. h0 - 1 \notin M  BY <1>1, <1>4
    <3>3. IsHead(completed', batch', h0)
      <4>1. h0 \in completed' /\ batch'[h0] = e  BY <1>4, <1>5, Zenon
      <4>2. h0 - 1 \in completed' => batch'[h0 - 1] # e  BY <1>2, <1>5, <3>2, Zenon
      <4>. QED  BY <4>1, <4>2, Zenon DEF IsHead
    <3>. QED  BY <1>4, <1>6, <1>7, <2>1, <3>1, <3>3, Zenon
  <2>2. CASE i \in completed
    <3>1. PICK h \in Group(completed, batch, i) :
            IsHead(completed, batch, h) /\ Has(edit[h], i, k)
      BY <1>9, <2>2 DEF GroupInv
    <3>2. h \in completed /\ h # h0 /\ h \in 1..MaxMemtables  BY <1>1, <1>4 DEF Group
    <3>3. IsHead(completed', batch', h)  BY <1>2, <1>5, <3>1, <3>2, Zenon DEF IsHead
    <3>. QED  BY <1>6, <1>8, <2>2, <3>1, <3>2, <3>3, Zenon
  <2>. QED  BY <1>5, <2>1, <2>2, Zenon
<1>. QED  BY <1>5, <1>6, <1>10, <1>11, <1>12, Zenon DEF GroupInv, Grouped

LEMMA TryInstallInv ==
    ASSUME IInv, NEW j \in Jobs, TryInstallMemtableFlushResults(j)
    PROVE  IInv'
<1>. DEFINE M == job[j].mems
            e == job[j].epoch
<1>0. TypeInv /\ job[j] \in JobType /\ job[j].pc \in Active /\ job[j].pc = "finish"
  BY DEF IInv, TypeInv, Active, TryInstallMemtableFlushResults
<1>1. UNCHANGED <<content, memlist, in_progress, num_flush_not_started, imm_flush_needed,
                  next_epoch, l0, initialized, bg_error>>
  BY Zenon DEF TryInstallMemtableFlushResults
<1>2. /\ completed' = completed \cup M
      /\ edit' = [edit EXCEPT ![Min(M)] = Range(job[j].files)]
      /\ batch' = [i \in DOMAIN batch |-> IF i \in M THEN e ELSE batch[i]]
  BY DEF TryInstallMemtableFlushResults
<1>3. /\ GroupInv' /\ edit' \in [1..MaxMemtables -> SUBSET InstalledFile]
      /\ batch' \in [1..MaxMemtables -> Nat]
  BY <1>0, <1>1, <1>2, GroupAdded, Zenon
<1>4. /\ M # {} /\ M \subseteq in_progress \ completed /\ in_progress \subseteq memlist
      /\ memlist \subseteq 1..MaxMemtables /\ completed \subseteq in_progress
      /\ memlist \subseteq Nat
  BY <1>0, MemtableIds, Zenon DEF IInv, OwnInv, TypeInv
<1>5. e \in Nat /\ e < next_epoch /\ next_epoch \in Nat /\ \A m \in completed : batch[m] # e
  BY <1>0 DEF IInv, EpochInv, JobType, TypeInv
<1>. HIDE DEF M, e
<1>6. /\ \A m \in M : batch'[m] = e
      /\ \A m \in completed : batch'[m] = batch[m]
  <2>1. batch \in [1..MaxMemtables -> Nat]  BY <1>0 DEF TypeInv
  <2>. QED  BY <1>2, <1>4, <2>1
<1>. DEFINE ids == CommittableOf(memlist, completed')
<1>7. job \in [Jobs -> JobType]  BY <1>0 DEF TypeInv
<1>8. /\ job' \in [Jobs -> JobType] /\ job'[j].pc \in {"idle", "commit"}
      /\ job'[j].mems = {} /\ \A i \in Jobs \ {j} : job'[i] = job[i]
  <2>1. CASE commit_in_progress
    <3>1. job' = [job EXCEPT ![j] = IdleJob]  BY <2>1 DEF TryInstallMemtableFlushResults
    <3>. QED  BY <1>7, <3>1, IdleJobType
  <2>2. CASE ~commit_in_progress
    <3>1. CommitOrLeave(j, memlist, completed')  BY <2>2 DEF TryInstallMemtableFlushResults
    <3>2. memlist \in SUBSET (1..MaxMemtables)  BY <1>4
    <3>. QED  BY <1>7, <3>1, <3>2, CommitOrLeaveJob
  <2>. QED  BY <2>1, <2>2
<1>9. job'[j].pc \notin Active  BY <1>8 DEF Active
<1>10. CommitInv'
  <2>1. CommitInv  BY DEF IInv
  <2>2. \A i \in Jobs : job[i].pc = "commit" => i # j  BY <1>0
  <2>3. CASE commit_in_progress
    <3>1. job'[j].pc = "idle" /\ job'[j].batch = {} /\ commit_in_progress'
      BY <1>7, <2>3, IdleJobType DEF TryInstallMemtableFlushResults
    <3>2. ASSUME NEW B, BatchOK(memlist, completed, batch, B)
          PROVE  BatchOK(memlist, completed', batch', B)
      <4>1. B \subseteq completed  BY <3>2 DEF BatchOK
      <4>2. ASSUME NEW i \in B, NEW m \in completed', batch'[m] = batch'[i]
            PROVE  m \in B
        <5>1. i \in completed /\ batch'[i] = batch[i] /\ batch[i] # e
          BY <1>5, <1>6, <4>1
        <5>2. m \in completed /\ batch[m] = batch[i]  BY <1>2, <1>6, <4>2, <5>1
        <5>. QED  BY <3>2, <5>2 DEF BatchOK
      <4>. QED  BY <1>2, <3>2, <4>2 DEF BatchOK
    <3>3. ASSUME NEW i \in Jobs
          PROVE  IF job'[i].pc = "commit"
                 THEN BatchOK(memlist, completed', batch', job'[i].batch)
                 ELSE job'[i].batch = {}
      BY <1>8, <2>1, <3>1, <3>2 DEF CommitInv
    <3>4. \E i \in Jobs : job'[i].pc = "commit"  BY <1>8, <2>1, <2>2, <2>3 DEF CommitInv
    <3>5. \A i, h \in Jobs : job'[i].pc = "commit" /\ job'[h].pc = "commit" => i = h
      BY <1>8, <2>1, <3>1 DEF CommitInv
    <3>. QED  BY <1>1, <3>1, <3>3, <3>4, <3>5 DEF CommitInv
  <2>4. CASE ~commit_in_progress
    <3>1. CommitOrLeave(j, memlist, completed') /\ commit_in_progress' = (job'[j].pc = "commit")
      BY <2>4, Zenon DEF TryInstallMemtableFlushResults
    <3>2. memlist \in SUBSET (1..MaxMemtables)  BY <1>4
    <3>3. job'[j].batch = ids /\ job'[j].pc = IF ids = {} THEN "idle" ELSE "commit"
      BY <1>7, <3>1, <3>2, CommitOrLeaveJob
    <3>4. Grouped(completed', batch')  BY <1>3 DEF GroupInv, Grouped
    <3>5. memlist \in SUBSET Nat /\ completed' \in SUBSET memlist  BY <1>2, <1>4
    <3>6. /\ ids # {} => BatchOK(memlist, completed', batch', ids)
          /\ \A i \in completed' : (\A m \in memlist : i <= m) => i \in ids
      BY <3>4, <3>5, Committable
    <3>. HIDE DEF ids
    <3>7. \A i \in Jobs \ {j} : job[i].pc # "commit" /\ job[i].batch = {}
      BY <2>1, <2>4 DEF CommitInv
    <3>. QED  BY <1>1, <1>8, <3>1, <3>3, <3>6, <3>7, Zenon DEF CommitInv
  <2>. QED  BY <2>3, <2>4
<1>11. TypeInv'
  <2>1. completed' \subseteq in_progress'  BY <1>1, <1>2, <1>4
  <2>2. commit_in_progress' \in BOOLEAN
    BY <1>0, Zenon DEF TypeInv, TryInstallMemtableFlushResults
  <2>. QED  BY <1>0, <1>1, <1>3, <1>8, <2>1, <2>2 DEF TypeInv
<1>12. ListInv'  BY <1>1 DEF IInv, ListInv, Waiting
<1>13. OwnInv'
  <2>1. OwnInv  BY DEF IInv
  <2>2. \A i \in Jobs \ {j} : job[i].mems \cap M = {}  BY <2>1 DEF OwnInv, M
  <2>3. in_progress' \ completed' = (in_progress \ completed) \ M  BY <1>1, <1>2
  <2>4. ASSUME NEW i \in Jobs
        PROVE  /\ job'[i].pc \in Active => job'[i].mems # {}
               /\ job'[i].pc \notin Active => job'[i].mems = {}
               /\ job'[i].mems \subseteq in_progress' \ completed'
               /\ Contiguous(job'[i].mems)
    <3>1. Contiguous({})  BY DEF Contiguous
    <3>2. CASE i = j  BY <1>8, <1>9, <3>1, <3>2
    <3>3. CASE i # j
      <4>1. job'[i] = job[i] /\ job[i].mems \cap M = {}  BY <1>8, <2>2, <3>3
      <4>2. /\ job[i].pc \in Active => job[i].mems # {}
            /\ job[i].pc \notin Active => job[i].mems = {}
            /\ job[i].mems \subseteq in_progress \ completed
            /\ Contiguous(job[i].mems)
        BY <2>1, Zenon DEF OwnInv
      <4>. QED  BY <2>3, <4>1, <4>2
    <3>. QED  BY <3>2, <3>3, Zenon
  <2>5. \A i, h \in Jobs : i # h => job'[i].mems \cap job'[h].mems = {}
    <3>0. \A i \in Jobs \ {j} : job'[i].mems = job[i].mems  BY <1>8
    <3>1. \A i, h \in Jobs \ {j} : i # h => job'[i].mems \cap job'[h].mems = {}
      BY <2>1, <3>0, Zenon DEF OwnInv
    <3>2. job'[j].mems = {}  BY <1>8
    <3>. QED  BY <3>1, <3>2
  <2>6. ASSUME NEW m \in in_progress' \ completed' PROVE \E i \in Jobs : m \in job'[i].mems
    <3>1. PICK i \in Jobs : m \in job[i].mems  BY <2>1, <2>3 DEF OwnInv
    <3>2. i # j  BY <2>3, <3>1 DEF M
    <3>. QED  BY <1>8, <3>1, <3>2
  <2>. QED  BY <2>4, <2>5, <2>6 DEF OwnInv
<1>14. EpochInv'
  <2>1. EpochInv  BY DEF IInv
  <2>2. \A i \in Jobs : job'[i].pc \in Active => i # j /\ job'[i] = job[i] /\ job[i].epoch # e
    BY <1>0, <1>8, <1>9, <2>1 DEF EpochInv, e
  <2>3. \A i \in Jobs : job'[i].pc \in Active => 0 < job'[i].epoch /\ job'[i].epoch < next_epoch'
    BY <1>1, <2>1, <2>2, Zenon DEF EpochInv
  <2>4. \A i, h \in Jobs : i # h /\ job'[i].pc \in Active /\ job'[h].pc \in Active
                                 => job'[i].epoch # job'[h].epoch
    BY <2>1, <2>2, Zenon DEF EpochInv
  <2>5. \A m \in completed' : batch'[m] = e \/ (m \in completed /\ batch'[m] = batch[m])
    BY <1>2, <1>6
  <2>6. \A m \in completed' : batch'[m] < next_epoch'
    BY <1>1, <1>5, <2>1, <2>5 DEF EpochInv
  <2>7. \A i \in Jobs : job'[i].pc \in Active => \A m \in completed' : batch'[m] # job'[i].epoch
    <3>1. \A i \in Jobs : job[i].pc \in Active => \A m \in completed : batch[m] # job[i].epoch
      BY <2>1, Zenon DEF EpochInv
    <3>. QED  BY <2>2, <2>5, <3>1
  <2>. QED  BY <2>3, <2>4, <2>6, <2>7, Zenon DEF EpochInv
<1>15. FileInv'
  <2>1. FilesOK(content, next_epoch', job'[j])  BY <1>8 DEF FilesOK
  <2>2. next_epoch' \in Nat /\ next_epoch <= next_epoch'  BY <1>1, <1>5
  <2>. QED  BY <1>1, <1>8, <2>1, <2>2, OtherFiles
<1>16. L0Inv'  BY <1>1 DEF IInv, L0Inv, Installed
<1>. QED  BY <1>3, <1>10, <1>11, <1>12, <1>13, <1>14, <1>15, <1>16 DEF IInv

-----------------------------------------------------------------------------
(* Flushes leave the list, installed or given up.                           *)

\* The completed memtables in ids are whole flushes.
WholeFlushes(done, bat, ids) ==
    \A i \in ids \cap done, m \in done : bat[m] = bat[i] => m \in ids

(***************************************************************************)
(* The groups that stay are not disturbed by the groups that go.           *)
(***************************************************************************)
LEMMA GroupsRemoved ==
    ASSUME IInv, NEW ids, WholeFlushes(completed, batch, ids),
           completed' = completed \ ids,
           edit' = [i \in DOMAIN edit |-> IF i \in ids THEN {} ELSE edit[i]],
           batch' = [i \in DOMAIN batch |-> IF i \in ids THEN 0 ELSE batch[i]],
           UNCHANGED <<content, next_epoch>>
    PROVE  /\ GroupInv'
           /\ edit' \in [1..MaxMemtables -> SUBSET InstalledFile]
           /\ batch' \in [1..MaxMemtables -> Nat]
           /\ \A m \in completed' : m \in completed /\ batch'[m] = batch[m]
<1>0. /\ TypeInv /\ GroupInv
      /\ completed \subseteq 1..MaxMemtables
      /\ edit \in [1..MaxMemtables -> SUBSET InstalledFile]
      /\ batch \in [1..MaxMemtables -> Nat]
  BY MemtableIds DEF IInv, TypeInv
<1>1. /\ edit' \in [1..MaxMemtables -> SUBSET InstalledFile]
      /\ \A h \in 1..MaxMemtables : edit'[h] = IF h \in ids THEN {} ELSE edit[h]
  <2>1. edit' = [i \in 1..MaxMemtables |-> IF i \in ids THEN {} ELSE edit[i]]
    BY <1>0
  <2>2. \A i \in 1..MaxMemtables : edit[i] \in SUBSET InstalledFile  BY <1>0
  <2>. QED  BY <2>1, <2>2
<1>2. batch' \in [1..MaxMemtables -> Nat]
  <2>1. batch' = [i \in 1..MaxMemtables |-> IF i \in ids THEN 0 ELSE batch[i]]
    BY <1>0
  <2>2. \A i \in 1..MaxMemtables : batch[i] \in Nat  BY <1>0
  <2>. QED  BY <2>1, <2>2
<1>3. \A m \in completed' : m \in completed /\ m \notin ids /\ batch'[m] = batch[m]
  BY <1>0
<1>4. \A i \in completed', m \in completed : batch[m] = batch[i] => m \in completed'
  <2>. SUFFICES ASSUME NEW i \in completed', NEW m \in completed, batch[m] = batch[i], m \in ids
                PROVE  FALSE
    OBVIOUS
  <2>. QED  BY <1>3 DEF WholeFlushes
<1>5. \A i \in completed' : Group(completed', batch', i) = Group(completed, batch, i)
  BY <1>3, <1>4 DEF Group
<1>6. ASSUME NEW a \in completed', NEW b \in completed', batch'[a] = batch'[b], NEW m \in a..b
      PROVE  m \in completed' /\ batch'[m] = batch'[a]
  <2>1. a \in completed /\ b \in completed /\ batch[a] = batch[b] /\ batch'[a] = batch[a]
    BY <1>3, <1>6
  <2>2. m \in completed /\ batch[m] = batch[a]  BY <1>0, <1>6, <2>1 DEF GroupInv
  <2>. QED  BY <1>3, <1>4, <2>1, <2>2
<1>7. ASSUME NEW h \in 1..MaxMemtables, NEW f \in edit'[h]
      PROVE  /\ h \in completed' /\ FileOf(content, f, Group(completed', batch', h))
             /\ f.epoch < next_epoch
  <2>1. h \notin ids /\ f \in edit[h]  BY <1>1, <1>7
  <2>2. h \in completed'  BY <1>0, <2>1 DEF GroupInv
  <2>. QED  BY <1>0, <1>5, <2>1, <2>2, Zenon DEF GroupInv
<1>8. ASSUME NEW i \in completed', NEW k \in content[i].puts
      PROVE  \E h \in Group(completed', batch', i) :
                 IsHead(completed', batch', h) /\ Has(edit'[h], i, k)
  <2>1. PICK h \in Group(completed, batch, i) :
          IsHead(completed, batch, h) /\ Has(edit[h], i, k)
    BY <1>0, <1>3 DEF GroupInv
  <2>2. h \in completed' /\ h \in Group(completed', batch', i)
    BY <1>4, <1>5 DEF Group
  <2>3. h \notin ids /\ h \in 1..MaxMemtables  BY <1>0, <1>3, <2>2
  <2>4. edit'[h] = edit[h]  BY <1>1, <2>3
  <2>5. IsHead(completed', batch', h)  BY <1>3, <2>1, <2>2 DEF IsHead
  <2>. QED  BY <2>1, <2>2, <2>4, <2>5, Zenon
<1>. QED  BY <1>1, <1>2, <1>3, <1>6, <1>7, <1>8, Zenon DEF GroupInv

(***************************************************************************)
(* RollbackMemtableFlush on a set of memtables in progress.                *)
(***************************************************************************)
LEMMA Restored ==
    ASSUME IInv, NEW j \in Jobs, NEW ids \in SUBSET in_progress,
           ids \ completed = job[j].mems, WholeFlushes(completed, batch, ids),
           RestoreFlags(ids), job' = [job EXCEPT ![j] = IdleJob],
           UNCHANGED <<content, memlist, next_epoch, l0, initialized>>,
           bg_error' \in BOOLEAN, commit_in_progress' \in BOOLEAN, CommitInv'
    PROVE  IInv'
<1>0. /\ TypeInv /\ job \in [Jobs -> JobType] /\ MaxMemtables \in Nat
      /\ next_epoch \in Nat /\ memlist \subseteq 1..MaxMemtables
      /\ in_progress \subseteq memlist /\ completed \subseteq in_progress
  BY MemtableIds DEF IInv, TypeInv
<1>1. /\ in_progress' = in_progress \ ids /\ completed' = completed \ ids
      /\ edit' = [i \in DOMAIN edit |-> IF i \in ids THEN {} ELSE edit[i]]
      /\ batch' = [i \in DOMAIN batch |-> IF i \in ids THEN 0 ELSE batch[i]]
      /\ num_flush_not_started' = num_flush_not_started + Cardinality(ids)
      /\ imm_flush_needed' = TRUE
  BY DEF RestoreFlags
<1>2. /\ GroupInv'
      /\ edit' \in [1..MaxMemtables -> SUBSET InstalledFile]
      /\ batch' \in [1..MaxMemtables -> Nat]
      /\ \A m \in completed' : m \in completed /\ batch'[m] = batch[m]
  BY <1>1, GroupsRemoved
<1>3. /\ job' \in [Jobs -> JobType] /\ job'[j] = IdleJob
      /\ \A i \in Jobs \ {j} : job'[i] = job[i]
  BY <1>0, IdleJobType, Zenon
<1>4. job'[j].pc = "idle" /\ job'[j].pc \notin Active /\ job'[j].mems = {}
  BY <1>3, IdleJobType DEF Active
<1>5. TypeInv'
  <2>1. in_progress' \subseteq memlist' /\ completed' \subseteq in_progress'
    BY <1>0, <1>1
  <2>. QED  BY <1>0, <1>1, <1>2, <1>3, <2>1 DEF TypeInv
<1>6. ListInv'
  <2>1. Waiting' = Waiting \cup ids /\ Waiting \cap ids = {}
    BY <1>0, <1>1, Zenon DEF Waiting
  <2>2. IsFiniteSet(Waiting) /\ IsFiniteSet(ids)
        /\ Cardinality(Waiting) \in Nat /\ Cardinality(ids) \in Nat
    <3>1. Waiting \in SUBSET (1..MaxMemtables) /\ ids \in SUBSET (1..MaxMemtables)
      BY <1>0 DEF Waiting
    <3>. QED  BY <1>0, <3>1, IndexSets
  <2>3. Cardinality(Waiting') = Cardinality(Waiting) + Cardinality(ids)
    BY <2>1, <2>2, DisjointUnion
  <2>. QED  BY <1>1, <2>3 DEF IInv, ListInv
<1>7. OwnInv'
  <2>1. OwnInv  BY DEF IInv
  <2>2. in_progress' \ completed' = (in_progress \ completed) \ job[j].mems
    BY <1>1
  <2>3. ASSUME NEW i \in Jobs
        PROVE  /\ job'[i].pc \in Active => job'[i].mems # {}
               /\ job'[i].pc \notin Active => job'[i].mems = {}
               /\ job'[i].mems \subseteq in_progress' \ completed'
               /\ Contiguous(job'[i].mems)
    <3>1. Contiguous({})  BY DEF Contiguous
    <3>2. CASE i = j  BY <1>4, <3>1, <3>2
    <3>3. CASE i # j
      <4>1. job'[i] = job[i] /\ job[i].mems \cap job[j].mems = {}
        BY <1>3, <2>1, <3>3 DEF OwnInv
      <4>2. /\ job[i].pc \in Active => job[i].mems # {}
            /\ job[i].pc \notin Active => job[i].mems = {}
            /\ job[i].mems \subseteq in_progress \ completed
            /\ Contiguous(job[i].mems)
        BY <2>1, Zenon DEF OwnInv
      <4>. QED  BY <2>2, <4>1, <4>2
    <3>. QED  BY <3>2, <3>3, Zenon
  <2>4. \A i, h \in Jobs : i # h => job'[i].mems \cap job'[h].mems = {}
    <3>1. \A i, h \in Jobs \ {j} : i # h => job'[i].mems \cap job'[h].mems = {}
      BY <1>3, <2>1, Zenon DEF OwnInv
    <3>. QED  BY <1>4, <3>1
  <2>5. ASSUME NEW m \in in_progress' \ completed' PROVE \E i \in Jobs : m \in job'[i].mems
    <3>1. PICK i \in Jobs : m \in job[i].mems  BY <2>1, <2>2 DEF OwnInv
    <3>2. i # j  BY <2>2, <3>1
    <3>. QED  BY <1>3, <3>1, <3>2
  <2>. QED  BY <2>3, <2>4, <2>5 DEF OwnInv
<1>8. EpochInv'
  <2>1. EpochInv  BY DEF IInv
  <2>2. \A i \in Jobs : job'[i].pc \in Active => i # j /\ job'[i] = job[i]
    BY <1>3, <1>4
  <2>. QED  BY <1>2, <2>1, <2>2, EpochsKept
<1>9. FileInv'
  <2>1. FilesOK(content, next_epoch', job'[j])  BY <1>4 DEF FilesOK
  <2>2. next_epoch' \in Nat /\ next_epoch <= next_epoch'  BY <1>0
  <2>. QED  BY <1>3, <2>1, <2>2, OtherFiles
<1>10. L0Inv'  BY Zenon DEF IInv, L0Inv, Installed
<1>. QED  BY <1>2, <1>5, <1>6, <1>7, <1>8, <1>9, <1>10, Zenon DEF IInv

(***************************************************************************)
(* What RollbackMemtableFlush gives up next to the job's own memtables is  *)
(* whole flushes, none of which is being committed: a committer's batch is *)
(* a prefix of the list that would hold the job's memtables as well.       *)
(***************************************************************************)
LEMMA RollbackInv ==
    ASSUME IInv, NEW j \in Jobs, RollbackMemtableFlush(j)
    PROVE  IInv'
<1>. DEFINE M == job[j].mems
            first == Min(M)
            after == CompletedAfter(first)
            ids == M \cup after
<1>0. TypeInv /\ job[j].pc \in Active /\ job[j].pc # "commit"
  BY DEF IInv, RollbackMemtableFlush, BuildsOver, Active
<1>1. /\ M # {} /\ M \subseteq in_progress \ completed /\ in_progress \subseteq memlist
      /\ completed \subseteq in_progress /\ memlist \subseteq Nat
  BY <1>0, MemtableIds, Zenon DEF IInv, OwnInv, TypeInv
<1>2. first \in M /\ first \in Nat
  <2>1. M \in SUBSET Nat  BY <1>1, Zenon
  <2>. HIDE DEF M
  <2>. QED  BY <1>1, <2>1, MinProperties, Zenon
<1>3. RestoreFlags(ids) /\ job' = [job EXCEPT ![j] = IdleJob]
      /\ UNCHANGED <<content, memlist, commit_in_progress, next_epoch, l0, initialized>>
  BY DEF RollbackMemtableFlush, RolledBack
<1>4. bg_error' \in BOOLEAN /\ commit_in_progress' \in BOOLEAN
  BY <1>0 DEF RollbackMemtableFlush, SetBGError, TypeInv
<1>. HIDE DEF first
<1>5. \A m : m \in after <=> /\ m \in completed /\ m > first
                             /\ \A i \in (first + 1)..m : i \in completed
  BY DEF CompletedAfter
<1>. HIDE DEF after
<1>6. /\ ids \in SUBSET in_progress /\ ids \ completed = M
      /\ ids \cap completed = after /\ \A m \in ids : m = first \/ m \in M \/ m > first
  BY <1>1, <1>5, Zenon
<1>7. WholeFlushes(completed, batch, ids)
  <2>. SUFFICES ASSUME NEW i \in after, NEW m \in completed, batch[m] = batch[i]
                PROVE  m \in after
    BY <1>6 DEF WholeFlushes
  <2>1. i \in completed /\ i > first /\ (\A x \in (first + 1)..i : x \in completed)
    BY <1>5
  <2>2. i \in Nat /\ m \in Nat  BY <1>1, <2>1
  <2>3. /\ \A x \in m..i : x \in completed
        /\ \A x \in i..m : x \in completed
    BY <2>1, Zenon DEF IInv, GroupInv
  <2>4. first \notin completed  BY <1>1, <1>2
  <2>5. m > first  BY <1>2, <2>1, <2>2, <2>3, <2>4
  <2>6. ASSUME NEW x \in (first + 1)..m PROVE x \in completed
    <3>1. x \in (first + 1)..i \/ x \in i..m  BY <1>2, <2>2
    <3>. QED  BY <2>1, <2>3, <3>1
  <2>. QED  BY <1>5, <2>5, <2>6
<1>8. /\ completed' = completed \ ids
      /\ batch' = [i \in DOMAIN batch |-> IF i \in ids THEN 0 ELSE batch[i]]
  BY <1>3 DEF RestoreFlags
<1>9. \A m \in completed' : m \in completed /\ batch'[m] = batch[m]
  <2>1. batch \in [1..MaxMemtables -> Nat] /\ completed \subseteq 1..MaxMemtables
    BY <1>0, MemtableIds DEF TypeInv
  <2>. QED  BY <1>8, <2>1
<1>10. CommitInv'
  <2>1. CommitInv  BY DEF IInv
  <2>2. ASSUME NEW B, BatchOK(memlist, completed, batch, B)
        PROVE  BatchOK(memlist, completed', batch', B)
    <3>1. B \subseteq completed /\ B # {}  BY <2>2 DEF BatchOK
    <3>2. first \in memlist /\ first \notin completed  BY <1>1, <1>2
    <3>3. \A m \in B : ~(first <= m)  BY <2>2, <3>1, <3>2 DEF BatchOK
    <3>4. \A m \in B : m \in Nat  BY <1>1, <3>1, Zenon
    <3>5. \A m \in B : m \notin after  BY <1>2, <1>5, <3>3, <3>4
    <3>6. B \subseteq completed'  BY <1>1, <1>8, <3>1, <3>5
    <3>. QED  BY <1>9, <2>2, <3>6 DEF BatchOK
  <2>3. job'[j] = IdleJob /\ \A i \in Jobs \ {j} : job'[i] = job[i]
    BY <1>0, <1>3 DEF TypeInv
  <2>4. job'[j].pc = "idle" /\ job'[j].batch = {}  BY <2>3, IdleJobType
  <2>5. ASSUME NEW i \in Jobs
        PROVE  IF job'[i].pc = "commit"
               THEN BatchOK(memlist, completed', batch', job'[i].batch)
               ELSE job'[i].batch = {}
    BY <2>1, <2>2, <2>3, <2>4 DEF CommitInv
  <2>6. (\E i \in Jobs : job'[i].pc = "commit") <=> (\E i \in Jobs : job[i].pc = "commit")
    BY <1>0, <2>3, <2>4
  <2>7. \A i, h \in Jobs : job'[i].pc = "commit" /\ job'[h].pc = "commit" => i = h
    BY <2>1, <2>3, <2>4 DEF CommitInv
  <2>. QED  BY <1>3, <1>9, <2>1, <2>5, <2>6, <2>7, Zenon DEF CommitInv
<1>. HIDE DEF ids, M
<1>11. UNCHANGED <<content, memlist, next_epoch, l0, initialized>>  BY <1>3
<1>12. ids \ completed = job[j].mems  BY <1>6 DEF M
<1>. QED  BY <1>3, <1>4, <1>6, <1>7, <1>10, <1>11, <1>12, Restored, Zenon

LEMMA CommitFailsInv ==
    ASSUME IInv, NEW j \in Jobs, CommitFails(j)
    PROVE  IInv'
<1>. DEFINE ids == job[j].batch
<1>0. TypeInv /\ job[j].pc = "commit" /\ CommitInv  BY DEF IInv, CommitFails
<1>1. BatchOK(memlist, completed, batch, ids)  BY <1>0 DEF CommitInv
<1>2. ids \in SUBSET completed /\ completed \subseteq in_progress /\ completed \subseteq memlist
  BY <1>0, <1>1, MemtableIds DEF BatchOK, TypeInv
<1>3. job[j].mems = {}  BY <1>0 DEF IInv, OwnInv, Active
<1>4. WholeFlushes(completed, batch, ids)  BY <1>1 DEF BatchOK, WholeFlushes
<1>5. RestoreFlags(ids) /\ job' = [job EXCEPT ![j] = IdleJob] /\ commit_in_progress' = FALSE
      /\ UNCHANGED <<content, memlist, next_epoch, l0, initialized>>
  BY DEF CommitFails
<1>6. bg_error' \in BOOLEAN /\ commit_in_progress' \in BOOLEAN
  BY <1>0, <1>5, Zenon DEF CommitFails, SetBGError, TypeInv
<1>7. CommitInv'
  <2>1. job'[j] = IdleJob /\ \A i \in Jobs \ {j} : job'[i] = job[i]
    BY <1>0, <1>5 DEF TypeInv
  <2>2. job'[j].pc = "idle" /\ job'[j].batch = {}  BY <2>1, IdleJobType
  <2>3. \A i \in Jobs \ {j} : job[i].pc # "commit" /\ job[i].batch = {}
    BY <1>0 DEF CommitInv
  <2>4. completed' = completed \ ids  BY <1>5 DEF RestoreFlags
  <2>5. ASSUME NEW i \in completed', \A m \in memlist : i <= m PROVE FALSE
    <3>1. PICK b \in ids : b \in memlist  BY <1>1, <1>2 DEF BatchOK
    <3>2. i <= b /\ i \in memlist  BY <1>2, <2>4, <2>5, <3>1
    <3>. QED  BY <1>1, <2>4, <3>1, <3>2 DEF BatchOK
  <2>. QED  BY <1>5, <2>1, <2>2, <2>3, <2>5, Zenon DEF CommitInv
<1>8. ids \in SUBSET in_progress /\ ids \ completed = job[j].mems  BY <1>2, <1>3
<1>. HIDE DEF ids
<1>. QED  BY <1>4, <1>5, <1>6, <1>7, <1>8, Restored, Zenon

(***************************************************************************)
(* The files a committer adds to L0 are those of whole flushes, and belong *)
(* to the memtables that leave the list.                                   *)
(***************************************************************************)
LEMMA CommitStepInv ==
    ASSUME IInv, NEW j \in Jobs, Commit(j)
    PROVE  IInv'
<1>. DEFINE B == job[j].batch
            heads == BatchHeads(B)
            ids == CommittableOf(memlist', completed')
<1>0. TypeInv /\ job[j].pc = "commit" /\ CommitInv /\ job \in [Jobs -> JobType]
  BY Zenon DEF IInv, Commit, TypeInv
<1>1. BatchOK(memlist, completed, batch, B)  BY <1>0 DEF CommitInv
<1>2. /\ Len(content) \in Nat /\ Len(content) <= MaxMemtables /\ MaxMemtables \in Nat
      /\ B \subseteq completed /\ completed \subseteq in_progress /\ in_progress \subseteq memlist
      /\ memlist \subseteq 1..Len(content) /\ memlist \subseteq 1..MaxMemtables
      /\ memlist \subseteq Nat
  BY <1>0, <1>1, MemtableIds DEF BatchOK, TypeInv
<1>3. /\ l0' = l0 \cup UNION {edit[i] : i \in heads}
      /\ memlist' = memlist \ B /\ in_progress' = in_progress \ B
      /\ completed' = completed \ B
      /\ CommitOrLeave(j, memlist', completed')
      /\ commit_in_progress' = (job'[j].pc = "commit")
      /\ edit' = [i \in DOMAIN edit |-> IF i \in B THEN {} ELSE edit[i]]
      /\ batch' = [i \in DOMAIN batch |-> IF i \in B THEN 0 ELSE batch[i]]
      /\ UNCHANGED <<content, num_flush_not_started, imm_flush_needed, next_epoch,
                     initialized, bg_error>>
  BY Zenon DEF Commit
<1>4. heads \subseteq B /\ \A i \in heads : (i - 1) \in B => batch[i] # batch[i - 1]
  BY DEF BatchHeads
<1>5. \A i \in B : IsHead(completed, batch, i) => i \in heads
  BY <1>2 DEF BatchHeads, IsHead
<1>6. WholeFlushes(completed, batch, B)  BY <1>1 DEF BatchOK, WholeFlushes
<1>. HIDE DEF B, heads
<1>7. /\ GroupInv'
      /\ edit' \in [1..MaxMemtables -> SUBSET InstalledFile]
      /\ batch' \in [1..MaxMemtables -> Nat]
      /\ \A m \in completed' : m \in completed /\ batch'[m] = batch[m]
  <2>1. UNCHANGED <<content, next_epoch>>  BY <1>3, Zenon
  <2>. QED  BY <1>3, <1>6, <2>1, GroupsRemoved, Zenon
<1>8. /\ job' \in [Jobs -> JobType] /\ \A i \in Jobs \ {j} : job'[i] = job[i]
      /\ job'[j].mems = {} /\ job'[j].batch = ids
      /\ job'[j].pc = IF ids = {} THEN "idle" ELSE "commit"
  <2>1. memlist' \in SUBSET (1..MaxMemtables)  BY <1>2, <1>3
  <2>. QED  BY <1>0, <1>3, <2>1, CommitOrLeaveJob, Zenon
<1>9. /\ ids # {} => BatchOK(memlist', completed', batch', ids)
      /\ \A i \in completed' : (\A m \in memlist' : i <= m) => i \in ids
  <2>1. Grouped(completed', batch')  BY <1>7 DEF GroupInv, Grouped
  <2>2. memlist' \in SUBSET Nat /\ completed' \in SUBSET memlist'  BY <1>2, <1>3
  <2>. QED  BY <2>1, <2>2, Committable
<1>. HIDE DEF ids
<1>10. CommitInv'
  <2>1. \A i \in Jobs \ {j} : job[i].pc # "commit" /\ job[i].batch = {}
    BY <1>0 DEF CommitInv
  <2>. QED  BY <1>3, <1>8, <1>9, <2>1, Zenon DEF CommitInv
<1>11. job'[j].pc \notin Active /\ job'[j].pc \in {"idle", "commit"}  BY <1>8 DEF Active
<1>12. \A i \in heads : edit[i] \subseteq InstalledFile
  BY <1>0, <1>2, <1>4 DEF TypeInv
<1>13. TypeInv'
  <2>1. l0' \subseteq InstalledFile  BY <1>0, <1>3, <1>12 DEF TypeInv
  <2>2. /\ memlist' \subseteq 1..Len(content) /\ in_progress' \subseteq memlist'
        /\ completed' \subseteq in_progress'
    BY <1>2, <1>3
  <2>3. commit_in_progress' \in BOOLEAN  BY <1>3
  <2>. QED  BY <1>0, <1>3, <1>7, <1>8, <2>1, <2>2, <2>3 DEF TypeInv
<1>14. ListInv'
  <2>1. Waiting' = Waiting  BY <1>2, <1>3, Zenon DEF Waiting
  <2>2. ASSUME NEW i \in memlist', NEW m \in 1..Len(content), i < m PROVE m \in memlist'
    <3>0. memlist' = memlist \ B  BY <1>3, Zenon
    <3>1. i \in memlist /\ i \notin B /\ i \in Nat /\ m \in Nat  BY <1>2, <2>2, <3>0
    <3>2. m \in memlist  BY <2>2, <3>1 DEF IInv, ListInv
    <3>3. i <= m  BY <2>2, <3>1
    <3>. QED  BY <1>1, <1>3, <3>1, <3>2, <3>3 DEF BatchOK
  <2>. QED  BY <1>3, <2>1, <2>2, Zenon DEF IInv, ListInv
<1>15. OwnInv'
  <2>1. OwnInv  BY DEF IInv
  <2>2. in_progress' \ completed' = in_progress \ completed  BY <1>2, <1>3, Zenon
  <2>3. job[j].mems = {}  BY <1>0, <2>1 DEF OwnInv, Active
  <2>4. \A i \in Jobs : job'[i].mems = job[i].mems  BY <1>8, <2>3
  <2>5. \A i \in Jobs : job'[i].pc \in Active <=> job[i].pc \in Active
    BY <1>0, <1>8, <1>11 DEF Active
  <2>. QED  BY <2>1, <2>2, <2>4, <2>5, Zenon DEF OwnInv
<1>16. EpochInv'
  <2>1. EpochInv  BY DEF IInv
  <2>2. \A i \in Jobs : job'[i].pc \in Active => i # j /\ job'[i] = job[i]
    BY <1>8, <1>11
  <2>. QED  BY <1>3, <1>7, <2>1, <2>2, EpochsKept
<1>17. FileInv'
  <2>1. FilesOK(content, next_epoch', job'[j])  BY <1>11 DEF FilesOK
  <2>2. next_epoch' \in Nat /\ next_epoch <= next_epoch'
    <3>1. next_epoch' = next_epoch  BY <1>3, Zenon
    <3>. QED  BY <1>0, <3>1 DEF TypeInv
  <2>. QED  BY <1>3, <1>8, <2>1, <2>2, OtherFiles, Zenon
<1>18. L0Inv'
  <2>0. L0Inv /\ GroupInv  BY DEF IInv
  <2>1. Installed' = Installed \cup B  BY <1>2, <1>3, Zenon DEF Installed
  <2>2. \A i \in B : Group(completed, batch, i) \subseteq B  BY <1>1 DEF BatchOK, Group
  <2>3. ASSUME NEW f \in l0' PROVE FileOf(content, f, Installed') /\ f.epoch < next_epoch
    <3>1. CASE f \in l0
      <4>1. FileOf(content, f, Installed) /\ f.epoch < next_epoch  BY <2>0, <3>1 DEF L0Inv
      <4>. QED  BY <2>1, <4>1 DEF FileOf
    <3>2. CASE f \notin l0
      <4>1. PICK h \in heads : f \in edit[h]  BY <1>3, <3>2
      <4>2. h \in B /\ h \in 1..MaxMemtables  BY <1>2, <1>4
      <4>3. FileOf(content, f, Group(completed, batch, h)) /\ f.epoch < next_epoch
        BY <2>0, <4>1, <4>2 DEF GroupInv
      <4>. QED  BY <2>1, <2>2, <4>2, <4>3 DEF FileOf
    <3>. QED  BY <3>1, <3>2
  <2>4. ASSUME ~SyncMayFail, NEW i \in Installed', NEW k \in content[i].puts
        PROVE  Has(l0', i, k)
    <3>1. CASE i \in Installed
      <4>1. Has(l0, i, k)  BY <2>0, <2>4, <3>1 DEF L0Inv, Covers
      <4>. QED  BY <1>3, <4>1 DEF Has
    <3>2. CASE i \in B
      <4>1. PICK h \in Group(completed, batch, i) :
              IsHead(completed, batch, h) /\ Has(edit[h], i, k)
        BY <1>2, <2>0, <3>2, Zenon DEF GroupInv
      <4>2. h \in heads  BY <1>5, <2>2, <3>2, <4>1
      <4>3. edit[h] \subseteq l0'  BY <1>3, <4>2
      <4>. QED  BY <4>1, <4>3 DEF Has
    <3>. QED  BY <2>1, <3>1, <3>2
  <2>. QED  BY <1>3, <2>3, <2>4 DEF L0Inv, Covers
<1>. QED  BY <1>7, <1>10, <1>13, <1>14, <1>15, <1>16, <1>17, <1>18 DEF IInv

LEMMA ResumeInv ==
    ASSUME IInv, Resume
    PROVE  IInv'
<1>1. UNCHANGED <<content, listVars, commit_in_progress, next_epoch, l0, initialized, job>>
      /\ bg_error' = FALSE
  BY DEF Resume
<1>2. TypeInv'  BY <1>1, Zenon DEF IInv, TypeInv, listVars
<1>3. \A i \in Jobs : SameRole(i)  BY <1>1 DEF SameRole
<1>4. next_epoch' \in Nat /\ next_epoch <= next_epoch'  BY <1>1 DEF IInv, TypeInv
<1>5. ListInv' /\ OwnInv' /\ EpochInv' /\ CommitInv' /\ GroupInv' /\ L0Inv'
  BY <1>1, <1>3, <1>4, Working
<1>6. FileInv'  BY <1>1 DEF IInv, FileInv
<1>. QED  BY <1>2, <1>5, <1>6 DEF IInv

(***************************************************************************)
(* RecoverEpochNumbers leaves the numbers of the files behind, and the     *)
(* file written from the WAL covers what was in the memtables.             *)
(***************************************************************************)
LEMMA NextEpochProperties ==
    ASSUME NEW files \in SUBSET InstalledFile, NEW n \in Nat, \A f \in files : f.epoch < n
    PROVE  NextEpochAfter(files) \in Nat \ {0} /\ \A f \in files : f.epoch < NextEpochAfter(files)
<1>. DEFINE T == {0} \cup {f.epoch : f \in files}
<1>1. \A f \in files : f.epoch \in Nat  BY DEF InstalledFile
<1>2. T \in SUBSET Nat /\ T # {} /\ \A y \in T : y <= n  BY <1>1
<1>3. \A f \in files : f.epoch \in T  OBVIOUS
<1>4. NextEpochAfter(files) = 1 + Max(T)  BY DEF NextEpochAfter
<1>. HIDE DEF T
<1>5. Max(T) \in T /\ \A y \in T : y <= Max(T)  BY <1>2, MaxProperties, Zenon
<1>6. Max(T) \in Nat  BY <1>2, <1>5, Zenon
<1>. QED  BY <1>1, <1>3, <1>4, <1>5, <1>6

LEMMA RecoveredFiles ==
    ASSUME IInv, CrashAndRecover
    PROVE  /\ l0' \subseteq InstalledFile /\ next_epoch' \in Nat \ {0}
           /\ \A f \in l0' : FileOf(content, f, 1..Len(content)) /\ f.epoch < next_epoch'
           /\ ~SyncMayFail => \A i \in 1..Len(content) : Covers(content, l0', i)
<1>1. PICK lost \in SUBSET {f \in l0 : ~f.synced} :
        IF memlist = {}
        THEN l0' = l0 \ lost /\ next_epoch' = NextEpochAfter(l0 \ lost)
        ELSE /\ l0' = (l0 \ lost) \cup {File(NextEpochAfter(l0 \ lost), AllVersions(memlist), TRUE)}
             /\ next_epoch' = NextEpochAfter(l0 \ lost) + 1
  BY Zenon DEF CrashAndRecover
<1>. DEFINE rest == l0 \ lost
            e == NextEpochAfter(rest)
            vs == AllVersions(memlist)
            g == File(e, vs, TRUE)
<1>2. TypeInv /\ L0Inv /\ next_epoch \in Nat /\ l0 \subseteq InstalledFile
      /\ memlist \in SUBSET (1..Len(content))
  BY DEF IInv, TypeInv
<1>3. e \in Nat \ {0} /\ \A f \in rest : f.epoch < e
  <2>1. rest \in SUBSET InstalledFile /\ \A f \in rest : f.epoch < next_epoch
    BY <1>2 DEF L0Inv
  <2>. HIDE DEF rest
  <2>. QED  BY <1>2, <2>1, NextEpochProperties
<1>4. \A f \in rest : FileOf(content, f, 1..Len(content)) /\ f.epoch \in Nat
  BY <1>2 DEF L0Inv, FileOf, Installed, InstalledFile
<1>5. ~SyncMayFail => lost = {}  BY <1>2 DEF L0Inv, FileOf
<1>6. ~SyncMayFail => \A i \in Installed : Covers(content, rest, i)
  BY <1>2, <1>5 DEF L0Inv
<1>7. CASE memlist = {}
  <2>1. l0' = rest /\ next_epoch' = e  BY <1>1, <1>7
  <2>2. Installed = 1..Len(content)  BY <1>7 DEF Installed
  <2>. HIDE DEF e, rest
  <2>. QED  BY <1>3, <1>4, <1>6, <2>1, <2>2 DEF FileOf
<1>8. CASE memlist # {}
  <2>1. l0' = rest \cup {g} /\ next_epoch' = e + 1  BY <1>1, <1>8, Zenon
  <2>2. /\ vs \in Versions
        /\ \A k \in DOMAIN vs : vs[k] \in memlist /\ Touches(vs[k], k)
        /\ \A i \in memlist : \A k \in content[i].puts : k \in DOMAIN vs /\ vs[k] >= i
    BY <1>2, AllVersionsProperties, Zenon
  <2>. HIDE DEF e, rest, vs
  <2>3. g \in InstalledFile /\ g.epoch = e /\ g.versions = vs /\ g.synced = TRUE
    BY <1>3, <2>2 DEF File, InstalledFile
  <2>. HIDE DEF g
  <2>4. FileOf(content, g, 1..Len(content))
    BY <1>2, <2>2, <2>3, Zenon DEF FileOf, Touches
  <2>5. next_epoch' \in Nat \ {0} /\ \A f \in l0' : f.epoch < next_epoch'
    BY <1>3, <1>4, <2>1, <2>3
  <2>6. ASSUME ~SyncMayFail, NEW i \in 1..Len(content), NEW k \in content[i].puts
        PROVE  Has(l0', i, k)
    <3>1. CASE i \in memlist  BY <2>1, <2>2, <2>3, <3>1 DEF Has
    <3>2. CASE i \notin memlist
      <4>1. Has(rest, i, k)  BY <1>6, <2>6, <3>2 DEF Installed, Covers
      <4>. QED  BY <2>1, <4>1 DEF Has
    <3>. QED  BY <3>1, <3>2
  <2>7. l0' \subseteq InstalledFile  BY <1>4, <2>1, <2>3 DEF FileOf
  <2>. QED  BY <1>4, <2>1, <2>4, <2>5, <2>6, <2>7, Zenon DEF Covers
<1>. QED  BY <1>7, <1>8

\* Nothing is in the list and no job runs, as after the DB was opened.
Quiet ==
    /\ memlist = {} /\ in_progress = {} /\ completed = {}
    /\ edit = [i \in 1..MaxMemtables |-> {}] /\ batch = [i \in 1..MaxMemtables |-> 0]
    /\ num_flush_not_started = 0 /\ imm_flush_needed = FALSE /\ commit_in_progress = FALSE
    /\ initialized \in BOOLEAN /\ bg_error \in BOOLEAN
    /\ job = [j \in Jobs |-> IdleJob]
    /\ content \in Seq(Writes) /\ Len(content) <= MaxMemtables
    /\ next_epoch \in Nat \ {0} /\ l0 \subseteq InstalledFile
    /\ L0Inv

LEMMA QuietState == Quiet => IInv
<1>. SUFFICES ASSUME Quiet PROVE IInv
  OBVIOUS
<1>. USE DEF Quiet
<1>1. \A j \in Jobs : /\ job[j] \in JobType /\ job[j].pc = "idle" /\ job[j].pc \notin Active
                      /\ job[j].mems = {} /\ job[j].batch = {}
  BY IdleJobType DEF Active
<1>2. TypeInv
  <2>1. job \in [Jobs -> JobType]  BY <1>1
  <2>. QED  BY <2>1, Zenon DEF TypeInv
<1>3. ListInv
  <2>1. Waiting = {}  BY DEF Waiting
  <2>. QED  BY <2>1, FS_EmptySet DEF ListInv
<1>4. OwnInv  BY <1>1, Zenon DEF OwnInv, Contiguous
<1>5. EpochInv  BY <1>1 DEF EpochInv
<1>6. CommitInv  BY <1>1 DEF CommitInv
<1>7. GroupInv  BY DEF GroupInv
<1>8. FileInv  BY <1>1 DEF FileInv, FilesOK
<1>. QED  BY <1>2, <1>3, <1>4, <1>5, <1>6, <1>7, <1>8 DEF IInv

LEMMA InitInv ==
    ASSUME Init
    PROVE  IInv
<1>. USE DEF Init
<1>1. content \in Seq(Writes) /\ Len(content) = 0  OBVIOUS
<1>2. L0Inv  BY <1>1 DEF L0Inv, Installed
<1>3. 0 <= MaxMemtables /\ 1 \in Nat \ {0}  BY BoundsAssumption
<1>4. Quiet  BY <1>1, <1>2, <1>3, Zenon DEF Quiet
<1>. QED  BY <1>4, QuietState

LEMMA CrashAndRecoverInv ==
    ASSUME IInv, CrashAndRecover
    PROVE  IInv'
<1>1. /\ l0' \subseteq InstalledFile /\ next_epoch' \in Nat \ {0}
      /\ \A f \in l0' : FileOf(content, f, 1..Len(content)) /\ f.epoch < next_epoch'
      /\ ~SyncMayFail => \A i \in 1..Len(content) : Covers(content, l0', i)
  BY RecoveredFiles
<1>2. /\ memlist' = {} /\ in_progress' = {} /\ completed' = {}
      /\ edit' = [i \in 1..MaxMemtables |-> {}] /\ batch' = [i \in 1..MaxMemtables |-> 0]
      /\ num_flush_not_started' = 0 /\ imm_flush_needed' = FALSE
      /\ commit_in_progress' = FALSE /\ initialized' = FALSE /\ bg_error' = FALSE
      /\ job' = [j \in Jobs |-> IdleJob] /\ content' = content
  BY DEF CrashAndRecover
<1>3. Installed' = 1..Len(content)  BY <1>2 DEF Installed
<1>4. L0Inv'  BY <1>1, <1>2, <1>3 DEF L0Inv
<1>5. content' \in Seq(Writes) /\ Len(content') <= MaxMemtables
  BY <1>2 DEF IInv, TypeInv
<1>6. Quiet'  BY <1>1, <1>2, <1>4, <1>5, Zenon DEF Quiet
<1>. QED  BY <1>6, QuietState, PTL

LEMMA NextInv == IInv /\ [Next]_vars => IInv'
<1>. SUFFICES ASSUME IInv, [Next]_vars PROVE IInv'
  OBVIOUS
<1>1. CASE SwitchMemtable  BY <1>1, SwitchMemtableInv
<1>2. CASE Resume  BY <1>2, ResumeInv
<1>3. CASE CrashAndRecover  BY <1>3, CrashAndRecoverInv
<1>4. ASSUME NEW j \in Jobs, PickMemTable(j) \/ JobStep(j) PROVE IInv'
  <2>1. CASE PickMemTable(j)  BY <2>1, PickMemTableInv
  <2>2. CASE StartBucketFlush(j)  BY <2>2, StartBucketFlushInv
  <2>3. CASE FallBack(j)  BY <2>3, FallBackInv
  <2>4. CASE AllocateFile(j)  BY <2>4, AllocateFileInv
  <2>5. ASSUME NEW n \in DOMAIN job[j].files, BuildBucket(j, n) PROVE IInv'
    BY <2>5, BuildBucketInv
  <2>6. CASE SyncFiles(j)  BY <2>6, SyncFilesInv
  <2>7. CASE WriteLevel0Table(j)  BY <2>7, WriteLevel0TableInv
  <2>8. CASE FlushFails(j)  BY <2>8, FlushFailsInv
  <2>9. CASE TryInstallMemtableFlushResults(j)  BY <2>9, TryInstallInv
  <2>10. CASE RollbackMemtableFlush(j)  BY <2>10, RollbackInv
  <2>11. CASE Commit(j)  BY <2>11, CommitStepInv
  <2>12. CASE CommitFails(j)  BY <2>12, CommitFailsInv
  <2>. QED  BY <1>4, <2>1, <2>2, <2>3, <2>4, <2>5, <2>6, <2>7, <2>8, <2>9, <2>10, <2>11,
               <2>12 DEF JobStep
<1>5. CASE UNCHANGED vars
  <2>1. UNCHANGED <<content, listVars, commit_in_progress, next_epoch, l0, initialized,
                    bg_error, job>>
    BY <1>5 DEF vars
  <2>2. TypeInv'  BY <2>1 DEF IInv, TypeInv, listVars
  <2>3. \A i \in Jobs : SameRole(i)  BY <2>1 DEF SameRole
  <2>4. next_epoch' \in Nat /\ next_epoch <= next_epoch'  BY <2>1 DEF IInv, TypeInv
  <2>5. ListInv' /\ OwnInv' /\ EpochInv' /\ CommitInv' /\ GroupInv' /\ L0Inv'
    BY <2>1, <2>3, <2>4, Working
  <2>6. FileInv'  BY <2>1 DEF IInv, FileInv
  <2>. QED  BY <2>2, <2>5, <2>6 DEF IInv
<1>. QED  BY <1>1, <1>2, <1>3, <1>4, <1>5 DEF Next

(***************************************************************************)
(* The invariant holds of every behaviour, with any number of jobs,        *)
(* failures and crashes.                                                   *)
(***************************************************************************)
THEOREM FlushInvariant == Spec => []IInv
<1>1. Init => IInv  BY InitInv
<1>. QED  BY <1>1, NextInv, PTL DEF Spec

-----------------------------------------------------------------------------
(* What follows from the invariant.                                         *)

LEMMA InvTypeOK == IInv => TypeOK
<1>. SUFFICES ASSUME IInv PROVE TypeOK
  OBVIOUS
<1>1. TypeInv  BY DEF IInv
<1>2. memlist \subseteq 1..MaxMemtables /\ MaxMemtables \in Nat
      /\ completed \subseteq memlist /\ in_progress \subseteq memlist
  BY <1>1, MemtableIds
<1>3. num_flush_not_started \in Nat
  <2>1. Waiting \in SUBSET (1..MaxMemtables)  BY <1>2 DEF Waiting
  <2>. QED  BY <1>2, <2>1, IndexSets DEF IInv, ListInv
<1>4. ASSUME NEW j \in Jobs
      PROVE  /\ job[j].pc \in {"idle", "start", "build", "regular", "finish", "failed", "commit"}
             /\ job[j].mems \cup job[j].batch \subseteq memlist
  <2>1. job[j].pc \in Active \cup {"idle", "commit"}  BY <1>1 DEF TypeInv, JobType
  <2>2. job[j].mems \subseteq memlist  BY <1>2, Zenon DEF IInv, OwnInv
  <2>3. job[j].batch \subseteq memlist  BY <1>2, Zenon DEF IInv, CommitInv, BatchOK
  <2>. QED  BY <2>1, <2>2, <2>3 DEF Active
<1>5. {imm_flush_needed, commit_in_progress, initialized, bg_error} \subseteq BOOLEAN
  BY <1>1 DEF TypeInv
<1>6. \A i \in 1..MaxMemtables : edit[i] \subseteq InstalledFile /\ batch[i] \in Nat
  BY <1>1 DEF TypeInv
<1>. QED  BY <1>1, <1>3, <1>4, <1>5, <1>6 DEF TypeInv, TypeOK

(***************************************************************************)
(* MemTableList's flags and counter keep their types: in particular        *)
(* num_flush_not_started_ is never negative, and no job holds a memtable   *)
(* that has left the list.                                                 *)
(***************************************************************************)
THEOREM TypeCorrect == Spec => []TypeOK
BY FlushInvariant, InvTypeOK, PTL

LEMMA InvNoneStranded == IInv => NoneStranded
<1>. SUFFICES ASSUME IInv PROVE NoneStranded
  OBVIOUS
<1>1. TypeInv /\ memlist \subseteq Nat /\ completed \subseteq memlist
  BY MemtableIds DEF IInv
<1>2. ASSUME NEW i \in in_progress \ completed
      PROVE  Cardinality({j \in Jobs : i \in job[j].mems}) = 1
  <2>1. PICK j \in Jobs : i \in job[j].mems  BY DEF IInv, OwnInv
  <2>2. \A h \in Jobs : i \in job[h].mems => h = j  BY <2>1 DEF IInv, OwnInv
  <2>3. {h \in Jobs : i \in job[h].mems} = {j}  BY <2>1, <2>2
  <2>. QED  BY <2>3, FS_Singleton, Zenon
<1>3. ASSUME memlist # {}, Min(memlist) \in completed PROVE commit_in_progress
  <2>1. memlist \in SUBSET Nat  BY <1>1
  <2>2. \A m \in memlist : Min(memlist) <= m  BY <1>3, <2>1, MinProperties
  <2>. QED  BY <1>3, <2>2 DEF IInv, CommitInv
<1>. QED  BY <1>2, <1>3 DEF IInv, ListInv, CommitInv, NoneStranded

(***************************************************************************)
(* No memtable is stranded by the flags of MemTableList, however many      *)
(* flushes run, fail, roll back, or leave the commit to one another.       *)
(***************************************************************************)
THEOREM NoMemtableStranded == Spec => []NoneStranded
BY FlushInvariant, InvNoneStranded, PTL

LEMMA InvInstalledOlder ==
    ASSUME IInv, NEW i \in Installed, NEW m \in memlist
    PROVE  i < m
<1>1. /\ Len(content) \in Nat /\ memlist \subseteq 1..Len(content)
      /\ \A a \in memlist, b \in 1..Len(content) : a < b => b \in memlist
  BY MemtableIds DEF IInv, TypeInv, ListInv
<1>2. i \in 1..Len(content) /\ i \notin memlist /\ m \in 1..Len(content)
  BY <1>1 DEF Installed
<1>. QED  BY <1>1, <1>2

LEMMA InvInstalledWhole == ~SyncMayFail /\ IInv => InstalledWhole
<1>. SUFFICES ASSUME ~SyncMayFail, IInv PROVE InstalledWhole
  OBVIOUS
<1>1. \A i \in Installed, m \in memlist : i < m  BY InvInstalledOlder
<1>2. \A i \in Installed : \A k \in content[i].puts :
        \E f \in l0 : k \in DOMAIN f.versions /\ f.versions[k] >= i
  BY DEF IInv, L0Inv, Covers, Has
<1>3. \A f \in l0 : \A k \in DOMAIN f.versions : f.versions[k] \in Installed
  BY DEF IInv, L0Inv, FileOf
<1>. QED  BY <1>1, <1>2, <1>3 DEF InstalledWhole, Installed

(***************************************************************************)
(* With a batch sync that does not fail, a flush is installed as a whole   *)
(* and in order, by any number of concurrent jobs and over crashes.        *)
(***************************************************************************)
THEOREM FlushesInstalledWhole == ~SyncMayFail => (Spec => []InstalledWhole)
<1>1. CASE SyncMayFail  BY <1>1
<1>2. CASE ~SyncMayFail
  <2>1. IInv => InstalledWhole  BY <1>2, InvInstalledWhole
  <2>. QED  BY FlushInvariant, <2>1, PTL
<1>. QED  BY <1>1, <1>2
=============================================================================
