--------------------------- MODULE BucketFlushOrder ---------------------------
(***************************************************************************)
(* With one flush job at a time, as with max_background_flushes = 1, the   *)
(* epoch numbers of L0 tell which file is newer, and a read finds the last *)
(* write.  With two jobs neither holds (flush_epochs in the README).       *)
(*                                                                         *)
(* Nothing is completed but what the job is committing, and its memtables  *)
(* are the first of the list; so what a flush adds to L0 is newer than     *)
(* what L0 has, and has larger epoch numbers.                              *)
(***************************************************************************)
EXTENDS BucketFlushProofs

OneJob == \A i, j \in Jobs : i = j

SameVersions(f, g) ==
    \A k \in DOMAIN f.versions \cap DOMAIN g.versions : f.versions[k] = g.versions[k]
Agreeing(r) ==
    r.pc = "finish" => \A n, m \in DOMAIN r.files : SameVersions(r.files[n], r.files[m])
Ordered(files) ==
    \A f, g \in files : \A k \in DOMAIN f.versions \cap DOMAIN g.versions :
        f.epoch <= g.epoch => f.versions[k] <= g.versions[k]

OneJobInv ==
    /\ \A j \in Jobs :
        /\ completed = job[j].batch
        /\ \A i \in job[j].mems, m \in memlist : m <= i => m \in job[j].mems
        /\ job[j].pc \in Active => \A f \in l0 : f.epoch < job[j].epoch
        /\ Agreeing(job[j])
    /\ \A h \in 1..MaxMemtables : \A f \in edit[h] :
        /\ \A g \in l0 : g.epoch < f.epoch
        /\ \A i \in 1..MaxMemtables : \A g \in edit[i] : SameVersions(f, g)
    /\ Ordered(l0)

(***************************************************************************)
(* A step in which the job keeps its memtables, or has none.               *)
(***************************************************************************)
LEMMA JobKeeps ==
    ASSUME OneJob, OneJobInv, NEW j \in Jobs, UNCHANGED <<completed, edit, l0>>,
           job'[j].mems = job[j].mems, job'[j].batch = job[j].batch,
           job'[j].epoch = job[j].epoch, job'[j].pc \in Active => job[j].pc \in Active,
           Agreeing(job'[j]),
           \A i \in job[j].mems, m \in memlist' : m <= i => m \in job[j].mems
    PROVE  OneJobInv'
<1>1. \A i \in Jobs : i = j  BY DEF OneJob
<1>. QED  BY <1>1 DEF OneJobInv

LEMMA SwitchMemtableOrder ==
    ASSUME OneJob, IInv, OneJobInv, NEW j \in Jobs, SwitchMemtable
    PROVE  OneJobInv'
<1>1. Len(content) \in Nat /\ memlist \subseteq 1..Len(content) /\ content \in Seq(Writes)
  BY DEF IInv, TypeInv
<1>2. memlist' = memlist \cup {Len(content) + 1} /\ UNCHANGED <<completed, edit, l0, job>>
  BY <1>1 DEF SwitchMemtable
<1>3. ASSUME NEW i \in job[j].mems, NEW m \in memlist', m <= i PROVE m \in job[j].mems
  <2>1. i \in 1..Len(content)  BY <1>1, MemtableIds DEF IInv, OwnInv
  <2>2. m \in memlist  BY <1>1, <1>2, <1>3, <2>1
  <2>. QED  BY <1>3, <2>2 DEF OneJobInv
<1>4. Agreeing(job[j])  BY DEF OneJobInv
<1>. QED  BY <1>2, <1>3, <1>4, JobKeeps

(***************************************************************************)
(* The only job takes the whole list, and an epoch number above all.       *)
(***************************************************************************)
LEMMA PickMemTableOrder ==
    ASSUME OneJob, IInv, OneJobInv, NEW j \in Jobs, PickMemTable(j)
    PROVE  OneJobInv'
<1>1. job[j].pc = "idle" /\ \A i \in Jobs : i = j  BY DEF PickMemTable, OneJob
<1>2. job[j].mems = {} /\ job[j].batch = {}
  BY <1>1 DEF IInv, OwnInv, CommitInv, Active
<1>3. completed = {} /\ in_progress = {}
  BY <1>1, <1>2 DEF OneJobInv, IInv, OwnInv
<1>4. Pickable = memlist  BY <1>3 DEF Pickable, Waiting
<1>5. \A h \in 1..MaxMemtables : edit[h] = {}  BY <1>3 DEF IInv, GroupInv
<1>6. UNCHANGED <<memlist, completed, edit, l0>>  BY DEF PickMemTable
<1>7. /\ job'[j].mems = memlist /\ job'[j].epoch = next_epoch
      /\ job'[j].pc = "start" /\ job'[j].batch = {}
  <2>1. job \in [Jobs -> JobType]  BY DEF IInv, TypeInv
  <2>2. job'[j] = [IdleJob EXCEPT !.pc = "start", !.mems = memlist, !.epoch = next_epoch,
                                  !.l0_empty = (l0 = {})]
    BY <1>4, <2>1 DEF PickMemTable
  <2>. QED  BY <2>2, IdleJobType DEF JobType
<1>8. \A f \in l0 : f.epoch < next_epoch  BY DEF IInv, L0Inv
<1>9. Agreeing(job'[j])  BY <1>7 DEF Agreeing
<1>. QED  BY <1>1, <1>3, <1>5, <1>6, <1>7, <1>8, <1>9 DEF OneJobInv

(***************************************************************************)
(* The steps of a flush that has not finished its files.                   *)
(***************************************************************************)
LEMMA UnfinishedOrder ==
    ASSUME OneJob, IInv, OneJobInv, NEW j \in Jobs,
           \/ StartBucketFlush(j) \/ FallBack(j) \/ AllocateFile(j)
           \/ (\E n \in DOMAIN job[j].files : BuildBucket(j, n))
           \/ FlushFails(j)
    PROVE  OneJobInv'
<1>1. job \in [Jobs -> JobType]  BY DEF IInv, TypeInv
<1>2. /\ job'[j].mems = job[j].mems /\ job'[j].batch = job[j].batch
      /\ job'[j].epoch = job[j].epoch
      /\ job[j].pc \in Active /\ job'[j].pc # "finish"
  <2>1. CASE StartBucketFlush(j)
    <3>. DEFINE needed(p) == {b \in DOMAIN p : DOMAIN PutVersions(job[j].mems, p[b]) # {}}
    <3>1. PICK p \in Partitions : job' = [job EXCEPT ![j].pc = "build", ![j].buckets = p,
                                                    ![j].todo = needed(p)]
      BY <2>1, Zenon DEF StartBucketFlush
    <3>. HIDE DEF needed
    <3>2. job[j].pc = "start"  BY <2>1 DEF StartBucketFlush
    <3>. QED  BY <1>1, <3>1, <3>2 DEF JobType, Active
  <2>2. CASE FallBack(j)  BY <1>1, <2>2 DEF FallBack, JobType, Active
  <2>3. CASE AllocateFile(j)  BY <1>1, <2>3 DEF AllocateFile, JobType, Active
  <2>4. ASSUME NEW n \in DOMAIN job[j].files, BuildBucket(j, n) PROVE
        /\ job'[j].mems = job[j].mems /\ job'[j].batch = job[j].batch
        /\ job'[j].epoch = job[j].epoch
        /\ job[j].pc \in Active /\ job'[j].pc # "finish"
    BY <1>1, <2>4 DEF BuildBucket, JobType, Active
  <2>5. CASE FlushFails(j)  BY <1>1, <2>5 DEF FlushFails, BuildsOver, JobType, Active
  <2>. QED  BY <2>1, <2>2, <2>3, <2>4, <2>5
<1>3. UNCHANGED <<completed, edit, memlist, l0>>
  BY DEF StartBucketFlush, FallBack, AllocateFile, BuildBucket, FlushFails, listVars
<1>4. \A i \in job[j].mems, m \in memlist' : m <= i => m \in job[j].mems
  BY <1>3 DEF OneJobInv
<1>5. Agreeing(job'[j])  BY <1>2 DEF Agreeing
<1>. QED  BY <1>2, <1>3, <1>4, <1>5, JobKeeps

(***************************************************************************)
(* The files of a bucket flush hold the same version of a key, should two  *)
(* of them hold it.                                                        *)
(***************************************************************************)
LEMMA SyncFilesOrder ==
    ASSUME OneJob, IInv, OneJobInv, NEW j \in Jobs, SyncFiles(j)
    PROVE  OneJobInv'
<1>. DEFINE old == job[j].files
            mems == job[j].mems
            vs(n) == PutVersions(mems, old[n].keys)
<1>1. job \in [Jobs -> JobType]  BY DEF IInv, TypeInv
<1>2. PICK synced \in SyncOutcomes(old) :
        job' = [job EXCEPT
            ![j].pc = IF old = << >> THEN "regular" ELSE "finish",
            ![j].files = [n \in DOMAIN old |-> File(old[n].epoch, vs(n), n \in synced)]]
  BY <1>1, Zenon DEF SyncFiles, JobType
<1>3. /\ job'[j].mems = mems /\ job'[j].batch = job[j].batch
      /\ job'[j].epoch = job[j].epoch /\ job[j].pc = "build"
      /\ job'[j].files = [n \in DOMAIN old |-> File(old[n].epoch, vs(n), n \in synced)]
  <2>1. job[j].pc = "build"  BY DEF SyncFiles, BuildsOver
  <2>. HIDE DEF vs
  <2>. QED  BY <1>1, <1>2, <2>1, Zenon DEF JobType
<1>4. \A n, m \in DOMAIN old : \A k \in DOMAIN vs(n) \cap DOMAIN vs(m) : vs(n)[k] = vs(m)[k]
  BY DEF PutVersions
<1>. HIDE DEF vs
<1>5. DOMAIN job'[j].files = DOMAIN old
      /\ \A n \in DOMAIN old : job'[j].files[n].versions = vs(n)
  BY <1>3 DEF File
<1>6. Agreeing(job'[j])
  <2>. DEFINE new == job'[j].files
  <2>1. ASSUME NEW n \in DOMAIN new, NEW m \in DOMAIN new PROVE SameVersions(new[n], new[m])
    <3>1. n \in DOMAIN old /\ m \in DOMAIN old /\ new[n].versions = vs(n)
          /\ new[m].versions = vs(m)
      BY <1>5
    <3>. QED  BY <1>4, <3>1 DEF SameVersions
  <2>. QED  BY <2>1 DEF Agreeing
<1>7. UNCHANGED <<completed, edit, memlist, l0>>  BY DEF SyncFiles, listVars
<1>8. \A i \in job[j].mems, m \in memlist' : m <= i => m \in job[j].mems
  BY <1>7 DEF OneJobInv
<1>9. job[j].pc \in Active  BY <1>3 DEF Active
<1>. QED  BY <1>3, <1>6, <1>7, <1>8, <1>9, JobKeeps, Zenon

LEMMA WriteLevel0TableOrder ==
    ASSUME OneJob, IInv, OneJobInv, NEW j \in Jobs, WriteLevel0Table(j)
    PROVE  OneJobInv'
<1>. DEFINE f == File(job[j].epoch, AllVersions(job[j].mems), TRUE)
<1>1. job \in [Jobs -> JobType]  BY DEF IInv, TypeInv
<1>2. job' = [job EXCEPT ![j].pc = "finish", ![j].files = <<f>>] /\ job[j].pc = "regular"
  BY Zenon DEF WriteLevel0Table
<1>. HIDE DEF f
<1>3. /\ job'[j].mems = job[j].mems /\ job'[j].batch = job[j].batch
      /\ job'[j].epoch = job[j].epoch /\ job'[j].files = <<f>>
  BY <1>1, <1>2 DEF JobType
<1>4. Agreeing(job'[j])
  <2>1. \A n \in DOMAIN <<f>> : <<f>>[n] = f  OBVIOUS
  <2>. QED  BY <1>3, <2>1, Zenon DEF Agreeing, SameVersions
<1>5. UNCHANGED <<completed, edit, memlist, l0>>  BY DEF WriteLevel0Table, listVars
<1>6. \A i \in job[j].mems, m \in memlist' : m <= i => m \in job[j].mems
  BY <1>5 DEF OneJobInv
<1>7. job[j].pc \in Active  BY <1>2 DEF Active
<1>. QED  BY <1>3, <1>4, <1>5, <1>6, <1>7, JobKeeps, Zenon

-----------------------------------------------------------------------------
(* The end of a flush.                                                      *)

(***************************************************************************)
(* A flush that completes is committed at once, as a prefix of the list.   *)
(***************************************************************************)
LEMMA TryInstallOrder ==
    ASSUME OneJob, IInv, OneJobInv, NEW j \in Jobs, TryInstallMemtableFlushResults(j)
    PROVE  OneJobInv'
<1>. DEFINE mems == job[j].mems
            files == job[j].files
            ids == CommittableOf(memlist, mems)
<1>1. \A i \in Jobs : i = j  BY DEF OneJob
<1>2. /\ job[j].pc = "finish" /\ job[j].pc \in Active /\ job \in [Jobs -> JobType]
      /\ mems \subseteq memlist /\ mems # {} /\ memlist \in SUBSET (1..MaxMemtables)
      /\ memlist \subseteq Nat /\ TypeInv
  <2>1. job[j].pc = "finish" /\ job[j].pc \in Active
    BY DEF TryInstallMemtableFlushResults, Active
  <2>. QED  BY <2>1, MemtableIds, Zenon DEF IInv, OwnInv, TypeInv
<1>3. completed = {} /\ ~commit_in_progress
  <2>1. job[j].batch = {}  BY <1>2 DEF IInv, CommitInv
  <2>. QED  BY <1>1, <1>2, <2>1 DEF OneJobInv, IInv, CommitInv
<1>4. completed' = mems /\ CommitOrLeave(j, memlist, mems)
      /\ UNCHANGED <<memlist, l0>>
      /\ edit' = [edit EXCEPT ![Min(mems)] = Range(files)]
  BY <1>3, Zenon DEF TryInstallMemtableFlushResults
<1>5. ids = mems
  <2>1. \A i \in mems, m \in memlist : m <= i => m \in mems  BY DEF OneJobInv
  <2>2. mems \subseteq ids  BY <1>2, <2>1, Zenon DEF CommittableOf
  <2>3. ASSUME NEW m \in ids PROVE m \in mems
    <3>1. m \in memlist /\ \A i \in memlist : i <= m => i \in mems
      BY <2>3 DEF CommittableOf
    <3>2. m <= m  BY <1>2, <3>1
    <3>. QED  BY <3>1, <3>2
  <2>. QED  BY <2>2, <2>3
<1>6. job'[j].mems = {} /\ job'[j].batch = ids
      /\ job'[j].pc = IF ids = {} THEN "idle" ELSE "commit"
  BY <1>2, <1>4, CommitOrLeaveJob, Zenon
<1>. HIDE DEF ids
<1>7. job'[j].pc = "commit" /\ job'[j].pc \notin Active /\ job'[j].pc # "finish"
  BY <1>2, <1>5, <1>6 DEF Active
<1>8. \A f \in Range(files) :
        /\ \A g \in l0 : g.epoch < f.epoch
        /\ \A g \in Range(files) : SameVersions(f, g)
  <2>0. \A g \in Range(files) : \E n \in DOMAIN files : g = files[n]
    BY DEF Range
  <2>1. TAKE f \in Range(files)
  <2>2. PICK n \in DOMAIN files : f = files[n]  BY <2>0
  <2>3. job[j].epoch <= f.epoch /\ f.epoch \in Nat /\ job[j].epoch \in Nat
    BY <1>2, <2>2 DEF IInv, FileInv, FilesOK, Built, FileOf, InstalledFile, JobType
  <2>4. \A g \in l0 : g.epoch < job[j].epoch /\ g.epoch \in Nat
    BY <1>2 DEF OneJobInv, IInv, TypeInv, InstalledFile
  <2>5. \A m \in DOMAIN files : SameVersions(f, files[m])
    BY <1>2, <2>2 DEF OneJobInv, Agreeing
  <2>. QED  BY <2>0, <2>3, <2>4, <2>5
<1>9. \A h \in 1..MaxMemtables : edit'[h] \subseteq Range(files)
  <2>1. \A h \in 1..MaxMemtables : edit[h] = {}  BY <1>3 DEF IInv, GroupInv
  <2>2. edit \in [1..MaxMemtables -> SUBSET InstalledFile]  BY <1>2 DEF TypeInv
  <2>. QED  BY <1>4, <2>1, <2>2
<1>10. Agreeing(job'[j])  BY <1>7 DEF Agreeing
<1>11. Ordered(l0')  BY <1>4 DEF OneJobInv
<1>. QED  BY <1>1, <1>4, <1>5, <1>6, <1>7, <1>8, <1>9, <1>10, <1>11, Zenon DEF OneJobInv

(***************************************************************************)
(* When no flush is under way and none is completed, only the order of L0  *)
(* is left to show.                                                        *)
(***************************************************************************)
Settled == completed = {} /\ Ordered(l0) /\ \A j \in Jobs : job[j].pc \notin Active

LEMMA SettledOrder == IInv /\ Settled => OneJobInv
<1>. SUFFICES ASSUME IInv, Settled PROVE OneJobInv
  OBVIOUS
<1>. USE DEF Settled
<1>1. \A j \in Jobs : job[j].batch = {} /\ job[j].mems = {}
  BY DEF IInv, CommitInv, BatchOK, OwnInv
<1>2. \A h \in 1..MaxMemtables : edit[h] = {}  BY DEF IInv, GroupInv
<1>3. \A j \in Jobs : Agreeing(job[j])  BY DEF Agreeing, Active
<1>. QED  BY <1>1, <1>2, <1>3 DEF OneJobInv

LEMMA RollbackOrder ==
    ASSUME OneJob, IInv, OneJobInv, NEW j \in Jobs, RollbackMemtableFlush(j)
    PROVE  Settled'
<1>1. \A i \in Jobs : i = j  BY DEF OneJob
<1>2. job[j].pc # "commit"  BY DEF RollbackMemtableFlush, BuildsOver
<1>3. completed = {}  BY <1>2 DEF IInv, CommitInv, OneJobInv
<1>4. completed' = {} /\ l0' = l0  BY <1>3, Zenon DEF RollbackMemtableFlush, RestoreFlags
<1>5. job'[j] = IdleJob  BY DEF RollbackMemtableFlush, IInv, TypeInv
<1>. QED  BY <1>1, <1>4, <1>5, IdleJobType DEF OneJobInv, Active, Settled

LEMMA CommitFailsOrder ==
    ASSUME OneJob, IInv, OneJobInv, NEW j \in Jobs, CommitFails(j)
    PROVE  Settled'
<1>1. \A i \in Jobs : i = j  BY DEF OneJob
<1>2. completed = job[j].batch  BY DEF OneJobInv
<1>3. completed' = {} /\ l0' = l0  BY <1>2, Zenon DEF CommitFails, RestoreFlags
<1>4. job'[j] = IdleJob  BY DEF CommitFails, IInv, TypeInv
<1>. QED  BY <1>1, <1>3, <1>4, IdleJobType DEF OneJobInv, Active, Settled

(***************************************************************************)
(* What a commit adds to L0 has larger epoch numbers and newer versions.   *)
(***************************************************************************)
LEMMA CommitOrder ==
    ASSUME OneJob, IInv, OneJobInv, NEW j \in Jobs, Commit(j)
    PROVE  Settled'
<1>. DEFINE B == job[j].batch
            new == UNION {edit[i] : i \in BatchHeads(B)}
<1>1. /\ \A i \in Jobs : i = j
      /\ job[j].pc = "commit" /\ completed = B /\ BatchOK(memlist, completed, batch, B)
      /\ B \subseteq memlist /\ B \subseteq 1..MaxMemtables
  <2>1. job[j].pc = "commit" /\ completed = B  BY DEF Commit, OneJobInv
  <2>2. completed \subseteq memlist /\ completed \subseteq 1..MaxMemtables
    BY MemtableIds DEF IInv
  <2>. QED  BY <2>1, <2>2, Zenon DEF OneJob, IInv, CommitInv
<1>2. l0' = l0 \cup new /\ completed' = {} /\ CommitOrLeave(j, memlist', {})
      /\ memlist' = memlist \ B
  <2>1. completed \ B = {}  BY <1>1
  <2>. QED  BY <2>1, Zenon DEF Commit
<1>3. job'[j].pc \notin Active
  <2>1. job \in [Jobs -> JobType] /\ memlist' \in SUBSET (1..MaxMemtables)
    BY <1>2, MemtableIds DEF IInv, TypeInv
  <2>. QED  BY <1>2, <2>1, CommitOrLeaveJob DEF Active
<1>4. \A g \in new : \E h \in 1..MaxMemtables : g \in edit[h]
  BY <1>1 DEF BatchHeads
<1>. HIDE DEF new
<1>5. ASSUME NEW g \in new
      PROVE  /\ g.epoch \in Nat /\ \A f \in l0 : f.epoch < g.epoch
             /\ \A f \in new : SameVersions(f, g)
             /\ \A k \in DOMAIN g.versions : g.versions[k] \in memlist
  <2>1. PICK h \in 1..MaxMemtables : g \in edit[h]  BY <1>4
  <2>2. FileOf(content, g, Group(completed, batch, h))  BY <2>1 DEF IInv, GroupInv
  <2>3. \A f \in l0 : f.epoch < g.epoch  BY <2>1 DEF OneJobInv
  <2>4. \A f \in new : SameVersions(f, g)  BY <1>4, <2>1 DEF OneJobInv
  <2>5. \A k \in DOMAIN g.versions : g.versions[k] \in memlist
    BY <1>1, <2>2 DEF FileOf, Group
  <2>. QED  BY <2>2, <2>3, <2>4, <2>5 DEF FileOf, InstalledFile
<1>6. \A f \in l0 : f.epoch \in Nat /\ \A k \in DOMAIN f.versions : f.versions[k] \in Installed
  BY DEF IInv, L0Inv, FileOf, InstalledFile
<1>7. /\ \A i \in Installed, m \in memlist : i < m
      /\ \A m \in memlist : m \in Nat
      /\ \A i \in Installed : i \in Nat
  BY InvInstalledOlder, MemtableIds DEF IInv, Installed
<1>8. ASSUME NEW f \in l0', NEW g \in l0', NEW k \in DOMAIN f.versions \cap DOMAIN g.versions,
             f.epoch <= g.epoch
      PROVE  f.versions[k] <= g.versions[k]
  <2>1. CASE f \in l0 /\ g \in l0  BY <1>8, <2>1 DEF OneJobInv, Ordered
  <2>2. CASE f \in l0 /\ g \in new
    <3>1. f.versions[k] \in Installed /\ g.versions[k] \in memlist
      BY <1>5, <1>6, <2>2
    <3>. QED  BY <1>7, <3>1
  <2>3. CASE f \in new /\ g \in l0
    <3>1. g.epoch < f.epoch /\ g.epoch \in Nat /\ f.epoch \in Nat
      BY <1>5, <1>6, <2>3
    <3>. QED  BY <1>8, <3>1
  <2>4. CASE f \in new /\ g \in new
    <3>1. f.versions[k] = g.versions[k]  BY <1>5, <2>4 DEF SameVersions
    <3>2. g.versions[k] \in Nat  BY <1>5, <1>7, <2>4
    <3>. QED  BY <3>1, <3>2
  <2>. QED  BY <1>2, <2>1, <2>2, <2>3, <2>4
<1>9. Ordered(l0')  BY <1>8 DEF Ordered
<1>. QED  BY <1>1, <1>2, <1>3, <1>9 DEF Settled

(***************************************************************************)
(* So is the file that recovery writes.                                    *)
(***************************************************************************)
LEMMA CrashAndRecoverOrder ==
    ASSUME IInv, OneJobInv, CrashAndRecover
    PROVE  Settled'
<1>1. PICK lost \in SUBSET {f \in l0 : ~f.synced} :
        IF memlist = {}
        THEN l0' = l0 \ lost
        ELSE l0' = (l0 \ lost) \cup {File(NextEpochAfter(l0 \ lost), AllVersions(memlist), TRUE)}
  BY Zenon DEF CrashAndRecover
<1>. DEFINE rest == l0 \ lost
            e == NextEpochAfter(rest)
            vs == AllVersions(memlist)
            g == File(e, vs, TRUE)
<1>2. e \in Nat /\ \A f \in rest : f.epoch < e
  <2>1. /\ rest \in SUBSET InstalledFile /\ \A f \in rest : f.epoch < next_epoch
        /\ next_epoch \in Nat
    BY DEF IInv, TypeInv, L0Inv
  <2>. HIDE DEF rest
  <2>. QED  BY <2>1, NextEpochProperties
<1>3. \A k \in DOMAIN vs : vs[k] \in memlist
  <2>1. TypeInv /\ memlist \in SUBSET (1..Len(content))  BY DEF IInv, TypeInv
  <2>. QED  BY <2>1, AllVersionsProperties, Zenon
<1>4. Ordered(rest)  BY DEF OneJobInv, Ordered
<1>5. \A f \in rest : f.epoch \in Nat /\ \A k \in DOMAIN f.versions : f.versions[k] \in Installed
  BY DEF IInv, L0Inv, FileOf, InstalledFile
<1>6. /\ \A i \in Installed, m \in memlist : i < m
      /\ \A m \in memlist : m \in Nat
      /\ \A i \in Installed : i \in Nat
  BY InvInstalledOlder, MemtableIds DEF IInv, Installed
<1>7. l0' \subseteq rest \cup {g}  BY <1>1, Zenon
<1>. HIDE DEF rest, e, vs
<1>8. g.epoch = e /\ g.versions = vs  BY DEF File
<1>. HIDE DEF g
<1>9. ASSUME NEW f \in l0', NEW h \in l0', NEW k \in DOMAIN f.versions \cap DOMAIN h.versions,
             f.epoch <= h.epoch
      PROVE  f.versions[k] <= h.versions[k]
  <2>1. CASE f \in rest /\ h \in rest  BY <1>4, <1>9, <2>1 DEF Ordered
  <2>2. CASE f \in rest /\ h = g
    <3>1. f.versions[k] \in Installed /\ h.versions[k] \in memlist
      BY <1>3, <1>5, <1>8, <2>2
    <3>. QED  BY <1>6, <3>1
  <2>3. CASE f = g /\ h \in rest
    <3>1. h.epoch < f.epoch /\ h.epoch \in Nat /\ f.epoch \in Nat
      BY <1>2, <1>5, <1>8, <2>3
    <3>. QED  BY <1>9, <3>1
  <2>4. CASE f = g /\ h = g
    <3>1. f.versions[k] = h.versions[k] /\ h.versions[k] \in Nat
      BY <1>3, <1>6, <1>8, <2>4
    <3>. QED  BY <3>1
  <2>. QED  BY <1>7, <2>1, <2>2, <2>3, <2>4
<1>10. Ordered(l0')  BY <1>9 DEF Ordered
<1>11. completed' = {} /\ \A i \in Jobs : job'[i].pc \notin Active
  BY IdleJobType DEF CrashAndRecover, Active
<1>. QED  BY <1>10, <1>11 DEF Settled

LEMMA InitOrder == OneJob /\ Init => OneJobInv
<1>. SUFFICES ASSUME OneJob, Init PROVE OneJobInv
  OBVIOUS
<1>1. \A j \in Jobs : job[j].pc \notin Active  BY IdleJobType DEF Init, Active
<1>2. Settled  BY <1>1 DEF Settled, Ordered, Init
<1>. QED  BY <1>2, SettledOrder, InitInv

LEMMA NextOrder == OneJob /\ IInv /\ OneJobInv /\ [Next]_vars => OneJobInv'
<1>. SUFFICES ASSUME OneJob, IInv, OneJobInv, [Next]_vars PROVE OneJobInv'
  OBVIOUS
<1>0. IInv'  BY NextInv
<1>1. ASSUME Settled' PROVE OneJobInv'  BY <1>0, <1>1, SettledOrder, PTL
<1>2. CASE CrashAndRecover  BY <1>1, <1>2, CrashAndRecoverOrder
<1>3. ASSUME NEW j \in Jobs, PickMemTable(j) \/ JobStep(j) PROVE OneJobInv'
  <2>1. CASE PickMemTable(j)  BY <2>1, PickMemTableOrder
  <2>2. CASE \/ StartBucketFlush(j) \/ FallBack(j) \/ AllocateFile(j)
             \/ (\E n \in DOMAIN job[j].files : BuildBucket(j, n))
             \/ FlushFails(j)
    BY <2>2, UnfinishedOrder
  <2>3. CASE SyncFiles(j)  BY <2>3, SyncFilesOrder
  <2>4. CASE WriteLevel0Table(j)  BY <2>4, WriteLevel0TableOrder
  <2>5. CASE TryInstallMemtableFlushResults(j)  BY <2>5, TryInstallOrder
  <2>6. CASE RollbackMemtableFlush(j)  BY <1>1, <2>6, RollbackOrder
  <2>7. CASE Commit(j)  BY <1>1, <2>7, CommitOrder
  <2>8. CASE CommitFails(j)  BY <1>1, <2>8, CommitFailsOrder
  <2>. QED  BY <1>3, <2>1, <2>2, <2>3, <2>4, <2>5, <2>6, <2>7, <2>8 DEF JobStep
<1>4. CASE SwitchMemtable
  <2>1. CASE Jobs = {}
    <3>1. memlist' = memlist \cup {Len(content')} /\ UNCHANGED <<edit, l0>>
      BY <1>4 DEF SwitchMemtable
    <3>. QED  BY <2>1, <3>1 DEF OneJobInv
  <2>2. ASSUME NEW j \in Jobs PROVE OneJobInv'  BY <1>4, SwitchMemtableOrder
  <2>. QED  BY <2>1, <2>2
<1>5. CASE Resume \/ UNCHANGED vars
  <2>1. UNCHANGED <<completed, memlist, edit, l0, job>>
    BY <1>5 DEF Resume, vars, listVars
  <2>. QED  BY <2>1 DEF OneJobInv
<1>. QED  BY <1>2, <1>3, <1>4, <1>5 DEF Next

(***************************************************************************)
(* One job at a time keeps the order of L0, over failures and crashes.     *)
(***************************************************************************)
LEMMA OneJobInvariant == OneJob => (Spec => []OneJobInv)
<1>1. CASE ~OneJob  BY <1>1
<1>2. CASE OneJob
  <2>1. Init => OneJobInv  BY <1>2, InitOrder
  <2>2. IInv /\ OneJobInv /\ [Next]_vars => OneJobInv'  BY <1>2, NextOrder
  <2>. QED  BY <2>1, <2>2, FlushInvariant, PTL DEF Spec
<1>. QED  BY <1>1, <1>2

-----------------------------------------------------------------------------
(* What follows from the order of L0.                                       *)

LEMMA InvNewestFirst == IInv /\ OneJobInv => NewestFirst
<1>. SUFFICES ASSUME IInv, OneJobInv PROVE NewestFirst
  OBVIOUS
<1>1. \A f \in l0 : f.epoch \in Nat  BY DEF IInv, TypeInv, InstalledFile
<1>2. \A f, g \in l0 : f.epoch < g.epoch => f.epoch <= g.epoch  BY <1>1
<1>. QED  BY <1>2 DEF OneJobInv, Ordered, NewestFirst

(***************************************************************************)
(* "For L0, larger `epoch_number` indicates newer L0 file."                *)
(* (FileMetaData, db/version_edit.h) is true of flushes that run one at a  *)
(* time, whatever fails and however often the process crashes.             *)
(***************************************************************************)
THEOREM EpochOrder == OneJob => (Spec => []NewestFirst)
BY OneJobInvariant, FlushInvariant, InvNewestFirst, PTL

NoRangeDeletions == \A w \in Writes : w.range_dels = {}

(***************************************************************************)
(* The file that Get looks in first has the last version of the key.       *)
(***************************************************************************)
LEMMA FirstFileHasLast ==
    ASSUME IInv, OneJobInv, ~SyncMayFail, NEW k \in Keys, NEW last \in Nat,
           \A i \in Installed : k \in content[i].puts => i <= last,
           last # 0 => last \in Installed /\ k \in content[last].puts,
           \A f \in l0 : k \in DOMAIN f.versions => k \in content[f.versions[k]].puts
    PROVE  L0Version(k) = last
<1>. DEFINE files == {f \in l0 : k \in DOMAIN f.versions}
            first == CHOOSE f \in files : \A g \in files : g.epoch <= f.epoch
<1>1. L0Version(k) = IF files = {} THEN 0 ELSE first.versions[k]  BY DEF L0Version
<1>2. last # 0 => \E g \in files : g.versions[k] >= last
  BY DEF IInv, L0Inv, Covers, Has
<1>3. \A f \in files : /\ f \in l0 /\ k \in DOMAIN f.versions /\ f.epoch \in Nat
                       /\ f.epoch <= next_epoch /\ f.versions[k] \in Installed
  BY DEF IInv, TypeInv, L0Inv, FileOf, InstalledFile
<1>4. Installed \subseteq Nat \ {0} /\ next_epoch \in Nat
  BY DEF IInv, TypeInv, Installed
<1>. HIDE DEF files
<1>5. CASE files = {}  BY <1>1, <1>2, <1>5
<1>6. CASE files # {}
  <2>. DEFINE T == {f.epoch : f \in files}
  <2>1. T \in SUBSET Nat /\ T # {} /\ \A y \in T : y <= next_epoch  BY <1>3, <1>6
  <2>2. Max(T) \in T /\ \A y \in T : y <= Max(T)  BY <1>4, <2>1, MaxProperties, Zenon
  <2>3. \E f \in files : \A g \in files : g.epoch <= f.epoch  BY <2>2
  <2>4. first \in files /\ \A g \in files : g.epoch <= first.epoch  BY <2>3, Zenon
  <2>. HIDE DEF first
  <2>5. /\ first.versions[k] \in Nat \ {0} /\ first.versions[k] <= last
        /\ L0Version(k) = first.versions[k]
    BY <1>1, <1>3, <1>4, <1>6, <2>4
  <2>6. PICK g \in files : g.versions[k] >= last  BY <1>2, <2>5
  <2>7. g.versions[k] <= first.versions[k] /\ g.versions[k] \in Nat
    BY <1>3, <1>4, <2>4 DEF OneJobInv, Ordered
  <2>. QED  BY <2>5, <2>6, <2>7
<1>. QED  BY <1>5, <1>6

LEMMA InvReadsLastWrite ==
    ~SyncMayFail /\ NoRangeDeletions /\ IInv /\ OneJobInv => ReadsLastWrite
<1>. SUFFICES ASSUME ~SyncMayFail, NoRangeDeletions, IInv, OneJobInv, NEW k \in Keys
              PROVE  LET last == Max({0} \cup {i \in 1..Len(content) : Touches(i, k)})
                         unflushed == {i \in memlist : Touches(i, k)}
                     IN  last = IF unflushed # {} THEN Max(unflushed) ELSE L0Version(k)
  BY DEF ReadsLastWrite
<1>. DEFINE S == {i \in 1..Len(content) : Touches(i, k)}
            last == Max({0} \cup S)
            unflushed == {i \in memlist : Touches(i, k)}
<1>1. /\ Len(content) \in Nat /\ memlist \subseteq 1..Len(content)
      /\ \A i \in 1..Len(content) : content[i] \in Writes
  BY DEF IInv, TypeInv
<1>2. \A i \in 1..Len(content) : Touches(i, k) <=> k \in content[i].puts
  BY <1>1 DEF Touches, NoRangeDeletions
<1>3. \A i : i \in S <=> i \in 1..Len(content) /\ Touches(i, k)  OBVIOUS
<1>4. \A i : i \in unflushed <=> i \in memlist /\ i \in S  BY <1>1, <1>3
<1>. HIDE DEF S, unflushed
<1>5. last \in {0} \cup S /\ \A i \in S : i <= last
  <2>1. ({0} \cup S) \in SUBSET Nat /\ \A i \in {0} \cup S : i <= Len(content)
    BY <1>1, <1>3
  <2>. QED  BY <1>1, <2>1, MaxProperties
<1>. HIDE DEF last
<1>6. last \in Nat /\ S \subseteq Nat \ {0}  BY <1>1, <1>3, <1>5
<1>7. CASE unflushed # {}
  <2>1. unflushed \in SUBSET Nat /\ \A i \in unflushed : i <= last
    BY <1>4, <1>5, <1>6
  <2>. DEFINE u == Max(unflushed)
  <2>2. u \in unflushed /\ \A i \in unflushed : i <= u  BY <1>6, <1>7, <2>1, MaxProperties
  <2>. HIDE DEF u
  <2>3. u \in memlist /\ u \in Nat \ {0} /\ u <= last  BY <1>4, <1>6, <2>1, <2>2
  <2>4. last \in S  BY <1>5, <1>6, <2>3
  <2>5. last \in memlist
    <3>1. last = u \/ u < last  BY <1>6, <2>3
    <3>. QED  BY <1>3, <2>3, <2>4, <3>1 DEF IInv, ListInv
  <2>6. last <= u  BY <1>4, <2>2, <2>4, <2>5
  <2>7. last = u  BY <1>6, <2>3, <2>6
  <2>. QED  BY <1>7, <2>7 DEF u, last, S, unflushed
<1>8. CASE unflushed = {}
  <2>1. \A i : i \in S <=> i \in Installed /\ k \in content[i].puts
    BY <1>2, <1>3, <1>4, <1>8 DEF Installed
  <2>2. \A f \in l0 : k \in DOMAIN f.versions => k \in content[f.versions[k]].puts
    <3>. TAKE f \in l0
    <3>. HAVE k \in DOMAIN f.versions
    <3>1. f.versions[k] \in 1..Len(content) /\ Touches(f.versions[k], k)
      BY DEF IInv, L0Inv, FileOf, Installed, Touches
    <3>. QED  BY <1>2, <3>1
  <2>3. L0Version(k) = last
    <3>1. \A i \in Installed : k \in content[i].puts => i <= last  BY <1>5, <2>1
    <3>2. last # 0 => last \in Installed /\ k \in content[last].puts  BY <1>5, <2>1
    <3>. QED  BY <1>6, <2>2, <3>1, <3>2, FirstFileHasLast
  <2>. QED  BY <1>8, <2>3 DEF last, S, unflushed
<1>. QED  BY <1>7, <1>8 DEF unflushed

(***************************************************************************)
(* With flushes that run one at a time, no range deletions and no failed   *)
(* batch sync, a read finds the last write of every key in every state,    *)
(* whatever else fails and however often the process crashes.  Each of the *)
(* three conditions is needed: without any one of them TLC refutes         *)
(* ReadsLastWrite.                                                         *)
(***************************************************************************)
THEOREM ReadsFindLastWrite ==
    OneJob /\ NoRangeDeletions /\ ~SyncMayFail => (Spec => []ReadsLastWrite)
<1>1. CASE ~(NoRangeDeletions /\ ~SyncMayFail)  BY <1>1
<1>2. CASE NoRangeDeletions /\ ~SyncMayFail
  <2>1. IInv /\ OneJobInv => ReadsLastWrite  BY <1>2, InvReadsLastWrite
  <2>. QED  BY OneJobInvariant, FlushInvariant, <2>1, PTL
<1>. QED  BY <1>1, <1>2
=============================================================================
