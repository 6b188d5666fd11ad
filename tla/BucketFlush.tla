----------------------------- MODULE BucketFlush -----------------------------
(***************************************************************************)
(* Flushing memtables by bucket: the list of immutable memtables           *)
(* (db/memtable_list.cc), the flush jobs that pick, write and install them *)
(* (db/flush_job.cc, FlushMemTableToOutputFile in                          *)
(* db/db_impl/db_impl_compaction_flush.cc), and a crash with the recovery  *)
(* that follows it.                                                        *)
(*                                                                         *)
(* Memtables are numbered by age, so the list of those not installed is    *)
(* the set of their numbers; they stand for the sequence numbers of        *)
(* what was written to them: the version of a key in a file is the number  *)
(* of the memtable it came from.  In a memtable a put of a key follows a   *)
(* range deletion that covers it.  What a job's bucket snapshot looks like *)
(* is the business of module BucketManager; here it is any member of       *)
(* Partitions.                                                             *)
(*                                                                         *)
(* A step is a critical section of the db mutex or a step of the unlocked  *)
(* part of WriteBucketLevel0Table that other threads can observe.          *)
(***************************************************************************)
EXTENDS Integers, Sequences, FiniteSets, FiniteSetsExt

CONSTANTS
    Keys,                   \* user keys
    Jobs,                   \* flushes that may run at the same time
    Writes,                 \* what a memtable may hold
    Partitions,             \* bucket snapshots: sequences of sets of keys
    parallel_split_flush,   \* the option of that name
    SyncMayFail,            \* whether the batch sync may meet an I/O error
    MaxMemtables,           \* bound on the memtables that are written
    MaxErrors,              \* bound on failures of a build or a MANIFEST write
    MaxCrashes              \* bound on crashes

ASSUME WritesAssumption ==
    \A w \in Writes : w.puts \subseteq Keys /\ w.range_dels \subseteq Keys
ASSUME PartitionsAssumption ==
    \A p \in Partitions :
        /\ p \in Seq(SUBSET Keys)
        /\ UNION Range(p) = Keys
        /\ \A i, k \in DOMAIN p : i # k => p[i] \cap p[k] = {}
ASSUME FlagsAssumption ==
    parallel_split_flush \in BOOLEAN /\ SyncMayFail \in BOOLEAN
ASSUME BoundsAssumption ==
    MaxMemtables \in Nat /\ MaxErrors \in Nat /\ MaxCrashes \in Nat

VARIABLES
    content,                \* every memtable made immutable so far
    memlist,                \* memlist_, in the order of the numbers
    in_progress,            \* memtables with flush_in_progress_
    completed,              \* memtables with flush_completed_
    edit,                   \* edit_ of a memtable: the files it adds
    batch,                  \* file_number_, common to the memtables of a flush
    num_flush_not_started, imm_flush_needed, commit_in_progress,
    next_epoch,             \* next_epoch_number_ of the column family
    l0,                     \* the files of L0, as the MANIFEST has them
    initialized,            \* the bucket manager is initialised
    bg_error,               \* background work has been stopped by an error
    job,                    \* the flush jobs
    errors, crashes         \* counted against the bounds

listVars == <<memlist, in_progress, completed, edit, batch,
              num_flush_not_started, imm_flush_needed>>
vars == <<content, listVars, commit_in_progress, next_epoch, l0, initialized,
          bg_error, job, errors, crashes>>

-----------------------------------------------------------------------------
(* Contents of memtables and files.                                         *)

Touches(i, k) == k \in content[i].puts \cup content[i].range_dels

\* mutant: the oldest put shadows the others
OldestVersions(ids, keys) ==
    [k \in {x \in keys : \E i \in ids : x \in content[i].puts} |->
        Min({i \in ids : k \in content[i].puts})]
\* What a bucket's file holds: the newest put of each key of the bucket.
PutVersions(ids, keys) ==
    [k \in {x \in keys : \E i \in ids : x \in content[i].puts} |->
        Max({i \in ids : k \in content[i].puts})]

\* What a regular flush and recovery write: range deletions as well.
AllVersions(ids) ==
    [k \in {x \in Keys : \E i \in ids : Touches(i, x)} |->
        Max({i \in ids : Touches(i, k)})]

File(epoch, versions, synced) ==
    [epoch |-> epoch, versions |-> versions, synced |-> synced]

\* The file Get looks in first: L0 is sorted by NewestFirstByEpochNumber.
L0Version(k) ==
    LET files == {f \in l0 : k \in DOMAIN f.versions}
        first == CHOOSE f \in files : \A g \in files : g.epoch <= f.epoch
    IN  IF files = {} THEN 0 ELSE first.versions[k]

-----------------------------------------------------------------------------
(* A job: the memtables it picked; its epoch_number and whether L0 was      *)
(* empty then; its bucket snapshot and the buckets still to get a file;     *)
(* the files; the memtables it commits.                                     *)

IdleJob == [pc |-> "idle", mems |-> {}, epoch |-> 0, l0_empty |-> FALSE,
            buckets |-> << >>, todo |-> {}, files |-> << >>, batch |-> {}]

Init ==
    /\ content = << >>
    /\ memlist = {}
    /\ in_progress = {} /\ completed = {}
    /\ edit = [i \in 1..MaxMemtables |-> {}]
    /\ batch = [i \in 1..MaxMemtables |-> 0]
    /\ num_flush_not_started = 0
    /\ imm_flush_needed = FALSE
    /\ commit_in_progress = FALSE
    /\ next_epoch = 1
    /\ l0 = {}
    /\ initialized = FALSE
    /\ bg_error = FALSE
    /\ job = [j \in Jobs |-> IdleJob]
    /\ errors = 0 /\ crashes = 0

\* MemTableList::Add
SwitchMemtable ==
    /\ Len(content) < MaxMemtables
    /\ \E w \in Writes : content' = Append(content, w)
    /\ memlist' = memlist \cup {Len(content')}
    /\ num_flush_not_started' = num_flush_not_started + 1
    /\ imm_flush_needed' = (imm_flush_needed \/ num_flush_not_started' = 1)
    /\ UNCHANGED <<in_progress, completed, edit, batch, commit_in_progress,
                   next_epoch, l0, initialized, bg_error, job, errors, crashes>>

\* PickMemtablesToFlush: the oldest run of memtables not in progress.
Waiting == memlist \ in_progress
Pickable == {m \in Waiting : \A i \in in_progress : i < Min(Waiting) \/ i > m}

PickMemTable(j) ==
    /\ job[j].pc = "idle"
    /\ imm_flush_needed /\ ~bg_error
    /\ Pickable # {}
    /\ job' = [job EXCEPT ![j] = [IdleJob EXCEPT
                  !.pc = "start", !.mems = Pickable, !.epoch = next_epoch,
                  !.l0_empty = (l0 = {})]]
    /\ next_epoch' = next_epoch + 1
    /\ in_progress' = in_progress \cup Pickable
    /\ num_flush_not_started' = num_flush_not_started - Cardinality(Pickable)
    /\ imm_flush_needed' = (num_flush_not_started' # 0)
    /\ UNCHANGED <<content, memlist, completed, edit, batch, commit_in_progress,
                   l0, initialized, bg_error, errors, crashes>>

(***************************************************************************)
(* The unlocked part of WriteBucketLevel0Table.  The first flush into an   *)
(* empty L0 initialises the manager.  Buckets without entries get no file. *)
(***************************************************************************)
StartBucketFlush(j) ==
    /\ job[j].pc = "start"
    /\ initialized \/ job[j].l0_empty
    /\ initialized' = TRUE
    /\ \E p \in Partitions :
        job' = [job EXCEPT ![j].pc = "build", ![j].buckets = p,
                   ![j].todo = {b \in DOMAIN p :
                                  DOMAIN PutVersions(job[j].mems, p[b]) # {}}]
    /\ UNCHANGED <<content, listVars, commit_in_progress, next_epoch, l0,
                   bg_error, errors, crashes>>

\* Not initialised although L0 has files: WriteLevel0Table.
FallBack(j) ==
    /\ job[j].pc = "start"
    /\ ~initialized /\ ~job[j].l0_empty
    /\ job' = [job EXCEPT ![j].pc = "regular"]
    /\ UNCHANGED <<content, listVars, commit_in_progress, next_epoch, l0,
                   initialized, bg_error, errors, crashes>>

(***************************************************************************)
(* NewFileNumber and NewEpochNumber for the next bucket, without the db    *)
(* mutex.  The parallel path allocates for all buckets before it builds,   *)
(* the sequential path for one bucket at a time.                           *)
(***************************************************************************)
Failed(j) == \E n \in DOMAIN job[j].files : job[j].files[n].status \in {"failed", "aborted"}

AllocateFile(j) ==
    /\ job[j].pc = "build"
    /\ job[j].todo # {}
    /\ ~parallel_split_flush =>
           \A n \in DOMAIN job[j].files : job[j].files[n].status = "built"
    /\ LET b == Min(job[j].todo)
       IN  job' = [job EXCEPT ![j].todo = @ \ {b},
                      ![j].files = Append(@, [keys |-> job[j].buckets[b],
                                              epoch |-> next_epoch, status |-> "new"])]
    /\ next_epoch' = next_epoch + 1
    /\ UNCHANGED <<content, listVars, commit_in_progress, l0, initialized,
                   bg_error, errors, crashes>>

(***************************************************************************)
(* One thread per bucket (or one bucket after the other).  A thread that   *)
(* finds has_error set gives up; one that checked before builds its file.  *)
(***************************************************************************)
BuildBucket(j, n) ==
    /\ job[j].pc = "build"
    /\ n \in DOMAIN job[j].files /\ job[j].files[n].status = "new"
    /\ parallel_split_flush => job[j].todo = {}
    /\ \E result \in {"built", "failed", "aborted"} :
        /\ result = "failed" => errors < MaxErrors
        /\ result = "aborted" => Failed(j)
        /\ job' = [job EXCEPT ![j].files[n].status = result]
        /\ errors' = IF result = "failed" THEN errors + 1 ELSE errors
    /\ UNCHANGED <<content, listVars, commit_in_progress, next_epoch, l0,
                   initialized, bg_error, crashes>>

\* All buckets done, or the sequential loop left by its break.
BuildsOver(j) ==
    /\ job[j].pc = "build"
    /\ \A n \in DOMAIN job[j].files : job[j].files[n].status # "new"
    /\ job[j].todo = {} \/ Failed(j)

\* A failed sync of a file is only logged.
SyncOutcomes(files) == IF SyncMayFail THEN SUBSET DOMAIN files ELSE {DOMAIN files}

\* The batch sync; and, where no file was needed, WriteLevel0Table after all.
SyncFiles(j) ==
    /\ BuildsOver(j) /\ ~Failed(j)
    /\ \E synced \in SyncOutcomes(job[j].files) :
        job' = [job EXCEPT
            ![j].pc = IF job[j].files = << >> THEN "regular" ELSE "finish",
            ![j].files = [n \in DOMAIN @ |->
                File(@[n].epoch, PutVersions(job[j].mems, @[n].keys), n \in synced)]]
    /\ UNCHANGED <<content, listVars, commit_in_progress, next_epoch, l0,
                   initialized, bg_error, errors, crashes>>

\* WriteLevel0Table: one file, with the epoch number taken by PickMemTable.
WriteLevel0Table(j) ==
    /\ job[j].pc = "regular"
    /\ job' = [job EXCEPT ![j].pc = "finish",
                  ![j].files = <<File(job[j].epoch, AllVersions(job[j].mems), TRUE)>>]
    /\ UNCHANGED <<content, listVars, commit_in_progress, next_epoch, l0,
                   initialized, bg_error, errors, crashes>>

\* WriteLevel0Table fails, or the directory cannot be synced.
FlushFails(j) ==
    /\ \/ job[j].pc = "regular"
       \/ BuildsOver(j) /\ ~Failed(j)
    /\ errors < MaxErrors
    /\ errors' = errors + 1
    /\ job' = [job EXCEPT ![j].pc = "failed"]
    /\ UNCHANGED <<content, listVars, commit_in_progress, next_epoch, l0,
                   initialized, bg_error, crashes>>

-----------------------------------------------------------------------------
(* The end of FlushJob::Run, under the db mutex.                            *)

\* The memtables whose flushes the loop of TryInstall... commits next.
\* mutant: also those behind a memtable that is still being flushed
AllCompleted(list, done) == list \cap done
CommittableOf(list, done) ==
    {m \in list : \A i \in list : i <= m => i \in done}

\* Either this job becomes the committer, or it leaves that to the others.
\* mutant: a committer does not look for flushes that completed meanwhile
CommitOnce(j, list, done) ==
    LET ids == CommittableOf(list, done)
    IN  IF ids = {} \/ job[j].pc = "commit"
        THEN job' = [job EXCEPT ![j] = IdleJob]
        ELSE job' = [job EXCEPT ![j] = [IdleJob EXCEPT !.pc = "commit", !.batch = ids]]
CommitOrLeave(j, list, done) ==
    LET ids == CommittableOf(list, done)
    IN  IF ids = {}
        THEN job' = [job EXCEPT ![j] = IdleJob]
        ELSE job' = [job EXCEPT ![j] = [IdleJob EXCEPT !.pc = "commit", !.batch = ids]]

TryInstallMemtableFlushResults(j) ==
    /\ job[j].pc = "finish"
    /\ ~bg_error
    /\ completed' = completed \cup job[j].mems
    /\ edit' = [edit EXCEPT ![Min(job[j].mems)] = Range(job[j].files)]
    /\ batch' = [i \in DOMAIN batch |-> IF i \in job[j].mems THEN job[j].epoch ELSE batch[i]]
    /\ IF commit_in_progress
       THEN /\ job' = [job EXCEPT ![j] = IdleJob]
            /\ UNCHANGED commit_in_progress
       ELSE /\ CommitOrLeave(j, memlist, completed')
            /\ commit_in_progress' = (job'[j].pc = "commit")
    /\ UNCHANGED <<content, memlist, in_progress, num_flush_not_started,
                   imm_flush_needed, next_epoch, l0, initialized, bg_error, errors,
                   crashes>>

(***************************************************************************)
(* RollbackMemtableFlush: the job's memtables, and the completed ones that *)
(* directly follow the first of them, can be picked again.                 *)
(***************************************************************************)
CompletedAfter(id) ==
    {m \in completed : m > id /\ \A i \in (id + 1)..m : i \in completed}
RolledBack(mems) == mems \cup CompletedAfter(Min(mems))

\* mutant: restored memtables are not counted as waiting
RestoreFlagsUncounted(ids) ==
    /\ in_progress' = in_progress \ ids
    /\ completed' = completed \ ids
    /\ edit' = [i \in DOMAIN edit |-> IF i \in ids THEN {} ELSE edit[i]]
    /\ batch' = [i \in DOMAIN batch |-> IF i \in ids THEN 0 ELSE batch[i]]
    /\ imm_flush_needed' = TRUE
    /\ UNCHANGED num_flush_not_started
RestoreFlags(ids) ==
    /\ in_progress' = in_progress \ ids
    /\ completed' = completed \ ids
    /\ edit' = [i \in DOMAIN edit |-> IF i \in ids THEN {} ELSE edit[i]]
    /\ batch' = [i \in DOMAIN batch |-> IF i \in ids THEN 0 ELSE batch[i]]
    /\ num_flush_not_started' = num_flush_not_started + Cardinality(ids)
    /\ imm_flush_needed' = TRUE

\* SetBGError: the error may or may not be grave enough to stop the work.
SetBGError == \E stopped \in BOOLEAN : bg_error' = (bg_error \/ stopped)

\* The flush failed, or background work was stopped while it ran.
RollbackMemtableFlush(j) ==
    /\ \/ BuildsOver(j) /\ Failed(j)
       \/ job[j].pc = "failed"
       \/ job[j].pc = "finish" /\ bg_error
    /\ RestoreFlags(RolledBack(job[j].mems))
    /\ SetBGError
    /\ job' = [job EXCEPT ![j] = IdleJob]
    /\ UNCHANGED <<content, memlist, commit_in_progress, next_epoch, l0,
                   initialized, errors, crashes>>

(***************************************************************************)
(* LogAndApply has written the MANIFEST: the memtables leave the list, and *)
(* the loop looks for flushes that completed meanwhile.                    *)
(***************************************************************************)
BatchHeads(ids) == {i \in ids : (i - 1) \in ids => batch[i] # batch[i - 1]}
Commit(j) ==
    /\ job[j].pc = "commit"
    /\ l0' = l0 \cup UNION {edit[i] : i \in BatchHeads(job[j].batch)}
    /\ memlist' = memlist \ job[j].batch
    /\ in_progress' = in_progress \ job[j].batch
    /\ completed' = completed \ job[j].batch
    /\ CommitOrLeave(j, memlist', completed')
    /\ commit_in_progress' = (job'[j].pc = "commit")
    /\ edit' = [i \in DOMAIN edit |-> IF i \in job[j].batch THEN {} ELSE edit[i]]
    /\ batch' = [i \in DOMAIN batch |-> IF i \in job[j].batch THEN 0 ELSE batch[i]]
    /\ UNCHANGED <<content, num_flush_not_started, imm_flush_needed,
                   next_epoch, initialized, bg_error, errors, crashes>>

CommitFails(j) ==
    /\ job[j].pc = "commit"
    /\ errors < MaxErrors
    /\ errors' = errors + 1
    /\ RestoreFlags(job[j].batch)
    /\ commit_in_progress' = FALSE
    /\ SetBGError
    /\ job' = [job EXCEPT ![j] = IdleJob]
    /\ UNCHANGED <<content, memlist, next_epoch, l0, initialized, crashes>>

\* mutant: recovery waits for the flushes that wait for it
ResumeAfterFlush ==
    /\ bg_error /\ memlist = {}
    /\ bg_error' = FALSE
    /\ UNCHANGED <<content, listVars, commit_in_progress, next_epoch, l0,
                   initialized, job, errors, crashes>>
\* The error handler resumes background work.
Resume ==
    /\ bg_error
    /\ bg_error' = FALSE
    /\ UNCHANGED <<content, listVars, commit_in_progress, next_epoch, l0,
                   initialized, job, errors, crashes>>

\* mutant: numbering starts again
FirstEpoch(files) == 1
\* RecoverEpochNumbers
NextEpochAfter(files) == 1 + Max({0} \cup {f.epoch : f \in files})

(***************************************************************************)
(* A crash loses the memtables, the jobs, the bucket manager, and any part *)
(* of the files that were not synced.  The memtables that are not          *)
(* installed are recovered from the WAL into one L0 file                   *)
(* (WriteLevel0TableForRecovery).                                          *)
(***************************************************************************)
CrashAndRecover ==
    /\ crashes < MaxCrashes
    /\ crashes' = crashes + 1
    /\ \E lost \in SUBSET {f \in l0 : ~f.synced} :
        LET epoch == NextEpochAfter(l0 \ lost)
        IN  IF memlist = {}
            THEN l0' = l0 \ lost /\ next_epoch' = epoch
            ELSE /\ l0' = (l0 \ lost) \cup {File(epoch, AllVersions(memlist), TRUE)}
                 /\ next_epoch' = epoch + 1
    /\ memlist' = {} /\ in_progress' = {} /\ completed' = {}
    /\ edit' = [i \in 1..MaxMemtables |-> {}]
    /\ batch' = [i \in 1..MaxMemtables |-> 0]
    /\ num_flush_not_started' = 0 /\ imm_flush_needed' = FALSE
    /\ commit_in_progress' = FALSE
    /\ initialized' = FALSE /\ bg_error' = FALSE
    /\ job' = [j \in Jobs |-> IdleJob]
    /\ UNCHANGED <<content, errors>>

JobStep(j) ==
    \/ StartBucketFlush(j) \/ FallBack(j)
    \/ AllocateFile(j) \/ (\E n \in DOMAIN job[j].files : BuildBucket(j, n))
    \/ SyncFiles(j) \/ WriteLevel0Table(j) \/ FlushFails(j)
    \/ TryInstallMemtableFlushResults(j) \/ RollbackMemtableFlush(j)
    \/ Commit(j) \/ CommitFails(j)

Next ==
    \/ SwitchMemtable
    \/ \E j \in Jobs : PickMemTable(j) \/ JobStep(j)
    \/ Resume
    \/ CrashAndRecover

Spec == Init /\ [][Next]_vars

(***************************************************************************)
(* Threads run, a waiting flush is scheduled                               *)
(* (MaybeScheduleFlushOrCompaction), and stopped work is resumed.          *)
(***************************************************************************)
Fairness ==
    /\ \A j \in Jobs : WF_vars(JobStep(j))
    /\ WF_vars(\E j \in Jobs : PickMemTable(j))
    /\ WF_vars(Resume)
FairSpec == Spec /\ Fairness

-----------------------------------------------------------------------------
(* Properties.                                                              *)

Versions == UNION {[ks -> 1..MaxMemtables] : ks \in SUBSET Keys}
InstalledFile == [epoch : Nat \ {0}, versions : Versions, synced : BOOLEAN]

(***************************************************************************)
(* The type invariant.  num_flush_not_started_ is signed in the code, and  *)
(* the code relies on it not being negative.                               *)
(***************************************************************************)
TypeOK ==
    /\ content \in Seq(Writes) /\ Len(content) <= MaxMemtables
    /\ memlist \subseteq 1..Len(content)
    /\ in_progress \subseteq memlist /\ completed \subseteq in_progress
    /\ \A i \in 1..MaxMemtables : edit[i] \subseteq InstalledFile /\ batch[i] \in Nat
    /\ num_flush_not_started \in Nat
    /\ {imm_flush_needed, commit_in_progress, initialized, bg_error} \subseteq BOOLEAN
    /\ next_epoch \in Nat \ {0}
    /\ l0 \subseteq InstalledFile
    /\ \A j \in Jobs :
        /\ job[j].pc \in {"idle", "start", "build", "regular", "finish", "failed", "commit"}
        /\ job[j].mems \cup job[j].batch \subseteq memlist

(***************************************************************************)
(* No memtable is stranded by the flags of MemTableList, whatever jobs     *)
(* fail, roll back or leave the commit to one another.  A waiting memtable *)
(* is announced by imm_flush_needed; one in progress belongs to one job;   *)
(* one whose flush completed is waiting for an older one, or for a         *)
(* committer.                                                              *)
(***************************************************************************)
NoneStranded ==
    /\ num_flush_not_started = Cardinality(Waiting)
    /\ Waiting # {} => imm_flush_needed
    /\ \A i \in in_progress \ completed :
          Cardinality({j \in Jobs : i \in job[j].mems}) = 1
    /\ memlist # {} /\ Min(memlist) \in completed => commit_in_progress
    /\ commit_in_progress <=> \E j \in Jobs : job[j].pc = "commit"

(***************************************************************************)
(* A flush is installed as a whole and in order: the memtables that left   *)
(* the list are the oldest ones, each of their puts is in L0, and L0 has   *)
(* nothing of a memtable that is still in the list, so nothing of a flush  *)
(* that failed in one of its buckets.                                      *)
(***************************************************************************)
InstalledWhole ==
    LET installed == (1..Len(content)) \ memlist
    IN  /\ \A i \in installed, m \in memlist : i < m
        /\ \A i \in installed : \A k \in content[i].puts :
              \E f \in l0 : k \in DOMAIN f.versions /\ f.versions[k] >= i
        /\ \A f \in l0 : \A k \in DOMAIN f.versions : f.versions[k] \in installed

(***************************************************************************)
(* "For L0, larger `epoch_number` indicates newer L0 file."                *)
(* (FileMetaData, db/version_edit.h): of two L0 files with the same key    *)
(* the one with the larger epoch number has the newer version.             *)
(***************************************************************************)
NewestFirst ==
    \A f, g \in l0 : \A k \in DOMAIN f.versions \cap DOMAIN g.versions :
        f.epoch < g.epoch => f.versions[k] <= g.versions[k]

(***************************************************************************)
(* A read finds the last write of a key, put or range deletion: in the     *)
(* memtables, or in the first L0 file that has the key.                    *)
(***************************************************************************)
ReadsLastWrite ==
    \A k \in Keys :
        LET last == Max({0} \cup {i \in 1..Len(content) : Touches(i, k)})
            unflushed == {i \in memlist : Touches(i, k)}
        IN  last = IF unflushed # {} THEN Max(unflushed) ELSE L0Version(k)

(***************************************************************************)
(* "if true, skip file sync (caller must sync later)" (BuildTable,         *)
(* db/builder.h): a file in the MANIFEST, whose memtables and WAL are      *)
(* gone, has been synced.                                                  *)
(***************************************************************************)
InstalledFilesSynced == \A f \in l0 : f.synced

(***************************************************************************)
(* Every immutable memtable is eventually flushed, although builds,        *)
(* directory syncs and MANIFEST writes fail a bounded number of times.     *)
(***************************************************************************)
EveryMemtableFlushed ==
    \A i \in 1..MaxMemtables : i \in memlist ~> i \notin memlist
=============================================================================
