--------------------------- MODULE BackgroundWork ---------------------------
(***************************************************************************)
(* Which flushes and compactions run, and when: the flush queue and the    *)
(* compaction queue of DBImpl, their flags and counters, the background    *)
(* jobs that serve them (db/db_impl/db_impl_compaction_flush.cc), and the  *)
(* recovery from background errors (db/error_handler.cc, ResumeImpl).      *)
(*                                                                         *)
(* Bucket mode changes three things here: a column family may be in the    *)
(* compaction queue once for every group of its L0, the score of L0 comes  *)
(* from a count that changes only with a version, and a flush is put back  *)
(* into its queue while that count is at the stop trigger.                 *)
(*                                                                         *)
(* All code modelled here holds the DB mutex; an action is what happens    *)
(* between two releases of it.  L0 is the number of files in each bucket;  *)
(* files of one bucket overlap, files of two do not.  Levels below L0 need *)
(* no compaction of their own, and errors can be retried.                  *)
(***************************************************************************)
EXTENDS Integers, Sequences, FiniteSets, Functions

CONSTANTS
    ColumnFamilies,
    DefaultColumnFamily,     \* cannot be dropped
    Buckets,
    Trigger,                 \* level0_file_num_compaction_trigger
    StopTrigger,             \* level0_stop_writes_trigger
    max_write_buffer_number,
    max_flushes,             \* limits of GetBGJobLimits
    max_compactions,
    MaxMemtables,            \* bound on memtables that writes fill, for each of them
    MaxFailures,             \* bound on compactions that fail and are retried
    MaxErrors,               \* bound on background errors
    MaxRefs                  \* references are counted up to this bound

ASSUME BackgroundAssumption ==
    /\ {Trigger, StopTrigger, max_write_buffer_number} \subseteq Nat \ {0}
    /\ {max_flushes, max_compactions} \subseteq Nat \ {0}
    /\ MaxMemtables \in [ColumnFamilies -> Nat]
    /\ {MaxFailures, MaxErrors} \subseteq Nat
    /\ MaxRefs \in Nat \ {0}
    /\ IsFiniteSet(Buckets)
    /\ IsFiniteSet(ColumnFamilies)
    /\ DefaultColumnFamily \in ColumnFamilies

VARIABLES
    mems,           \* memtables filled by each column family
    imm,            \* of those, the ones whose flush has not started
    l0,             \* files of each bucket that no compaction has
    l0_count,       \* l0_delay_trigger_count_ of the current version
    dropped,        \* dropped column families
    queues,         \* the two queues, their flags and counters
    refs,           \* refs_ of each column family
    flush_job,      \* what each flush thread does
    compaction_job, \* what each compaction thread does
    stalled_writer, \* a write waits in DelayWrite, first of the write thread
    manifest_failed,\* io_status_ of the version set is an error
    bg_error,       \* bg_error_: "ok", or its severity
    recovery,       \* the thread of RecoverFromRetryableBGIOError
    failures, errors

vars == <<mems, imm, l0, l0_count, dropped, queues, refs, flush_job,
          compaction_job, stalled_writer, manifest_failed, bg_error, recovery,
          failures, errors>>

memtables == <<mems, imm>>
tree == <<l0, l0_count>>
clients == <<dropped, stalled_writer>>
faults == <<manifest_failed, bg_error, recovery, errors>>

FlushThreads == 1..max_flushes
CompactionThreads == 1..max_compactions
Idle == [pc |-> "idle"]
Ending == [pc |-> "ending"]
Busy(job) == {t \in DOMAIN job : job[t] # Idle}

IsBGWorkStopped == bg_error # "ok"
IsRecoveryInProgress == recovery.pc # "none"
RecoveryReasons == {"kErrorRecovery", "kErrorRecoveryRetryFlush"}
FlushReasons == RecoveryReasons \cup {"kWriteBufferFull", "kCatchUpAfterErrorRecovery"}

-----------------------------------------------------------------------------
(* References.  MaxRefs stands for that many or more.                       *)

Saturate(n) == IF n < MaxRefs THEN n ELSE MaxRefs
Ref(r, cf, n) == [r EXCEPT ![cf] = Saturate(@ + n)]
RefAll(r, cfs) ==
    [cf \in ColumnFamilies |-> IF cf \in cfs THEN Saturate(r[cf] + 1) ELSE r[cf]]
UnrefAll(r, cfs) ==
    [cf \in ColumnFamilies |-> IF cf \in cfs /\ r[cf] # MaxRefs THEN r[cf] - 1 ELSE r[cf]]
UnrefAndTryDelete(r, cf) == UnrefAll(r, {cf})

-----------------------------------------------------------------------------
(* The queues.                                                              *)

\* EnqueuePendingFlush of each of some column families, for those that have
\* memtables to flush and are not queued; Orders are the orders to do it in.
Enqueued(q, cfs, pending) == (cfs \cap pending) \ q.queued_for_flush
Orders(cfs) ==
    {o \in [1..Cardinality(cfs) -> cfs] :
        Range(o) = cfs /\ \A i, j \in DOMAIN o : o[i] = o[j] => i = j}
EnqueuePendingFlush(q, order, reason) ==
    [q EXCEPT !.flush_queue = @ \o [i \in DOMAIN order |-> [cf |-> order[i], reason |-> reason]],
              !.queued_for_flush = @ \cup Range(order),
              !.unscheduled_flushes = @ + Len(order)]
One(cf, cfs) == IF cf \in cfs THEN <<cf>> ELSE << >>

NeedsCompaction(count) == count >= Trigger

\* GetNumGroupsNeedingCompaction
NumGroups(files, count) ==
    IF NeedsCompaction(count) THEN Cardinality({b \in Buckets : files[b] >= Trigger})
    ELSE 0

\* What EnqueuePendingCompaction adds to the queue
EntriesFor(q, cf, files, count) ==
    IF cf \in q.queued_for_compaction THEN 0
    ELSE IF NumGroups(files, count) = 0 /\ NeedsCompaction(count) THEN 1
    ELSE NumGroups(files, count)

EnqueuePendingCompaction(q, entries) ==
    [q EXCEPT !.compaction_queue = @ \o entries,
              !.queued_for_compaction = @ \cup Range(entries),
              !.unscheduled_compactions = @ + Len(entries)]
Entries(cf, n) == [i \in 1..n |-> cf]

Room(scheduled, limit, unscheduled) ==
    IF scheduled >= limit THEN 0
    ELSE IF limit - scheduled < unscheduled THEN limit - scheduled ELSE unscheduled
ScheduleJobs(q, f, c) ==
    [q EXCEPT !.bg_flush_scheduled = @ + f, !.unscheduled_flushes = @ - f,
              !.bg_compaction_scheduled = @ + c, !.unscheduled_compactions = @ - c]
\* mutant: the limit on flushes is not looked at
MaybeScheduleUnlimited(q, stopped, recovering) ==
    ScheduleJobs(q,
        IF stopped /\ ~recovering THEN 0 ELSE q.unscheduled_flushes,
        IF stopped THEN 0
        ELSE Room(q.bg_compaction_scheduled, max_compactions, q.unscheduled_compactions))
\* mutant: background work that is stopped is stopped for a recovery, too
MaybeScheduleStopped(q, stopped, recovering) ==
    ScheduleJobs(q,
        IF stopped THEN 0 ELSE Room(q.bg_flush_scheduled, max_flushes, q.unscheduled_flushes),
        IF stopped THEN 0
        ELSE Room(q.bg_compaction_scheduled, max_compactions, q.unscheduled_compactions))
\* MaybeScheduleFlushOrCompaction; stopped and recovering are those of the
\* error handler.
MaybeSchedule(q, stopped, recovering) ==
    ScheduleJobs(q,
        IF stopped /\ ~recovering THEN 0
        ELSE Room(q.bg_flush_scheduled, max_flushes, q.unscheduled_flushes),
        IF stopped THEN 0
        ELSE Room(q.bg_compaction_scheduled, max_compactions, q.unscheduled_compactions))
Schedule(q) == MaybeSchedule(q, IsBGWorkStopped, IsRecoveryInProgress)

\* mutant: the flag stays
PopKeepsFlag(q) == [q EXCEPT !.flush_queue = Tail(@)]
PopFirstFromFlushQueue(q) ==
    [q EXCEPT !.flush_queue = Tail(@),
              !.queued_for_flush = @ \ {Head(q.flush_queue).cf}]
\* mutant: the flag stays
PickKeepsFlag(q) == [q EXCEPT !.compaction_queue = Tail(@)]
PickCompactionFromQueue(q) ==
    [q EXCEPT !.compaction_queue = Tail(@),
              !.queued_for_compaction = @ \ {Head(q.compaction_queue)}]

-----------------------------------------------------------------------------
Init ==
    /\ mems = [cf \in ColumnFamilies |-> 0]
    /\ imm = [cf \in ColumnFamilies |-> {}]
    /\ l0 = [cf \in ColumnFamilies |-> [b \in Buckets |-> 0]]
    /\ l0_count = [cf \in ColumnFamilies |-> 0]
    /\ dropped = {}
    /\ queues = [flush_queue |-> << >>, queued_for_flush |-> {},
                 unscheduled_flushes |-> 0, bg_flush_scheduled |-> 0,
                 compaction_queue |-> << >>, queued_for_compaction |-> {},
                 unscheduled_compactions |-> 0, bg_compaction_scheduled |-> 0]
    /\ refs = [cf \in ColumnFamilies |-> 1]
    /\ flush_job = [t \in FlushThreads |-> Idle]
    /\ compaction_job = [t \in CompactionThreads |-> Idle]
    /\ stalled_writer = FALSE
    /\ manifest_failed = FALSE
    /\ bg_error = "ok"
    /\ recovery = [pc |-> "none", context |-> "kErrorRecovery", reason |-> "kErrorRecovery",
                   error |-> FALSE, todo |-> {}, waits |-> {}]
    /\ failures = 0
    /\ errors = 0

-----------------------------------------------------------------------------
(* Helpers of the actions.                                                  *)

\* The memtables of a column family that are not in L0 yet
FlushingMems(cf) ==
    UNION {flush_job[t].mems : t \in {u \in FlushThreads :
                                 flush_job[u].pc = "flushing" /\ flush_job[u].cf = cf}}
NotFlushed(cf) == imm[cf] \cup FlushingMems(cf)
FlushPending == {cf \in ColumnFamilies : imm[cf] # {}}

\* CalculateMaxOverlappingGroupSize, for files of which only those of one
\* bucket overlap (a set of one number)
MaxOverlap(files) ==
    {n \in {0} \cup {files[b] : b \in Buckets} : \A b \in Buckets : files[b] <= n}

\* InstallSuperVersionAndScheduleWork at the end of a job
InstallAndSchedule(cf) ==
    LET n == EntriesFor(queues, cf, l0'[cf], l0_count'[cf])
    IN  /\ queues' = Schedule(EnqueuePendingCompaction(queues, Entries(cf, n)))
        /\ refs' = UnrefAndTryDelete(Ref(refs, cf, n), cf)

\* SetBGError with an error that can be retried: it starts a recovery, or
\* makes the running one fail.
SetBGError(severity, reason) ==
    /\ errors < MaxErrors
    /\ errors' = errors + 1
    /\ bg_error' = IF bg_error = "hard" THEN "hard" ELSE severity
    /\ recovery' = IF IsRecoveryInProgress
                   THEN [recovery EXCEPT !.error = TRUE, !.context = reason]
                   ELSE [recovery EXCEPT !.pc = "start", !.error = FALSE, !.context = reason]

-----------------------------------------------------------------------------
(* Writes and column families.                                              *)

\* GetWriteStallConditionAndCause; a stop of one column family stops writes
\* to all.
WritesStopped ==
    \E cf \in ColumnFamilies \ dropped :
        \/ Cardinality(NotFlushed(cf)) >= max_write_buffer_number
        \/ l0_count[cf] >= StopTrigger

\* A write waits while writes are stopped, unless there is an error that
\* nobody recovers from; nothing else enters the write thread.
MayWait == WritesStopped /\ (IsBGWorkStopped => IsRecoveryInProgress)
DelayWrite ==
    /\ stalled_writer' = MayWait
    /\ UNCHANGED <<memtables, tree, dropped, queues, refs, flush_job, compaction_job, faults,
                   failures>>

\* SwitchMemtable and a flush request: the new superversion may queue
\* compactions, too.
SwitchMemtable(cf, reason, waits) ==
    LET new == Enqueued(queues, {cf}, {cf})
        n == EntriesFor(queues, cf, l0[cf], l0_count[cf])
    IN  /\ mems' = [mems EXCEPT ![cf] = @ + 1]
        /\ imm' = [imm EXCEPT ![cf] = @ \cup {mems'[cf]}]
        /\ queues' = Schedule(EnqueuePendingFlush(
                         EnqueuePendingCompaction(queues, Entries(cf, n)), One(cf, new), reason))
        /\ refs' = RefAll(RefAll(Ref(refs, cf, n), new), waits)

\* A write fills a memtable: ScheduleFlushes
FillMemtable(cf) ==
    /\ cf \notin dropped
    /\ ~stalled_writer
    /\ bg_error # "hard"
    /\ ~WritesStopped
    /\ mems[cf] < MaxMemtables[cf]
    /\ SwitchMemtable(cf, "kWriteBufferFull", {})
    /\ UNCHANGED <<tree, clients, flush_job, compaction_job, faults, failures>>

\* DropColumnFamilyImpl, and the handle is deleted
DropColumnFamily(cf) ==
    /\ cf \notin dropped \cup {DefaultColumnFamily}
    /\ ~stalled_writer
    /\ dropped' = dropped \cup {cf}
    /\ manifest_failed' = FALSE
    /\ refs' = UnrefAndTryDelete(refs, cf)
    /\ UNCHANGED <<memtables, tree, queues, flush_job, compaction_job, stalled_writer, bg_error,
                   recovery, failures, errors>>

-----------------------------------------------------------------------------
(* BackgroundCallFlush.                                                     *)

Request == Head(queues.flush_queue)
IsNext(t, job) == \A u \in DOMAIN job : job[u] = Idle => t <= u

\* A scheduled flush gets a thread.
RunsFlush(t) ==
    /\ flush_job[t] = Idle
    /\ IsNext(t, flush_job)
    /\ Cardinality(Busy(flush_job)) < queues.bg_flush_scheduled

\* There is an error, and no recovery (any more): the request stays in the
\* queue, and nothing is scheduled for it again.
LeaveFlush(t) ==
    /\ RunsFlush(t)
    /\ IsBGWorkStopped
    /\ ~IsRecoveryInProgress
    /\ flush_job' = [flush_job EXCEPT ![t] = Ending]
    /\ UNCHANGED <<memtables, tree, clients, queues, refs, compaction_job, faults, failures>>

\* It takes the first request.
TakesFlush(t) ==
    /\ RunsFlush(t)
    /\ IsBGWorkStopped => IsRecoveryInProgress
    /\ queues.flush_queue # << >>

FlushRefused == IsBGWorkStopped /\ Request.reason \notin RecoveryReasons
L0Stalled(cf) == l0_count[cf] >= StopTrigger

\* Requests that are not part of a recovery are dropped, and those of a
\* column family with nothing to flush.
DropFlushRequest(t) ==
    /\ TakesFlush(t)
    /\ \/ FlushRefused
       \/ ~L0Stalled(Request.cf) /\ (Request.cf \in dropped \/ Request.cf \notin FlushPending)
    /\ flush_job' = [flush_job EXCEPT ![t] = Ending]
    /\ queues' = PopFirstFromFlushQueue(queues)
    /\ refs' = UnrefAndTryDelete(refs, Request.cf)
    /\ UNCHANGED <<memtables, tree, clients, compaction_job, faults, failures>>

\* mutant: the request is not put back
ForgetFlush(t) ==
    /\ TakesFlush(t)
    /\ ~FlushRefused
    /\ L0Stalled(Request.cf)
    /\ flush_job' = [flush_job EXCEPT ![t] = Ending]
    /\ queues' = PopFirstFromFlushQueue(queues)
    /\ refs' = UnrefAndTryDelete(refs, Request.cf)
    /\ UNCHANGED <<memtables, tree, clients, compaction_job, faults, failures>>
\* The request is put back, with a reference more, and the thread sleeps.
PutBackFlush(t) ==
    /\ TakesFlush(t)
    /\ ~FlushRefused
    /\ L0Stalled(Request.cf)
    /\ flush_job' = [flush_job EXCEPT ![t] = Ending]
    /\ LET popped == PopFirstFromFlushQueue(queues)
           new == Enqueued(popped, {Request.cf}, FlushPending)
       IN  /\ queues' = EnqueuePendingFlush(popped, One(Request.cf, new), Request.reason)
           /\ refs' = RefAll(refs, new)
    /\ UNCHANGED <<memtables, tree, clients, compaction_job, faults, failures>>

\* FlushMemTableToOutputFile starts: the memtables it may pick are those that
\* are there before the WAL is synced.
StartFlush(t) ==
    /\ TakesFlush(t)
    /\ ~FlushRefused
    /\ ~L0Stalled(Request.cf)
    /\ Request.cf \notin dropped
    /\ Request.cf \in FlushPending
    /\ flush_job' = [flush_job EXCEPT ![t] =
                        [pc |-> "syncing", cf |-> Request.cf, reason |-> Request.reason,
                         max_id |-> mems[Request.cf]]]
    /\ queues' = PopFirstFromFlushQueue(queues)
    /\ UNCHANGED <<memtables, tree, clients, refs, compaction_job, faults, failures>>

\* The flush ends without having picked memtables.
GiveUpFlush(t) ==
    /\ flush_job' = [flush_job EXCEPT ![t] = Ending]
    /\ refs' = UnrefAndTryDelete(refs, flush_job[t].cf)
    /\ UNCHANGED <<memtables, tree, clients, queues, compaction_job, failures>>

SyncFails(t) ==
    /\ flush_job[t].pc = "syncing"
    /\ SetBGError("hard", "kErrorRecovery")
    /\ manifest_failed' \in {manifest_failed, TRUE}
    /\ GiveUpFlush(t)

SkipFlush(t) ==
    /\ flush_job[t].pc = "syncing"
    /\ IsBGWorkStopped
    /\ flush_job[t].reason \notin RecoveryReasons
    /\ GiveUpFlush(t)
    /\ UNCHANGED faults

PickMemTable(t) ==
    /\ flush_job[t].pc = "syncing"
    /\ IsBGWorkStopped => flush_job[t].reason \in RecoveryReasons
    /\ LET cf == flush_job[t].cf
           picked == {id \in imm[cf] : id <= flush_job[t].max_id}
       IN  /\ flush_job' = [flush_job EXCEPT ![t] =
                              [pc |-> "flushing", cf |-> cf, reason |-> flush_job[t].reason,
                               mems |-> picked]]
           /\ imm' = [imm EXCEPT ![cf] = @ \ picked]
    /\ UNCHANGED <<mems, tree, clients, queues, refs, compaction_job, faults, failures>>

\* The flush writes a file into some buckets and installs its version.
InstallFlush(t) ==
    /\ flush_job[t].pc = "flushing"
    /\ flush_job[t].mems # {}
    /\ flush_job[t].cf \notin dropped
    /\ IsBGWorkStopped => flush_job[t].reason \in RecoveryReasons
    /\ LET cf == flush_job[t].cf
       IN  /\ \E written \in SUBSET Buckets :
                l0' = [l0 EXCEPT ![cf] = [b \in Buckets |->
                                          IF b \in written THEN @[b] + 1 ELSE @[b]]]
           /\ \E n \in MaxOverlap(l0'[cf]) : l0_count' = [l0_count EXCEPT ![cf] = n]
           /\ InstallAndSchedule(cf)
    /\ manifest_failed' = FALSE
    /\ flush_job' = [flush_job EXCEPT ![t] = Ending]
    /\ UNCHANGED <<memtables, clients, compaction_job, bg_error, recovery, failures, errors>>

\* Another job took the memtables.
FlushNothing(t) ==
    /\ flush_job[t].pc = "flushing"
    /\ flush_job[t].mems = {}
    /\ flush_job' = [flush_job EXCEPT ![t] = Ending]
    /\ l0' = l0
    /\ l0_count' = l0_count
    /\ InstallAndSchedule(flush_job[t].cf)
    /\ UNCHANGED <<memtables, clients, compaction_job, faults, failures>>

RollbackMemtableFlush(t) ==
    /\ imm' = [imm EXCEPT ![flush_job[t].cf] = @ \cup flush_job[t].mems]
    /\ flush_job' = [flush_job EXCEPT ![t] = Ending]
    /\ refs' = UnrefAndTryDelete(refs, flush_job[t].cf)
    /\ UNCHANGED <<mems, tree, clients, queues, compaction_job, failures>>

\* Writing a file or the manifest fails.
FlushFails(t) ==
    /\ flush_job[t].pc = "flushing"
    /\ flush_job[t].mems # {}
    /\ SetBGError("soft", "kErrorRecoveryRetryFlush")
    /\ manifest_failed' \in {manifest_failed, TRUE}
    /\ RollbackMemtableFlush(t)
\* The column family was dropped, or background work stopped meanwhile.
FlushCancelled(t) ==
    /\ flush_job[t].pc = "flushing"
    /\ flush_job[t].mems # {}
    /\ \/ flush_job[t].cf \in dropped
       \/ IsBGWorkStopped /\ flush_job[t].reason \notin RecoveryReasons
    /\ RollbackMemtableFlush(t)
    /\ UNCHANGED faults

EndFlush(t) ==
    /\ flush_job[t] = Ending
    /\ flush_job' = [flush_job EXCEPT ![t] = Idle]
    /\ queues' = Schedule([queues EXCEPT !.bg_flush_scheduled = @ - 1])
    /\ UNCHANGED <<memtables, tree, clients, refs, compaction_job, faults, failures>>

-----------------------------------------------------------------------------
(* BackgroundCallCompaction.                                                *)

TakesCompaction(t) ==
    /\ compaction_job[t] = Idle
    /\ IsNext(t, compaction_job)
    /\ Cardinality(Busy(compaction_job)) < queues.bg_compaction_scheduled

\* mutant: the entry that stays in the queue is not counted again
LeaveCompactionUncounted(t) ==
    /\ TakesCompaction(t)
    /\ IsBGWorkStopped
    /\ compaction_job' = [compaction_job EXCEPT ![t] = Ending]
    /\ UNCHANGED <<memtables, tree, clients, queues, refs, flush_job, faults, failures>>
\* An error came after the job was scheduled: the entry stays in the queue.
LeaveCompaction(t) ==
    /\ TakesCompaction(t)
    /\ IsBGWorkStopped
    /\ compaction_job' = [compaction_job EXCEPT ![t] = Ending]
    /\ queues' = [queues EXCEPT !.unscheduled_compactions = @ + 1]
    /\ UNCHANGED <<memtables, tree, clients, refs, flush_job, faults, failures>>

Candidate == Head(queues.compaction_queue)
Compacting(cf) == \E t \in CompactionThreads :
    compaction_job[t].pc = "compacting" /\ compaction_job[t].cf = cf

\* PickCompaction (module L0Compaction) finds nothing: L0 needs nothing, has
\* no file left, or what it has conflicts with a running compaction.
NothingToPick(cf) ==
    \/ cf \in dropped
    \/ ~NeedsCompaction(l0_count[cf])
    \/ \A b \in Buckets : l0[cf][b] = 0
    \/ Compacting(cf)

PickNothing(t) ==
    /\ TakesCompaction(t)
    /\ ~IsBGWorkStopped
    /\ queues.compaction_queue # << >>
    /\ NothingToPick(Candidate)
    /\ compaction_job' = [compaction_job EXCEPT ![t] = Ending]
    /\ queues' = PickCompactionFromQueue(queues)
    /\ refs' = UnrefAndTryDelete(refs, Candidate)
    /\ UNCHANGED <<memtables, tree, clients, flush_job, faults, failures>>

(***************************************************************************)
(* A compaction takes the files of a bucket.  The count of the version     *)
(* stays, so the column family is queued again as long as it is high.      *)
(***************************************************************************)
StartCompaction(t) ==
    /\ TakesCompaction(t)
    /\ ~IsBGWorkStopped
    /\ queues.compaction_queue # << >>
    /\ Candidate \notin dropped
    /\ NeedsCompaction(l0_count[Candidate])
    /\ \E b \in Buckets :
        LET cf == Candidate
            popped == PickCompactionFromQueue(queues)
            n == EntriesFor(popped, cf, l0'[cf], l0_count[cf])
        IN  /\ l0[cf][b] > 0
            /\ l0' = [l0 EXCEPT ![cf][b] = 0]
            /\ compaction_job' = [compaction_job EXCEPT ![t] =
                   [pc |-> "compacting", cf |-> cf, bucket |-> b, files |-> l0[cf][b]]]
            /\ queues' = Schedule(EnqueuePendingCompaction(popped, Entries(cf, n)))
            /\ refs' = Ref(refs, cf, n)
    /\ UNCHANGED <<memtables, l0_count, clients, flush_job, faults, failures>>

\* There is not enough room for the compaction: its files are released at once.
NoRoomForCompaction(t) ==
    /\ TakesCompaction(t)
    /\ ~IsBGWorkStopped
    /\ queues.compaction_queue # << >>
    /\ Candidate \notin dropped
    /\ NeedsCompaction(l0_count[Candidate])
    /\ \E b \in Buckets : l0[Candidate][b] > 0
    /\ failures < MaxFailures
    /\ failures' = failures + 1
    /\ compaction_job' = [compaction_job EXCEPT ![t] = Ending]
    /\ LET cf == Candidate
           popped == PickCompactionFromQueue(queues)
           n == EntriesFor(popped, cf, l0[cf], l0_count[cf])
       IN  /\ queues' = EnqueuePendingCompaction(popped, Entries(cf, n))
           /\ refs' = UnrefAndTryDelete(Ref(refs, cf, n), cf)
    /\ UNCHANGED <<memtables, tree, clients, flush_job, faults>>

InstallCompaction(t) ==
    /\ compaction_job[t].pc = "compacting"
    /\ compaction_job[t].cf \notin dropped
    /\ compaction_job' = [compaction_job EXCEPT ![t] = Ending]
    /\ l0' = l0
    /\ \E n \in MaxOverlap(l0[compaction_job[t].cf]) :
        l0_count' = [l0_count EXCEPT ![compaction_job[t].cf] = n]
    /\ InstallAndSchedule(compaction_job[t].cf)
    /\ manifest_failed' = FALSE
    /\ UNCHANGED <<memtables, clients, flush_job, bg_error, recovery, failures, errors>>

\* ReleaseCompactionFiles of a compaction that did not succeed
ReleaseFiles(t) ==
    /\ l0' = [l0 EXCEPT ![compaction_job[t].cf][compaction_job[t].bucket] =
                 @ + compaction_job[t].files]
    /\ compaction_job' = [compaction_job EXCEPT ![t] = Ending]
    /\ UNCHANGED <<memtables, l0_count, clients, flush_job>>

\* mutant: the column family is not queued again
CompactionGivesUp(t) ==
    /\ compaction_job[t].pc = "compacting"
    /\ ~manifest_failed
    /\ failures < MaxFailures
    /\ failures' = failures + 1
    /\ ReleaseFiles(t)
    /\ refs' = UnrefAndTryDelete(refs, compaction_job[t].cf)
    /\ UNCHANGED <<queues, faults>>
\* An error that the next compaction may not meet: the column family is
\* queued again, unless background work was stopped meanwhile.
CompactionFails(t) ==
    /\ compaction_job[t].pc = "compacting"
    /\ ~manifest_failed
    /\ failures < MaxFailures
    /\ failures' = failures + 1
    /\ ReleaseFiles(t)
    /\ LET cf == compaction_job[t].cf
           n == IF IsBGWorkStopped THEN 0 ELSE EntriesFor(queues, cf, l0'[cf], l0_count[cf])
       IN  /\ queues' = EnqueuePendingCompaction(queues, Entries(cf, n))
           /\ refs' = UnrefAndTryDelete(Ref(refs, cf, n), cf)
    /\ UNCHANGED faults

CompactionFindsDropped(t) ==
    /\ compaction_job[t].pc = "compacting"
    /\ compaction_job[t].cf \in dropped
    /\ ReleaseFiles(t)
    /\ refs' = UnrefAndTryDelete(refs, compaction_job[t].cf)
    /\ UNCHANGED <<queues, faults, failures>>

\* Writing the manifest fails, or writing a file after the manifest failed.
ManifestWriteFails(t) ==
    /\ compaction_job[t].pc = "compacting"
    /\ SetBGError("hard", "kErrorRecovery")
    /\ manifest_failed' = TRUE
    /\ ReleaseFiles(t)
    /\ refs' = UnrefAndTryDelete(refs, compaction_job[t].cf)
    /\ UNCHANGED <<queues, failures>>

EndCompaction(t) ==
    /\ compaction_job[t] = Ending
    /\ compaction_job' = [compaction_job EXCEPT ![t] = Idle]
    /\ queues' = Schedule([queues EXCEPT !.bg_compaction_scheduled = @ - 1])
    /\ UNCHANGED <<memtables, tree, clients, refs, flush_job, faults, failures>>

-----------------------------------------------------------------------------
(* RecoverFromRetryableBGIOError, with ResumeImpl inside.                   *)

UnchangedByRecovery == UNCHANGED <<l0, clients, flush_job, compaction_job, failures>>

StartRecovery ==
    /\ recovery.pc = "start"
    /\ recovery' = [recovery EXCEPT !.pc = "waiting", !.reason = recovery.context,
                                    !.error = FALSE]
    /\ UNCHANGED <<memtables, queues, refs, l0_count, manifest_failed, bg_error, errors>>
    /\ UnchangedByRecovery

\* WaitForBackgroundWork
BackgroundWorkDone ==
    /\ recovery.pc = "waiting"
    /\ queues.bg_flush_scheduled = 0
    /\ queues.bg_compaction_scheduled = 0

\* After a failed write of the manifest, a new one is written first, with a
\* new version of the default column family.
NewManifest ==
    /\ BackgroundWorkDone
    /\ manifest_failed
    /\ manifest_failed' = FALSE
    /\ recovery' = [recovery EXCEPT !.pc = "resume"]
    /\ \E n \in MaxOverlap(l0[DefaultColumnFamily]) :
        l0_count' = [l0_count EXCEPT ![DefaultColumnFamily] = n]
    /\ UNCHANGED <<memtables, queues, refs, bg_error, errors>>
    /\ UnchangedByRecovery
NewManifestFails ==
    /\ BackgroundWorkDone
    /\ manifest_failed
    /\ errors < MaxErrors
    /\ errors' = errors + 1
    /\ bg_error' = "hard"
    /\ recovery' = [recovery EXCEPT !.pc = "flush", !.error = TRUE, !.context = "kErrorRecovery"]
    /\ UNCHANGED <<memtables, l0_count, queues, refs, manifest_failed>>
    /\ UnchangedByRecovery
Resuming == recovery.pc = "resume" \/ (BackgroundWorkDone /\ ~manifest_failed)

\* RetryFlushesForErrorRecovery: after a soft error, memtables are flushed
\* as they are.
RetryFlushes ==
    /\ Resuming
    /\ recovery.reason = "kErrorRecoveryRetryFlush"
    /\ LET cfs == {cf \in ColumnFamilies \ dropped : NotFlushed(cf) # {}}
           new == Enqueued(queues, cfs, FlushPending)
       IN  /\ recovery' = [recovery EXCEPT !.pc = "flush", !.todo = {},
                              !.waits = {[cf |-> cf, id |-> mems[cf]] : cf \in cfs}]
           /\ \E order \in Orders(new) :
                queues' = Schedule(EnqueuePendingFlush(queues, order, recovery.reason))
           /\ refs' = RefAll(RefAll(refs, new), cfs)
    /\ UNCHANGED <<memtables, l0_count, manifest_failed, bg_error, errors>>
    /\ UnchangedByRecovery

\* FlushAllColumnFamilies: after a hard error, each memtable is switched and
\* flushed in turn.
FlushAllColumnFamilies ==
    /\ Resuming
    /\ recovery.reason = "kErrorRecovery"
    /\ recovery' = [recovery EXCEPT !.pc = "flush", !.todo = ColumnFamilies \ dropped]
    /\ UNCHANGED <<memtables, queues, refs, l0_count, manifest_failed, bg_error, errors>>
    /\ UnchangedByRecovery

FlushMemTable(cf) ==
    /\ recovery.pc = "flush"
    /\ recovery.waits = {}
    /\ cf \in recovery.todo \ dropped
    /\ ~stalled_writer
    /\ SwitchMemtable(cf, recovery.reason, {cf})
    /\ recovery' = [recovery EXCEPT !.todo = @ \ {cf},
                                    !.waits = {[cf |-> cf, id |-> mems'[cf]]}]
    /\ UNCHANGED <<l0_count, manifest_failed, bg_error, errors>>
    /\ UnchangedByRecovery

\* WaitForFlushMemTables: all are flushed, or dropped.
FlushedBy(w) == w.cf \in dropped \/ \A id \in NotFlushed(w.cf) : id > w.id
WaitEnds ==
    /\ recovery.pc = "flush"
    /\ recovery.waits # {}
    /\ recovery.error \/ \A w \in recovery.waits : FlushedBy(w)
    /\ refs' = UnrefAll(refs, {w.cf : w \in recovery.waits})
    /\ UNCHANGED <<memtables, queues, l0_count, manifest_failed, bg_error, errors>>
    /\ UnchangedByRecovery

\* To retry the flush of one column family, which is dropped: a status that is
\* not an error of the recovery, but not ok.
OnlyOneAndDropped ==
    /\ recovery.reason = "kErrorRecoveryRetryFlush"
    /\ ~recovery.error
    /\ \E w \in recovery.waits : recovery.waits = {w} /\ w.cf \in dropped
RecoveryFlushed ==
    /\ WaitEnds
    /\ ~OnlyOneAndDropped
    /\ recovery' = [recovery EXCEPT !.waits = {}, !.todo = IF recovery.error THEN {} ELSE @]
\* The recovery ends, and the error stays.
RecoveryGivesUp ==
    /\ WaitEnds
    /\ OnlyOneAndDropped
    /\ recovery' = [recovery EXCEPT !.pc = "none", !.waits = {}]

\* The flushes failed: after a while, the recovery starts over.
RecoveryFails ==
    /\ recovery.pc = "flush"
    /\ recovery.waits = {}
    /\ recovery.todo \subseteq dropped
    /\ recovery.error
    /\ recovery' = [recovery EXCEPT !.pc = "waiting", !.error = FALSE, !.todo = {}]
    /\ UNCHANGED <<memtables, queues, refs, l0_count, manifest_failed, bg_error, errors>>
    /\ UnchangedByRecovery

\* For each column family, the entries that its EnqueuePendingCompaction adds,
\* one after the other
EntriesForAll(n) ==
    LET all == {e \in ColumnFamilies \X (1..Cardinality(Buckets) + 1) : e[2] <= n[e[1]]}
    IN  {s \in [1..Cardinality(all) -> ColumnFamilies] :
            /\ \A cf \in ColumnFamilies : Cardinality({i \in DOMAIN s : s[i] = cf}) = n[cf]
            /\ \A i, j, k \in DOMAIN s : i < j /\ j < k /\ s[i] = s[k] => s[j] = s[i]}

\* mutant: memtables that filled up meanwhile are left
CatchUpCompactions(q, order, entries) ==
    MaybeSchedule(EnqueuePendingCompaction(q, entries), FALSE, FALSE)
CatchUp(q, order, entries) ==
    MaybeSchedule(EnqueuePendingCompaction(
        EnqueuePendingFlush(q, order, "kCatchUpAfterErrorRecovery"), entries), FALSE, FALSE)
\* ClearBGError, and what was held back is queued.
RecoverySucceeds ==
    /\ recovery.pc = "flush"
    /\ recovery.waits = {}
    /\ recovery.todo \subseteq dropped
    /\ ~recovery.error
    /\ bg_error' = "ok"
    /\ recovery' = [recovery EXCEPT !.pc = "none", !.todo = {}]
    /\ LET new == Enqueued(queues, ColumnFamilies \ dropped, FlushPending)
           n == [cf \in ColumnFamilies |->
                    IF cf \in dropped THEN 0 ELSE EntriesFor(queues, cf, l0[cf], l0_count[cf])]
       IN  /\ \E order \in Orders(new), entries \in EntriesForAll(n) :
                queues' = CatchUp(queues, order, entries)
           /\ refs' = [cf \in ColumnFamilies |->
                          Saturate(RefAll(refs, new)[cf] + n[cf])]
    /\ UNCHANGED <<memtables, l0_count, manifest_failed, errors>>
    /\ UnchangedByRecovery

-----------------------------------------------------------------------------
FlushStep(t) ==
    \/ LeaveFlush(t) \/ DropFlushRequest(t) \/ PutBackFlush(t) \/ StartFlush(t)
    \/ SyncFails(t) \/ SkipFlush(t) \/ PickMemTable(t)
    \/ InstallFlush(t) \/ FlushNothing(t) \/ FlushFails(t) \/ FlushCancelled(t)
    \/ EndFlush(t)
CompactionStep(t) ==
    \/ LeaveCompaction(t) \/ PickNothing(t) \/ StartCompaction(t) \/ NoRoomForCompaction(t)
    \/ InstallCompaction(t) \/ CompactionFails(t) \/ CompactionFindsDropped(t)
    \/ ManifestWriteFails(t)
    \/ EndCompaction(t)
RecoveryStep ==
    \/ StartRecovery \/ NewManifest \/ NewManifestFails \/ RetryFlushes \/ FlushAllColumnFamilies
    \/ \E cf \in ColumnFamilies : FlushMemTable(cf)
    \/ RecoveryFlushed \/ RecoveryGivesUp \/ RecoveryFails \/ RecoverySucceeds

Next ==
    \/ \E cf \in ColumnFamilies : FillMemtable(cf) \/ DropColumnFamily(cf)
    \/ \E t \in FlushThreads : FlushStep(t)
    \/ \E t \in CompactionThreads : CompactionStep(t)
    \/ RecoveryStep
    \/ DelayWrite

Spec == Init /\ [][Next]_vars

(***************************************************************************)
(* Threads that were scheduled run, and so does the recovery.  Nothing is  *)
(* assumed of writes.                                                      *)
(***************************************************************************)
Fairness ==
    /\ \A t \in FlushThreads : WF_vars(FlushStep(t))
    /\ \A t \in CompactionThreads : WF_vars(CompactionStep(t))
    /\ WF_vars(RecoveryStep)
    /\ WF_vars(stalled_writer /\ DelayWrite)
FairSpec == Spec /\ Fairness

-----------------------------------------------------------------------------
(* Properties.                                                              *)

FlushRequests == [cf : ColumnFamilies, reason : FlushReasons]
FlushJobs ==
    {Idle, Ending}
    \cup [pc : {"syncing"}, cf : ColumnFamilies, reason : FlushReasons, max_id : Nat]
    \cup [pc : {"flushing"}, cf : ColumnFamilies, reason : FlushReasons, mems : SUBSET Nat]
CompactionJobs ==
    {Idle, Ending}
    \cup [pc : {"compacting"}, cf : ColumnFamilies, bucket : Buckets, files : Nat \ {0}]
TypeOK ==
    /\ mems \in [ColumnFamilies -> Nat]
    /\ imm \in [ColumnFamilies -> SUBSET Nat]
    /\ \A cf \in ColumnFamilies : \A id \in imm[cf] : id <= mems[cf]
    /\ l0 \in [ColumnFamilies -> [Buckets -> Nat]]
    /\ l0_count \in [ColumnFamilies -> Nat]
    /\ dropped \subseteq ColumnFamilies
    /\ queues \in [flush_queue : Seq(FlushRequests), queued_for_flush : SUBSET ColumnFamilies,
                   unscheduled_flushes : Nat, bg_flush_scheduled : 0..max_flushes,
                   compaction_queue : Seq(ColumnFamilies),
                   queued_for_compaction : SUBSET ColumnFamilies,
                   unscheduled_compactions : Nat,
                   bg_compaction_scheduled : 0..max_compactions]
    /\ flush_job \in [FlushThreads -> FlushJobs]
    /\ compaction_job \in [CompactionThreads -> CompactionJobs]
    /\ bg_error \in {"ok", "soft", "hard"}
    /\ recovery \in [pc : {"none", "start", "waiting", "resume", "flush"},
                     context : RecoveryReasons, reason : RecoveryReasons, error : BOOLEAN,
                     todo : SUBSET ColumnFamilies, waits : SUBSET [cf : ColumnFamilies, id : Nat]]

(***************************************************************************)
(* Every entry of the compaction queue is counted exactly once: by a job   *)
(* that is still to be scheduled, or by a scheduled job that has not run   *)
(* yet.  So no entry is left without a job, whatever errors come between   *)
(* scheduling and running.  And no job, of either kind, finds its queue    *)
(* empty, which PickCompactionFromQueue asserts.                           *)
(***************************************************************************)
QueuesAccounted ==
    /\ Cardinality(Busy(compaction_job)) <= queues.bg_compaction_scheduled
    /\ Len(queues.compaction_queue) =
        queues.unscheduled_compactions + queues.bg_compaction_scheduled
        - Cardinality(Busy(compaction_job))
    /\ Cardinality(Busy(flush_job)) <= queues.bg_flush_scheduled
    /\ Len(queues.flush_queue) >=
        queues.unscheduled_flushes + queues.bg_flush_scheduled - Cardinality(Busy(flush_job))

(***************************************************************************)
(* For flushes, too, as many jobs are scheduled as there are requests:     *)
(* refuted once a recovery gave up, for LeaveFlush does not count the      *)
(* request again.                                                          *)
(***************************************************************************)
FlushRequestsAccounted ==
    Len(queues.flush_queue) =
        queues.unscheduled_flushes + queues.bg_flush_scheduled - Cardinality(Busy(flush_job))

(***************************************************************************)
(* A column family is in the flush queue exactly when queued_for_flush_    *)
(* says so, and then once, also when requests are put back or dropped.     *)
(***************************************************************************)
FlushFlagsExact ==
    /\ \A i \in DOMAIN queues.flush_queue :
        queues.flush_queue[i].cf \in queues.queued_for_flush
    /\ \A cf \in queues.queued_for_flush :
        \E i \in DOMAIN queues.flush_queue : queues.flush_queue[i].cf = cf
    /\ \A i, j \in DOMAIN queues.flush_queue :
        queues.flush_queue[i].cf = queues.flush_queue[j].cf => i = j

(***************************************************************************)
(* A column family flagged as queued for compaction is in the queue:       *)
(* otherwise EnqueuePendingCompaction would never queue it again.          *)
(***************************************************************************)
FlaggedQueued ==
    queues.queued_for_compaction \subseteq Range(queues.compaction_queue)

(***************************************************************************)
(* The converse, which db_impl.h promises: refuted, since one entry of     *)
(* several clears the flag.                                                *)
(***************************************************************************)
CompactionFlagsExact ==
    queues.queued_for_compaction = Range(queues.compaction_queue)

Count(s, cf) == Cardinality({i \in DOMAIN s : s[i] = cf})
JobsOf(job, cf) ==
    Cardinality({t \in DOMAIN job : job[t] \notin {Idle, Ending} /\ job[t].cf = cf})
Uses(cf) ==
    (IF cf \in queues.queued_for_flush THEN 1 ELSE 0)
    + Count(queues.compaction_queue, cf)
    + JobsOf(flush_job, cf) + JobsOf(compaction_job, cf)
    + Cardinality({w \in recovery.waits : w.cf = cf})
    + (IF cf \in dropped THEN 0 ELSE 1)

(***************************************************************************)
(* The references are no more than that: refuted, since a request that is  *)
(* put back takes another one.                                             *)
(***************************************************************************)
NoReferenceLeaks == \A cf \in ColumnFamilies : refs[cf] < MaxRefs => refs[cf] = Uses(cf)

(***************************************************************************)
(* With no error, a memtable whose flush has not started belongs to a      *)
(* queued column family, or a flush job is about to pick it: the requests  *)
(* that an error drops are made up for when it is cleared.                 *)
(***************************************************************************)
NoFlushForgotten ==
    bg_error = "ok" =>
        \A cf \in ColumnFamilies \ dropped : \A id \in imm[cf] :
            \/ cf \in queues.queued_for_flush
            \/ \E t \in FlushThreads :
                flush_job[t].pc = "syncing" /\ flush_job[t].cf = cf /\ id <= flush_job[t].max_id

(***************************************************************************)
(* With no error, a column family whose L0 is above the trigger is queued  *)
(* or being compacted, though a compaction may fail, find nothing to pick, *)
(* or leave only a stale count.                                            *)
(***************************************************************************)
NoCompactionForgotten ==
    bg_error = "ok" =>
        \A cf \in ColumnFamilies \ dropped :
            NeedsCompaction(l0_count[cf]) =>
                cf \in Range(queues.compaction_queue) \/ Compacting(cf)

(***************************************************************************)
(* What a recovery waits for is queued as part of it, or being flushed:    *)
(* refuted when a write queued the column family while the recovery wrote  *)
(* a new manifest, for that request will be dropped.                       *)
(***************************************************************************)
RecoveryServed ==
    recovery.pc = "flush" /\ ~recovery.error =>
        \A w \in recovery.waits :
            \/ FlushedBy(w)
            \/ \E i \in DOMAIN queues.flush_queue :
                queues.flush_queue[i].cf = w.cf /\ queues.flush_queue[i].reason \in RecoveryReasons
            \/ \E t \in FlushThreads :
                flush_job[t].pc \in {"syncing", "flushing"} /\ flush_job[t].cf = w.cf

(***************************************************************************)
(* A recovery ends, if no write waits in the write thread: refuted, since  *)
(* its flushes are put back while L0 is at the stop trigger, and           *)
(* compactions do not run until it has ended.                              *)
(***************************************************************************)
RecoveryCompletes ==
    IsRecoveryInProgress ~> (~IsRecoveryInProgress \/ stalled_writer)

(***************************************************************************)
(* A recovery ends unless an L0 is at the stop trigger, a write waits in   *)
(* the write thread, or nobody flushes what the recovery waits for.        *)
(***************************************************************************)
RecoveryCompletesUnlessStalled ==
    IsRecoveryInProgress ~> \/ ~IsRecoveryInProgress
                            \/ \E cf \in ColumnFamilies : L0Stalled(cf)
                            \/ stalled_writer
                            \/ ~RecoveryServed

(***************************************************************************)
(* With no error, an L0 at the stop trigger, where flushes are put back    *)
(* and writes wait, comes down again.                                      *)
(***************************************************************************)
StallEnds ==
    \A cf \in ColumnFamilies :
        L0Stalled(cf) ~> (~L0Stalled(cf) \/ cf \in dropped \/ IsBGWorkStopped)

(***************************************************************************)
(* With no error, and as long as no request lost its job, a flush starts   *)
(* for every memtable, though requests of another column family may go     *)
(* round and round in the queue.                                           *)
(***************************************************************************)
MemtablesFlushed ==
    \A cf \in ColumnFamilies :
        imm[cf] # {} ~> \/ imm[cf] = {}
                        \/ cf \in dropped
                        \/ IsBGWorkStopped
                        \/ ~FlushRequestsAccounted

(***************************************************************************)
(* A hard error, after which the WAL cannot be relied on, is cleared only  *)
(* when all memtables were flushed, the current ones included: refuted if  *)
(* it comes when the recovery from a soft one is running.                  *)
(***************************************************************************)
HardErrorsFlushAll ==
    [][bg_error = "hard" /\ bg_error' = "ok" => recovery.reason = "kErrorRecovery"]_vars
=============================================================================
