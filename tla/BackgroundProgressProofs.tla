---------------------- MODULE BackgroundProgressProofs ----------------------
(***************************************************************************)
(* Proofs that no pending flush and no pending compaction of               *)
(* BackgroundWork is forgotten.                                            *)
(***************************************************************************)
EXTENDS BackgroundWorkProofs

-----------------------------------------------------------------------------
(* Nothing is forgotten.  While background work is not stopped, every       *)
(* request or entry that leaves its queue leaves something that takes its   *)
(* place; when it was stopped, ClearBGError enqueues all that is pending.   *)

RecoveryOnError == IsRecoveryInProgress => IsBGWorkStopped

LEMMA RecoveryOnErrorStep ==
    ASSUME FaultTypes, RecoveryOnError, Next
    PROVE  RecoveryOnError'
<1>1. ASSUME NEW severity \in {"soft", "hard"}, NEW reason, SetBGError(severity, reason)
      PROVE  RecoveryOnError'
  BY <1>1 DEF SetBGError, RecoveryOnError, IsBGWorkStopped
<1>2. ASSUME UNCHANGED <<bg_error, recovery>>  PROVE RecoveryOnError'
  BY <1>2 DEF RecoveryOnError, IsRecoveryInProgress, IsBGWorkStopped
<1>3. ASSUME NEW cf \in ColumnFamilies, FillMemtable(cf) \/ DropColumnFamily(cf)
      PROVE  RecoveryOnError'
  BY <1>2, <1>3 DEF FillMemtable, DropColumnFamily, faults
<1>4. ASSUME NEW t \in FlushThreads, FlushStep(t)
      PROVE  RecoveryOnError'
  BY <1>1, <1>2, <1>4 DEF FlushStep, LeaveFlush, DropFlushRequest, PutBackFlush, StartFlush,
     SyncFails, SkipFlush, PickMemTable, InstallFlush, FlushNothing, FlushFails, FlushCancelled,
     EndFlush, faults
<1>5. ASSUME NEW t \in CompactionThreads, CompactionStep(t)
      PROVE  RecoveryOnError'
  BY <1>1, <1>2, <1>5 DEF CompactionStep, LeaveCompaction, PickNothing, StartCompaction,
     NoRoomForCompaction, InstallCompaction, CompactionFails, CompactionFindsDropped,
     ManifestWriteFails, EndCompaction, faults
<1>6. ASSUME RecoveryStep
      PROVE  RecoveryOnError'
  <2>1. CASE RecoverySucceeds
    BY <2>1 DEF RecoverySucceeds, RecoveryOnError, IsRecoveryInProgress, FaultTypes
  <2>2. CASE ~RecoverySucceeds
    <3>1. IsRecoveryInProgress
      BY <1>6, <2>2 DEF RecoveryStep, StartRecovery, NewManifest, NewManifestFails, RetryFlushes,
         FlushAllColumnFamilies, FlushMemTable, RecoveryFlushed, RecoveryGivesUp, RecoveryFails,
         WaitEnds, Resuming, BackgroundWorkDone, IsRecoveryInProgress
    <3>2. bg_error' \in {bg_error, "hard"}
      BY <1>6, <2>2 DEF RecoveryStep, StartRecovery, NewManifest, NewManifestFails, RetryFlushes,
         FlushAllColumnFamilies, FlushMemTable, RecoveryFlushed, RecoveryGivesUp, RecoveryFails,
         WaitEnds
    <3>. QED  BY <3>1, <3>2 DEF RecoveryOnError, IsBGWorkStopped
  <2>. QED  BY <2>1, <2>2
<1>7. CASE DelayWrite  BY <1>2, <1>7 DEF DelayWrite, faults
<1>. QED  BY <1>3, <1>4, <1>5, <1>6, <1>7 DEF Next

LEMMA NoFlushForgottenStep ==
    ASSUME QueueIInv, RecoveryOnError, NoFlushForgotten, Next
    PROVE  NoFlushForgotten'
<1>0. JobTypes /\ QueuesInv /\ MemtableTypes  BY DEF QueueIInv
<1>. SUFFICES ASSUME bg_error' = "ok", NEW cf \in ColumnFamilies \ dropped', NEW id \in imm'[cf]
              PROVE  \/ cf \in queues'.queued_for_flush
                     \/ \E t \in FlushThreads : /\ flush_job'[t].pc = "syncing"
                                                /\ flush_job'[t].cf = cf
                                                /\ id <= flush_job'[t].max_id
  BY DEF NoFlushForgotten
<1>. DEFINE Ahead == \/ cf \in queues'.queued_for_flush
                     \/ \E t \in FlushThreads : /\ flush_job'[t].pc = "syncing"
                                                /\ flush_job'[t].cf = cf
                                                /\ id <= flush_job'[t].max_id
            Was == \/ cf \in queues.queued_for_flush
                   \/ \E t \in FlushThreads : /\ flush_job[t].pc = "syncing"
                                              /\ flush_job[t].cf = cf
                                              /\ id <= flush_job[t].max_id
<1>1. ASSUME bg_error = "ok", cf \notin dropped, id \in imm[cf]  PROVE Was
  BY <1>1 DEF NoFlushForgotten
<1>2. ASSUME Was, queues.queued_for_flush \subseteq queues'.queued_for_flush,
             flush_job' = flush_job
      PROVE  Ahead
  BY <1>2
<1>3. ASSUME Was, NEW t \in FlushThreads, NEW v, flush_job' = [flush_job EXCEPT ![t] = v],
             flush_job[t].pc = "syncing" /\ flush_job[t].cf = cf => id > flush_job[t].max_id
      PROVE  cf \in queues.queued_for_flush \/ Ahead
  <2>1. CASE cf \in queues.queued_for_flush  BY <2>1
  <2>2. CASE cf \notin queues.queued_for_flush
    <3>1. PICK u \in FlushThreads : flush_job[u].pc = "syncing" /\ flush_job[u].cf = cf
                                    /\ id <= flush_job[u].max_id
      BY <1>3, <2>2
    <3>2. (flush_job[u].max_id \in Nat /\ id \in Nat) \/ u # t
      <4>1. CASE u = t
        <5>1. flush_job[u].max_id \in Nat  BY <1>0, <3>1, JobFamilies
        <5>2. MemtableTypes'  BY <1>0, MemtablesStep DEF QueueIInv
        <5>3. id \in Nat  BY <5>2 DEF MemtableTypes
        <5>. QED  BY <5>1, <5>3
      <4>. QED  BY <4>1
    <3>3. u # t
      <4>. SUFFICES ASSUME u = t PROVE FALSE  OBVIOUS
      <4>. DEFINE m == flush_job[t].max_id
      <4>1. m \in Nat /\ id \in Nat /\ id <= m /\ id > m  BY <1>3, <3>1, <3>2
      <4>. HIDE DEF m
      <4>. QED  BY <4>1
    <3>4. flush_job'[u] = flush_job[u]  BY <1>0, <1>3, <3>3 DEF JobTypes
    <3>. QED  BY <3>1, <3>4
  <2>. QED  BY <2>1, <2>2
<1>4. ASSUME NEW c \in ColumnFamilies, NEW reason \in FlushReasons, NEW waits,
             SwitchMemtable(c, reason, waits), UNCHANGED <<bg_error, dropped, flush_job>>
      PROVE  Ahead
  <2>1. Grows /\ c \in queues'.queued_for_flush  BY <1>0, <1>4, SwitchGrows
  <2>2. CASE cf = c  BY <2>1, <2>2
  <2>3. CASE cf # c
    <3>1. imm'[cf] = imm[cf]  BY <1>0, <1>4, <2>3 DEF SwitchMemtable, MemtableTypes
    <3>2. Was  BY <1>1, <1>4, <3>1
    <3>. QED  BY <1>2, <1>4, <2>1, <3>2 DEF Grows
  <2>. QED  BY <2>2, <2>3
<1>. HIDE DEF Was
<1>5. ASSUME UNCHANGED <<bg_error, imm, flush_job>>, dropped \subseteq dropped',
             queues.queued_for_flush \subseteq queues'.queued_for_flush
      PROVE  Ahead
  BY <1>1, <1>2, <1>5
<1>6. ASSUME NEW c \in ColumnFamilies, FillMemtable(c)  PROVE Ahead
  <2>1. "kWriteBufferFull" \in FlushReasons  BY DEF FlushReasons
  <2>. QED  BY <1>4, <1>6, <2>1 DEF FillMemtable, clients, faults
<1>7. ASSUME NEW c \in ColumnFamilies, DropColumnFamily(c)  PROVE Ahead
  BY <1>5, <1>7 DEF DropColumnFamily, memtables
<1>8. ASSUME NEW t \in FlushThreads, FlushStep(t)  PROVE Ahead
  <2>1. CASE SyncFails(t) \/ FlushFails(t)
    BY <2>1 DEF SyncFails, FlushFails, SetBGError
  <2>2. CASE LeaveFlush(t) \/ SkipFlush(t)
    BY <2>2 DEF LeaveFlush, SkipFlush, IsBGWorkStopped, faults
  <2>3. CASE FlushCancelled(t)
    <3>1. cf # flush_job[t].cf
      BY <2>3 DEF FlushCancelled, RollbackMemtableFlush, IsBGWorkStopped, faults, clients
    <3>2. /\ UNCHANGED <<bg_error, dropped, queues>>
          /\ flush_job' = [flush_job EXCEPT ![t] = Ending] /\ flush_job[t].pc = "flushing"
          /\ imm' = [imm EXCEPT ![flush_job[t].cf] = @ \cup flush_job[t].mems]
      BY <2>3 DEF FlushCancelled, RollbackMemtableFlush, faults, clients
    <3>3. imm'[cf] = imm[cf]  BY <1>0, <3>1, <3>2 DEF MemtableTypes
    <3>4. Was  BY <1>1, <3>2, <3>3
    <3>. QED  BY <1>3, <3>2, <3>4
  <2>4. CASE DropFlushRequest(t)
    <3>1. UNCHANGED <<bg_error, dropped, imm>> /\ flush_job' = [flush_job EXCEPT ![t] = Ending]
      BY <2>4 DEF DropFlushRequest, faults, clients, memtables
    <3>2. cf # Request.cf
      BY <2>4, <3>1 DEF DropFlushRequest, FlushRefused, IsBGWorkStopped, FlushPending
    <3>3. queues'.queued_for_flush = queues.queued_for_flush \ {Request.cf}
      BY <1>0, <2>4, QueuesDropFlush
    <3>4. flush_job[t].pc = "idle"  BY <1>0, <2>4, FlushTaken DEF DropFlushRequest, Idle
    <3>5. Was  BY <1>1, <3>1
    <3>. QED  BY <1>3, <3>1, <3>2, <3>3, <3>4, <3>5
  <2>5. CASE PutBackFlush(t)
    <3>1. UNCHANGED <<bg_error, dropped, imm>> /\ flush_job' = [flush_job EXCEPT ![t] = Ending]
      BY <2>5 DEF PutBackFlush, faults, clients, memtables
    <3>2. cf = Request.cf => cf \in queues'.queued_for_flush
      BY <1>0, <2>5, <3>1, QueuesPutBack DEF FlushPending
    <3>3. queues.queued_for_flush \ {Request.cf} \subseteq queues'.queued_for_flush
      BY <1>0, <2>5, QueuesPutBack
    <3>4. flush_job[t].pc = "idle"  BY <1>0, <2>5, FlushTaken DEF PutBackFlush, Idle
    <3>5. Was  BY <1>1, <3>1
    <3>. QED  BY <1>3, <3>1, <3>2, <3>3, <3>4, <3>5
  <2>6. CASE StartFlush(t)
    <3>. DEFINE v == [pc |-> "syncing", cf |-> Request.cf, reason |-> Request.reason,
                      max_id |-> mems[Request.cf]]
    <3>1. UNCHANGED <<bg_error, dropped, mems, imm>> /\ flush_job' = [flush_job EXCEPT ![t] = v]
      BY <2>6 DEF StartFlush, faults, clients, memtables
    <3>2. v.pc = "syncing" /\ v.cf = Request.cf /\ v.max_id = mems[Request.cf]  OBVIOUS
    <3>3. flush_job'[t] = v  BY <1>0, <3>1 DEF JobTypes
    <3>4. queues'.queued_for_flush = queues.queued_for_flush \ {Request.cf}
      BY <1>0, <2>6, QueuesStartFlush
    <3>5. flush_job[t].pc = "idle"  BY <1>0, <2>6, FlushTaken DEF StartFlush, Idle
    <3>6. id <= mems[cf]  BY <1>0, <3>1 DEF MemtableTypes
    <3>7. CASE cf = Request.cf
      <4>. HIDE DEF v
      <4>. QED  BY <3>2, <3>3, <3>6, <3>7
    <3>8. CASE cf # Request.cf
      <4>. HIDE DEF v
      <4>1. Was  BY <1>1, <3>1
      <4>. QED  BY <1>3, <3>1, <3>4, <3>5, <3>8, <4>1
    <3>. QED  BY <3>7, <3>8
  <2>7. CASE PickMemTable(t)
    <3>. DEFINE c == flush_job[t].cf
                picked == {i \in imm[c] : i <= flush_job[t].max_id}
                v == [pc |-> "flushing", cf |-> c, reason |-> flush_job[t].reason,
                      mems |-> picked]
    <3>1. /\ flush_job' = [flush_job EXCEPT ![t] = v]
          /\ imm' = [imm EXCEPT ![c] = @ \ picked]
          /\ UNCHANGED <<bg_error, dropped, queues>>
          /\ flush_job[t].pc = "syncing"
      BY <2>7 DEF PickMemTable, faults, clients
    <3>2. c \in ColumnFamilies /\ flush_job[t].max_id \in Nat  BY <1>0, <3>1, JobFamilies
    <3>3. id \in imm[cf] /\ (cf = c => id \notin picked)  BY <1>0, <3>1, <3>2 DEF MemtableTypes
    <3>4. id \in Nat  BY <1>0, <3>3 DEF MemtableTypes
    <3>5. cf = c => id > flush_job[t].max_id  BY <3>2, <3>3, <3>4
    <3>6. Was  BY <1>1, <3>1, <3>3
    <3>. HIDE DEF v
    <3>. QED  BY <1>3, <3>1, <3>5, <3>6
  <2>8. CASE InstallFlush(t) \/ FlushNothing(t)
    <3>1. /\ UNCHANGED <<bg_error, dropped, imm>> /\ flush_job[t].pc = "flushing"
          /\ flush_job' = [flush_job EXCEPT ![t] = Ending]
      BY <2>8 DEF InstallFlush, FlushNothing, faults, clients, memtables
    <3>2. flush_job[t].cf \in ColumnFamilies  BY <1>0, <3>1, JobFamilies
    <3>3. Grows  BY <1>0, <2>8, <3>2, InstallGrows DEF InstallFlush, FlushNothing
    <3>4. Was  BY <1>1, <3>1
    <3>. QED  BY <1>3, <3>1, <3>3, <3>4 DEF Grows
  <2>9. CASE EndFlush(t)
    <3>1. /\ UNCHANGED <<bg_error, dropped, imm>> /\ flush_job[t].pc = "ending"
          /\ flush_job' = [flush_job EXCEPT ![t] = Idle]
      BY <2>9 DEF EndFlush, Ending, faults, clients, memtables
    <3>2. queues'.queued_for_flush = queues.queued_for_flush  BY <1>0, <2>9, QueuesEndFlush
    <3>3. Was  BY <1>1, <3>1
    <3>. QED  BY <1>3, <3>1, <3>2, <3>3
  <2>. QED
    BY <1>8, <2>1, <2>2, <2>3, <2>4, <2>5, <2>6, <2>7, <2>8, <2>9 DEF FlushStep
<1>9. ASSUME NEW t \in CompactionThreads, CompactionStep(t)  PROVE Ahead
  <2>1. CASE ManifestWriteFails(t)  BY <2>1 DEF ManifestWriteFails, SetBGError
  <2>2. CASE ~ManifestWriteFails(t)
    <3>1. UNCHANGED <<bg_error, dropped, imm, flush_job>>
      BY <1>9, <2>2 DEF CompactionStep, LeaveCompaction, PickNothing, StartCompaction,
         NoRoomForCompaction, InstallCompaction, CompactionFails, CompactionFindsDropped,
         ReleaseFiles, EndCompaction, memtables, clients, faults
    <3>2. queues.queued_for_flush \subseteq queues'.queued_for_flush
      <4>1. CASE InstallCompaction(t)
        <5>1. compaction_job[t].cf \in ColumnFamilies
          BY <1>0, <4>1, JobFamilies DEF InstallCompaction
        <5>. QED  BY <1>0, <4>1, <5>1, InstallGrows DEF InstallCompaction, Grows
      <4>2. CASE CompactionFails(t)  BY <1>0, <4>2, CompactionFailsGrows DEF Grows
      <4>3. CASE CompactionFindsDropped(t)  BY <4>3 DEF CompactionFindsDropped
      <4>4. CASE LeaveCompaction(t)  BY <1>0, <4>4, QueuesLeaveCompaction
      <4>5. CASE PickNothing(t)  BY <1>0, <4>5, QueuesPickNothing
      <4>6. CASE StartCompaction(t)  BY <1>0, <4>6, QueuesStartCompaction
      <4>7. CASE NoRoomForCompaction(t)  BY <1>0, <4>7, QueuesNoRoom
      <4>8. CASE EndCompaction(t)  BY <1>0, <4>8, QueuesEndCompaction
      <4>. QED
        BY <1>9, <2>2, <4>1, <4>2, <4>3, <4>4, <4>5, <4>6, <4>7, <4>8 DEF CompactionStep
    <3>. QED  BY <1>5, <3>1, <3>2
  <2>. QED  BY <2>1, <2>2
<1>10. ASSUME RecoveryStep  PROVE Ahead
  <2>1. CASE RecoverySucceeds
    <3>1. UNCHANGED <<dropped, imm>>
      BY <2>1 DEF RecoverySucceeds, UnchangedByRecovery, memtables, clients
    <3>2. FlushPending \ dropped \subseteq queues'.queued_for_flush  BY <1>0, <2>1, SuccessGrows
    <3>. QED  BY <3>1, <3>2 DEF FlushPending
  <2>2. CASE ~RecoverySucceeds
    <3>1. IsRecoveryInProgress
      BY <1>10, <2>2 DEF RecoveryStep, StartRecovery, NewManifest, NewManifestFails, RetryFlushes,
         FlushAllColumnFamilies, FlushMemTable, RecoveryFlushed, RecoveryGivesUp, RecoveryFails,
         WaitEnds, Resuming, BackgroundWorkDone, IsRecoveryInProgress
    <3>2. bg_error' \in {bg_error, "hard"}
      BY <1>10, <2>2 DEF RecoveryStep, StartRecovery, NewManifest, NewManifestFails, RetryFlushes,
         FlushAllColumnFamilies, FlushMemTable, RecoveryFlushed, RecoveryGivesUp, RecoveryFails,
         WaitEnds
    <3>. QED  BY <3>1, <3>2 DEF RecoveryOnError, IsBGWorkStopped
  <2>. QED  BY <2>1, <2>2
<1>11. CASE DelayWrite
  BY <1>5, <1>11 DEF DelayWrite, faults, memtables
<1>. QED  BY <1>6, <1>7, <1>8, <1>9, <1>10, <1>11 DEF Next

(***************************************************************************)
(* An L0 that counts files has some, unless a compaction has them: so a    *)
(* compaction that finds nothing to pick is not the last one.              *)
(***************************************************************************)
CountCovered ==
    \A cf \in ColumnFamilies : l0_count[cf] > 0 =>
        (\E b \in Buckets : l0[cf][b] > 0) \/ Compacting(cf)

LEMMA CountCoveredStep ==
    ASSUME QueueIInv, CountCovered, Next
    PROVE  CountCovered'
<1>0. JobTypes /\ QueuesInv /\ TreeTypes  BY DEF QueueIInv
<1>. SUFFICES ASSUME NEW cf \in ColumnFamilies, l0_count'[cf] > 0
              PROVE  \/ \E b \in Buckets : l0'[cf][b] > 0
                     \/ \E t \in CompactionThreads :
                            compaction_job'[t].pc = "compacting" /\ compaction_job'[t].cf = cf
  BY DEF CountCovered, Compacting
<1>. DEFINE Covered == \/ \E b \in Buckets : l0'[cf][b] > 0
                       \/ \E t \in CompactionThreads :
                            compaction_job'[t].pc = "compacting" /\ compaction_job'[t].cf = cf
<1>1. ASSUME UNCHANGED <<l0, l0_count, compaction_job>>  PROVE Covered
  BY <1>1 DEF CountCovered, Compacting
<1>2. ASSUME NEW t \in CompactionThreads, NEW v, compaction_job' = [compaction_job EXCEPT ![t] = v],
             l0'[cf] = l0[cf], l0_count'[cf] = l0_count[cf],
             compaction_job[t].pc = "compacting" => compaction_job[t].cf # cf
      PROVE  Covered
  <2>1. (\E b \in Buckets : l0[cf][b] > 0) \/ Compacting(cf)  BY <1>2 DEF CountCovered
  <2>2. CASE \E b \in Buckets : l0[cf][b] > 0  BY <1>2, <2>2
  <2>3. CASE Compacting(cf)
    <3>1. PICK u \in CompactionThreads :
            compaction_job[u].pc = "compacting" /\ compaction_job[u].cf = cf
      BY <2>3 DEF Compacting
    <3>2. compaction_job'[u] = compaction_job[u]  BY <1>0, <1>2, <3>1 DEF JobTypes
    <3>. QED  BY <3>1, <3>2
  <2>. QED  BY <2>1, <2>2, <2>3
<1>3. ASSUME NEW c \in ColumnFamilies, FillMemtable(c) \/ DropColumnFamily(c)  PROVE Covered
  BY <1>1, <1>3 DEF FillMemtable, DropColumnFamily, tree
<1>4. ASSUME NEW t \in FlushThreads, FlushStep(t)  PROVE Covered
  <2>1. CASE InstallFlush(t)
    <3>. DEFINE c == flush_job[t].cf
    <3>1. c \in ColumnFamilies  BY <1>0, <2>1, JobFamilies DEF InstallFlush
    <3>2. PICK written \in SUBSET Buckets :
            l0' = [l0 EXCEPT ![c] = [b \in Buckets |->
                                      IF b \in written THEN @[b] + 1 ELSE @[b]]]
      BY <2>1 DEF InstallFlush
    <3>3. PICK n \in MaxOverlap(l0'[c]) : l0_count' = [l0_count EXCEPT ![c] = n]
      BY <2>1 DEF InstallFlush
    <3>4. compaction_job' = compaction_job  BY <2>1 DEF InstallFlush
    <3>. HIDE DEF c
    <3>5. CASE cf = c
      <4>1. l0'[c] \in [Buckets -> Nat]  BY <1>0, <3>1, <3>2 DEF TreeTypes
      <4>2. n > 0  BY <1>0, <3>1, <3>3, <3>5 DEF TreeTypes
      <4>. QED  BY <3>5, <4>1, <4>2, MaxOverlapType
    <3>6. CASE cf # c
      <4>1. l0'[cf] = l0[cf] /\ l0_count'[cf] = l0_count[cf]
        BY <1>0, <3>1, <3>2, <3>3, <3>6 DEF TreeTypes
      <4>. QED  BY <3>4, <4>1 DEF CountCovered, Compacting
    <3>. QED  BY <3>5, <3>6
  <2>2. CASE ~InstallFlush(t)
    BY <1>1, <1>4, <2>2 DEF FlushStep, LeaveFlush, DropFlushRequest, PutBackFlush, StartFlush,
       SyncFails, SkipFlush, GiveUpFlush, PickMemTable, FlushNothing, FlushFails,
       FlushCancelled, RollbackMemtableFlush, EndFlush, tree
  <2>. QED  BY <2>1, <2>2
<1>5. ASSUME NEW t \in CompactionThreads, CompactionStep(t)  PROVE Covered
  <2>1. CASE LeaveCompaction(t) \/ PickNothing(t) \/ NoRoomForCompaction(t) \/ EndCompaction(t)
    <3>1. UNCHANGED <<l0, l0_count>> /\ compaction_job[t].pc # "compacting"
      BY <2>1 DEF LeaveCompaction, PickNothing, NoRoomForCompaction, EndCompaction,
         TakesCompaction, Idle, Ending, tree
    <3>. QED  BY <1>2, <2>1, <3>1 DEF LeaveCompaction, PickNothing, NoRoomForCompaction, EndCompaction
  <2>2. CASE StartCompaction(t)
    <3>1. Candidate \in ColumnFamilies /\ compaction_job[t] = Idle
      BY <1>0, <2>2, CompactionTaken DEF StartCompaction
    <3>2. PICK b \in Buckets :
            /\ l0' = [l0 EXCEPT ![Candidate][b] = 0]
            /\ compaction_job' = [compaction_job EXCEPT ![t] =
                 [pc |-> "compacting", cf |-> Candidate, bucket |-> b, files |-> l0[Candidate][b]]]
      BY <2>2 DEF StartCompaction
    <3>. DEFINE v == [pc |-> "compacting", cf |-> Candidate, bucket |-> b,
                      files |-> l0[Candidate][b]]
    <3>3. v.pc = "compacting" /\ v.cf = Candidate  OBVIOUS
    <3>4. compaction_job' = [compaction_job EXCEPT ![t] = v]  BY <3>2
    <3>. HIDE DEF v
    <3>5. CASE cf = Candidate
      <4>1. compaction_job'[t] = v  BY <1>0, <3>4 DEF JobTypes
      <4>. QED  BY <3>3, <3>5, <4>1
    <3>6. CASE cf # Candidate
      <4>1. l0'[cf] = l0[cf]  BY <1>0, <3>1, <3>2, <3>6 DEF TreeTypes
      <4>2. l0_count' = l0_count  BY <2>2 DEF StartCompaction
      <4>3. compaction_job[t].pc # "compacting"  BY <3>1 DEF Idle
      <4>. QED  BY <1>2, <3>4, <4>1, <4>2, <4>3
    <3>. QED  BY <3>5, <3>6
  <2>3. CASE InstallCompaction(t)
    <3>. DEFINE c == compaction_job[t].cf
    <3>1. c \in ColumnFamilies  BY <1>0, <2>3, JobFamilies DEF InstallCompaction
    <3>2. PICK n \in MaxOverlap(l0[c]) : l0_count' = [l0_count EXCEPT ![c] = n]
      BY <2>3 DEF InstallCompaction
    <3>3. l0' = l0 /\ compaction_job' = [compaction_job EXCEPT ![t] = Ending]
      BY <2>3 DEF InstallCompaction
    <3>4. CASE cf = c
      <4>. HIDE DEF c
      <4>1. l0[c] \in [Buckets -> Nat]  BY <1>0, <3>1 DEF TreeTypes
      <4>2. n > 0  BY <1>0, <3>1, <3>2, <3>4 DEF TreeTypes
      <4>. QED  BY <3>3, <3>4, <4>1, <4>2, MaxOverlapType
    <3>5. CASE cf # c
      <4>1. l0_count'[cf] = l0_count[cf]  BY <1>0, <3>2, <3>5 DEF TreeTypes
      <4>. QED  BY <1>2, <3>3, <3>5, <4>1
    <3>. QED  BY <3>4, <3>5
  <2>4. ASSUME compaction_job[t].pc = "compacting", ReleaseFiles(t)
        PROVE  Covered
    <3>. DEFINE c == compaction_job[t].cf
                b == compaction_job[t].bucket
                n == compaction_job[t].files
    <3>1. c \in ColumnFamilies /\ b \in Buckets /\ n \in Nat \ {0}  BY <1>0, <2>4, JobFamilies
    <3>2. l0' = [l0 EXCEPT ![c][b] = @ + n] /\ l0_count' = l0_count
          /\ compaction_job' = [compaction_job EXCEPT ![t] = Ending]
      BY <2>4 DEF ReleaseFiles
    <3>3. CASE cf = c
      <4>. HIDE DEF c, b, n
      <4>1. l0'[c][b] > 0  BY <1>0, <3>1, <3>2 DEF TreeTypes
      <4>. QED  BY <3>1, <3>3, <4>1
    <3>4. CASE cf # c
      <4>1. l0'[cf] = l0[cf]  BY <1>0, <3>1, <3>2, <3>4 DEF TreeTypes
      <4>. QED  BY <1>2, <3>2, <3>4, <4>1
    <3>. QED  BY <3>3, <3>4
  <2>5. CASE CompactionFails(t) \/ CompactionFindsDropped(t) \/ ManifestWriteFails(t)
    BY <2>4, <2>5 DEF CompactionFails, CompactionFindsDropped, ManifestWriteFails
  <2>. QED  BY <1>5, <2>1, <2>2, <2>3, <2>5 DEF CompactionStep
<1>6. ASSUME RecoveryStep  PROVE Covered
  <2>1. CASE NewManifest
    <3>1. PICK n \in MaxOverlap(l0[DefaultColumnFamily]) :
            l0_count' = [l0_count EXCEPT ![DefaultColumnFamily] = n]
      BY <2>1 DEF NewManifest
    <3>2. UNCHANGED <<l0, compaction_job>>  BY <2>1 DEF NewManifest, UnchangedByRecovery
    <3>3. CASE cf = DefaultColumnFamily
      <4>1. n > 0  BY <1>0, <3>1, <3>3 DEF TreeTypes
      <4>. QED  BY <1>0, <3>2, <3>3, <4>1, MaxOverlapType DEF TreeTypes
    <3>4. CASE cf # DefaultColumnFamily
      <4>1. l0_count'[cf] = l0_count[cf]  BY <1>0, <3>1, <3>4 DEF TreeTypes
      <4>. QED  BY <3>2, <4>1 DEF CountCovered, Compacting
    <3>. QED  BY <3>3, <3>4
  <2>2. CASE ~NewManifest
    BY <1>1, <1>6, <2>2 DEF RecoveryStep, StartRecovery, NewManifestFails, RetryFlushes,
       FlushAllColumnFamilies, FlushMemTable, RecoveryFlushed, RecoveryGivesUp, RecoveryFails,
       RecoverySucceeds, WaitEnds, UnchangedByRecovery
  <2>. QED  BY <2>1, <2>2
<1>7. CASE DelayWrite  BY <1>1, <1>7 DEF DelayWrite, tree
<1>. QED  BY <1>3, <1>4, <1>5, <1>6, <1>7 DEF Next

LEMMA NoCompactionForgottenStep ==
    ASSUME QueueIInv, RecoveryOnError, CountCovered, NoCompactionForgotten, Next
    PROVE  NoCompactionForgotten'
<1>0. JobTypes /\ QueuesInv /\ TreeTypes  BY DEF QueueIInv
<1>. SUFFICES ASSUME bg_error' = "ok", NEW cf \in ColumnFamilies \ dropped',
                     NeedsCompaction(l0_count'[cf])
              PROVE  \/ cf \in Range(queues'.compaction_queue)
                     \/ \E t \in CompactionThreads :
                            compaction_job'[t].pc = "compacting" /\ compaction_job'[t].cf = cf
  BY DEF NoCompactionForgotten, NeedsCompaction, Compacting
<1>. DEFINE Queued == cf \in Range(queues'.compaction_queue)
            Runs == \E t \in CompactionThreads :
                        compaction_job'[t].pc = "compacting" /\ compaction_job'[t].cf = cf
<1>1. ASSUME bg_error = "ok", cf \notin dropped, l0_count'[cf] = l0_count[cf]
      PROVE  cf \in Range(queues.compaction_queue) \/ Compacting(cf)
  BY <1>1 DEF NoCompactionForgotten
<1>2. ASSUME UNCHANGED <<bg_error, l0_count, compaction_job>>, dropped \subseteq dropped',
             Range(queues.compaction_queue) \subseteq Range(queues'.compaction_queue)
      PROVE  Queued \/ Runs
  BY <1>1, <1>2 DEF Compacting
<1>3. ASSUME Compacting(cf), NEW t \in CompactionThreads, NEW v,
             compaction_job' = [compaction_job EXCEPT ![t] = v],
             compaction_job[t].pc = "compacting" => compaction_job[t].cf # cf
      PROVE  Runs
  <2>1. PICK u \in CompactionThreads :
          compaction_job[u].pc = "compacting" /\ compaction_job[u].cf = cf
    BY <1>3 DEF Compacting
  <2>2. compaction_job'[u] = compaction_job[u]  BY <1>0, <1>3, <2>1 DEF JobTypes
  <2>. QED  BY <2>1, <2>2
<1>4. ASSUME NEW c \in ColumnFamilies, FillMemtable(c)  PROVE Queued \/ Runs
  <2>1. "kWriteBufferFull" \in FlushReasons  BY DEF FlushReasons
  <2>2. Grows  BY <1>0, <1>4, <2>1, SwitchGrows DEF FillMemtable
  <2>. QED  BY <1>2, <1>4, <2>2 DEF FillMemtable, Grows, clients, faults, tree
<1>5. ASSUME NEW c \in ColumnFamilies, DropColumnFamily(c)  PROVE Queued \/ Runs
  BY <1>2, <1>5 DEF DropColumnFamily, tree
<1>6. ASSUME NEW t \in FlushThreads, FlushStep(t)  PROVE Queued \/ Runs
  <2>1. CASE SyncFails(t) \/ FlushFails(t)
    BY <2>1 DEF SyncFails, FlushFails, SetBGError
  <2>2. CASE InstallFlush(t) \/ FlushNothing(t)
    <3>. DEFINE c == flush_job[t].cf
    <3>1. c \in ColumnFamilies  BY <1>0, <2>2, JobFamilies DEF InstallFlush, FlushNothing
    <3>2. /\ Grows
          /\ NeedsCompaction(l0_count'[c]) => c \in Range(queues'.compaction_queue)
      BY <1>0, <2>2, <3>1, InstallGrows DEF InstallFlush, FlushNothing
    <3>3. UNCHANGED <<bg_error, dropped, compaction_job>>
      BY <2>2 DEF InstallFlush, FlushNothing, faults, clients
    <3>4. CASE cf = c  BY <3>2, <3>4
    <3>5. CASE cf # c
      <4>1. l0_count'[cf] = l0_count[cf]
        BY <1>0, <2>2, <3>5 DEF InstallFlush, FlushNothing, TreeTypes
      <4>. QED  BY <1>1, <3>2, <3>3, <4>1 DEF Grows, Compacting
    <3>. QED  BY <3>4, <3>5
  <2>3. CASE LeaveFlush(t) \/ SkipFlush(t) \/ PickMemTable(t) \/ FlushCancelled(t)
    BY <1>2, <2>3 DEF LeaveFlush, SkipFlush, GiveUpFlush, PickMemTable, FlushCancelled,
       RollbackMemtableFlush, faults, clients, tree
  <2>4. CASE DropFlushRequest(t)
    BY <1>0, <1>2, <2>4, QueuesDropFlush DEF DropFlushRequest, faults, clients, tree
  <2>5. CASE PutBackFlush(t)
    BY <1>0, <1>2, <2>5, QueuesPutBack DEF PutBackFlush, faults, clients, tree
  <2>6. CASE StartFlush(t)
    BY <1>0, <1>2, <2>6, QueuesStartFlush DEF StartFlush, faults, clients, tree
  <2>7. CASE EndFlush(t)
    BY <1>0, <1>2, <2>7, QueuesEndFlush DEF EndFlush, faults, clients, tree
  <2>. QED  BY <1>6, <2>1, <2>2, <2>3, <2>4, <2>5, <2>6, <2>7 DEF FlushStep
<1>7. ASSUME NEW t \in CompactionThreads, CompactionStep(t)  PROVE Queued \/ Runs
  <2>1. CASE ManifestWriteFails(t)  BY <2>1 DEF ManifestWriteFails, SetBGError
  <2>2. CASE LeaveCompaction(t)
    BY <2>2 DEF LeaveCompaction, IsBGWorkStopped, faults
  <2>3. CASE PickNothing(t)
    <3>1. /\ UNCHANGED <<bg_error, l0_count, l0, dropped>> /\ NothingToPick(Candidate)
          /\ compaction_job' = [compaction_job EXCEPT ![t] = Ending]
      BY <2>3 DEF PickNothing, faults, clients, tree
    <3>2. compaction_job[t].pc # "compacting"
      BY <2>3 DEF PickNothing, TakesCompaction, Idle
    <3>3. \A c \in Range(queues.compaction_queue) :
            c # Candidate => c \in Range(queues'.compaction_queue)
      BY <1>0, <2>3, QueuesPickNothing
    <3>4. CASE Compacting(cf)  BY <1>3, <3>1, <3>2, <3>4
    <3>5. CASE ~Compacting(cf)
      <4>1. cf # Candidate
        <5>. SUFFICES ASSUME cf = Candidate PROVE FALSE  OBVIOUS
        <5>1. \A b \in Buckets : l0[cf][b] = 0  BY <3>1, <3>5 DEF NothingToPick
        <5>2. l0_count[cf] > 0
          BY <1>0, <3>1, BackgroundAssumption DEF NeedsCompaction, TreeTypes
        <5>. QED  BY <3>5, <5>1, <5>2 DEF CountCovered
      <4>. QED  BY <1>1, <3>1, <3>3, <3>5, <4>1
    <3>. QED  BY <3>4, <3>5
  <2>4. CASE StartCompaction(t)
    <3>1. PICK b \in Buckets : compaction_job' = [compaction_job EXCEPT ![t] =
            [pc |-> "compacting", cf |-> Candidate, bucket |-> b, files |-> l0[Candidate][b]]]
      BY <2>4 DEF StartCompaction
    <3>2. UNCHANGED <<bg_error, l0_count, dropped>>
      BY <2>4 DEF StartCompaction, faults, clients
    <3>. DEFINE v == [pc |-> "compacting", cf |-> Candidate, bucket |-> b,
                      files |-> l0[Candidate][b]]
    <3>3. v.pc = "compacting" /\ v.cf = Candidate  OBVIOUS
    <3>4. compaction_job' = [compaction_job EXCEPT ![t] = v]  BY <3>1
    <3>. HIDE DEF v
    <3>5. CASE cf = Candidate
      <4>1. compaction_job'[t] = v  BY <1>0, <3>4 DEF JobTypes
      <4>. QED  BY <3>3, <3>5, <4>1
    <3>6. CASE cf # Candidate
      <4>1. compaction_job[t].pc # "compacting"
        <5>1. compaction_job[t] = Idle  BY <2>4 DEF StartCompaction, TakesCompaction
        <5>. QED  BY <5>1 DEF Idle
      <4>2. \A c \in Range(queues.compaction_queue) :
              c # Candidate => c \in Range(queues'.compaction_queue)
        BY <1>0, <2>4, QueuesStartCompaction
      <4>. QED  BY <1>1, <1>3, <3>2, <3>4, <3>6, <4>1, <4>2
    <3>. QED  BY <3>5, <3>6
  <2>5. CASE NoRoomForCompaction(t)
    <3>1. UNCHANGED <<bg_error, l0_count, dropped>>
          /\ compaction_job' = [compaction_job EXCEPT ![t] = Ending]
      BY <2>5 DEF NoRoomForCompaction, faults, clients, tree
    <3>2. compaction_job[t].pc # "compacting"
      BY <2>5 DEF NoRoomForCompaction, TakesCompaction, Idle
    <3>3. Range(queues.compaction_queue) \subseteq Range(queues'.compaction_queue)
      BY <1>0, <2>5, QueuesNoRoom
    <3>. QED  BY <1>1, <1>3, <3>1, <3>2, <3>3
  <2>6. CASE InstallCompaction(t)
    <3>. DEFINE c == compaction_job[t].cf
    <3>1. c \in ColumnFamilies  BY <1>0, <2>6, JobFamilies DEF InstallCompaction
    <3>2. /\ Grows
          /\ NeedsCompaction(l0_count'[c]) => c \in Range(queues'.compaction_queue)
      BY <1>0, <2>6, <3>1, InstallGrows DEF InstallCompaction
    <3>3. UNCHANGED <<bg_error, dropped>>
          /\ compaction_job' = [compaction_job EXCEPT ![t] = Ending]
      BY <2>6 DEF InstallCompaction, clients
    <3>4. CASE cf = c  BY <3>2, <3>4
    <3>5. CASE cf # c
      <4>1. l0_count'[cf] = l0_count[cf]  BY <1>0, <2>6, <3>5 DEF InstallCompaction, TreeTypes
      <4>. QED  BY <1>1, <1>3, <3>2, <3>3, <3>5, <4>1 DEF Grows
    <3>. QED  BY <3>4, <3>5
  <2>7. CASE CompactionFails(t)
    <3>. DEFINE c == compaction_job[t].cf
    <3>1. UNCHANGED <<bg_error, dropped, l0_count>>
          /\ compaction_job' = [compaction_job EXCEPT ![t] = Ending]
      BY <2>7 DEF CompactionFails, ReleaseFiles, clients, faults
    <3>2. Grows /\ (NeedsCompaction(l0_count[c]) => c \in Range(queues'.compaction_queue))
      BY <1>0, <2>7, <3>1, CompactionFailsGrows DEF IsBGWorkStopped
    <3>3. CASE cf = c  BY <3>1, <3>2, <3>3
    <3>4. CASE cf # c  BY <1>1, <1>3, <3>1, <3>2, <3>4 DEF Grows
    <3>. QED  BY <3>3, <3>4
  <2>8. CASE CompactionFindsDropped(t)
    <3>1. UNCHANGED <<bg_error, dropped, l0_count, queues>>
          /\ compaction_job' = [compaction_job EXCEPT ![t] = Ending]
          /\ compaction_job[t].cf \in dropped
      BY <2>8 DEF CompactionFindsDropped, ReleaseFiles, clients, faults
    <3>. QED  BY <1>1, <1>3, <3>1
  <2>9. CASE EndCompaction(t)
    <3>1. UNCHANGED <<bg_error, dropped, l0_count>>
          /\ compaction_job' = [compaction_job EXCEPT ![t] = Idle]
          /\ compaction_job[t].pc # "compacting"
      BY <2>9 DEF EndCompaction, Ending, clients, faults, tree
    <3>2. queues'.compaction_queue = queues.compaction_queue  BY <1>0, <2>9, QueuesEndCompaction
    <3>. QED  BY <1>1, <1>3, <3>1, <3>2
  <2>. QED
    BY <1>7, <2>1, <2>2, <2>3, <2>4, <2>5, <2>6, <2>7, <2>8, <2>9 DEF CompactionStep
<1>8. ASSUME RecoveryStep  PROVE Queued \/ Runs
  <2>1. CASE RecoverySucceeds
    <3>1. UNCHANGED <<dropped, l0_count>>  BY <2>1 DEF RecoverySucceeds, UnchangedByRecovery, clients
    <3>. QED  BY <1>0, <2>1, <3>1, SuccessGrows
  <2>2. CASE ~RecoverySucceeds
    <3>1. IsRecoveryInProgress
      BY <1>8, <2>2 DEF RecoveryStep, StartRecovery, NewManifest, NewManifestFails, RetryFlushes,
         FlushAllColumnFamilies, FlushMemTable, RecoveryFlushed, RecoveryGivesUp, RecoveryFails,
         WaitEnds, Resuming, BackgroundWorkDone, IsRecoveryInProgress
    <3>2. bg_error' \in {bg_error, "hard"}
      BY <1>8, <2>2 DEF RecoveryStep, StartRecovery, NewManifest, NewManifestFails, RetryFlushes,
         FlushAllColumnFamilies, FlushMemTable, RecoveryFlushed, RecoveryGivesUp, RecoveryFails,
         WaitEnds
    <3>. QED  BY <3>1, <3>2 DEF RecoveryOnError, IsBGWorkStopped
  <2>. QED  BY <2>1, <2>2
<1>9. CASE DelayWrite
  BY <1>2, <1>9 DEF DelayWrite, faults, tree
<1>. QED  BY <1>4, <1>5, <1>6, <1>7, <1>8, <1>9 DEF Next

ForgetsNothing ==
    QueueIInv /\ RecoveryOnError /\ CountCovered /\ NoFlushForgotten /\ NoCompactionForgotten

LEMMA ForgetsNothingAlways == Spec => []ForgetsNothing
<1>1. Init => ForgetsNothing
  <2>. SUFFICES ASSUME Init PROVE ForgetsNothing  OBVIOUS
  <2>1. QueueIInv  BY QueueIInvInit
  <2>2. RecoveryOnError  BY DEF Init, RecoveryOnError, IsRecoveryInProgress
  <2>0. \A cf \in ColumnFamilies : l0_count[cf] = 0  BY Zenon DEF Init
  <2>3. CountCovered  BY <2>0 DEF CountCovered
  <2>4. NoFlushForgotten  BY DEF Init, NoFlushForgotten
  <2>5. NoCompactionForgotten
    BY <2>0, BackgroundAssumption DEF NoCompactionForgotten, NeedsCompaction
  <2>. QED  BY <2>1, <2>2, <2>3, <2>4, <2>5 DEF ForgetsNothing
<1>2. ForgetsNothing /\ [Next]_vars => ForgetsNothing'
  <2>. SUFFICES ASSUME ForgetsNothing, [Next]_vars PROVE ForgetsNothing'  OBVIOUS
  <2>1. QueueIInv'  BY QueueIInvStep DEF ForgetsNothing
  <2>2. CASE Next
    <3>1. FaultTypes  BY DEF ForgetsNothing, QueueIInv
    <3>. QED
      BY <2>1, <2>2, <3>1, RecoveryOnErrorStep, CountCoveredStep, NoFlushForgottenStep,
         NoCompactionForgottenStep DEF ForgetsNothing
  <2>3. CASE UNCHANGED vars
    <3>1. /\ UNCHANGED <<mems, imm, queues, flush_job, compaction_job, l0, l0_count, dropped>>
          /\ UNCHANGED <<bg_error, recovery>>
      BY <2>3 DEF vars
    <3>2. RecoveryOnError'
      BY <3>1 DEF ForgetsNothing, RecoveryOnError, IsRecoveryInProgress, IsBGWorkStopped
    <3>3. CountCovered'  BY <3>1 DEF ForgetsNothing, CountCovered, Compacting
    <3>4. NoFlushForgotten'  BY <3>1 DEF ForgetsNothing, NoFlushForgotten
    <3>5. NoCompactionForgotten'
      BY <3>1 DEF ForgetsNothing, NoCompactionForgotten, Compacting, NeedsCompaction
    <3>. QED  BY <2>1, <3>2, <3>3, <3>4, <3>5 DEF ForgetsNothing
  <2>. QED  BY <2>2, <2>3
<1>. QED  BY <1>1, <1>2, PTL DEF Spec

(***************************************************************************)
(* With no error, every memtable that is waiting for its flush belongs to  *)
(* a queued column family or to a flush that is about to pick it           *)
(* (BackgroundFlush, EnqueuePendingFlush, ClearBGError).                   *)
(***************************************************************************)
THEOREM FlushesRemembered == Spec => []NoFlushForgotten
<1>1. ForgetsNothing => NoFlushForgotten  BY DEF ForgetsNothing
<1>. QED  BY <1>1, ForgetsNothingAlways, PTL

(***************************************************************************)
(* With no error, every L0 above the compaction trigger is queued or being *)
(* compacted (BackgroundCompaction, EnqueuePendingCompaction).             *)
(***************************************************************************)
THEOREM CompactionsRemembered == Spec => []NoCompactionForgotten
<1>1. ForgetsNothing => NoCompactionForgotten  BY DEF ForgetsNothing
<1>. QED  BY <1>1, ForgetsNothingAlways, PTL

=============================================================================
