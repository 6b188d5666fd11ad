------------------------ MODULE BackgroundWorkProofs ------------------------
(***************************************************************************)
(* Proofs about BackgroundWork for every number of column families,        *)
(* buckets, threads, memtables, failures and errors: types, and the        *)
(* counters and flags of the queues.  The first part is about the queues   *)
(* alone: what enqueuing, scheduling, taking and ending a job keep, and    *)
(* what each action leaves in them.                                        *)
(***************************************************************************)
EXTENDS BackgroundWork, FiniteSetTheorems, TLAPS

-----------------------------------------------------------------------------
(* The queues, without the jobs: bf and bc are the numbers of flushes and   *)
(* compactions that have a thread.                                          *)

Queues ==
    [flush_queue : Seq(FlushRequests), queued_for_flush : SUBSET ColumnFamilies,
     unscheduled_flushes : Nat, bg_flush_scheduled : 0..max_flushes,
     compaction_queue : Seq(ColumnFamilies), queued_for_compaction : SUBSET ColumnFamilies,
     unscheduled_compactions : Nat, bg_compaction_scheduled : 0..max_compactions]

Accounted(q, bf, bc) ==
    /\ bc <= q.bg_compaction_scheduled
    /\ Len(q.compaction_queue) = q.unscheduled_compactions + q.bg_compaction_scheduled - bc
    /\ bf <= q.bg_flush_scheduled
    /\ Len(q.flush_queue) >= q.unscheduled_flushes + q.bg_flush_scheduled - bf

FlushFlags(fq, flags) ==
    /\ \A i \in DOMAIN fq : fq[i].cf \in flags
    /\ \A cf \in flags : \E i \in DOMAIN fq : fq[i].cf = cf
    /\ \A i, j \in DOMAIN fq : fq[i].cf = fq[j].cf => i = j

CompactionFlags(cq, flags) == flags \subseteq Range(cq)

QInv(q, bf, bc) ==
    /\ q \in Queues
    /\ Accounted(q, bf, bc)
    /\ FlushFlags(q.flush_queue, q.queued_for_flush)
    /\ CompactionFlags(q.compaction_queue, q.queued_for_compaction)

(***************************************************************************)
(* MaybeScheduleFlushOrCompaction moves jobs from one counter to another.  *)
(***************************************************************************)
LEMMA ScheduleKeeps ==
    ASSUME NEW q, NEW bf \in Nat, NEW bc \in Nat, QInv(q, bf, bc),
           NEW s \in BOOLEAN, NEW r \in BOOLEAN
    PROVE  /\ QInv(MaybeSchedule(q, s, r), bf, bc)
           /\ MaybeSchedule(q, s, r).flush_queue = q.flush_queue
           /\ MaybeSchedule(q, s, r).queued_for_flush = q.queued_for_flush
           /\ MaybeSchedule(q, s, r).compaction_queue = q.compaction_queue
<1>. DEFINE fs == q.bg_flush_scheduled
            fu == q.unscheduled_flushes
            cs == q.bg_compaction_scheduled
            cu == q.unscheduled_compactions
            fl == Len(q.flush_queue)
            cl == Len(q.compaction_queue)
            f == IF s /\ ~r THEN 0 ELSE Room(fs, max_flushes, fu)
            c == IF s THEN 0 ELSE Room(cs, max_compactions, cu)
            p == [q EXCEPT !.bg_flush_scheduled = fs + f, !.unscheduled_flushes = fu - f,
                           !.bg_compaction_scheduled = cs + c, !.unscheduled_compactions = cu - c]
<1>1. q \in Queues  BY DEF QInv
<1>2. /\ fu \in Nat /\ fs \in 0..max_flushes /\ cu \in Nat /\ cs \in 0..max_compactions
      /\ cl \in Nat /\ fl \in Nat
  BY <1>1 DEF Queues
<1>3. bc <= cs /\ cl = cu + cs - bc /\ bf <= fs /\ fl >= fu + fs - bf
  BY DEF QInv, Accounted
<1>4. max_flushes \in Nat /\ max_compactions \in Nat  BY BackgroundAssumption
<1>5. MaybeSchedule(q, s, r) = p  BY <1>1 DEF MaybeSchedule, ScheduleJobs, Queues
<1>. HIDE DEF fs, fu, cs, cu, fl, cl
<1>6. f \in Nat /\ f <= fu /\ fs + f <= max_flushes
  BY <1>2, <1>4 DEF Room
<1>7. c \in Nat /\ c <= cu /\ cs + c <= max_compactions
  BY <1>2, <1>4 DEF Room
<1>. HIDE DEF f, c
<1>8. fs + f \in 0..max_flushes /\ fu - f \in Nat
      /\ cs + c \in 0..max_compactions /\ cu - c \in Nat
  BY <1>2, <1>4, <1>6, <1>7
<1>9. /\ bc <= cs + c /\ cl = (cu - c) + (cs + c) - bc
      /\ bf <= fs + f /\ fl >= (fu - f) + (fs + f) - bf
  BY <1>2, <1>3, <1>4, <1>6, <1>7
<1>10. p \in Queues  BY <1>1, <1>8, Zenon DEF Queues
<1>11. /\ p.flush_queue = q.flush_queue /\ p.queued_for_flush = q.queued_for_flush
       /\ p.compaction_queue = q.compaction_queue
       /\ p.queued_for_compaction = q.queued_for_compaction
       /\ p.bg_flush_scheduled = fs + f /\ p.unscheduled_flushes = fu - f
       /\ p.bg_compaction_scheduled = cs + c /\ p.unscheduled_compactions = cu - c
  BY <1>1 DEF Queues
<1>. HIDE DEF p
<1>12. Accounted(p, bf, bc)  BY <1>9, <1>11 DEF Accounted, cl, fl
<1>. QED  BY <1>5, <1>10, <1>11, <1>12 DEF QInv

(***************************************************************************)
(* Requests and entries are added at the end of a queue, and counted.      *)
(***************************************************************************)
LEMMA Appended ==
    ASSUME NEW S, NEW s \in Seq(S), NEW t \in Seq(S)
    PROVE  /\ s \o t \in Seq(S)
           /\ Len(s) \in Nat /\ Len(t) \in Nat /\ Len(s \o t) = Len(s) + Len(t)
           /\ DOMAIN s = 1..Len(s) /\ DOMAIN t = 1..Len(t)
           /\ DOMAIN (s \o t) = 1..(Len(s) + Len(t))
           /\ \A i \in 1..Len(s) : (s \o t)[i] = s[i]
           /\ \A i \in 1..Len(t) : (s \o t)[Len(s) + i] = t[i]
           /\ \A i \in DOMAIN (s \o t) :
                \/ i \in 1..Len(s) /\ (s \o t)[i] = s[i]
                \/ i - Len(s) \in 1..Len(t) /\ (s \o t)[i] = t[i - Len(s)]
OBVIOUS

LEMMA FlushFlagsAppended ==
    ASSUME NEW fq \in Seq(FlushRequests), NEW flags, FlushFlags(fq, flags),
           NEW add \in Seq(FlushRequests), NEW cfs, FlushFlags(add, cfs),
           cfs \cap flags = {}
    PROVE  FlushFlags(fq \o add, flags \cup cfs)
<1>. DEFINE new == fq \o add
            n == Len(fq)
<1>1. /\ n \in Nat /\ DOMAIN fq = 1..n /\ DOMAIN add = 1..Len(add) /\ Len(add) \in Nat
      /\ DOMAIN new = 1..(n + Len(add))
      /\ \A i \in 1..n : new[i] = fq[i]
      /\ \A i \in 1..Len(add) : new[n + i] = add[i]
      /\ \A i \in DOMAIN new :
            \/ i \in 1..n /\ new[i] = fq[i]
            \/ i - n \in 1..Len(add) /\ new[i] = add[i - n]
  BY Appended
<1>. HIDE DEF new, n
<1>2. \A i \in DOMAIN new : new[i].cf \in flags \cup cfs
  BY <1>1 DEF FlushFlags
<1>3. ASSUME NEW cf \in flags \cup cfs
      PROVE  \E i \in DOMAIN new : new[i].cf = cf
  <2>1. CASE cf \in flags
    <3>1. PICK i \in 1..n : fq[i].cf = cf  BY <1>1, <2>1 DEF FlushFlags
    <3>2. i \in DOMAIN new  BY <1>1, <3>1
    <3>. QED  BY <1>1, <3>1, <3>2
  <2>2. CASE cf \in cfs
    <3>1. PICK i \in 1..Len(add) : add[i].cf = cf  BY <1>1, <2>2 DEF FlushFlags
    <3>2. n + i \in DOMAIN new  BY <1>1, <3>1
    <3>. QED  BY <1>1, <3>1, <3>2
  <2>. QED  BY <2>1, <2>2
<1>4. ASSUME NEW i \in DOMAIN new, NEW j \in DOMAIN new, new[i].cf = new[j].cf
      PROVE  i = j
  <2>1. CASE i \in 1..n /\ new[i] = fq[i]
    BY <1>1, <1>4, <2>1 DEF FlushFlags
  <2>2. CASE i - n \in 1..Len(add) /\ new[i] = add[i - n]
    <3>1. new[i].cf \in cfs  BY <1>1, <2>2 DEF FlushFlags
    <3>2. j - n \in 1..Len(add) /\ new[j] = add[j - n]
      BY <1>1, <1>4, <3>1 DEF FlushFlags
    <3>3. i - n = j - n  BY <1>1, <1>4, <2>2, <3>2 DEF FlushFlags
    <3>4. i \in Int /\ j \in Int /\ n \in Int  BY <1>1
    <3>. QED  BY <3>3, <3>4
  <2>. QED  BY <1>1, <2>1, <2>2
<1>. QED  BY <1>2, <1>3, <1>4 DEF FlushFlags, new

IsOrder(order) ==
    /\ order \in Seq(ColumnFamilies)
    /\ \A i, j \in DOMAIN order : order[i] = order[j] => i = j

\* p is q with the column families of order added to the flush queue
FlushesEntered(q, p, bf, bc, order) ==
    /\ QInv(p, bf, bc)
    /\ p.queued_for_flush = q.queued_for_flush \cup Range(order)
    /\ p.compaction_queue = q.compaction_queue
    /\ p.queued_for_compaction = q.queued_for_compaction

LEMMA EnqueueFlushKeeps ==
    ASSUME NEW q, NEW bf \in Nat, NEW bc \in Nat, QInv(q, bf, bc),
           NEW order, IsOrder(order), Range(order) \cap q.queued_for_flush = {},
           NEW reason \in FlushReasons
    PROVE  FlushesEntered(q, EnqueuePendingFlush(q, order, reason), bf, bc, order)
<1>. DEFINE fs == q.bg_flush_scheduled
            fu == q.unscheduled_flushes
            fq == q.flush_queue
            add == [i \in DOMAIN order |-> [cf |-> order[i], reason |-> reason]]
            flags == q.queued_for_flush \cup Range(order)
            p == [q EXCEPT !.flush_queue = fq \o add, !.queued_for_flush = flags,
                           !.unscheduled_flushes = fu + Len(order)]
<1>1. q \in Queues  BY DEF QInv
<1>2. /\ fu \in Nat /\ fs \in 0..max_flushes /\ fq \in Seq(FlushRequests)
      /\ q.queued_for_flush \in SUBSET ColumnFamilies
  BY <1>1 DEF Queues
<1>3. bf <= fs /\ Len(fq) >= fu + fs - bf  BY DEF QInv, Accounted
<1>4. EnqueuePendingFlush(q, order, reason) = p  BY <1>1 DEF EnqueuePendingFlush, Queues
<1>5. Len(order) \in Nat /\ DOMAIN order = 1..Len(order)
      /\ \A i \in DOMAIN order : order[i] \in ColumnFamilies
  BY DEF IsOrder
<1>6. add \in Seq(FlushRequests) /\ Len(add) = Len(order) /\ DOMAIN add = DOMAIN order
  BY <1>5 DEF FlushRequests
<1>7. flags \in SUBSET ColumnFamilies  BY <1>2, <1>5 DEF Range
<1>8. FlushFlags(add, Range(order))  BY <1>6 DEF FlushFlags, Range, IsOrder
<1>9. FlushFlags(fq, q.queued_for_flush)  BY DEF QInv
<1>. HIDE DEF fs, fu, fq, add
<1>10. fq \o add \in Seq(FlushRequests) /\ Len(fq \o add) = Len(fq) + Len(add) /\ Len(fq) \in Nat
  BY <1>2, <1>6
<1>11. FlushFlags(fq \o add, flags)
  BY <1>2, <1>6, <1>8, <1>9, FlushFlagsAppended
<1>. HIDE DEF flags
<1>12. fu + Len(order) \in Nat /\ Len(fq \o add) >= fu + Len(order) + fs - bf
  <2>. DEFINE n == Len(order)
              l == Len(fq)
              k == Len(fq \o add)
  <2>1. n \in Nat /\ l \in Nat /\ k = l + n /\ l >= fu + fs - bf  BY <1>3, <1>5, <1>6, <1>10
  <2>. HIDE DEF n, l, k
  <2>2. fu + n \in Nat /\ k >= fu + n + fs - bf  BY <1>2, <2>1, BackgroundAssumption
  <2>. QED  BY <2>2 DEF n, k
<1>13. p \in Queues  BY <1>1, <1>7, <1>10, <1>12, Zenon DEF Queues
<1>14. /\ p.flush_queue = fq \o add /\ p.queued_for_flush = flags
       /\ p.compaction_queue = q.compaction_queue
       /\ p.queued_for_compaction = q.queued_for_compaction
       /\ p.bg_flush_scheduled = fs /\ p.unscheduled_flushes = fu + Len(order)
       /\ p.bg_compaction_scheduled = q.bg_compaction_scheduled
       /\ p.unscheduled_compactions = q.unscheduled_compactions
  BY <1>1 DEF Queues, fs
<1>. HIDE DEF p
<1>15. Accounted(p, bf, bc)  BY <1>3, <1>12, <1>14 DEF QInv, Accounted
<1>. QED  BY <1>4, <1>11, <1>13, <1>14, <1>15 DEF QInv, FlushesEntered, flags

\* p is q with entries added to the compaction queue
CompactionsEntered(q, p, bf, bc, entries) ==
    /\ QInv(p, bf, bc)
    /\ p.flush_queue = q.flush_queue
    /\ p.queued_for_flush = q.queued_for_flush
    /\ Range(p.compaction_queue) = Range(q.compaction_queue) \cup Range(entries)

LEMMA EnqueueCompactionKeeps ==
    ASSUME NEW q, NEW bf \in Nat, NEW bc \in Nat, QInv(q, bf, bc),
           NEW entries \in Seq(ColumnFamilies)
    PROVE  CompactionsEntered(q, EnqueuePendingCompaction(q, entries), bf, bc, entries)
<1>. DEFINE cs == q.bg_compaction_scheduled
            cu == q.unscheduled_compactions
            cq == q.compaction_queue
            flags == q.queued_for_compaction \cup Range(entries)
            p == [q EXCEPT !.compaction_queue = cq \o entries, !.queued_for_compaction = flags,
                           !.unscheduled_compactions = cu + Len(entries)]
<1>1. q \in Queues  BY DEF QInv
<1>2. /\ cu \in Nat /\ cs \in 0..max_compactions /\ cq \in Seq(ColumnFamilies)
      /\ q.queued_for_compaction \in SUBSET ColumnFamilies
  BY <1>1 DEF Queues
<1>3. bc <= cs /\ Len(cq) = cu + cs - bc  BY DEF QInv, Accounted
<1>4. EnqueuePendingCompaction(q, entries) = p  BY <1>1 DEF EnqueuePendingCompaction, Queues
<1>5. Len(entries) \in Nat /\ DOMAIN entries = 1..Len(entries)
      /\ \A i \in DOMAIN entries : entries[i] \in ColumnFamilies
  OBVIOUS
<1>6. flags \in SUBSET ColumnFamilies  BY <1>2, <1>5 DEF Range
<1>7. /\ cq \o entries \in Seq(ColumnFamilies)
      /\ Len(cq \o entries) = Len(cq) + Len(entries) /\ Len(cq) \in Nat
  BY <1>2, Appended
<1>8. Range(cq \o entries) = Range(cq) \cup Range(entries)
  <2>1. /\ DOMAIN cq = 1..Len(cq)
        /\ DOMAIN (cq \o entries) = 1..(Len(cq) + Len(entries))
        /\ \A i \in 1..Len(cq) : (cq \o entries)[i] = cq[i]
        /\ \A i \in 1..Len(entries) : (cq \o entries)[Len(cq) + i] = entries[i]
        /\ \A i \in DOMAIN (cq \o entries) :
             \/ i \in 1..Len(cq) /\ (cq \o entries)[i] = cq[i]
             \/ i - Len(cq) \in 1..Len(entries) /\ (cq \o entries)[i] = entries[i - Len(cq)]
    BY <1>2, Appended
  <2>. DEFINE new == cq \o entries
  <2>. HIDE DEF new, cq
  <2>2. \A i \in 1..Len(cq) : i \in DOMAIN new  BY <1>5, <1>7, <2>1 DEF new
  <2>3. \A i \in 1..Len(entries) : Len(cq) + i \in DOMAIN new  BY <1>5, <1>7, <2>1 DEF new
  <2>4. Range(new) \subseteq Range(cq) \cup Range(entries)  BY <1>5, <2>1 DEF Range, new
  <2>5. Range(cq) \subseteq Range(new)  BY <2>1, <2>2 DEF Range, new
  <2>6. Range(entries) \subseteq Range(new)  BY <1>5, <2>1, <2>3 DEF Range, new
  <2>. QED  BY <2>4, <2>5, <2>6 DEF new
<1>9. CompactionFlags(cq \o entries, flags)  BY <1>8 DEF QInv, CompactionFlags
<1>. HIDE DEF cs, cu, cq, flags
<1>10. cu + Len(entries) \in Nat /\ Len(cq \o entries) = cu + Len(entries) + cs - bc
  BY <1>2, <1>3, <1>5, <1>7, BackgroundAssumption
<1>11. p \in Queues  BY <1>1, <1>6, <1>7, <1>10, Zenon DEF Queues
<1>12. /\ p.compaction_queue = cq \o entries /\ p.queued_for_compaction = flags
       /\ p.flush_queue = q.flush_queue /\ p.queued_for_flush = q.queued_for_flush
       /\ p.bg_flush_scheduled = q.bg_flush_scheduled
       /\ p.unscheduled_flushes = q.unscheduled_flushes
       /\ p.bg_compaction_scheduled = cs /\ p.unscheduled_compactions = cu + Len(entries)
  BY <1>1 DEF Queues, cs
<1>. HIDE DEF p
<1>13. Accounted(p, bf, bc)  BY <1>3, <1>10, <1>12 DEF QInv, Accounted
<1>. QED  BY <1>4, <1>8, <1>9, <1>11, <1>12, <1>13 DEF QInv, CompactionsEntered, cq

(***************************************************************************)
(* A thread takes the first entry of a queue, which is not empty.          *)
(***************************************************************************)
LEMMA Shortened ==
    ASSUME NEW S, NEW s \in Seq(S), s # << >>
    PROVE  /\ Len(s) \in Nat \ {0} /\ DOMAIN s = 1..Len(s) /\ Head(s) = s[1] /\ Head(s) \in S
           /\ Tail(s) \in Seq(S) /\ Len(Tail(s)) = Len(s) - 1
           /\ DOMAIN Tail(s) = 1..(Len(s) - 1)
           /\ \A i \in 1..(Len(s) - 1) : Tail(s)[i] = s[i + 1]
OBVIOUS

LEMMA PopKeeps ==
    ASSUME NEW q, NEW bf \in Nat, NEW bc \in Nat, QInv(q, bf, bc),
           bf < q.bg_flush_scheduled, q.flush_queue # << >>
    PROVE  LET p == PopFirstFromFlushQueue(q)
           IN  /\ QInv(p, bf + 1, bc)
               /\ Head(q.flush_queue) \in FlushRequests
               /\ p.queued_for_flush = q.queued_for_flush \ {Head(q.flush_queue).cf}
               /\ p.compaction_queue = q.compaction_queue
<1>. DEFINE fs == q.bg_flush_scheduled
            fu == q.unscheduled_flushes
            fq == q.flush_queue
            flags == q.queued_for_flush
            left == flags \ {Head(fq).cf}
            p == [q EXCEPT !.flush_queue = Tail(fq), !.queued_for_flush = left]
<1>1. q \in Queues  BY DEF QInv
<1>2. /\ fu \in Nat /\ fs \in 0..max_flushes /\ fq \in Seq(FlushRequests)
      /\ flags \in SUBSET ColumnFamilies
  BY <1>1 DEF Queues
<1>3. bf < fs /\ Len(fq) >= fu + fs - bf /\ fq # << >> /\ FlushFlags(fq, flags)
  BY DEF QInv, Accounted
<1>4. PopFirstFromFlushQueue(q) = p  BY <1>1 DEF PopFirstFromFlushQueue, Queues
<1>. HIDE DEF fs, fu, fq, flags
<1>5. /\ Len(fq) \in Nat \ {0} /\ DOMAIN fq = 1..Len(fq) /\ Head(fq) = fq[1]
      /\ Head(fq) \in FlushRequests
      /\ Tail(fq) \in Seq(FlushRequests) /\ Len(Tail(fq)) = Len(fq) - 1
      /\ DOMAIN Tail(fq) = 1..(Len(fq) - 1)
      /\ \A i \in 1..(Len(fq) - 1) : Tail(fq)[i] = fq[i + 1]
  BY <1>2, <1>3, Shortened
<1>6. FlushFlags(Tail(fq), left)
  <2>. DEFINE t == Tail(fq)
              n == Len(fq)
  <2>1. /\ n \in Nat \ {0} /\ DOMAIN fq = 1..n /\ DOMAIN t = 1..(n - 1)
        /\ \A i \in 1..(n - 1) : t[i] = fq[i + 1]
        /\ left = flags \ {fq[1].cf}
    BY <1>5
  <2>. HIDE DEF t, n, left
  <2>2. \A i \in 1..(n - 1) : i + 1 \in 1..n /\ i + 1 # 1  BY <2>1
  <2>3. 1 \in 1..n  BY <2>1
  <2>. DEFINE c == [i \in 1..n |-> fq[i].cf]
  <2>c. /\ \A i \in 1..n : c[i] = fq[i].cf /\ c[i] \in flags
        /\ \A i, j \in 1..n : c[i] = c[j] => i = j
    BY <1>3, <2>1, Zenon DEF FlushFlags
  <2>d. \A i \in 1..(n - 1) : t[i].cf = c[i + 1]  BY <2>1, <2>2, <2>c
  <2>e. left = flags \ {c[1]}  BY <2>1, <2>3, <2>c
  <2>. HIDE DEF c
  <2>4. \A i \in DOMAIN t : t[i].cf \in left
    <3>1. SUFFICES ASSUME NEW i \in 1..(n - 1) PROVE t[i].cf \in left  BY <2>1
    <3>2. i + 1 \in 1..n /\ i + 1 # 1  BY <2>2
    <3>3. c[i + 1] \in flags /\ c[i + 1] # c[1]  BY <2>3, <2>c, <3>2
    <3>. QED  BY <2>d, <2>e, <3>3
  <2>5. ASSUME NEW cf \in left
        PROVE  \E i \in DOMAIN t : t[i].cf = cf
    <3>1. PICK i \in 1..n : fq[i].cf = cf  BY <1>3, <2>1 DEF FlushFlags
    <3>2. i # 1  BY <2>1, <3>1
    <3>3. i - 1 \in 1..(n - 1) /\ (i - 1) + 1 = i  BY <2>1, <3>2
    <3>4. t[i - 1] = fq[i]  BY <2>1, <3>3
    <3>. QED  BY <2>1, <3>1, <3>3, <3>4
  <2>6. ASSUME NEW i \in 1..(n - 1), NEW j \in 1..(n - 1), t[i].cf = t[j].cf
        PROVE  i = j
    <3>1. c[i + 1] = c[j + 1]  BY <2>d, <2>6
    <3>2. i + 1 \in 1..n /\ j + 1 \in 1..n  BY <2>2
    <3>3. i + 1 = j + 1  BY <2>c, <3>1, <3>2
    <3>. QED  BY <2>1, <3>3
  <2>. QED  BY <2>1, <2>4, <2>5, <2>6 DEF FlushFlags, t
<1>7. left \in SUBSET ColumnFamilies  BY <1>2
<1>8. bf + 1 \in Nat /\ bf + 1 <= fs /\ Len(Tail(fq)) >= fu + fs - (bf + 1)
  <2>. DEFINE l == Len(fq)
              k == Len(Tail(fq))
  <2>1. l \in Nat /\ k = l - 1 /\ l >= fu + fs - bf  BY <1>3, <1>5
  <2>2. fs \in Nat /\ fu \in Nat  BY <1>2, BackgroundAssumption
  <2>. HIDE DEF l, k, p, left
  <2>3. bf + 1 \in Nat /\ bf + 1 <= fs  BY <1>3, <2>2
  <2>4. k >= fu + fs - (bf + 1)  BY <2>1, <2>2
  <2>. QED  BY <2>3, <2>4 DEF k
<1>. HIDE DEF left
<1>9. p \in Queues  BY <1>1, <1>5, <1>7, Zenon DEF Queues
<1>10. /\ p.flush_queue = Tail(fq) /\ p.queued_for_flush = left
       /\ p.compaction_queue = q.compaction_queue
       /\ p.queued_for_compaction = q.queued_for_compaction
       /\ p.bg_flush_scheduled = fs /\ p.unscheduled_flushes = fu
       /\ p.bg_compaction_scheduled = q.bg_compaction_scheduled
       /\ p.unscheduled_compactions = q.unscheduled_compactions
  BY <1>1 DEF Queues, fs, fu
<1>. HIDE DEF p
<1>11. Accounted(p, bf + 1, bc)  BY <1>8, <1>10 DEF QInv, Accounted
<1>. QED  BY <1>4, <1>5, <1>6, <1>9, <1>10, <1>11 DEF QInv, left, fq, flags

LEMMA PickKeeps ==
    ASSUME NEW q, NEW bf \in Nat, NEW bc \in Nat, QInv(q, bf, bc),
           bc < q.bg_compaction_scheduled
    PROVE  LET p == PickCompactionFromQueue(q)
           IN  /\ q.compaction_queue # << >>
               /\ QInv(p, bf, bc + 1)
               /\ Head(q.compaction_queue) \in ColumnFamilies
               /\ p.flush_queue = q.flush_queue
               /\ p.queued_for_flush = q.queued_for_flush
               /\ Head(q.compaction_queue) \notin p.queued_for_compaction
               /\ \A cf \in Range(q.compaction_queue) :
                    cf # Head(q.compaction_queue) => cf \in Range(p.compaction_queue)
<1>. DEFINE cs == q.bg_compaction_scheduled
            cu == q.unscheduled_compactions
            cq == q.compaction_queue
            flags == q.queued_for_compaction
            left == flags \ {Head(cq)}
            p == [q EXCEPT !.compaction_queue = Tail(cq), !.queued_for_compaction = left]
<1>1. q \in Queues  BY DEF QInv
<1>2. /\ cu \in Nat /\ cs \in 0..max_compactions /\ cq \in Seq(ColumnFamilies)
      /\ flags \in SUBSET ColumnFamilies
  BY <1>1 DEF Queues
<1>3. bc < cs /\ Len(cq) = cu + cs - bc /\ flags \subseteq Range(cq)
  BY DEF QInv, Accounted, CompactionFlags
<1>4. PickCompactionFromQueue(q) = p  BY <1>1 DEF PickCompactionFromQueue, Queues
<1>. HIDE DEF cs, cu, cq, flags
<1>5. cq # << >>
  <2>. DEFINE l == Len(cq)
  <2>1. l = cu + cs - bc  BY <1>3
  <2>. HIDE DEF l
  <2>2. l > 0  BY <1>2, <1>3, <2>1, BackgroundAssumption
  <2>. QED  BY <2>2 DEF l
<1>6. /\ Len(cq) \in Nat \ {0} /\ DOMAIN cq = 1..Len(cq) /\ Head(cq) = cq[1]
      /\ Head(cq) \in ColumnFamilies
      /\ Tail(cq) \in Seq(ColumnFamilies) /\ Len(Tail(cq)) = Len(cq) - 1
      /\ DOMAIN Tail(cq) = 1..(Len(cq) - 1)
      /\ \A i \in 1..(Len(cq) - 1) : Tail(cq)[i] = cq[i + 1]
  BY <1>2, <1>5, Shortened
<1>7. ASSUME NEW cf \in Range(cq), cf # Head(cq)
      PROVE  cf \in Range(Tail(cq))
  <2>. DEFINE t == Tail(cq)
              n == Len(cq)
  <2>1. /\ n \in Nat \ {0} /\ DOMAIN cq = 1..n /\ DOMAIN t = 1..(n - 1)
        /\ \A i \in 1..(n - 1) : t[i] = cq[i + 1]
        /\ cf # cq[1]
    BY <1>6, <1>7
  <2>. HIDE DEF t, n
  <2>2. PICK i \in 1..n : cq[i] = cf  BY <2>1 DEF Range
  <2>3. i - 1 \in 1..(n - 1) /\ (i - 1) + 1 = i  BY <2>1, <2>2
  <2>4. t[i - 1] = cf  BY <2>1, <2>2, <2>3
  <2>5. i - 1 \in DOMAIN t  BY <2>1, <2>3
  <2>. QED  BY <2>4, <2>5, Zenon DEF Range, t
<1>8. left \in SUBSET ColumnFamilies /\ CompactionFlags(Tail(cq), left)
  BY <1>2, <1>3, <1>7 DEF CompactionFlags
<1>9. bc + 1 \in Nat /\ bc + 1 <= cs /\ Len(Tail(cq)) = cu + cs - (bc + 1)
  <2>. DEFINE l == Len(cq)
              k == Len(Tail(cq))
  <2>1. l \in Nat /\ k = l - 1 /\ l = cu + cs - bc  BY <1>3, <1>6
  <2>. HIDE DEF l, k
  <2>2. bc + 1 \in Nat /\ bc + 1 <= cs /\ k = cu + cs - (bc + 1)
    BY <1>2, <1>3, <2>1, BackgroundAssumption
  <2>. QED  BY <2>2 DEF k
<1>10. Head(cq) \notin left  OBVIOUS
<1>. HIDE DEF left
<1>11. p \in Queues  BY <1>1, <1>6, <1>8, Zenon DEF Queues
<1>12. /\ p.compaction_queue = Tail(cq) /\ p.queued_for_compaction = left
       /\ p.flush_queue = q.flush_queue /\ p.queued_for_flush = q.queued_for_flush
       /\ p.bg_flush_scheduled = q.bg_flush_scheduled
       /\ p.unscheduled_flushes = q.unscheduled_flushes
       /\ p.bg_compaction_scheduled = cs /\ p.unscheduled_compactions = cu
  BY <1>1 DEF Queues, cs, cu
<1>. HIDE DEF p
<1>13. Accounted(p, bf, bc + 1)  BY <1>9, <1>12 DEF QInv, Accounted
<1>14. QInv(p, bf, bc + 1)  BY <1>8, <1>11, <1>12, <1>13 DEF QInv
<1>. QED  BY <1>4, <1>5, <1>6, <1>7, <1>10, <1>12, <1>14 DEF cq

(***************************************************************************)
(* A thread leaves the entry where it is, since background work is stopped *)
(* (for compactions, the entry is counted again), or it ends.              *)
(***************************************************************************)
LEMMA LeaveFlushKeeps ==
    ASSUME NEW q, NEW bf \in Nat, NEW bc \in Nat, QInv(q, bf, bc), bf < q.bg_flush_scheduled
    PROVE  QInv(q, bf + 1, bc)
<1>. DEFINE fs == q.bg_flush_scheduled
            fu == q.unscheduled_flushes
            n == Len(q.flush_queue)
<1>1. q \in Queues  BY DEF QInv
<1>2. fu \in Nat /\ fs \in 0..max_flushes /\ n \in Nat  BY <1>1 DEF Queues
<1>3. bf < fs /\ n >= fu + fs - bf  BY DEF QInv, Accounted
<1>. HIDE DEF fs, fu, n
<1>4. fs \in Nat  BY <1>2, BackgroundAssumption
<1>5. bf + 1 <= fs /\ n >= fu + fs - (bf + 1)  BY <1>2, <1>3, <1>4
<1>. QED  BY <1>5 DEF QInv, Accounted, fs, fu, n

LEMMA LeaveCompactionKeeps ==
    ASSUME NEW q, NEW bf \in Nat, NEW bc \in Nat, QInv(q, bf, bc), bc < q.bg_compaction_scheduled
    PROVE  LET p == [q EXCEPT !.unscheduled_compactions = @ + 1]
           IN  /\ QInv(p, bf, bc + 1)
               /\ p.queued_for_flush = q.queued_for_flush
               /\ p.compaction_queue = q.compaction_queue
<1>. DEFINE cs == q.bg_compaction_scheduled
            cu == q.unscheduled_compactions
            n == Len(q.compaction_queue)
            p == [q EXCEPT !.unscheduled_compactions = cu + 1]
<1>1. q \in Queues  BY DEF QInv
<1>2. cu \in Nat /\ cs \in 0..max_compactions /\ n \in Nat  BY <1>1 DEF Queues
<1>3. bc < cs /\ n = cu + cs - bc  BY DEF QInv, Accounted
<1>4. [q EXCEPT !.unscheduled_compactions = @ + 1] = p  BY <1>1 DEF Queues
<1>. HIDE DEF cs, cu, n
<1>5. cs \in Nat  BY <1>2, BackgroundAssumption
<1>6. bc + 1 <= cs /\ cu + 1 \in Nat /\ n = (cu + 1) + cs - (bc + 1)  BY <1>2, <1>3, <1>5
<1>7. p \in Queues  BY <1>1, <1>6, Zenon DEF Queues
<1>8. /\ p.flush_queue = q.flush_queue /\ p.queued_for_flush = q.queued_for_flush
      /\ p.compaction_queue = q.compaction_queue
      /\ p.queued_for_compaction = q.queued_for_compaction
      /\ p.bg_flush_scheduled = q.bg_flush_scheduled
      /\ p.unscheduled_flushes = q.unscheduled_flushes
      /\ p.bg_compaction_scheduled = cs /\ p.unscheduled_compactions = cu + 1
  BY <1>1 DEF Queues, cs
<1>. HIDE DEF p
<1>. QED  BY <1>4, <1>6, <1>7, <1>8, Zenon DEF QInv, Accounted, n

LEMMA EndFlushKeeps ==
    ASSUME NEW q, NEW bf \in Nat \ {0}, NEW bc \in Nat, QInv(q, bf, bc)
    PROVE  LET p == [q EXCEPT !.bg_flush_scheduled = @ - 1]
           IN  /\ QInv(p, bf - 1, bc)
               /\ p.queued_for_flush = q.queued_for_flush
               /\ p.compaction_queue = q.compaction_queue
<1>. DEFINE fs == q.bg_flush_scheduled
            fu == q.unscheduled_flushes
            n == Len(q.flush_queue)
            p == [q EXCEPT !.bg_flush_scheduled = fs - 1]
<1>1. q \in Queues  BY DEF QInv
<1>2. fu \in Nat /\ fs \in 0..max_flushes /\ n \in Nat  BY <1>1 DEF Queues
<1>3. bf <= fs /\ n >= fu + fs - bf  BY DEF QInv, Accounted
<1>4. [q EXCEPT !.bg_flush_scheduled = @ - 1] = p  BY <1>1 DEF Queues
<1>. HIDE DEF fs, fu, n
<1>5. max_flushes \in Nat  BY BackgroundAssumption
<1>6. bf - 1 <= fs - 1 /\ fs - 1 \in 0..max_flushes /\ n >= fu + (fs - 1) - (bf - 1)
  BY <1>2, <1>3, <1>5
<1>7. p \in Queues  BY <1>1, <1>6, Zenon DEF Queues
<1>8. /\ p.flush_queue = q.flush_queue /\ p.queued_for_flush = q.queued_for_flush
      /\ p.compaction_queue = q.compaction_queue
      /\ p.queued_for_compaction = q.queued_for_compaction
      /\ p.bg_flush_scheduled = fs - 1 /\ p.unscheduled_flushes = fu
      /\ p.bg_compaction_scheduled = q.bg_compaction_scheduled
      /\ p.unscheduled_compactions = q.unscheduled_compactions
  BY <1>1 DEF Queues, fu
<1>. HIDE DEF p
<1>. QED  BY <1>4, <1>6, <1>7, <1>8, Zenon DEF QInv, Accounted, n

LEMMA EndCompactionKeeps ==
    ASSUME NEW q, NEW bf \in Nat, NEW bc \in Nat \ {0}, QInv(q, bf, bc)
    PROVE  LET p == [q EXCEPT !.bg_compaction_scheduled = @ - 1]
           IN  /\ QInv(p, bf, bc - 1)
               /\ p.queued_for_flush = q.queued_for_flush
               /\ p.compaction_queue = q.compaction_queue
<1>. DEFINE cs == q.bg_compaction_scheduled
            cu == q.unscheduled_compactions
            n == Len(q.compaction_queue)
            p == [q EXCEPT !.bg_compaction_scheduled = cs - 1]
<1>1. q \in Queues  BY DEF QInv
<1>2. cu \in Nat /\ cs \in 0..max_compactions /\ n \in Nat  BY <1>1 DEF Queues
<1>3. bc <= cs /\ n = cu + cs - bc  BY DEF QInv, Accounted
<1>4. [q EXCEPT !.bg_compaction_scheduled = @ - 1] = p  BY <1>1 DEF Queues
<1>. HIDE DEF cs, cu, n
<1>5. max_compactions \in Nat  BY BackgroundAssumption
<1>6. bc - 1 <= cs - 1 /\ cs - 1 \in 0..max_compactions /\ n = cu + (cs - 1) - (bc - 1)
  BY <1>2, <1>3, <1>5
<1>7. p \in Queues  BY <1>1, <1>6, Zenon DEF Queues
<1>8. /\ p.flush_queue = q.flush_queue /\ p.queued_for_flush = q.queued_for_flush
      /\ p.compaction_queue = q.compaction_queue
      /\ p.queued_for_compaction = q.queued_for_compaction
      /\ p.bg_flush_scheduled = q.bg_flush_scheduled
      /\ p.unscheduled_flushes = q.unscheduled_flushes
      /\ p.bg_compaction_scheduled = cs - 1 /\ p.unscheduled_compactions = cu
  BY <1>1 DEF Queues, cu
<1>. HIDE DEF p
<1>. QED  BY <1>4, <1>6, <1>7, <1>8, Zenon DEF QInv, Accounted, n

-----------------------------------------------------------------------------
(* What is enqueued.                                                        *)

LEMMA OneIsOrder ==
    ASSUME NEW cf \in ColumnFamilies, NEW cfs
    PROVE  IsOrder(One(cf, cfs)) /\ Range(One(cf, cfs)) = cfs \cap {cf}
BY DEF IsOrder, One, Range

LEMMA OrdersAreOrders ==
    ASSUME NEW cfs \in SUBSET ColumnFamilies, NEW order \in Orders(cfs)
    PROVE  IsOrder(order) /\ Range(order) = cfs
<1>1. IsFiniteSet(cfs)  BY FS_Subset, BackgroundAssumption
<1>2. Cardinality(cfs) \in Nat  BY <1>1, FS_CardinalityType
<1>. QED  BY <1>2 DEF Orders, IsOrder

(***************************************************************************)
(* EnqueuePendingCompaction adds an entry, at least one, for a column      *)
(* family that needs compaction and is not queued.                         *)
(***************************************************************************)
LEMMA EntriesForNat ==
    ASSUME NEW q, NEW cf, NEW files, NEW count
    PROVE  /\ EntriesFor(q, cf, files, count) \in Nat
           /\ NeedsCompaction(count) /\ cf \notin q.queued_for_compaction =>
                EntriesFor(q, cf, files, count) >= 1
           /\ EntriesFor(q, cf, files, count) <= Cardinality(Buckets) + 1
<1>. DEFINE full == {b \in Buckets : files[b] >= Trigger}
<1>1. /\ IsFiniteSet(full) /\ Cardinality(full) \in Nat /\ Cardinality(Buckets) \in Nat
      /\ Cardinality(full) <= Cardinality(Buckets)
  BY FS_Subset, FS_CardinalityType, BackgroundAssumption
<1>. HIDE DEF full
<1>2. NumGroups(files, count) = IF NeedsCompaction(count) THEN Cardinality(full) ELSE 0
  BY DEF NumGroups, full
<1>3. NumGroups(files, count) \in Nat /\ NumGroups(files, count) <= Cardinality(Buckets)
  BY <1>1, <1>2
<1>. QED  BY <1>1, <1>3 DEF EntriesFor

LEMMA EntriesAreSequence ==
    ASSUME NEW cf \in ColumnFamilies, NEW n \in Nat
    PROVE  /\ Entries(cf, n) \in Seq(ColumnFamilies)
           /\ n >= 1 => cf \in Range(Entries(cf, n))
<1>1. Entries(cf, n) \in Seq(ColumnFamilies)  BY DEF Entries
<1>2. ASSUME n >= 1 PROVE cf \in Range(Entries(cf, n))
  <2>1. 1 \in 1..n  BY <1>2
  <2>. QED  BY <2>1 DEF Entries, Range
<1>. QED  BY <1>1, <1>2

LEMMA EntriesForAllAreSequences ==
    ASSUME NEW n \in [ColumnFamilies -> Nat], NEW s \in EntriesForAll(n)
    PROVE  /\ s \in Seq(ColumnFamilies)
           /\ \A cf \in ColumnFamilies : n[cf] >= 1 => cf \in Range(s)
<1>. DEFINE max == Cardinality(Buckets) + 1
            pairs == ColumnFamilies \X (1..max)
            all == {e \in pairs : e[2] <= n[e[1]]}
<1>1. max \in Nat  BY FS_CardinalityType, BackgroundAssumption
<1>2. IsFiniteSet(1..max)  BY <1>1, FS_Interval
<1>3. IsFiniteSet(pairs)  BY <1>2, FS_Product, BackgroundAssumption, Zenon
<1>4. Cardinality(all) \in Nat  BY <1>3, FS_Subset, FS_CardinalityType
<1>5. /\ s \in [1..Cardinality(all) -> ColumnFamilies]
      /\ \A cf \in ColumnFamilies : Cardinality({i \in DOMAIN s : s[i] = cf}) = n[cf]
  BY DEF EntriesForAll
<1>. HIDE DEF all
<1>6. s \in Seq(ColumnFamilies)  BY <1>4, <1>5
<1>7. ASSUME NEW cf \in ColumnFamilies, n[cf] >= 1  PROVE cf \in Range(s)
  <2>1. Cardinality({i \in DOMAIN s : s[i] = cf}) # 0  BY <1>5, <1>7
  <2>2. {i \in DOMAIN s : s[i] = cf} # {}  BY <2>1, FS_EmptySet
  <2>. QED  BY <2>2 DEF Range
<1>. QED  BY <1>6, <1>7

-----------------------------------------------------------------------------
(* The threads that are busy.                                               *)

LEMMA BusyType ==
    ASSUME NEW n \in Nat, NEW S, NEW job \in [1..n -> S]
    PROVE  IsFiniteSet(Busy(job)) /\ Cardinality(Busy(job)) \in Nat
<1>1. IsFiniteSet(1..n)  BY FS_Interval
<1>2. Busy(job) \subseteq 1..n  BY DEF Busy
<1>. QED  BY <1>1, <1>2, FS_Subset, FS_CardinalityType

LEMMA BusyStays ==
    ASSUME NEW n \in Nat, NEW S, NEW job \in [1..n -> S], NEW t \in 1..n,
           NEW v, job[t] # Idle, v # Idle
    PROVE  Cardinality(Busy([job EXCEPT ![t] = v])) = Cardinality(Busy(job))
<1>1. Busy([job EXCEPT ![t] = v]) = Busy(job)  BY DEF Busy
<1>. QED  BY <1>1

LEMMA BusyStarts ==
    ASSUME NEW n \in Nat, NEW S, NEW job \in [1..n -> S], NEW t \in 1..n,
           NEW v, job[t] = Idle, v # Idle
    PROVE  Cardinality(Busy([job EXCEPT ![t] = v])) = Cardinality(Busy(job)) + 1
<1>1. Busy([job EXCEPT ![t] = v]) = Busy(job) \cup {t} /\ t \notin Busy(job)  BY DEF Busy
<1>. QED  BY <1>1, BusyType, FS_AddElement, Zenon

LEMMA BusyEnds ==
    ASSUME NEW n \in Nat, NEW S, NEW job \in [1..n -> S], NEW t \in 1..n, job[t] # Idle
    PROVE  /\ Cardinality(Busy([job EXCEPT ![t] = Idle])) = Cardinality(Busy(job)) - 1
           /\ Cardinality(Busy(job)) \in Nat \ {0}
<1>1. Busy([job EXCEPT ![t] = Idle]) = Busy(job) \ {t} /\ t \in Busy(job)  BY DEF Busy
<1>2. Cardinality(Busy(job) \ {t}) = Cardinality(Busy(job)) - 1
  BY <1>1, BusyType, FS_RemoveElement, Zenon
<1>3. Cardinality(Busy(job)) # 0  BY <1>1, BusyType, FS_EmptySet
<1>. QED  BY <1>1, <1>2, <1>3, BusyType, Zenon

-----------------------------------------------------------------------------
(* The queues and the jobs that serve them.                                 *)

JobTypes ==
    /\ flush_job \in [FlushThreads -> FlushJobs]
    /\ compaction_job \in [CompactionThreads -> CompactionJobs]

BusyFlushes == Cardinality(Busy(flush_job))
BusyCompactions == Cardinality(Busy(compaction_job))
QueuesInv == QInv(queues, BusyFlushes, BusyCompactions)

LEMMA BusyNat ==
    ASSUME JobTypes
    PROVE  BusyFlushes \in Nat /\ BusyCompactions \in Nat
BY BusyType, BackgroundAssumption, Zenon
   DEF JobTypes, FlushThreads, CompactionThreads, BusyFlushes, BusyCompactions

(***************************************************************************)
(* A job goes on, starts or ends.                                          *)
(***************************************************************************)
LEMMA FlushThread ==
    ASSUME JobTypes, NEW t \in FlushThreads, NEW v,
           flush_job' = [flush_job EXCEPT ![t] = v]
    PROVE  /\ flush_job[t] # Idle /\ v # Idle => BusyFlushes' = BusyFlushes
           /\ flush_job[t] = Idle /\ v # Idle => BusyFlushes' = BusyFlushes + 1
           /\ flush_job[t] # Idle /\ v = Idle =>
                BusyFlushes' = BusyFlushes - 1 /\ BusyFlushes \in Nat \ {0}
<1>. DEFINE n == max_flushes
<1>1. n \in Nat /\ t \in 1..n /\ flush_job \in [1..n -> FlushJobs]
  BY BackgroundAssumption DEF JobTypes, FlushThreads
<1>. HIDE DEF n
<1>2. CASE flush_job[t] # Idle /\ v # Idle  BY <1>1, <1>2, BusyStays, Zenon DEF BusyFlushes
<1>3. CASE flush_job[t] = Idle /\ v # Idle  BY <1>1, <1>3, BusyStarts, Zenon DEF BusyFlushes
<1>4. CASE flush_job[t] # Idle /\ v = Idle  BY <1>1, <1>4, BusyEnds, Zenon DEF BusyFlushes
<1>. QED  BY <1>2, <1>3, <1>4

LEMMA CompactionThread ==
    ASSUME JobTypes, NEW t \in CompactionThreads, NEW v,
           compaction_job' = [compaction_job EXCEPT ![t] = v]
    PROVE  /\ compaction_job[t] # Idle /\ v # Idle => BusyCompactions' = BusyCompactions
           /\ compaction_job[t] = Idle /\ v # Idle => BusyCompactions' = BusyCompactions + 1
           /\ compaction_job[t] # Idle /\ v = Idle =>
                BusyCompactions' = BusyCompactions - 1 /\ BusyCompactions \in Nat \ {0}
<1>. DEFINE n == max_compactions
<1>1. n \in Nat /\ t \in 1..n /\ compaction_job \in [1..n -> CompactionJobs]
  BY BackgroundAssumption DEF JobTypes, CompactionThreads
<1>. HIDE DEF n
<1>2. CASE compaction_job[t] # Idle /\ v # Idle  BY <1>1, <1>2, BusyStays, Zenon DEF BusyCompactions
<1>3. CASE compaction_job[t] = Idle /\ v # Idle  BY <1>1, <1>3, BusyStarts, Zenon DEF BusyCompactions
<1>4. CASE compaction_job[t] # Idle /\ v = Idle  BY <1>1, <1>4, BusyEnds, Zenon DEF BusyCompactions
<1>. QED  BY <1>2, <1>3, <1>4

LEMMA Pcs ==
    /\ Ending # Idle
    /\ \A cf, r, m : [pc |-> "syncing", cf |-> cf, reason |-> r, max_id |-> m] # Idle
    /\ \A cf, r, m : [pc |-> "flushing", cf |-> cf, reason |-> r, mems |-> m] # Idle
    /\ \A cf, b, n : [pc |-> "compacting", cf |-> cf, bucket |-> b, files |-> n] # Idle
    /\ \A j : j.pc \in {"syncing", "flushing", "compacting"} => j # Idle /\ j # Ending
BY DEF Ending, Idle

LEMMA JobFamilies ==
    ASSUME JobTypes
    PROVE  /\ \A t \in FlushThreads : flush_job[t].pc \in {"syncing", "flushing"} =>
                flush_job[t].cf \in ColumnFamilies /\ flush_job[t].reason \in FlushReasons
           /\ \A t \in FlushThreads : flush_job[t].pc = "syncing" => flush_job[t].max_id \in Nat
           /\ \A t \in FlushThreads : flush_job[t].pc = "flushing" => flush_job[t].mems \subseteq Nat
           /\ \A t \in CompactionThreads : compaction_job[t].pc = "compacting" =>
                /\ compaction_job[t].cf \in ColumnFamilies
                /\ compaction_job[t].bucket \in Buckets
                /\ compaction_job[t].files \in Nat \ {0}
BY DEF JobTypes, FlushJobs, CompactionJobs, Idle, Ending

LEMMA ScheduleInv ==
    ASSUME NEW q, NEW bf \in Nat, NEW bc \in Nat, QInv(q, bf, bc)
    PROVE  /\ QInv(Schedule(q), bf, bc)
           /\ Schedule(q).flush_queue = q.flush_queue
           /\ Schedule(q).queued_for_flush = q.queued_for_flush
           /\ Schedule(q).compaction_queue = q.compaction_queue
<1>1. IsBGWorkStopped \in BOOLEAN /\ IsRecoveryInProgress \in BOOLEAN
  BY DEF IsBGWorkStopped, IsRecoveryInProgress
<1>. QED  BY <1>1, ScheduleKeeps DEF Schedule

(***************************************************************************)
(* The compactions of a column family are enqueued: afterwards it is in    *)
(* the queue if it needs one.                                              *)
(***************************************************************************)
NeededEntered(q, p, bf, bc, cf, count) ==
    /\ QInv(p, bf, bc)
    /\ p.queued_for_flush = q.queued_for_flush
    /\ Range(q.compaction_queue) \subseteq Range(p.compaction_queue)
    /\ NeedsCompaction(count) => cf \in Range(p.compaction_queue)

LEMMA CompactionsEnqueued ==
    ASSUME NEW q, NEW bf \in Nat, NEW bc \in Nat, QInv(q, bf, bc),
           NEW cf \in ColumnFamilies, NEW files, NEW count
    PROVE  NeededEntered(q, EnqueuePendingCompaction(q, Entries(cf, EntriesFor(q, cf, files, count))),
                         bf, bc, cf, count)
<1>. DEFINE n == EntriesFor(q, cf, files, count)
            e == Entries(cf, n)
            p == EnqueuePendingCompaction(q, e)
<1>1. /\ n \in Nat
      /\ NeedsCompaction(count) /\ cf \notin q.queued_for_compaction => n >= 1
  BY EntriesForNat
<1>. HIDE DEF n
<1>2. e \in Seq(ColumnFamilies) /\ (n >= 1 => cf \in Range(e))  BY <1>1, EntriesAreSequence
<1>. HIDE DEF e
<1>3. CompactionsEntered(q, p, bf, bc, e)  BY <1>2, EnqueueCompactionKeeps
<1>4. cf \in q.queued_for_compaction => cf \in Range(q.compaction_queue)
  BY DEF QInv, CompactionFlags
<1>. HIDE DEF p
<1>5. NeededEntered(q, p, bf, bc, cf, count)
  BY <1>1, <1>2, <1>3, <1>4 DEF CompactionsEntered, NeededEntered
<1>. QED  BY <1>5 DEF n, e, p

\* What an action may do to the queues when no job starts or ends
Grows ==
    /\ QInv(queues', BusyFlushes, BusyCompactions)
    /\ queues.queued_for_flush \subseteq queues'.queued_for_flush
    /\ Range(queues.compaction_queue) \subseteq Range(queues'.compaction_queue)

LEMMA InstallGrows ==
    ASSUME JobTypes, QueuesInv, NEW cf \in ColumnFamilies, InstallAndSchedule(cf)
    PROVE  /\ Grows
           /\ NeedsCompaction(l0_count'[cf]) => cf \in Range(queues'.compaction_queue)
<1>. DEFINE n == EntriesFor(queues, cf, l0'[cf], l0_count'[cf])
            p == EnqueuePendingCompaction(queues, Entries(cf, n))
<1>1. queues' = Schedule(p)  BY DEF InstallAndSchedule
<1>2. BusyFlushes \in Nat /\ BusyCompactions \in Nat  BY BusyNat
<1>3. QInv(queues, BusyFlushes, BusyCompactions)  BY DEF QueuesInv
<1>4. /\ QInv(p, BusyFlushes, BusyCompactions)
      /\ p.queued_for_flush = queues.queued_for_flush
      /\ Range(queues.compaction_queue) \subseteq Range(p.compaction_queue)
      /\ NeedsCompaction(l0_count'[cf]) => cf \in Range(p.compaction_queue)
  <2>1. NeededEntered(queues, p, BusyFlushes, BusyCompactions, cf, l0_count'[cf])
    BY <1>2, <1>3, CompactionsEnqueued
  <2>. HIDE DEF p
  <2>. QED  BY <2>1 DEF NeededEntered
<1>. HIDE DEF p
<1>5. /\ QInv(Schedule(p), BusyFlushes, BusyCompactions)
      /\ Schedule(p).queued_for_flush = p.queued_for_flush
      /\ Schedule(p).compaction_queue = p.compaction_queue
  BY <1>2, <1>4, ScheduleInv
<1>. QED  BY <1>1, <1>4, <1>5 DEF Grows

LEMMA SwitchGrows ==
    ASSUME JobTypes, QueuesInv, NEW cf \in ColumnFamilies, NEW reason \in FlushReasons, NEW waits,
           SwitchMemtable(cf, reason, waits)
    PROVE  Grows /\ cf \in queues'.queued_for_flush
<1>. DEFINE n == EntriesFor(queues, cf, l0[cf], l0_count[cf])
            p == EnqueuePendingCompaction(queues, Entries(cf, n))
            new == Enqueued(queues, {cf}, {cf})
            order == One(cf, new)
            r == EnqueuePendingFlush(p, order, reason)
<1>1. queues' = Schedule(r)  BY DEF SwitchMemtable
<1>2. BusyFlushes \in Nat /\ BusyCompactions \in Nat  BY BusyNat
<1>3. QInv(queues, BusyFlushes, BusyCompactions)  BY DEF QueuesInv
<1>4. /\ QInv(p, BusyFlushes, BusyCompactions)
      /\ p.queued_for_flush = queues.queued_for_flush
      /\ Range(queues.compaction_queue) \subseteq Range(p.compaction_queue)
  <2>1. NeededEntered(queues, p, BusyFlushes, BusyCompactions, cf, l0_count[cf])
    BY <1>2, <1>3, CompactionsEnqueued
  <2>. HIDE DEF p
  <2>. QED  BY <2>1 DEF NeededEntered
<1>. HIDE DEF p
<1>5. IsOrder(order) /\ Range(order) = new \cap {cf}  BY OneIsOrder
<1>6. new = {cf} \ queues.queued_for_flush  BY DEF Enqueued
<1>. HIDE DEF new, order
<1>7. Range(order) \cap p.queued_for_flush = {}  BY <1>4, <1>5, <1>6
<1>8. /\ QInv(r, BusyFlushes, BusyCompactions)
      /\ r.queued_for_flush = p.queued_for_flush \cup Range(order)
      /\ r.compaction_queue = p.compaction_queue
  <2>1. FlushesEntered(p, r, BusyFlushes, BusyCompactions, order)
    BY <1>2, <1>4, <1>5, <1>7, EnqueueFlushKeeps
  <2>. HIDE DEF r
  <2>. QED  BY <2>1 DEF FlushesEntered
<1>. HIDE DEF r
<1>9. /\ QInv(Schedule(r), BusyFlushes, BusyCompactions)
      /\ Schedule(r).queued_for_flush = r.queued_for_flush
      /\ Schedule(r).compaction_queue = r.compaction_queue
  BY <1>2, <1>8, ScheduleInv
<1>. QED  BY <1>1, <1>4, <1>5, <1>6, <1>8, <1>9 DEF Grows

(***************************************************************************)
(* What the threads do to the queues.                                      *)
(***************************************************************************)
LEMMA FlushTaken ==
    ASSUME JobTypes, QueuesInv, NEW t \in FlushThreads, TakesFlush(t)
    PROVE  LET p == PopFirstFromFlushQueue(queues)
           IN  /\ QInv(p, BusyFlushes + 1, BusyCompactions)
               /\ Request.cf \in ColumnFamilies /\ Request.reason \in FlushReasons
               /\ p.queued_for_flush = queues.queued_for_flush \ {Request.cf}
               /\ p.compaction_queue = queues.compaction_queue
               /\ flush_job[t] = Idle
<1>1. BusyFlushes \in Nat /\ BusyCompactions \in Nat  BY BusyNat
<1>2. QInv(queues, BusyFlushes, BusyCompactions)  BY DEF QueuesInv
<1>3. BusyFlushes < queues.bg_flush_scheduled /\ queues.flush_queue # << >> /\ flush_job[t] = Idle
  BY DEF TakesFlush, RunsFlush, BusyFlushes
<1>4. Request \in FlushRequests  BY <1>1, <1>2, <1>3, PopKeeps DEF Request
<1>. QED  BY <1>1, <1>2, <1>3, <1>4, PopKeeps DEF Request, FlushRequests

LEMMA CompactionTaken ==
    ASSUME JobTypes, QueuesInv, NEW t \in CompactionThreads, TakesCompaction(t)
    PROVE  LET p == PickCompactionFromQueue(queues)
           IN  /\ QInv(p, BusyFlushes, BusyCompactions + 1)
               /\ Candidate \in ColumnFamilies
               /\ p.queued_for_flush = queues.queued_for_flush
               /\ Candidate \notin p.queued_for_compaction
               /\ \A cf \in Range(queues.compaction_queue) :
                    cf # Candidate => cf \in Range(p.compaction_queue)
               /\ compaction_job[t] = Idle
<1>1. BusyFlushes \in Nat /\ BusyCompactions \in Nat  BY BusyNat
<1>2. QInv(queues, BusyFlushes, BusyCompactions)  BY DEF QueuesInv
<1>3. BusyCompactions < queues.bg_compaction_scheduled /\ compaction_job[t] = Idle
  BY DEF TakesCompaction, BusyCompactions
<1>. QED  BY <1>1, <1>2, <1>3, PickKeeps, Zenon DEF Candidate

LEMMA QueuesLeaveFlush ==
    ASSUME JobTypes, QueuesInv, NEW t \in FlushThreads, LeaveFlush(t)
    PROVE  QueuesInv'
<1>1. BusyFlushes \in Nat /\ BusyCompactions \in Nat  BY BusyNat
<1>2. QInv(queues, BusyFlushes, BusyCompactions)  BY DEF QueuesInv
<1>3. BusyFlushes < queues.bg_flush_scheduled /\ flush_job[t] = Idle
  BY DEF LeaveFlush, RunsFlush, BusyFlushes
<1>4. BusyFlushes' = BusyFlushes + 1  BY <1>3, Pcs, FlushThread, Zenon DEF LeaveFlush
<1>5. BusyCompactions' = BusyCompactions  BY DEF LeaveFlush, BusyCompactions
<1>6. queues' = queues  BY DEF LeaveFlush
<1>7. QInv(queues, BusyFlushes + 1, BusyCompactions)  BY <1>1, <1>2, <1>3, LeaveFlushKeeps
<1>. QED  BY <1>4, <1>5, <1>6, <1>7 DEF QueuesInv

LEMMA QueuesDropFlush ==
    ASSUME JobTypes, QueuesInv, NEW t \in FlushThreads, DropFlushRequest(t)
    PROVE  /\ QueuesInv'
           /\ queues'.queued_for_flush = queues.queued_for_flush \ {Request.cf}
           /\ queues'.compaction_queue = queues.compaction_queue
<1>1. TakesFlush(t)  BY DEF DropFlushRequest
<1>2. BusyFlushes' = BusyFlushes + 1  BY <1>1, FlushTaken, Pcs, FlushThread, Zenon DEF DropFlushRequest
<1>3. BusyCompactions' = BusyCompactions  BY DEF DropFlushRequest, BusyCompactions
<1>4. queues' = PopFirstFromFlushQueue(queues)  BY DEF DropFlushRequest
<1>. QED  BY <1>1, <1>2, <1>3, <1>4, FlushTaken DEF QueuesInv

LEMMA QueuesPutBack ==
    ASSUME JobTypes, QueuesInv, NEW t \in FlushThreads, PutBackFlush(t)
    PROVE  /\ QueuesInv'
           /\ queues.queued_for_flush \ {Request.cf} \subseteq queues'.queued_for_flush
           /\ Request.cf \in FlushPending => Request.cf \in queues'.queued_for_flush
           /\ queues'.compaction_queue = queues.compaction_queue
<1>. DEFINE p == PopFirstFromFlushQueue(queues)
            new == Enqueued(p, {Request.cf}, FlushPending)
            order == One(Request.cf, new)
            r == EnqueuePendingFlush(p, order, Request.reason)
<1>1. TakesFlush(t)  BY DEF PutBackFlush
<1>2. /\ QInv(p, BusyFlushes + 1, BusyCompactions)
      /\ Request.cf \in ColumnFamilies /\ Request.reason \in FlushReasons
      /\ p.queued_for_flush = queues.queued_for_flush \ {Request.cf}
      /\ p.compaction_queue = queues.compaction_queue
      /\ flush_job[t] = Idle
  BY <1>1, FlushTaken
<1>3. BusyFlushes' = BusyFlushes + 1  BY <1>2, Pcs, FlushThread, Zenon DEF PutBackFlush
<1>4. BusyCompactions' = BusyCompactions  BY DEF PutBackFlush, BusyCompactions
<1>5. queues' = r  BY DEF PutBackFlush
<1>. HIDE DEF p
<1>6. new = ({Request.cf} \cap FlushPending) \ p.queued_for_flush  BY DEF Enqueued
<1>7. IsOrder(order) /\ Range(order) = new \cap {Request.cf}  BY <1>2, OneIsOrder
<1>. HIDE DEF new, order
<1>8. BusyFlushes + 1 \in Nat /\ BusyCompactions \in Nat  BY BusyNat
<1>9. Range(order) \cap p.queued_for_flush = {}  BY <1>6, <1>7
<1>10. /\ QInv(r, BusyFlushes + 1, BusyCompactions)
       /\ r.queued_for_flush = p.queued_for_flush \cup Range(order)
       /\ r.compaction_queue = p.compaction_queue
  <2>. DEFINE bf == BusyFlushes + 1
  <2>1. bf \in Nat /\ QInv(p, bf, BusyCompactions)  BY <1>2, <1>8
  <2>. HIDE DEF bf
  <2>2. FlushesEntered(p, r, bf, BusyCompactions, order)
    BY <1>2, <1>7, <1>8, <1>9, <2>1, EnqueueFlushKeeps
  <2>. HIDE DEF r
  <2>. QED  BY <2>2 DEF FlushesEntered, bf
<1>. HIDE DEF r
<1>. QED  BY <1>2, <1>3, <1>4, <1>5, <1>6, <1>7, <1>10 DEF QueuesInv

LEMMA QueuesStartFlush ==
    ASSUME JobTypes, QueuesInv, NEW t \in FlushThreads, StartFlush(t)
    PROVE  /\ QueuesInv'
           /\ queues'.queued_for_flush = queues.queued_for_flush \ {Request.cf}
           /\ queues'.compaction_queue = queues.compaction_queue
<1>. DEFINE v == [pc |-> "syncing", cf |-> Request.cf, reason |-> Request.reason,
                  max_id |-> mems[Request.cf]]
<1>1. TakesFlush(t)  BY DEF StartFlush
<1>2. BusyFlushes' = BusyFlushes + 1
  <2>1. flush_job[t] = Idle  BY <1>1, FlushTaken
  <2>2. v # Idle  BY Pcs
  <2>3. flush_job' = [flush_job EXCEPT ![t] = v]  BY DEF StartFlush
  <2>. HIDE DEF v
  <2>. QED  BY <2>1, <2>2, <2>3, FlushThread, Zenon
<1>3. BusyCompactions' = BusyCompactions  BY DEF StartFlush, BusyCompactions
<1>4. queues' = PopFirstFromFlushQueue(queues)  BY DEF StartFlush
<1>. QED  BY <1>1, <1>2, <1>3, <1>4, FlushTaken DEF QueuesInv

LEMMA QueuesEndFlush ==
    ASSUME JobTypes, QueuesInv, NEW t \in FlushThreads, EndFlush(t)
    PROVE  /\ QueuesInv'
           /\ queues'.queued_for_flush = queues.queued_for_flush
           /\ queues'.compaction_queue = queues.compaction_queue
<1>. DEFINE p == [queues EXCEPT !.bg_flush_scheduled = @ - 1]
<1>1. BusyFlushes' = BusyFlushes - 1 /\ BusyFlushes \in Nat \ {0}  BY Pcs, FlushThread, Zenon DEF EndFlush
<1>2. BusyCompactions' = BusyCompactions /\ BusyCompactions \in Nat
  BY BusyNat DEF EndFlush, BusyCompactions
<1>3. QInv(queues, BusyFlushes, BusyCompactions)  BY DEF QueuesInv
<1>4. /\ QInv(p, BusyFlushes - 1, BusyCompactions)
      /\ p.queued_for_flush = queues.queued_for_flush
      /\ p.compaction_queue = queues.compaction_queue
  BY <1>1, <1>2, <1>3, EndFlushKeeps
<1>5. queues' = Schedule(p)  BY DEF EndFlush
<1>. HIDE DEF p
<1>6. BusyFlushes - 1 \in Nat  BY <1>1
<1>. QED  BY <1>1, <1>2, <1>4, <1>5, <1>6, ScheduleInv DEF QueuesInv

LEMMA QueuesLeaveCompaction ==
    ASSUME JobTypes, QueuesInv, NEW t \in CompactionThreads, LeaveCompaction(t)
    PROVE  /\ QueuesInv'
           /\ queues'.queued_for_flush = queues.queued_for_flush
           /\ queues'.compaction_queue = queues.compaction_queue
<1>1. BusyFlushes \in Nat /\ BusyCompactions \in Nat  BY BusyNat
<1>2. QInv(queues, BusyFlushes, BusyCompactions)  BY DEF QueuesInv
<1>3. BusyCompactions < queues.bg_compaction_scheduled /\ compaction_job[t] = Idle
  BY DEF LeaveCompaction, TakesCompaction, BusyCompactions
<1>4. BusyCompactions' = BusyCompactions + 1  BY <1>3, Pcs, CompactionThread, Zenon DEF LeaveCompaction
<1>5. BusyFlushes' = BusyFlushes  BY DEF LeaveCompaction, BusyFlushes
<1>6. queues' = [queues EXCEPT !.unscheduled_compactions = @ + 1]  BY DEF LeaveCompaction
<1>. QED  BY <1>1, <1>2, <1>3, <1>4, <1>5, <1>6, LeaveCompactionKeeps DEF QueuesInv

LEMMA QueuesPickNothing ==
    ASSUME JobTypes, QueuesInv, NEW t \in CompactionThreads, PickNothing(t)
    PROVE  /\ QueuesInv'
           /\ queues'.queued_for_flush = queues.queued_for_flush
           /\ \A cf \in Range(queues.compaction_queue) :
                cf # Candidate => cf \in Range(queues'.compaction_queue)
<1>1. TakesCompaction(t)  BY DEF PickNothing
<1>2. BusyCompactions' = BusyCompactions + 1
  BY <1>1, CompactionTaken, Pcs, CompactionThread, Zenon DEF PickNothing
<1>3. BusyFlushes' = BusyFlushes  BY DEF PickNothing, BusyFlushes
<1>4. queues' = PickCompactionFromQueue(queues)  BY DEF PickNothing
<1>. QED  BY <1>1, <1>2, <1>3, <1>4, CompactionTaken DEF QueuesInv

LEMMA QueuesStartCompaction ==
    ASSUME JobTypes, QueuesInv, NEW t \in CompactionThreads, StartCompaction(t)
    PROVE  /\ QueuesInv'
           /\ queues'.queued_for_flush = queues.queued_for_flush
           /\ \A cf \in Range(queues.compaction_queue) :
                cf # Candidate => cf \in Range(queues'.compaction_queue)
<1>. DEFINE p == PickCompactionFromQueue(queues)
            n == EntriesFor(p, Candidate, l0'[Candidate], l0_count[Candidate])
            r == EnqueuePendingCompaction(p, Entries(Candidate, n))
<1>1. TakesCompaction(t)  BY DEF StartCompaction
<1>2. /\ QInv(p, BusyFlushes, BusyCompactions + 1)
      /\ Candidate \in ColumnFamilies
      /\ p.queued_for_flush = queues.queued_for_flush
      /\ \A cf \in Range(queues.compaction_queue) :
            cf # Candidate => cf \in Range(p.compaction_queue)
      /\ compaction_job[t] = Idle
  BY <1>1, CompactionTaken
<1>3. BusyFlushes \in Nat /\ BusyCompactions + 1 \in Nat  BY BusyNat
<1>4. PICK b \in Buckets :
        /\ compaction_job' = [compaction_job EXCEPT ![t] =
               [pc |-> "compacting", cf |-> Candidate, bucket |-> b, files |-> l0[Candidate][b]]]
        /\ queues' = Schedule(r)
  BY Zenon DEF StartCompaction
<1>5. BusyCompactions' = BusyCompactions + 1
  <2>. DEFINE v == [pc |-> "compacting", cf |-> Candidate, bucket |-> b, files |-> l0[Candidate][b]]
  <2>1. v # Idle  BY Pcs
  <2>2. compaction_job' = [compaction_job EXCEPT ![t] = v]  BY <1>4
  <2>. HIDE DEF v
  <2>. QED  BY <1>2, <2>1, <2>2, CompactionThread, Zenon
<1>6. BusyFlushes' = BusyFlushes  BY DEF StartCompaction, BusyFlushes
<1>. HIDE DEF p
<1>7. /\ QInv(r, BusyFlushes, BusyCompactions + 1)
      /\ r.queued_for_flush = p.queued_for_flush
      /\ Range(p.compaction_queue) \subseteq Range(r.compaction_queue)
  <2>. DEFINE bc == BusyCompactions + 1
  <2>1. bc \in Nat /\ QInv(p, BusyFlushes, bc)  BY <1>2, <1>3
  <2>. HIDE DEF bc
  <2>2. NeededEntered(p, r, BusyFlushes, bc, Candidate, l0_count[Candidate])
    BY <1>2, <1>3, <2>1, CompactionsEnqueued
  <2>. HIDE DEF r
  <2>. QED  BY <2>2 DEF NeededEntered, bc
<1>. HIDE DEF r
<1>8. /\ QInv(Schedule(r), BusyFlushes, BusyCompactions + 1)
      /\ Schedule(r).queued_for_flush = r.queued_for_flush
      /\ Schedule(r).compaction_queue = r.compaction_queue
  BY <1>3, <1>7, ScheduleInv
<1>. QED  BY <1>2, <1>4, <1>5, <1>6, <1>7, <1>8 DEF QueuesInv

LEMMA QueuesNoRoom ==
    ASSUME JobTypes, QueuesInv, NEW t \in CompactionThreads, NoRoomForCompaction(t)
    PROVE  /\ QueuesInv'
           /\ queues'.queued_for_flush = queues.queued_for_flush
           /\ Range(queues.compaction_queue) \subseteq Range(queues'.compaction_queue)
<1>. DEFINE p == PickCompactionFromQueue(queues)
            n == EntriesFor(p, Candidate, l0[Candidate], l0_count[Candidate])
            r == EnqueuePendingCompaction(p, Entries(Candidate, n))
<1>1. TakesCompaction(t) /\ NeedsCompaction(l0_count[Candidate])  BY DEF NoRoomForCompaction
<1>2. /\ QInv(p, BusyFlushes, BusyCompactions + 1)
      /\ Candidate \in ColumnFamilies
      /\ p.queued_for_flush = queues.queued_for_flush
      /\ \A cf \in Range(queues.compaction_queue) :
            cf # Candidate => cf \in Range(p.compaction_queue)
      /\ compaction_job[t] = Idle
  BY <1>1, CompactionTaken
<1>3. BusyFlushes \in Nat /\ BusyCompactions + 1 \in Nat  BY BusyNat
<1>4. BusyCompactions' = BusyCompactions + 1
  BY <1>2, Pcs, CompactionThread, Zenon DEF NoRoomForCompaction
<1>5. BusyFlushes' = BusyFlushes  BY Zenon DEF NoRoomForCompaction, BusyFlushes
<1>6. queues' = r  BY Zenon DEF NoRoomForCompaction
<1>. HIDE DEF p
<1>7. /\ QInv(r, BusyFlushes, BusyCompactions + 1)
      /\ r.queued_for_flush = p.queued_for_flush
      /\ Range(p.compaction_queue) \subseteq Range(r.compaction_queue)
      /\ NeedsCompaction(l0_count[Candidate]) => Candidate \in Range(r.compaction_queue)
  <2>. DEFINE bc == BusyCompactions + 1
  <2>1. bc \in Nat /\ QInv(p, BusyFlushes, bc)  BY <1>2, <1>3
  <2>. HIDE DEF bc
  <2>2. NeededEntered(p, r, BusyFlushes, bc, Candidate, l0_count[Candidate])
    BY <1>2, <1>3, <2>1, CompactionsEnqueued
  <2>. HIDE DEF r
  <2>. QED  BY <2>2, Zenon DEF NeededEntered, bc
<1>. HIDE DEF r
<1>. QED  BY <1>1, <1>2, <1>4, <1>5, <1>6, <1>7 DEF QueuesInv

LEMMA QueuesEndCompaction ==
    ASSUME JobTypes, QueuesInv, NEW t \in CompactionThreads, EndCompaction(t)
    PROVE  /\ QueuesInv'
           /\ queues'.queued_for_flush = queues.queued_for_flush
           /\ queues'.compaction_queue = queues.compaction_queue
<1>. DEFINE p == [queues EXCEPT !.bg_compaction_scheduled = @ - 1]
<1>1. BusyCompactions' = BusyCompactions - 1 /\ BusyCompactions \in Nat \ {0}
  BY Pcs, CompactionThread, Zenon DEF EndCompaction
<1>2. BusyFlushes' = BusyFlushes /\ BusyFlushes \in Nat  BY BusyNat DEF EndCompaction, BusyFlushes
<1>3. QInv(queues, BusyFlushes, BusyCompactions)  BY DEF QueuesInv
<1>4. /\ QInv(p, BusyFlushes, BusyCompactions - 1)
      /\ p.queued_for_flush = queues.queued_for_flush
      /\ p.compaction_queue = queues.compaction_queue
  BY <1>1, <1>2, <1>3, EndCompactionKeeps
<1>5. queues' = Schedule(p)  BY DEF EndCompaction
<1>. HIDE DEF p
<1>6. BusyCompactions - 1 \in Nat  BY <1>1
<1>. QED  BY <1>1, <1>2, <1>4, <1>5, <1>6, ScheduleInv DEF QueuesInv

LEMMA CompactionFailsGrows ==
    ASSUME JobTypes, QueuesInv, NEW t \in CompactionThreads, CompactionFails(t)
    PROVE  /\ Grows
           /\ ~IsBGWorkStopped /\ NeedsCompaction(l0_count[compaction_job[t].cf]) =>
                compaction_job[t].cf \in Range(queues'.compaction_queue)
<1>. DEFINE cf == compaction_job[t].cf
            n == EntriesFor(queues, cf, l0'[cf], l0_count[cf])
<1>1. cf \in ColumnFamilies  BY JobFamilies, Zenon DEF CompactionFails
<1>2. BusyFlushes \in Nat /\ BusyCompactions \in Nat  BY BusyNat
<1>3. QInv(queues, BusyFlushes, BusyCompactions)  BY DEF QueuesInv
<1>. HIDE DEF cf
<1>4. CASE IsBGWorkStopped
  <2>1. queues' = EnqueuePendingCompaction(queues, Entries(cf, 0))
    BY <1>4 DEF CompactionFails, cf
  <2>2. Entries(cf, 0) \in Seq(ColumnFamilies)  BY <1>1, EntriesAreSequence
  <2>3. CompactionsEntered(queues, queues', BusyFlushes, BusyCompactions, Entries(cf, 0))
    BY <1>2, <1>3, <2>1, <2>2, EnqueueCompactionKeeps
  <2>. QED  BY <1>4, <2>3 DEF CompactionsEntered, Grows
<1>5. CASE ~IsBGWorkStopped
  <2>1. queues' = EnqueuePendingCompaction(queues, Entries(cf, n))
    BY <1>5 DEF CompactionFails, cf
  <2>2. NeededEntered(queues, queues', BusyFlushes, BusyCompactions, cf, l0_count[cf])
    BY <1>1, <1>2, <1>3, <2>1, CompactionsEnqueued, Zenon
  <2>. QED  BY <2>2 DEF NeededEntered, Grows, cf
<1>. QED  BY <1>4, <1>5

(***************************************************************************)
(* What a recovery does to the queues.                                     *)
(***************************************************************************)
LEMMA RetryGrows ==
    ASSUME JobTypes, QueuesInv, RetryFlushes, recovery.reason \in FlushReasons
    PROVE  Grows
<1>. DEFINE cfs == {cf \in ColumnFamilies \ dropped : NotFlushed(cf) # {}}
            new == Enqueued(queues, cfs, FlushPending)
<1>1. BusyFlushes \in Nat /\ BusyCompactions \in Nat  BY BusyNat
<1>2. QInv(queues, BusyFlushes, BusyCompactions)  BY DEF QueuesInv
<1>3. PICK order \in Orders(new) :
        queues' = Schedule(EnqueuePendingFlush(queues, order, recovery.reason))
  BY DEF RetryFlushes
<1>4. new \in SUBSET ColumnFamilies /\ new \cap queues.queued_for_flush = {}  BY DEF Enqueued
<1>. HIDE DEF new
<1>5. IsOrder(order) /\ Range(order) = new  BY <1>4, OrdersAreOrders
<1>. DEFINE r == EnqueuePendingFlush(queues, order, recovery.reason)
<1>6. /\ QInv(r, BusyFlushes, BusyCompactions)
      /\ r.queued_for_flush = queues.queued_for_flush \cup Range(order)
      /\ r.compaction_queue = queues.compaction_queue
  <2>1. FlushesEntered(queues, r, BusyFlushes, BusyCompactions, order)
    BY <1>1, <1>2, <1>4, <1>5, EnqueueFlushKeeps
  <2>. HIDE DEF r
  <2>. QED  BY <2>1 DEF FlushesEntered
<1>7. queues' = Schedule(r)  BY <1>3
<1>. HIDE DEF r
<1>. QED  BY <1>1, <1>6, <1>7, ScheduleInv DEF Grows

LEMMA SuccessGrows ==
    ASSUME JobTypes, QueuesInv, RecoverySucceeds
    PROVE  /\ Grows
           /\ FlushPending \ dropped \subseteq queues'.queued_for_flush
           /\ \A cf \in ColumnFamilies \ dropped :
                NeedsCompaction(l0_count[cf]) => cf \in Range(queues'.compaction_queue)
<1>. DEFINE new == Enqueued(queues, ColumnFamilies \ dropped, FlushPending)
            n == [cf \in ColumnFamilies |->
                    IF cf \in dropped THEN 0 ELSE EntriesFor(queues, cf, l0[cf], l0_count[cf])]
<1>1. BusyFlushes \in Nat /\ BusyCompactions \in Nat  BY BusyNat
<1>2. QInv(queues, BusyFlushes, BusyCompactions)  BY DEF QueuesInv
<1>3. PICK order \in Orders(new), entries \in EntriesForAll(n) :
        queues' = CatchUp(queues, order, entries)
  BY DEF RecoverySucceeds
<1>4. /\ new \in SUBSET ColumnFamilies /\ new \cap queues.queued_for_flush = {}
      /\ FlushPending \ dropped \subseteq queues.queued_for_flush \cup new
  BY DEF Enqueued, FlushPending
<1>. HIDE DEF new
<1>5. IsOrder(order) /\ Range(order) = new  BY <1>4, OrdersAreOrders
<1>6. /\ n \in [ColumnFamilies -> Nat]
      /\ \A cf \in ColumnFamilies \ dropped :
            NeedsCompaction(l0_count[cf]) /\ cf \notin queues.queued_for_compaction => n[cf] >= 1
  BY EntriesForNat
<1>. HIDE DEF n
<1>7. /\ entries \in Seq(ColumnFamilies)
      /\ \A cf \in ColumnFamilies : n[cf] >= 1 => cf \in Range(entries)
  BY <1>6, EntriesForAllAreSequences
<1>. DEFINE r == EnqueuePendingFlush(queues, order, "kCatchUpAfterErrorRecovery")
            p == EnqueuePendingCompaction(r, entries)
<1>8. "kCatchUpAfterErrorRecovery" \in FlushReasons  BY DEF FlushReasons
<1>9. /\ QInv(r, BusyFlushes, BusyCompactions)
      /\ r.queued_for_flush = queues.queued_for_flush \cup Range(order)
      /\ r.compaction_queue = queues.compaction_queue
  <2>1. FlushesEntered(queues, r, BusyFlushes, BusyCompactions, order)
    BY <1>1, <1>2, <1>4, <1>5, <1>8, EnqueueFlushKeeps
  <2>. HIDE DEF r
  <2>. QED  BY <2>1 DEF FlushesEntered
<1>10. queues' = MaybeSchedule(p, FALSE, FALSE)  BY <1>3 DEF CatchUp
<1>. HIDE DEF r
<1>11. /\ QInv(p, BusyFlushes, BusyCompactions)
       /\ p.queued_for_flush = r.queued_for_flush
       /\ Range(p.compaction_queue) = Range(r.compaction_queue) \cup Range(entries)
  <2>1. CompactionsEntered(r, p, BusyFlushes, BusyCompactions, entries)
    BY <1>1, <1>7, <1>9, EnqueueCompactionKeeps
  <2>. HIDE DEF p
  <2>. QED  BY <2>1 DEF CompactionsEntered
<1>. HIDE DEF p
<1>12. /\ QInv(queues', BusyFlushes, BusyCompactions)
       /\ queues'.queued_for_flush = p.queued_for_flush
       /\ queues'.compaction_queue = p.compaction_queue
  BY <1>1, <1>10, <1>11, ScheduleKeeps, Zenon
<1>13. queues.queued_for_compaction \subseteq Range(queues.compaction_queue)
  BY <1>2 DEF QInv, CompactionFlags
<1>. QED  BY <1>4, <1>5, <1>6, <1>7, <1>9, <1>11, <1>12, <1>13 DEF Grows

-----------------------------------------------------------------------------
(* The type invariant, with what it rests on.                               *)

FlushingBounded ==
    \A t \in FlushThreads : flush_job[t].pc = "flushing" =>
        \A id \in flush_job[t].mems : id <= mems[flush_job[t].cf]

MemtableTypes ==
    /\ mems \in [ColumnFamilies -> Nat]
    /\ imm \in [ColumnFamilies -> SUBSET Nat]
    /\ \A cf \in ColumnFamilies : \A id \in imm[cf] : id <= mems[cf]
TreeTypes ==
    /\ l0 \in [ColumnFamilies -> [Buckets -> Nat]]
    /\ l0_count \in [ColumnFamilies -> Nat]
    /\ dropped \subseteq ColumnFamilies
FaultTypes ==
    /\ bg_error \in {"ok", "soft", "hard"}
    /\ recovery \in [pc : {"none", "start", "waiting", "resume", "flush"},
                     context : RecoveryReasons, reason : RecoveryReasons, error : BOOLEAN,
                     todo : SUBSET ColumnFamilies, waits : SUBSET [cf : ColumnFamilies, id : Nat]]

QueueIInv == MemtableTypes /\ FlushingBounded /\ TreeTypes /\ FaultTypes /\ JobTypes /\ QueuesInv

LEMMA QueueIInvImplies ==
    QueueIInv => TypeOK /\ QueuesAccounted /\ FlushFlagsExact /\ FlaggedQueued
BY DEF QueueIInv, MemtableTypes, TreeTypes, FaultTypes, JobTypes, QueuesInv, QInv, Queues,
       Accounted, FlushFlags, CompactionFlags, BusyFlushes, BusyCompactions,
       TypeOK, QueuesAccounted, FlushFlagsExact, FlaggedQueued

LEMMA QueueIInvInit == Init => QueueIInv
<1>. SUFFICES ASSUME Init PROVE QueueIInv  OBVIOUS
<1>1. Busy(flush_job) = {} /\ Busy(compaction_job) = {}
  BY DEF Init, Busy
<1>2. BusyFlushes = 0 /\ BusyCompactions = 0
  BY <1>1, FS_EmptySet DEF BusyFlushes, BusyCompactions
<1>3. queues \in Queues
  BY BackgroundAssumption DEF Init, Queues
<1>4. QueuesInv
  BY <1>2, <1>3 DEF Init, QueuesInv, QInv, Accounted, FlushFlags, CompactionFlags
<1>5. JobTypes /\ FlushingBounded
  BY DEF Init, JobTypes, FlushJobs, CompactionJobs, FlushingBounded, Idle
<1>6. MemtableTypes /\ TreeTypes  BY DEF Init, MemtableTypes, TreeTypes
<1>7. FaultTypes  BY DEF Init, FaultTypes, RecoveryReasons
<1>. QED  BY <1>4, <1>5, <1>6, <1>7 DEF QueueIInv

LEMMA QueuesStep ==
    ASSUME JobTypes, QueuesInv, recovery.reason \in RecoveryReasons, Next
    PROVE  QueuesInv'
<1>0. ASSUME Grows, UNCHANGED Busy(flush_job), UNCHANGED Busy(compaction_job)
      PROVE  QueuesInv'
  BY <1>0 DEF Grows, QueuesInv, BusyFlushes, BusyCompactions
<1>1. ASSUME UNCHANGED <<queues, Busy(flush_job), Busy(compaction_job)>>
      PROVE  QueuesInv'
  BY <1>1 DEF QueuesInv, BusyFlushes, BusyCompactions
<1>2. ASSUME NEW cf \in ColumnFamilies, FillMemtable(cf)
      PROVE  QueuesInv'
  <2>1. "kWriteBufferFull" \in FlushReasons  BY DEF FlushReasons
  <2>2. Grows  BY <1>2, <2>1, SwitchGrows DEF FillMemtable
  <2>. QED  BY <1>0, <1>2, <2>2 DEF FillMemtable
<1>3. ASSUME NEW cf \in ColumnFamilies, DropColumnFamily(cf)
      PROVE  QueuesInv'
  BY <1>1, <1>3 DEF DropColumnFamily
<1>4. ASSUME NEW t \in FlushThreads, FlushStep(t)
      PROVE  QueuesInv'
  <2>1. CASE LeaveFlush(t)  BY <2>1, QueuesLeaveFlush
  <2>2. CASE DropFlushRequest(t)  BY <2>2, QueuesDropFlush
  <2>3. CASE PutBackFlush(t)  BY <2>3, QueuesPutBack
  <2>4. CASE StartFlush(t)  BY <2>4, QueuesStartFlush
  <2>5. CASE EndFlush(t)  BY <2>5, QueuesEndFlush
  <2>6. ASSUME flush_job[t].pc \in {"syncing", "flushing"},
               NEW v, v # Idle, flush_job' = [flush_job EXCEPT ![t] = v],
               compaction_job' = compaction_job
        PROVE  UNCHANGED Busy(flush_job) /\ UNCHANGED Busy(compaction_job)
    <3>1. flush_job[t] # Idle  BY <2>6, Pcs
    <3>. QED  BY <2>6, <3>1 DEF Busy, JobTypes
  <2>7. CASE SyncFails(t) \/ SkipFlush(t)
    BY <1>1, <2>6, <2>7, Pcs, Zenon DEF SyncFails, SkipFlush, GiveUpFlush
  <2>8. CASE PickMemTable(t)
    <3>. DEFINE cf == flush_job[t].cf
                v == [pc |-> "flushing", cf |-> cf, reason |-> flush_job[t].reason,
                      mems |-> {id \in imm[cf] : id <= flush_job[t].max_id}]
    <3>1. flush_job' = [flush_job EXCEPT ![t] = v] /\ compaction_job' = compaction_job
          /\ queues' = queues /\ flush_job[t].pc = "syncing"
      BY <2>8 DEF PickMemTable
    <3>2. v # Idle  BY Pcs
    <3>. HIDE DEF v
    <3>. QED  BY <1>1, <2>6, <3>1, <3>2, Zenon
  <2>9. CASE FlushFails(t) \/ FlushCancelled(t)
    BY <1>1, <2>6, <2>9, Pcs, Zenon DEF FlushFails, FlushCancelled, RollbackMemtableFlush
  <2>10. CASE InstallFlush(t) \/ FlushNothing(t)
    <3>1. flush_job[t].cf \in ColumnFamilies
      BY <2>10, JobFamilies DEF InstallFlush, FlushNothing
    <3>2. Grows  BY <2>10, <3>1, InstallGrows DEF InstallFlush, FlushNothing
    <3>. QED  BY <1>0, <2>6, <2>10, <3>2, Pcs DEF InstallFlush, FlushNothing
  <2>. QED
    BY <1>4, <2>1, <2>2, <2>3, <2>4, <2>5, <2>7, <2>8, <2>9, <2>10 DEF FlushStep
<1>5. ASSUME NEW t \in CompactionThreads, CompactionStep(t)
      PROVE  QueuesInv'
  <2>1. CASE LeaveCompaction(t)  BY <2>1, QueuesLeaveCompaction
  <2>2. CASE PickNothing(t)  BY <2>2, QueuesPickNothing
  <2>3. CASE StartCompaction(t)  BY <2>3, QueuesStartCompaction
  <2>4. CASE NoRoomForCompaction(t)  BY <2>4, QueuesNoRoom
  <2>5. CASE EndCompaction(t)  BY <2>5, QueuesEndCompaction
  <2>6. ASSUME compaction_job[t].pc = "compacting",
               compaction_job' = [compaction_job EXCEPT ![t] = Ending],
               flush_job' = flush_job
        PROVE  UNCHANGED Busy(flush_job) /\ UNCHANGED Busy(compaction_job)
    <3>1. compaction_job[t] # Idle  BY <2>6, Pcs
    <3>. QED  BY <2>6, <3>1, Pcs DEF Busy, JobTypes
  <2>7. CASE InstallCompaction(t)
    <3>1. compaction_job[t].cf \in ColumnFamilies  BY <2>7, JobFamilies DEF InstallCompaction
    <3>2. Grows  BY <2>7, <3>1, InstallGrows DEF InstallCompaction
    <3>. QED  BY <1>0, <2>6, <2>7, <3>2 DEF InstallCompaction
  <2>8. CASE CompactionFails(t)
    <3>1. Grows  BY <2>8, CompactionFailsGrows
    <3>. QED  BY <1>0, <2>6, <2>8, <3>1 DEF CompactionFails, ReleaseFiles
  <2>9. CASE CompactionFindsDropped(t) \/ ManifestWriteFails(t)
    BY <1>1, <2>6, <2>9 DEF CompactionFindsDropped, ManifestWriteFails, ReleaseFiles
  <2>. QED
    BY <1>5, <2>1, <2>2, <2>3, <2>4, <2>5, <2>7, <2>8, <2>9 DEF CompactionStep
<1>6. ASSUME RecoveryStep
      PROVE  QueuesInv'
  <2>1. recovery.reason \in FlushReasons  BY DEF FlushReasons
  <2>2. CASE RetryFlushes
    <3>1. Grows  BY <2>1, <2>2, RetryGrows
    <3>. QED  BY <1>0, <2>2, <3>1 DEF RetryFlushes, UnchangedByRecovery
  <2>3. CASE RecoverySucceeds
    <3>1. Grows  BY <2>3, SuccessGrows
    <3>. QED  BY <1>0, <2>3, <3>1 DEF RecoverySucceeds, UnchangedByRecovery
  <2>4. ASSUME NEW cf \in ColumnFamilies, FlushMemTable(cf)  PROVE QueuesInv'
    <3>1. Grows  BY <2>1, <2>4, SwitchGrows DEF FlushMemTable
    <3>. QED  BY <1>0, <2>4, <3>1 DEF FlushMemTable, UnchangedByRecovery
  <2>5. CASE StartRecovery \/ NewManifest \/ NewManifestFails \/ FlushAllColumnFamilies
             \/ RecoveryFlushed \/ RecoveryGivesUp \/ RecoveryFails
    BY <1>1, <2>5 DEF StartRecovery, NewManifest, NewManifestFails, FlushAllColumnFamilies,
       RecoveryFlushed, RecoveryGivesUp, RecoveryFails, WaitEnds, UnchangedByRecovery
  <2>. QED  BY <1>6, <2>2, <2>3, <2>4, <2>5 DEF RecoveryStep
<1>7. CASE DelayWrite  BY <1>1, <1>7 DEF DelayWrite
<1>. QED  BY <1>2, <1>3, <1>4, <1>5, <1>6, <1>7 DEF Next

LEMMA FaultsStep ==
    ASSUME FaultTypes, MemtableTypes, Next
    PROVE  FaultTypes'
<1>1. ASSUME NEW severity \in {"soft", "hard"}, NEW reason \in RecoveryReasons,
             SetBGError(severity, reason)
      PROVE  FaultTypes'
  BY <1>1, Zenon DEF SetBGError, FaultTypes
<1>2. {"kErrorRecovery", "kErrorRecoveryRetryFlush"} \subseteq RecoveryReasons
  BY DEF RecoveryReasons
<1>3. ASSUME UNCHANGED <<bg_error, recovery>>  PROVE FaultTypes'
  BY <1>3 DEF FaultTypes
<1>4. ASSUME NEW cf \in ColumnFamilies, FillMemtable(cf) \/ DropColumnFamily(cf)
      PROVE  FaultTypes'
  BY <1>3, <1>4 DEF FillMemtable, DropColumnFamily, faults
<1>5. ASSUME NEW t \in FlushThreads, FlushStep(t)
      PROVE  FaultTypes'
  <2>1. CASE SyncFails(t)  BY <1>1, <1>2, <2>1 DEF SyncFails
  <2>2. CASE FlushFails(t)  BY <1>1, <1>2, <2>2 DEF FlushFails
  <2>3. CASE ~SyncFails(t) /\ ~FlushFails(t)
    BY <1>3, <1>5, <2>3, Zenon DEF FlushStep, LeaveFlush, DropFlushRequest, PutBackFlush, StartFlush,
       SkipFlush, PickMemTable, InstallFlush, FlushNothing, FlushCancelled, EndFlush, faults
  <2>. QED  BY <2>1, <2>2, <2>3
<1>6. ASSUME NEW t \in CompactionThreads, CompactionStep(t)
      PROVE  FaultTypes'
  <2>1. CASE ManifestWriteFails(t)  BY <1>1, <1>2, <2>1 DEF ManifestWriteFails
  <2>2. CASE ~ManifestWriteFails(t)
    BY <1>3, <1>6, <2>2 DEF CompactionStep, LeaveCompaction, PickNothing, StartCompaction,
       NoRoomForCompaction, InstallCompaction, CompactionFails, CompactionFindsDropped,
       EndCompaction, faults
  <2>. QED  BY <2>1, <2>2
<1>7. ASSUME RecoveryStep
      PROVE  FaultTypes'
  <2>1. CASE StartRecovery  BY <2>1, Zenon DEF StartRecovery, FaultTypes
  <2>2. CASE NewManifest  BY <2>2 DEF NewManifest, FaultTypes
  <2>3. CASE NewManifestFails  BY <1>2, <2>3, Zenon DEF NewManifestFails, FaultTypes
  <2>4. CASE FlushAllColumnFamilies  BY <2>4, Zenon DEF FlushAllColumnFamilies, FaultTypes
  <2>5. CASE RetryFlushes
    <3>. DEFINE cfs == {cf \in ColumnFamilies \ dropped : NotFlushed(cf) # {}}
                waits == {[cf |-> cf, id |-> mems[cf]] : cf \in cfs}
    <3>1. cfs \subseteq ColumnFamilies  OBVIOUS
    <3>2. recovery' = [recovery EXCEPT !.pc = "flush", !.todo = {}, !.waits = waits]
          /\ bg_error' = bg_error
      BY <2>5 DEF RetryFlushes
    <3>. HIDE DEF cfs
    <3>3. waits \in SUBSET [cf : ColumnFamilies, id : Nat]  BY <3>1 DEF MemtableTypes
    <3>. HIDE DEF waits
    <3>. QED  BY <3>2, <3>3, Zenon DEF FaultTypes
  <2>6. ASSUME NEW cf \in ColumnFamilies, FlushMemTable(cf)  PROVE FaultTypes'
    <3>. DEFINE waits == {[cf |-> cf, id |-> mems'[cf]]}
                todo == recovery.todo \ {cf}
    <3>1. mems'[cf] \in Nat  BY <2>6 DEF FlushMemTable, SwitchMemtable, MemtableTypes
    <3>2. waits \in SUBSET [cf : ColumnFamilies, id : Nat]  BY <3>1
    <3>3. todo \in SUBSET ColumnFamilies  BY DEF FaultTypes
    <3>4. recovery' = [recovery EXCEPT !.todo = todo, !.waits = waits] /\ bg_error' = bg_error
      BY <2>6 DEF FlushMemTable, FaultTypes
    <3>. HIDE DEF waits, todo
    <3>. QED  BY <3>2, <3>3, <3>4, Zenon DEF FaultTypes
  <2>7. CASE RecoveryFlushed
    <3>. DEFINE todo == IF recovery.error THEN {} ELSE recovery.todo
    <3>1. todo \in SUBSET ColumnFamilies  BY DEF FaultTypes
    <3>2. recovery' = [recovery EXCEPT !.waits = {}, !.todo = todo] /\ bg_error' = bg_error
      BY <2>7 DEF RecoveryFlushed, WaitEnds, FaultTypes
    <3>. HIDE DEF todo
    <3>. QED  BY <3>1, <3>2, Zenon DEF FaultTypes
  <2>8. CASE RecoveryGivesUp  BY <2>8, Zenon DEF RecoveryGivesUp, WaitEnds, FaultTypes
  <2>9. CASE RecoveryFails  BY <2>9, Zenon DEF RecoveryFails, FaultTypes
  <2>10. CASE RecoverySucceeds  BY <2>10, Zenon DEF RecoverySucceeds, FaultTypes
  <2>. QED  BY <1>7, <2>1, <2>2, <2>3, <2>4, <2>5, <2>6, <2>7, <2>8, <2>9, <2>10 DEF RecoveryStep
<1>8. CASE DelayWrite  BY <1>3, <1>8 DEF DelayWrite, faults
<1>. QED  BY <1>4, <1>5, <1>6, <1>7, <1>8 DEF Next

LEMMA JobsStep ==
    ASSUME MemtableTypes, TreeTypes, JobTypes, QueuesInv, Next
    PROVE  JobTypes'
<1>1. ASSUME NEW t \in FlushThreads, NEW v \in FlushJobs,
             flush_job' = [flush_job EXCEPT ![t] = v], compaction_job' = compaction_job
      PROVE  JobTypes'
  BY <1>1 DEF JobTypes
<1>2. ASSUME NEW t \in CompactionThreads, NEW v \in CompactionJobs,
             compaction_job' = [compaction_job EXCEPT ![t] = v], flush_job' = flush_job
      PROVE  JobTypes'
  BY <1>2 DEF JobTypes
<1>3. {Idle, Ending} \subseteq FlushJobs \cap CompactionJobs  BY DEF FlushJobs, CompactionJobs
<1>4. ASSUME UNCHANGED <<flush_job, compaction_job>>  PROVE JobTypes'
  BY <1>4 DEF JobTypes
<1>5. ASSUME NEW cf \in ColumnFamilies, FillMemtable(cf) \/ DropColumnFamily(cf)
      PROVE  JobTypes'
  BY <1>4, <1>5 DEF FillMemtable, DropColumnFamily
<1>6. ASSUME NEW t \in FlushThreads, FlushStep(t)
      PROVE  JobTypes'
  <2>1. CASE StartFlush(t)
    <3>1. Request.cf \in ColumnFamilies /\ Request.reason \in FlushReasons
      BY <2>1, FlushTaken DEF StartFlush
    <3>2. [pc |-> "syncing", cf |-> Request.cf, reason |-> Request.reason,
           max_id |-> mems[Request.cf]] \in FlushJobs
      BY <3>1 DEF FlushJobs, MemtableTypes
    <3>. QED  BY <1>1, <2>1, <3>2, Zenon DEF StartFlush
  <2>2. CASE PickMemTable(t)
    <3>. DEFINE cf == flush_job[t].cf
                reason == flush_job[t].reason
                picked == {id \in imm[cf] : id <= flush_job[t].max_id}
                v == [pc |-> "flushing", cf |-> cf, reason |-> reason, mems |-> picked]
    <3>1. cf \in ColumnFamilies /\ reason \in FlushReasons
      BY <2>2, JobFamilies DEF PickMemTable
    <3>2. picked \subseteq Nat  BY <3>1 DEF MemtableTypes
    <3>3. flush_job' = [flush_job EXCEPT ![t] = v] /\ compaction_job' = compaction_job
      BY <2>2 DEF PickMemTable
    <3>. HIDE DEF cf, reason, picked
    <3>4. v \in FlushJobs  BY <3>1, <3>2 DEF FlushJobs
    <3>. HIDE DEF v
    <3>. QED  BY <1>1, <3>3, <3>4, Zenon
  <2>3. CASE ~StartFlush(t) /\ ~PickMemTable(t)
    BY <1>1, <1>3, <1>6, <2>3, Zenon DEF FlushStep, LeaveFlush, DropFlushRequest, PutBackFlush,
       SyncFails, SkipFlush, GiveUpFlush, InstallFlush, FlushNothing, FlushFails,
       FlushCancelled, RollbackMemtableFlush, EndFlush
  <2>. QED  BY <2>1, <2>2, <2>3
<1>7. ASSUME NEW t \in CompactionThreads, CompactionStep(t)
      PROVE  JobTypes'
  <2>1. CASE StartCompaction(t)
    <3>1. Candidate \in ColumnFamilies  BY <2>1, CompactionTaken DEF StartCompaction
    <3>2. PICK b \in Buckets :
            /\ l0[Candidate][b] > 0
            /\ compaction_job' = [compaction_job EXCEPT ![t] =
                 [pc |-> "compacting", cf |-> Candidate, bucket |-> b, files |-> l0[Candidate][b]]]
      BY <2>1, Zenon DEF StartCompaction
    <3>3. l0[Candidate][b] \in Nat \ {0}  BY <3>1, <3>2 DEF TreeTypes
    <3>4. [pc |-> "compacting", cf |-> Candidate, bucket |-> b, files |-> l0[Candidate][b]]
            \in CompactionJobs
      BY <3>1, <3>3 DEF CompactionJobs
    <3>5. flush_job' = flush_job  BY <2>1 DEF StartCompaction
    <3>. QED  BY <1>2, <3>2, <3>4, <3>5, Zenon
  <2>2. CASE ~StartCompaction(t)
    BY <1>2, <1>3, <1>7, <2>2 DEF CompactionStep, LeaveCompaction, PickNothing,
       NoRoomForCompaction, InstallCompaction, CompactionFails, CompactionFindsDropped,
       ManifestWriteFails, ReleaseFiles, EndCompaction
  <2>. QED  BY <2>1, <2>2
<1>8. ASSUME RecoveryStep
      PROVE  JobTypes'
  BY <1>4, <1>8, Zenon DEF RecoveryStep, StartRecovery, NewManifest, NewManifestFails, RetryFlushes,
     FlushAllColumnFamilies, FlushMemTable, RecoveryFlushed, RecoveryGivesUp, RecoveryFails,
     RecoverySucceeds, WaitEnds, UnchangedByRecovery
<1>9. CASE DelayWrite  BY <1>4, <1>9 DEF DelayWrite
<1>. QED  BY <1>5, <1>6, <1>7, <1>8, <1>9 DEF Next

LEMMA MemtablesStep ==
    ASSUME MemtableTypes, FlushingBounded, JobTypes, Next
    PROVE  MemtableTypes' /\ FlushingBounded'
<1>1. ASSUME UNCHANGED <<mems, imm, flush_job>>
      PROVE  MemtableTypes' /\ FlushingBounded'
  BY <1>1 DEF MemtableTypes, FlushingBounded
<1>2. ASSUME NEW cf \in ColumnFamilies, NEW reason, NEW waits, SwitchMemtable(cf, reason, waits),
             flush_job' = flush_job
      PROVE  MemtableTypes' /\ FlushingBounded'
  <2>1. /\ mems' = [mems EXCEPT ![cf] = mems[cf] + 1]
        /\ imm' = [imm EXCEPT ![cf] = imm[cf] \cup {mems[cf] + 1}]
    BY <1>2 DEF SwitchMemtable, MemtableTypes
  <2>2. mems' \in [ColumnFamilies -> Nat] /\ imm' \in [ColumnFamilies -> SUBSET Nat]
    BY <2>1 DEF MemtableTypes
  <2>3. \A c \in ColumnFamilies : mems[c] <= mems'[c]  BY <2>1 DEF MemtableTypes
  <2>4. \A c \in ColumnFamilies : \A id \in imm'[c] : id <= mems'[c]
    BY <2>1 DEF MemtableTypes
  <2>5. ASSUME NEW t \in FlushThreads, flush_job[t].pc = "flushing",
               NEW id \in flush_job[t].mems
        PROVE  id <= mems'[flush_job[t].cf]
    <3>1. flush_job[t].cf \in ColumnFamilies /\ id \in Nat  BY <2>5, JobFamilies
    <3>2. id <= mems[flush_job[t].cf]  BY <2>5 DEF FlushingBounded
    <3>. DEFINE c == flush_job[t].cf
                m == mems[c]
                k == mems'[c]
    <3>3. m \in Nat /\ k \in Nat /\ m <= k /\ id <= m
      BY <2>2, <2>3, <3>1, <3>2 DEF MemtableTypes
    <3>. HIDE DEF m, k
    <3>4. id <= k  BY <3>1, <3>3
    <3>. QED  BY <3>4 DEF k
  <2>. QED  BY <1>2, <2>2, <2>4, <2>5 DEF MemtableTypes, FlushingBounded
<1>3. ASSUME NEW cf \in ColumnFamilies, FillMemtable(cf)
      PROVE  MemtableTypes' /\ FlushingBounded'
  BY <1>2, <1>3 DEF FillMemtable
<1>4. ASSUME NEW cf \in ColumnFamilies, DropColumnFamily(cf)
      PROVE  MemtableTypes' /\ FlushingBounded'
  BY <1>1, <1>4 DEF DropColumnFamily, memtables
<1>5. ASSUME NEW t \in FlushThreads, FlushStep(t)
      PROVE  MemtableTypes' /\ FlushingBounded'
  <2>1. ASSUME NEW v, v.pc # "flushing", flush_job' = [flush_job EXCEPT ![t] = v],
               UNCHANGED <<mems, imm>>
        PROVE  MemtableTypes' /\ FlushingBounded'
    BY <2>1 DEF MemtableTypes, FlushingBounded, JobTypes
  <2>2. Idle.pc # "flushing" /\ Ending.pc # "flushing"  BY DEF Idle, Ending
  <2>3. CASE LeaveFlush(t) \/ DropFlushRequest(t) \/ PutBackFlush(t) \/ EndFlush(t)
    BY <2>1, <2>2, <2>3 DEF LeaveFlush, DropFlushRequest, PutBackFlush, EndFlush, memtables
  <2>4. CASE SyncFails(t) \/ SkipFlush(t)
    BY <2>1, <2>2, <2>4, Zenon DEF SyncFails, SkipFlush, GiveUpFlush, memtables
  <2>5. CASE InstallFlush(t) \/ FlushNothing(t)
    BY <2>1, <2>2, <2>5 DEF InstallFlush, FlushNothing, memtables
  <2>6. CASE StartFlush(t)
    <3>. DEFINE v == [pc |-> "syncing", cf |-> Request.cf, reason |-> Request.reason,
                      max_id |-> mems[Request.cf]]
    <3>1. v.pc # "flushing" /\ flush_job' = [flush_job EXCEPT ![t] = v]
          /\ UNCHANGED <<mems, imm>>
      BY <2>6 DEF StartFlush, memtables
    <3>. HIDE DEF v
    <3>. QED  BY <2>1, <3>1, Zenon
  <2>7. CASE PickMemTable(t)
    <3>. DEFINE cf == flush_job[t].cf
                picked == {id \in imm[cf] : id <= flush_job[t].max_id}
                v == [pc |-> "flushing", cf |-> cf, reason |-> flush_job[t].reason,
                      mems |-> picked]
    <3>1. cf \in ColumnFamilies  BY <2>7, JobFamilies DEF PickMemTable
    <3>2. /\ flush_job' = [flush_job EXCEPT ![t] = v]
          /\ imm' = [imm EXCEPT ![cf] = imm[cf] \ picked] /\ mems' = mems
      BY <2>7 DEF PickMemTable, MemtableTypes
    <3>3. v.cf = cf /\ v.mems = picked  OBVIOUS
    <3>4. \A id \in picked : id <= mems[cf]  BY <3>1 DEF MemtableTypes
    <3>. HIDE DEF cf, picked, v
    <3>5. MemtableTypes'  BY <3>1, <3>2 DEF MemtableTypes
    <3>6. FlushingBounded'  BY <3>2, <3>3, <3>4 DEF FlushingBounded, JobTypes
    <3>. QED  BY <3>5, <3>6
  <2>8. CASE FlushFails(t) \/ FlushCancelled(t)
    <3>. DEFINE cf == flush_job[t].cf
                back == flush_job[t].mems
    <3>1. cf \in ColumnFamilies /\ back \subseteq Nat
      BY <2>8, JobFamilies, Zenon DEF FlushFails, FlushCancelled
    <3>2. /\ flush_job' = [flush_job EXCEPT ![t] = Ending]
          /\ imm' = [imm EXCEPT ![cf] = imm[cf] \cup back] /\ mems' = mems
      BY <2>8, Zenon DEF FlushFails, FlushCancelled, RollbackMemtableFlush, MemtableTypes
    <3>3. \A id \in back : id <= mems[cf]
      BY <2>8, Zenon DEF FlushingBounded, FlushFails, FlushCancelled
    <3>. HIDE DEF cf, back
    <3>4. MemtableTypes'  BY <3>1, <3>2, <3>3, Zenon DEF MemtableTypes
    <3>5. FlushingBounded'  BY <2>2, <3>2 DEF FlushingBounded, JobTypes
    <3>. QED  BY <3>4, <3>5
  <2>. QED  BY <1>5, <2>3, <2>4, <2>5, <2>6, <2>7, <2>8 DEF FlushStep
<1>6. ASSUME NEW t \in CompactionThreads, CompactionStep(t)
      PROVE  MemtableTypes' /\ FlushingBounded'
  BY <1>1, <1>6 DEF CompactionStep, LeaveCompaction, PickNothing, StartCompaction,
     NoRoomForCompaction, InstallCompaction, CompactionFails, CompactionFindsDropped,
     ManifestWriteFails, ReleaseFiles, EndCompaction, memtables
<1>7. ASSUME RecoveryStep
      PROVE  MemtableTypes' /\ FlushingBounded'
  <2>1. ASSUME NEW cf \in ColumnFamilies, FlushMemTable(cf)
        PROVE  MemtableTypes' /\ FlushingBounded'
    BY <1>2, <2>1 DEF FlushMemTable, UnchangedByRecovery
  <2>2. CASE ~\E cf \in ColumnFamilies : FlushMemTable(cf)
    BY <1>1, <1>7, <2>2 DEF RecoveryStep, StartRecovery, NewManifest, NewManifestFails,
       RetryFlushes, FlushAllColumnFamilies, RecoveryFlushed, RecoveryGivesUp, RecoveryFails,
       RecoverySucceeds, WaitEnds, UnchangedByRecovery, memtables
  <2>. QED  BY <2>1, <2>2
<1>8. CASE DelayWrite  BY <1>1, <1>8 DEF DelayWrite, memtables
<1>. QED  BY <1>3, <1>4, <1>5, <1>6, <1>7, <1>8 DEF Next

LEMMA MaxOverlapType ==
    ASSUME NEW files \in [Buckets -> Nat], NEW n \in MaxOverlap(files)
    PROVE  n \in Nat /\ (n > 0 => \E b \in Buckets : files[b] > 0)
BY DEF MaxOverlap

LEMMA TreeStep ==
    ASSUME TreeTypes, JobTypes, QueuesInv, Next
    PROVE  TreeTypes'
<1>1. ASSUME UNCHANGED <<l0, l0_count, dropped>>  PROVE TreeTypes'
  BY <1>1 DEF TreeTypes
<1>2. ASSUME NEW cf \in ColumnFamilies, FillMemtable(cf) \/ DropColumnFamily(cf)
      PROVE  TreeTypes'
  BY <1>2 DEF FillMemtable, DropColumnFamily, TreeTypes, tree, clients
<1>3. ASSUME NEW t \in FlushThreads, FlushStep(t)
      PROVE  TreeTypes'
  <2>1. CASE InstallFlush(t)
    <3>. DEFINE cf == flush_job[t].cf
    <3>1. cf \in ColumnFamilies  BY <2>1, JobFamilies DEF InstallFlush
    <3>2. PICK written \in SUBSET Buckets :
            l0' = [l0 EXCEPT ![cf] = [b \in Buckets |->
                                      IF b \in written THEN @[b] + 1 ELSE @[b]]]
      BY <2>1, Zenon DEF InstallFlush
    <3>3. PICK n \in MaxOverlap(l0'[cf]) : l0_count' = [l0_count EXCEPT ![cf] = n]
      BY <2>1, Zenon DEF InstallFlush
    <3>4. dropped' = dropped  BY <2>1 DEF InstallFlush, clients
    <3>. HIDE DEF cf
    <3>5. l0' \in [ColumnFamilies -> [Buckets -> Nat]]  BY <3>1, <3>2 DEF TreeTypes
    <3>6. n \in Nat  BY <3>1, <3>5, MaxOverlapType
    <3>. QED  BY <3>1, <3>3, <3>4, <3>5, <3>6, Zenon DEF TreeTypes
  <2>2. CASE ~InstallFlush(t)
    BY <1>1, <1>3, <2>2, Zenon DEF FlushStep, LeaveFlush, DropFlushRequest, PutBackFlush, StartFlush,
       SyncFails, SkipFlush, GiveUpFlush, PickMemTable, FlushNothing, FlushFails,
       FlushCancelled, RollbackMemtableFlush, EndFlush, tree, clients
  <2>. QED  BY <2>1, <2>2
<1>4. ASSUME NEW t \in CompactionThreads, CompactionStep(t)
      PROVE  TreeTypes'
  <2>1. CASE StartCompaction(t)
    <3>1. Candidate \in ColumnFamilies  BY <2>1, CompactionTaken DEF StartCompaction
    <3>2. PICK b \in Buckets : l0' = [l0 EXCEPT ![Candidate][b] = 0]
      BY <2>1, Zenon DEF StartCompaction
    <3>3. UNCHANGED <<l0_count, dropped>>  BY <2>1 DEF StartCompaction, clients
    <3>. QED  BY <3>1, <3>2, <3>3 DEF TreeTypes
  <2>2. CASE InstallCompaction(t)
    <3>. DEFINE cf == compaction_job[t].cf
    <3>1. cf \in ColumnFamilies  BY <2>2, JobFamilies DEF InstallCompaction
    <3>2. PICK n \in MaxOverlap(l0[cf]) : l0_count' = [l0_count EXCEPT ![cf] = n]
      BY <2>2, Zenon DEF InstallCompaction
    <3>3. UNCHANGED <<l0, dropped>>  BY <2>2 DEF InstallCompaction, clients
    <3>. HIDE DEF cf
    <3>4. n \in Nat  BY <3>1, MaxOverlapType DEF TreeTypes
    <3>. QED  BY <3>1, <3>2, <3>3, <3>4 DEF TreeTypes
  <2>3. ASSUME compaction_job[t].pc = "compacting", ReleaseFiles(t)
        PROVE  TreeTypes'
    <3>. DEFINE cf == compaction_job[t].cf
                b == compaction_job[t].bucket
                n == compaction_job[t].files
    <3>1. cf \in ColumnFamilies /\ b \in Buckets /\ n \in Nat  BY <2>3, JobFamilies
    <3>2. l0' = [l0 EXCEPT ![cf][b] = @ + n] /\ UNCHANGED <<l0_count, dropped>>
      BY <2>3 DEF ReleaseFiles, clients
    <3>. HIDE DEF cf, b, n
    <3>. QED  BY <3>1, <3>2 DEF TreeTypes
  <2>4. CASE CompactionFails(t) \/ CompactionFindsDropped(t) \/ ManifestWriteFails(t)
    BY <2>3, <2>4 DEF CompactionFails, CompactionFindsDropped, ManifestWriteFails
  <2>5. CASE LeaveCompaction(t) \/ PickNothing(t) \/ NoRoomForCompaction(t) \/ EndCompaction(t)
    BY <1>1, <2>5 DEF LeaveCompaction, PickNothing, NoRoomForCompaction, EndCompaction,
       tree, clients
  <2>. QED  BY <1>4, <2>1, <2>2, <2>4, <2>5 DEF CompactionStep
<1>5. ASSUME RecoveryStep
      PROVE  TreeTypes'
  <2>1. CASE NewManifest
    <3>1. PICK n \in MaxOverlap(l0[DefaultColumnFamily]) :
            l0_count' = [l0_count EXCEPT ![DefaultColumnFamily] = n]
      BY <2>1, Zenon DEF NewManifest
    <3>2. n \in Nat  BY <3>1, MaxOverlapType, BackgroundAssumption DEF TreeTypes
    <3>3. UNCHANGED <<l0, dropped>>  BY <2>1 DEF NewManifest, UnchangedByRecovery, clients
    <3>. QED  BY <3>1, <3>2, <3>3, Zenon DEF TreeTypes
  <2>2. CASE ~NewManifest
    BY <1>1, <1>5, <2>2, Zenon DEF RecoveryStep, StartRecovery, NewManifestFails, RetryFlushes,
       FlushAllColumnFamilies, FlushMemTable, RecoveryFlushed, RecoveryGivesUp, RecoveryFails,
       RecoverySucceeds, WaitEnds, UnchangedByRecovery, clients
  <2>. QED  BY <2>1, <2>2
<1>6. CASE DelayWrite  BY <1>1, <1>6 DEF DelayWrite, tree
<1>. QED  BY <1>2, <1>3, <1>4, <1>5, <1>6 DEF Next

LEMMA QueueIInvStep == QueueIInv /\ [Next]_vars => QueueIInv'
<1>. SUFFICES ASSUME QueueIInv, [Next]_vars PROVE QueueIInv'  OBVIOUS
<1>1. CASE Next
  <2>1. recovery.reason \in RecoveryReasons  BY DEF QueueIInv, FaultTypes
  <2>. QED
    BY <1>1, <2>1, QueuesStep, FaultsStep, JobsStep, MemtablesStep, TreeStep DEF QueueIInv
<1>2. CASE UNCHANGED vars
  BY <1>2 DEF vars, QueueIInv, MemtableTypes, FlushingBounded, TreeTypes, FaultTypes, JobTypes,
     QueuesInv, BusyFlushes, BusyCompactions
<1>. QED  BY <1>1, <1>2

LEMMA QueueIInvAlways == Spec => []QueueIInv
BY QueueIInvInit, QueueIInvStep, PTL DEF Spec

(***************************************************************************)
(* Every state is well-typed: in particular no counter of scheduled or     *)
(* unscheduled jobs falls below 0 or above its limit (the code asserts     *)
(* this of some), and no thread takes an entry of an empty queue.          *)
(***************************************************************************)
THEOREM BackgroundTypeOK == Spec => []TypeOK
BY QueueIInvAlways, QueueIInvImplies, PTL

(***************************************************************************)
(* Every entry of the compaction queue has exactly one job, scheduled or   *)
(* still to be, and no job finds its queue empty, whatever jobs run and    *)
(* errors come (MaybeScheduleFlushOrCompaction, BackgroundCompaction).     *)
(***************************************************************************)
THEOREM EntriesHaveJobs == Spec => []QueuesAccounted
BY QueueIInvAlways, QueueIInvImplies, PTL

(***************************************************************************)
(* queued_for_flush_ says exactly which column families are in the flush   *)
(* queue, each of them once (EnqueuePendingFlush, PopFirstFromFlushQueue). *)
(***************************************************************************)
THEOREM FlushFlagsTrue == Spec => []FlushFlagsExact
BY QueueIInvAlways, QueueIInvImplies, PTL

(***************************************************************************)
(* A column family flagged as queued for compaction is in the queue        *)
(* (EnqueuePendingCompaction, PickCompactionFromQueue).                    *)
(***************************************************************************)
THEOREM CompactionFlagsBacked == Spec => []FlaggedQueued
BY QueueIInvAlways, QueueIInvImplies, PTL

=============================================================================
