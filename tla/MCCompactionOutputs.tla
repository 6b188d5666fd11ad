------------------------ MODULE MCCompactionOutputs ------------------------
EXTENDS CompactionOutputs

CONSTANT MaxMixedUser   \* user keys of the mixed inputs

K(u, s) == [user |-> u, seq |-> s]

File(a, b, bytes) == [smallest |-> a, largest |-> b, bytes |-> bytes]

\* The writes of the mixed inputs, oldest first, have the sequence numbers 2..5.
Put(u) == [del |-> FALSE, user |-> u]

DeleteRange(a, b) == [del |-> TRUE, start |-> a, end |-> b]

Writes == {Put(u) : u \in 1..MaxMixedUser}
              \cup UNION {{DeleteRange(a, b) : b \in (a + 1)..(MaxMixedUser + 1)} :
                             a \in 1..MaxMixedUser}

Input(h) ==
    [points |-> {K(h[s].user, s) : s \in {q \in DOMAIN h : ~h[q].del}},
     tombstones |-> {[start |-> h[s].start, end |-> h[s].end, seq |-> s] :
                        s \in {q \in DOMAIN h : h[q].del}},
     old_files |-> <<>>]

\* Files below: one whose end is that of a range tombstone, two that share a
\* user key, small ones and large ones.
EndsInTombstone == <<File(K(2, 1), K(3, kMaxSequenceNumber), 100)>>

SharesKey == <<File(K(1, 1), K(2, 1), 300), File(K(2, 0), K(3, 0), 300)>>

SmallFiles == <<File(K(1, 1), K(1, 1), 20), File(K(2, 1), K(3, 1), 20), File(K(3, 0), K(4, 1), 20)>>

LargeFiles == <<File(K(1, 1), K(2, 1), 300), File(K(3, 1), K(3, 1), 200), File(K(5, 1), K(6, 1), 300)>>

\* Every combination would be checked in the same way; these meet each value
\* of each setting, and both subcompactions with and without files below.
MixedSettings ==
    {[snapshots |-> m[1], next_level |-> m[2], buckets |-> None,
      boundaries |-> m[3], cursor |-> None, partitioned |-> TRUE] :
        m \in {<<{}, <<>>, <<2>>>>, <<{3}, <<>>, <<>>>>, <<{3}, EndsInTombstone, <<2>>>>,
               <<{3}, SharesKey, <<2>>>>}}

Mixed == [writes |-> {Input(h) : h \in [2..5 -> Writes]}, settings |-> MixedSettings]

\* The dense inputs: under each of five user keys a put of L1, or one of L1 and
\* a newer one of L0, or nothing; with or without a range deletion of L0.
\* The L1 files are those of the user keys 1 to 2, 3, and 4 to 5.
DenseInput(h, tombstones, ttl) ==
    LET old(ua, ub) == {u \in ua..ub : h[u] # "none"}
        files_of(ua, ub) ==
            IF old(ua, ub) = {} THEN <<>>
            ELSE <<File(K(Min(old(ua, ub)), 2), K(Max(old(ua, ub)), 2), 100)>>
    IN  [points |-> {K(u, 2) : u \in old(1, 5)} \cup {K(u, 5) : u \in {v \in 1..5 : h[v] = "both"}},
         tombstones |-> tombstones,
         old_files |-> IF ttl THEN files_of(1, 2) \o files_of(3, 3) \o files_of(4, 5) ELSE <<>>]

DenseInputs(ttls) ==
    {DenseInput(h, t, ttl) :
        h \in {g \in [1..5 -> {"none", "old", "both"}] : \E u \in 1..5 : g[u] # "none"},
        t \in {{}, {[start |-> 2, end |-> 4, seq |-> 4]}},
        ttl \in ttls}

DenseSettings(below, buckets, split, cursor) ==
    [snapshots |-> {3}, next_level |-> below, buckets |-> buckets,
     boundaries |-> split, cursor |-> cursor, partitioned |-> FALSE]

Dense ==
    [writes |-> DenseInputs(BOOLEAN),
     settings |-> {DenseSettings(SmallFiles, None, <<>>, None),
                   DenseSettings(LargeFiles, {2, 4}, <<>>, None),
                   DenseSettings(SmallFiles, {3}, <<4>>, None)}]

\* The cursor exists only with kRoundRobin, the cuts for TTL only with
\* kMinOverlappingRatio.
RoundRobin ==
    [writes |-> DenseInputs({FALSE}),
     settings |-> {DenseSettings(LargeFiles, {4}, <<>>, K(3, 2)),
                   DenseSettings(SmallFiles, None, <<4>>, K(2, 5))}]

MCWorkloads == {Mixed, Dense, RoundRobin}
=============================================================================
