---------------------------- MODULE MCBucketFlush ----------------------------
(***************************************************************************)
(* Instances of BucketFlush for TLC: two keys, and snapshots with one      *)
(* bucket or with one bucket for each key.                                 *)
(***************************************************************************)
EXTENDS BucketFlush

MCKeys == {1, 2}
MCPartitions == {<<{1, 2}>>, <<{1}, {2}>>}
MCPut(ks) == [puts |-> ks, range_dels |-> {}]
MCPuts == {MCPut({1, 2}), MCPut({2})}
MCPutAll == {MCPut({1, 2})}
MCDeletes == {MCPut({1, 2}), [puts |-> {}, range_dels |-> {1}],
              [puts |-> {2}, range_dels |-> {1}]}
=============================================================================
