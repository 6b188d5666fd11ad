--------------------------- MODULE MCBucketManager ---------------------------
(* Instances of BucketManager for TLC. *)
EXTENDS BucketPartition, TLC

Mem(keys) == [keys |-> keys, range_dels |-> 0]

(***************************************************************************)
(* Distinct one-byte keys that do not start with a 0 or 1 byte: a memtable *)
(* spread over the key space and one skewed to its low end, whose range    *)
(* deletion leaves the iterator short of the last split point.             *)
(***************************************************************************)
SpreadMemtable == Mem(<< <<10>>, <<20>>, <<30>>, <<40>> >>)
SkewedMemtable == [keys |-> << <<10>>, <<11>>, <<12>> >>, range_dels |-> 1]
PlainMemtables == {SpreadMemtable, SkewedMemtable}
PlainInputs == {{<<10>>}, {<<10>>, <<30>>}}

\* One job, with a memtable too small to give any split point.
SequentialMemtables == PlainMemtables \cup {Mem(<< <<40>> >>)}
SequentialInputs == {{<<40>>}, {<<10>>, <<30>>}}

(***************************************************************************)
(* One hot key: four of the five entries are versions of <<20>>.           *)
(***************************************************************************)
HotMemtables == {Mem(<< <<10>>, <<20>>, <<20>>, <<20>>, <<20>> >>)}
HotInputs == {{<<20>>}}

\* After it, one whose keys share that hot one as their prefix.
HotPrefixMemtables == {Mem(<< <<20>>, <<20>>, <<20>>, <<20>>, <<20, 133>> >>),
                       Mem(<< <<20>>, <<20, 69>>, <<20, 129>> >>)}

JobSymmetry == Permutations(Jobs)
=============================================================================
