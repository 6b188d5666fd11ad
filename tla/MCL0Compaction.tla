--------------------------- MODULE MCL0Compaction ---------------------------
(* Instances of L0Compaction for TLC.                                       *)
EXTENDS L0Compaction

\* Two buckets, one that had a single key before, and a flush from before
\* their boundary, whose file spans both.
MCKeys == 1..3
MCFlushes == {{{1, 2}, {3}}, {{2}}, {{1, 3}}}

\* One bucket: the ranges of all files are the same.
MCOneBucket == {{1..3}}
=============================================================================
