--------------------------- MODULE BucketPartition ---------------------------
(***************************************************************************)
(* The bucket manager as a KeyPartition: its boundaries are the upper      *)
(* bounds of all buckets but the last, its version is structure_epoch_,    *)
(* and its users are the flush jobs, from GetSnapshot to their end.        *)
(***************************************************************************)
EXTENDS BucketManager

Boundaries(bs) == [i \in 1..(Len(bs) - 1) |-> bs[i].max_key]

\* A flush job that has no snapshot.
NoView == [version |-> -1, boundaries |-> << >>]

View(j) ==
    IF pc[j] = "build"
    THEN [version |-> snap[j].epoch, boundaries |-> Boundaries(snap[j].ranges)]
    ELSE NoView

Abstract == INSTANCE KeyPartition WITH
    Users <- Jobs,
    opened <- initialized,
    boundaries <- Boundaries(buckets),
    version <- structure_epoch,
    views <- [j \in Jobs |-> View(j)]

(***************************************************************************)
(* The manager implements the partition: initialization, by whichever of   *)
(* two first flushes comes first, opens it once; a split adds exactly one  *)
(* boundary and a merge removes exactly one, each with a new epoch; flush  *)
(* results, windows and the collection of compacted buckets never move a   *)
(* boundary; and a snapshot shows the boundaries of its epoch until its    *)
(* flush ends.                                                             *)
(***************************************************************************)
ImplementsPartition == Abstract!Spec
=============================================================================
