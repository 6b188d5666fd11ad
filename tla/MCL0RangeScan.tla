---------------------------- MODULE MCL0RangeScan ----------------------------
(***************************************************************************)
(* Instances of L0RangeScan for TLC: every way to put some of the keys in  *)
(* three files, so ranges are apart, nested or crossing.                   *)
(***************************************************************************)
EXTENDS L0RangeScan

MCKeys == 1..5
\* 0 stands for a key that no file holds; files are numbered by their first key.
Owners ==
    {owner \in [MCKeys -> 0..3] :
        \A k \in MCKeys : owner[k] > 1 => \E j \in 1..k : owner[j] = owner[k] - 1}
MCLevels ==
    {[f \in Range(owner) \ {0} |-> {k \in MCKeys : owner[k] = f}] : owner \in Owners}
=============================================================================
