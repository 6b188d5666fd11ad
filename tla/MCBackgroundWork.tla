-------------------------- MODULE MCBackgroundWork --------------------------
(* Instances of BackgroundWork for TLC.                                     *)
EXTENDS BackgroundWork, TLC

CONSTANTS c1, c2
MCBuckets == 1..2
OneFamily == c1 :> 3
TwoFamilies == c1 :> 1 @@ c2 :> 1
MoreMemtables == c1 :> 2 @@ c2 :> 1
=============================================================================
