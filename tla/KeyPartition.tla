---------------------------- MODULE KeyPartition ----------------------------
(***************************************************************************)
(* What the users of a bucket manager rely on, without its statistics: a   *)
(* partition of the key space, given by its boundaries, that is opened     *)
(* once and then changes by one boundary at a time, each time under a new  *)
(* version; and users that look at one version for as long as they like,   *)
(* while the partition moves on.                                           *)
(***************************************************************************)
EXTENDS Integers, Sequences

CONSTANTS
    Users,      \* those who look at the partition
    Key,        \* the keys a boundary may be
    NoView      \* a user that looks at no version

VARIABLES
    opened,     \* the partition exists
    boundaries, \* the keys it is cut at
    version,    \* how often it has changed
    views       \* the version each user looks at, with its boundaries

vars == <<opened, boundaries, version, views>>

Init ==
    /\ opened = FALSE
    /\ boundaries = << >>
    /\ version = 0
    /\ views = [u \in Users |-> NoView]

Open ==
    /\ ~opened
    /\ opened' = TRUE
    /\ boundaries' \in Seq(Key)
    /\ UNCHANGED <<version, views>>

Change ==
    /\ opened
    /\ version' = version + 1
    /\ UNCHANGED <<opened, views>>

InsertBoundary ==
    /\ Change
    /\ Len(boundaries') = Len(boundaries) + 1
    /\ \E i \in 1..(Len(boundaries) + 1) :
          /\ boundaries'[i] \in Key
          /\ boundaries' = SubSeq(boundaries, 1, i - 1) \o <<boundaries'[i]>>
                           \o SubSeq(boundaries, i, Len(boundaries))

RemoveBoundary ==
    /\ Change
    /\ \E i \in 1..Len(boundaries) :
          boundaries' = SubSeq(boundaries, 1, i - 1) \o SubSeq(boundaries, i + 1, Len(boundaries))

Look(u) ==
    /\ opened
    /\ views[u] = NoView
    /\ views' = [views EXCEPT ![u] = [version |-> version, boundaries |-> boundaries]]
    /\ UNCHANGED <<opened, boundaries, version>>

LookAway(u) ==
    /\ views' = [views EXCEPT ![u] = NoView]
    /\ UNCHANGED <<opened, boundaries, version>>

Next ==
    \/ Open
    \/ InsertBoundary
    \/ RemoveBoundary
    \/ \E u \in Users : Look(u) \/ LookAway(u)

Spec == Init /\ [][Next]_vars
=============================================================================
