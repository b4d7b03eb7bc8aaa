---------------------------- MODULE ReplayWindow ----------------------------
(***************************************************************************)
(* What the check of sequence numbers promises, without the ring.  A       *)
(* number is recorded at most once; a number newer than all recorded ones  *)
(* is always recorded, and the status tells whether numbers are missing    *)
(* before it; an older number is recorded as out of sequence, reported as  *)
(* a duplicate only if it is one, or refused.                              *)
(***************************************************************************)
EXTENDS Integers, FiniteSetsExt

CONSTANT Number

VARIABLES
    recorded,   \* the numbers recorded so far
    last        \* the last number checked and the status returned for it

vars == <<recorded, last>>

Newest == Max(recorded \cup {-1})

Report(n, verdict) == last' = [seq |-> n, verdict |-> verdict]

RecordNew(n) ==
    /\ n > Newest
    /\ recorded' = recorded \cup {n}
    /\ Report(n, IF n = Newest + 1 THEN "COMPLETE" ELSE "GAP")

RecordLate(n) ==
    /\ n < Newest
    /\ n \notin recorded
    /\ recorded' = recorded \cup {n}
    /\ Report(n, "UNSEQ")

ReportDuplicate(n) ==
    /\ n \in recorded
    /\ Report(n, "DUPLICATE")
    /\ UNCHANGED recorded

Refuse(n) ==
    /\ n < Newest
    /\ Report(n, "FAILURE")
    /\ UNCHANGED recorded

Init ==
    /\ recorded = {}
    /\ last = [seq |-> -1, verdict |-> "COMPLETE"]

Next ==
    \E n \in Number : RecordNew(n) \/ RecordLate(n) \/ ReportDuplicate(n) \/ Refuse(n)

Spec == Init /\ [][Next]_vars
=============================================================================
