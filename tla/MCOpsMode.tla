----------------------------- MODULE MCOpsMode -----------------------------
(* Readings on each side of every threshold of OpsMode's configurations. *)
EXTENDS OpsMode

Reading(l, d, q) == [load |-> l, disk |-> d, queue |-> q]

Quiet       == Reading(0, 0, 0)
BetweenLoad == Reading(2, 0, 0)  \* above LoadGo, below LoadPause
Elevated    == Reading(3, 0, 0)
Overloaded  == Reading(4, 0, 0)
DiskFull    == Reading(0, 5, 0)
DiskTight   == Reading(0, 3, 0)  \* below the threshold, not yet 2 points below
QueueDeep   == Reading(0, 0, 4)
QueueHalf   == Reading(3, 0, 2)  \* elevated load, queue at half its threshold

AllReadings == {Quiet, BetweenLoad, Elevated, Overloaded, DiskFull, DiskTight,
                QueueDeep, QueueHalf}
=============================================================================
