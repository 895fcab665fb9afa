-------------------------- MODULE MCSegmentedPool --------------------------
(* Small plans for SegmentedPool.                                          *)
EXTENDS SegmentedPool

\* One chunk of two bytes (a Read may return less than is owed) and one of one.
PlanTwo == <<[start |-> 0, end |-> 1], [start |-> 2, end |-> 2]>>

\* More chunks than slots.
PlanThree == <<[start |-> 0, end |-> 0], [start |-> 1, end |-> 1],
               [start |-> 2, end |-> 2]>>

AllFaults == Kinds
NoFaults == {}
NetFaults == {"net"}

=============================================================================
