---------------------------- MODULE MCFreeSlots ----------------------------
(* A small instance of FreeSlots for TLC. *)
EXTENDS FreeSlots

ThreeTimes == {0, 3, 5}
ThreeDates == 0 .. 2
FivePoints == {2, 5, 6, 8, 10}
\* The clock never changes; it skips the times 2 to 4 of date 1; it repeats 3 and 4.
ThreeZones == {[before |-> 2, after |-> 2, at |-> 0],
               [before |-> 0, after |-> 3, at |-> 8],
               [before |-> 3, after |-> 1, at |-> 8]}
=============================================================================
