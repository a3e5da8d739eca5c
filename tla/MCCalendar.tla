---------------------------- MODULE MCCalendar ----------------------------
(* Small instances of TutorCalendar for TLC. *)
EXTENDS TutorCalendar, TLC

CONSTANTS w1, w2, b1, b2, r1, r2

ThreePoints == 0..2
Symmetric == Permutations(Workers) \cup Permutations(Bookings) \cup Permutations(Rules)
=============================================================================
