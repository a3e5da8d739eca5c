----------------------------- MODULE MCRowLocks -----------------------------
(* A small instance of RowLocks for TLC. *)
EXTENDS RowLocks, TLC

CONSTANTS s1, s2, s3, b1, p1, p2, t1, e1, e2

\* One lesson, two attempts to pay for it, and what the PSP says of each.
BothOfB1 == p1 :> b1 @@ p2 :> b1
TutorOfB1 == b1 :> t1
OneAboutEach == e1 :> p1 @@ e2 :> p2
TwoTypes == e1 :> "hold_succeeded" @@ e2 :> "hold_failed"
=============================================================================
