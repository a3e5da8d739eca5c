------------------------------- MODULE Escrow -------------------------------
(***************************************************************************)
(* What the marketplace promises about a student's money, with nothing of  *)
(* how it is done: no tasks, no webhooks, no sweeps.  A payment's money is *)
(* secured, then either returned to the student or owed to the tutor, and  *)
(* owed money is paid, once.  It counts what each tutor was credited: the  *)
(* balance stored in the tutor's row, which others overwrite, is no part   *)
(* of it.                                                                  *)
(***************************************************************************)
EXTENDS Money

CONSTANTS Bookings, Tutors, Payments, TutorOf, BookingOf, Price

VARIABLES deal,     \* where each payment's money is
          due,      \* how much of it is the tutor's
          credited  \* what each tutor was credited, in all

escrowVars == <<deal, due, credited>>

DealStatus == {"open", "secured", "owed", "paid", "returned"}
Funded(p) == deal[p] \in {"secured", "owed", "paid"}

EscrowTypeOK ==
    /\ deal \in [Payments -> DealStatus]
    /\ due \in [Payments -> Nat]
    /\ credited \in [Tutors -> Nat]

Init ==
    /\ deal = [p \in Payments |-> "open"]
    /\ due = [p \in Payments |-> 0]
    /\ credited = [t \in Tutors |-> 0]

\* A booking has at most one payment whose money is taken from the student.
Secure(p) ==
    /\ deal[p] = "open"
    /\ \A q \in Payments : BookingOf[q] = BookingOf[p] => ~ Funded(q)
    /\ deal' = [deal EXCEPT ![p] = "secured"]
    /\ UNCHANGED <<due, credited>>

\* The whole of the money goes back, before any of it was earned.
Return(p) ==
    /\ deal[p] \in {"open", "secured"}
    /\ deal' = [deal EXCEPT ![p] = "returned"]
    /\ UNCHANGED <<due, credited>>

\* The lesson was given, or cancelled late: from here on nothing goes back.
Owe(p) ==
    /\ deal[p] = "secured"
    /\ deal' = [deal EXCEPT ![p] = "owed"]
    /\ \E amount \in 0..Price[BookingOf[p]] : due' = [due EXCEPT ![p] = amount]
    /\ UNCHANGED credited

Pay(p) ==
    /\ deal[p] = "owed"
    /\ deal' = [deal EXCEPT ![p] = "paid"]
    /\ credited' = [credited EXCEPT ![TutorOf[BookingOf[p]]] = @ + Payout(due[p], StandardRate)]
    /\ UNCHANGED due

Next == \E p \in Payments : Secure(p) \/ Return(p) \/ Owe(p) \/ Pay(p)

Spec == Init /\ [][Next]_escrowVars
=============================================================================
