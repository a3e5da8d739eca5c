--------------------------- MODULE MCSettlement ---------------------------
(* Small instances of Settlement for TLC. *)
EXTENDS SettlementEscrow, TLC

CONSTANTS b1, p1, p2, t1, w1, w2

\* One lesson, which may be paid for twice over.
OneBooking == {b1}
TwoPayments == {p1, p2}
BothOfB1 == (p1 :> b1) @@ (p2 :> b1)
T1OfB1 == b1 :> t1
PriceB1 == b1 :> 15

\* One lesson with a single payment.
OnePayment == {p1}
P1OfB1 == p1 :> b1

OneTutor == {t1}
PercentRange == {0, 50, 100}
AllFaults == FaultKinds
HoldEvents == {"hold_succeeded", "hold_failed"}
Slots == Permutations(Workers)
SlotsAndPayments == Permutations(Workers) \cup Permutations(Payments)

\* A tutor's balance is what the captures credited: "earnings after commission,
\* credited when the payment is captured" (catalog/models.py:45-46).
BalanceIsCredits == \A t \in Tutors : balance[t] = credited[t]
=============================================================================
