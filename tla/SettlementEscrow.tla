-------------------------- MODULE SettlementEscrow --------------------------
(***************************************************************************)
(* Settlement implements Escrow: where each payment's money is follows     *)
(* from the status of the payment and of its booking.                      *)
(***************************************************************************)
EXTENDS SettlementProperties

DealOf(p) ==
    CASE pstatus[p] \in {"none", "created"} -> "open"
      [] pstatus[p] = "held" /\ ~ Earned(p) -> "secured"
      [] pstatus[p] = "held" /\ Earned(p) -> "owed"
      [] pstatus[p] = "captured" -> "paid"
      [] OTHER -> "returned"

DueOf(p) ==
    IF pstatus[p] \in {"held", "captured"} /\ Earned(p)
    THEN IF bstatus[BookingOf[p]] = "completed" THEN AmountOf(p) ELSE retained[p]
    ELSE 0

Deal == [p \in Payments |-> DealOf(p)]
Due == [p \in Payments |-> DueOf(p)]

Ideal == INSTANCE Escrow WITH deal <- Deal, due <- Due

\* Whatever the requests, webhooks, tasks, sweeps and faults do, and in whatever
\* order, each of their steps is a step of the escrow or leaves it unchanged:
\* the payments behind one booking are funded once, go back whole or are owed,
\* and what is owed is paid once, at the payout of what is due
\* (payments/models.py:5-8, services.py:313-326).  The escrow counts the credits;
\* a save of the profile form, which may put an older balance back into the
\* tutor's row (catalog/views.py:167-168), leaves it unchanged.
ImplementsEscrow == Ideal!Spec
=============================================================================
