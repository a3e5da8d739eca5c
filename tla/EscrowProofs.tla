---------------------------- MODULE EscrowProofs ----------------------------
(***************************************************************************)
(* Settlement implements Escrow, what its steps may never do, and the      *)
(* ledger of the tutors' credits, for every value of the constants.        *)
(***************************************************************************)
EXTENDS SettlementEscrow, SettlementProofs, FiniteSetTheorems

USE ForeignKeys, PriceAssumption, PercentAssumption, BoundAssumption, SetAssumption

-----------------------------------------------------------------------------
\* The steps that move a status or an amount, and the steps that do not.

MovesBooking(b) == \/ CancelByStudent(b) \/ CancelByTutor(b) \/ ExpireBooking(b)
                   \/ MarkNoShow(b) \/ CompleteBooking(b)
Quiet == UNCHANGED <<bstatus, pstatus, retained, credited>>

LEMMA Movers ==
    ASSUME [Next]_vars
    PROVE  \/ Quiet
           \/ \E b \in Bookings : InitiatePayment(b) \/ MovesBooking(b)
           \/ \E e \in Events : ConfirmHold(e) \/ FailAndRelease(e) \/ HoldFailed(e)
           \/ \E w \in Workers : CaptureAndCredit(w)
  <1> USE DEF Quiet, MovesBooking, bookingVars, paymentVars, tutorVars
  <1>1. ASSUME NEW b \in Bookings, Requests(b) \/ Clock(b)
        PROVE  Quiet \/ InitiatePayment(b) \/ MovesBooking(b)
    BY <1>1 DEF Requests, Clock, BecomeStale, PassPhase
  <1>2. ASSUME Sweeps \/ SweepDies
        PROVE  Quiet \/ \E b \in Bookings : MovesBooking(b)
    BY <1>2 DEF Sweeps, ScanPending, ScanFinished, SkipExpired, SkipCompleted, SweepDies
  <1>3. ASSUME NEW p \in Payments, PayerAuthorizes(p) PROVE Quiet
    BY <1>3 DEF PayerAuthorizes
  <1>4. ASSUME NEW e \in Events, Notify(e) \/ Redeliver(e) \/ HandleEvent(e) \/ HandlerDies(e)
        PROVE  Quiet \/ ConfirmHold(e) \/ FailAndRelease(e) \/ HoldFailed(e)
    BY <1>4 DEF Notify, Redeliver, HandlerDies, HandleEvent, UnknownHold, HoldAlreadyApplied,
                HoldNotConfirmable, EchoRecorded
  <1>5. ASSUME NEW w \in Workers, Work(w) \/ WorkerFaults(w)
        PROVE  Quiet \/ CaptureAndCredit(w)
    BY <1>5 DEF Work, WorkerFaults, TakeTask, SkipTask, CreateHold, StoreHoldId,
                ReleaseIfFailed, Capture, Release, CallFails, ReplyLost, WorkerDies, Retry
  <1>6. ASSUME NEW m \in Messages, Duplicate(m) PROVE Quiet
    BY <1>6 DEF Duplicate
  <1>7. ASSUME NEW t \in Tutors, LoadProfile(t) \/ SaveProfile(t) PROVE Quiet
    BY <1>7 DEF LoadProfile, SaveProfile
  <1>8. ASSUME UNCHANGED vars PROVE Quiet
    BY <1>8 DEF vars
  <1> HIDE DEF Quiet, MovesBooking
  <1> QED
    BY <1>1, <1>2, <1>3, <1>4, <1>5, <1>6, <1>7, <1>8 DEF Next

\* A booking keeps a final status.
LEMMA FinalStatus ==
    ASSUME IInv, [Next]_vars, NEW c \in Bookings, bstatus[c] \notin {"pending", "confirmed"}
    PROVE  bstatus'[c] = bstatus[c]
  <1> USE DEF IInv, TypeOK
  <1>1. CASE Quiet
    BY <1>1 DEF Quiet
  <1>2. ASSUME NEW b \in Bookings, InitiatePayment(b) \/ MovesBooking(b)
        PROVE  bstatus'[c] = bstatus[c]
    BY <1>2 DEF InitiatePayment, MovesBooking, CancelByStudent, CancelByTutor, ExpireBooking,
                MarkNoShow, CompleteBooking, bookingVars
  <1>3. ASSUME NEW e \in Events, ConfirmHold(e) \/ FailAndRelease(e) \/ HoldFailed(e)
        PROVE  bstatus'[c] = bstatus[c]
    BY <1>3 DEF ConfirmHold, FailAndRelease, HoldFailed, bookingVars
  <1>4. ASSUME NEW w \in Workers, CaptureAndCredit(w) PROVE bstatus'[c] = bstatus[c]
    BY <1>4 DEF CaptureAndCredit, bookingVars
  <1> QED
    BY <1>1, <1>2, <1>3, <1>4, Movers

-----------------------------------------------------------------------------
\* What each kind of step does to the deals.

\* A payment whose status, booking and retained amount stay keeps its deal.
LEMMA SameDeal ==
    ASSUME NEW q \in Payments, pstatus'[q] = pstatus[q], retained'[q] = retained[q],
           bstatus'[BookingOf[q]] = bstatus[BookingOf[q]]
    PROVE  DealOf(q)' = DealOf(q) /\ DueOf(q)' = DueOf(q)
  BY DEF DealOf, DueOf, Earned, AmountOf

\* A payment that is over keeps its deal whatever happens to its booking.
LEMMA OverKeepsDeal ==
    ASSUME NEW q \in Payments, pstatus'[q] = pstatus[q],
           pstatus[q] \in {"none", "refunded", "failed"}
    PROVE  DealOf(q)' = DealOf(q) /\ DueOf(q)' = DueOf(q)
  BY DEF DealOf, DueOf

\* The step of one payment's deal.
LEMMA OneDeal ==
    ASSUME NEW p \in Payments, NEW d, DealOf(p)' = d,
           \A q \in Payments \ {p} : DealOf(q)' = DealOf(q)
    PROVE  Deal' = [Deal EXCEPT ![p] = d]
  BY DEF Deal

LEMMA SameDue ==
    ASSUME \A q \in Payments : DueOf(q)' = DueOf(q)
    PROVE  Due' = Due
  BY DEF Due

LEMMA Stutters ==
    ASSUME \A q \in Payments : DealOf(q)' = DealOf(q) /\ DueOf(q)' = DueOf(q),
           UNCHANGED credited
    PROVE  UNCHANGED Ideal!escrowVars
  BY DEF Deal, Due, Ideal!escrowVars

LEMMA Returns ==
    ASSUME NEW p \in Payments, DealOf(p) \in {"open", "secured"}, DealOf(p)' = "returned",
           DueOf(p)' = DueOf(p),
           \A q \in Payments \ {p} : DealOf(q)' = DealOf(q) /\ DueOf(q)' = DueOf(q),
           UNCHANGED credited
    PROVE  Ideal!Next
  <1>1. Deal[p] \in {"open", "secured"} /\ Deal' = [Deal EXCEPT ![p] = "returned"]
    BY OneDeal DEF Deal
  <1>2. Due' = Due
    BY DEF Due
  <1> QED
    BY <1>1, <1>2 DEF Ideal!Next, Ideal!Return

LEMMA Owes ==
    ASSUME NEW p \in Payments, DealOf(p) = "secured", DealOf(p)' = "owed",
           DueOf(p)' \in 0..AmountOf(p),
           \A q \in Payments \ {p} : DealOf(q)' = DealOf(q) /\ DueOf(q)' = DueOf(q),
           UNCHANGED credited
    PROVE  Ideal!Next
  <1>1. Deal[p] = "secured" /\ Deal' = [Deal EXCEPT ![p] = "owed"]
    BY OneDeal DEF Deal
  <1>2. \E amount \in 0..Price[BookingOf[p]] : Due' = [Due EXCEPT ![p] = amount]
    BY DEF Due, AmountOf
  <1> QED
    BY <1>1, <1>2 DEF Ideal!Next, Ideal!Owe

LEMMA Secures ==
    ASSUME NEW p \in Payments, DealOf(p) = "open", DealOf(p)' = "secured", DueOf(p)' = DueOf(p),
           \A q \in Payments : BookingOf[q] = BookingOf[p] => ~ Ideal!Funded(q),
           \A q \in Payments \ {p} : DealOf(q)' = DealOf(q) /\ DueOf(q)' = DueOf(q),
           UNCHANGED credited
    PROVE  Ideal!Next
  <1>1. Deal[p] = "open" /\ Deal' = [Deal EXCEPT ![p] = "secured"]
    BY OneDeal DEF Deal
  <1>2. Due' = Due
    BY DEF Due
  <1> QED
    BY <1>1, <1>2 DEF Ideal!Next, Ideal!Secure

LEMMA Pays ==
    ASSUME NEW p \in Payments, DealOf(p) = "owed", DealOf(p)' = "paid", DueOf(p)' = DueOf(p),
           \A q \in Payments \ {p} : DealOf(q)' = DealOf(q) /\ DueOf(q)' = DueOf(q),
           credited' = [credited EXCEPT ![TutorOf[BookingOf[p]]] =
                         @ + Payout(DueOf(p), StandardRate)]
    PROVE  Ideal!Next
  <1>1. Deal[p] = "owed" /\ Deal' = [Deal EXCEPT ![p] = "paid"]
    BY OneDeal DEF Deal
  <1>2. Due' = Due /\ Due[p] = DueOf(p)
    BY DEF Due
  <1>3. Ideal!StandardRate = StandardRate /\ Ideal!Payout(Due[p], StandardRate) = Payout(Due[p], StandardRate)
    BY DEF Ideal!StandardRate, StandardRate, Ideal!Payout, Payout, Ideal!Commission, Commission,
           Ideal!HalfUp, HalfUp
  <1> QED
    BY <1>1, <1>2, <1>3 DEF Ideal!Next, Ideal!Pay

-----------------------------------------------------------------------------
\* Every step of Settlement is a step of the escrow, or leaves it unchanged.

EscrowStep == Ideal!Next \/ UNCHANGED Ideal!escrowVars

\* A cancellation returns the money of the booking's one live payment, or owes
\* what is kept of it.
LEMMA CancelIsEscrow ==
    ASSUME IInv, NEW b \in Bookings, NEW s \in {"cancelled_by_student", "cancelled_by_tutor"},
           bstatus[b] \in {"pending", "confirmed"}, Settled(b, s), UNCHANGED credited
    PROVE  EscrowStep
  <1> DEFINE live(p) == BookingOf[p] = b /\ pstatus[p] \in LiveStatus
  <1>1. ASSUME NEW q \in Payments, ~ live(q)
        PROVE  DealOf(q)' = DealOf(q) /\ DueOf(q)' = DueOf(q)
    <2>1. CASE BookingOf[q] # b
      BY <2>1, SameDeal DEF Settled
    <2>2. CASE BookingOf[q] = b
      <3>1. pstatus'[q] = pstatus[q] /\ pstatus[q] \in {"none", "refunded", "failed"}
        BY <1>1, <2>2 DEF Settled, IInv, TypeOK, PaymentStatus, LiveStatus
      <3> QED
        BY <3>1, OverKeepsDeal
    <2> QED
      BY <2>1, <2>2
  <1>2. CASE \A p \in Payments : ~ live(p)
    BY <1>1, <1>2, Stutters DEF EscrowStep
  <1>3. ASSUME NEW p \in Payments, live(p) PROVE EscrowStep
    <2>1. \A q \in Payments \ {p} : DealOf(q)' = DealOf(q) /\ DueOf(q)' = DueOf(q)
      BY <1>1, <1>3 DEF IInv, OnePerBooking
    <2>2. ~ Earned(p) /\ DueOf(p) = 0
      BY <1>3 DEF Earned, DueOf, Settled
    <2>3. CASE pstatus[p] = "created"
      <3>1. DealOf(p) = "open" /\ DealOf(p)' = "returned" /\ DueOf(p)' = 0
        BY <1>3, <2>3 DEF DealOf, DueOf, Settled
      <3> QED
        BY <2>1, <2>2, <3>1, Returns DEF EscrowStep
    <2>4. CASE pstatus[p] = "held" /\ pstatus'[p] = "refunded"
      <3>1. DealOf(p) = "secured" /\ DealOf(p)' = "returned" /\ DueOf(p)' = 0
        BY <2>2, <2>4 DEF DealOf, DueOf
      <3> QED
        BY <2>1, <2>2, <3>1, Returns DEF EscrowStep
    <2>5. CASE pstatus[p] = "held" /\ pstatus'[p] # "refunded"
      <3>1. /\ pstatus'[p] = "held" /\ bstatus'[BookingOf[p]] = "cancelled_by_student"
            /\ retained'[p] \in 1..AmountOf(p)
        BY <1>3, <2>5 DEF Settled
      <3>2. AmountOf(p) \in Nat
        BY AmountType
      <3>3. retained'[p] > 0 /\ retained'[p] \in 0..AmountOf(p)
        BY <3>1, <3>2, SMT
      <3>4. Earned(p)'
        BY <3>1, <3>3 DEF Earned
      <3>5. DealOf(p) = "secured" /\ DealOf(p)' = "owed" /\ DueOf(p)' = retained'[p]
        BY <2>2, <2>5, <3>1, <3>4 DEF DealOf, DueOf
      <3> QED
        BY <2>1, <3>3, <3>5, Owes DEF EscrowStep
    <2> QED
      BY <1>3, <2>3, <2>4, <2>5 DEF LiveStatus
  <1> QED
    BY <1>2, <1>3

\* A new payment is as open as none, and a missed lesson owes nothing yet.
LEMMA InitiateIsEscrow ==
    ASSUME IInv, NEW b \in Bookings, InitiatePayment(b)
    PROVE  EscrowStep
  <1>1. PICK p \in Payments : pstatus[p] = "none" /\ pstatus' = [pstatus EXCEPT ![p] = "created"]
    BY DEF InitiatePayment
  <1>2. UNCHANGED <<bstatus, retained, credited>>
    BY DEF InitiatePayment, bookingVars, tutorVars
  <1>3. /\ pstatus'[p] = "created" /\ \A q \in Payments \ {p} : pstatus'[q] = pstatus[q]
    BY <1>1 DEF IInv, TypeOK
  <1>4. DealOf(p)' = DealOf(p) /\ DueOf(p)' = DueOf(p)
    BY <1>1, <1>3 DEF DealOf, DueOf
  <1>5. \A q \in Payments \ {p} : DealOf(q)' = DealOf(q) /\ DueOf(q)' = DueOf(q)
    BY <1>2, <1>3, SameDeal
  <1> QED
    BY <1>2, <1>4, <1>5, Stutters DEF EscrowStep

\* confirmed -> completed owes the price of the booking's held payment, and
\* confirmed -> no_show moves nothing.
LEMMA LeaveConfirmedIsEscrow ==
    ASSUME IInv, NEW b \in Bookings, NEW s \in {"completed", "no_show"},
           bstatus[b] = "confirmed", bstatus' = [bstatus EXCEPT ![b] = s],
           UNCHANGED <<pstatus, retained, credited>>
    PROVE  EscrowStep
  <1>1. bstatus'[b] = s /\ \A c \in Bookings \ {b} : bstatus'[c] = bstatus[c]
    BY DEF IInv, TypeOK
  <1>2. ASSUME NEW q \in Payments, BookingOf[q] # b
        PROVE  DealOf(q)' = DealOf(q) /\ DueOf(q)' = DueOf(q)
    BY <1>1, <1>2, SameDeal
  <1>3. ASSUME NEW q \in Payments, BookingOf[q] = b, pstatus[q] # "held"
        PROVE  DealOf(q)' = DealOf(q) /\ DueOf(q)' = DueOf(q)
    <2>1. pstatus[q] \in {"none", "refunded", "failed"}
      BY <1>3
      DEF IInv, TypeOK, CoherentPair, PaymentFacts, PaymentFact, Earned, PaymentStatus
    <2> QED
      BY <2>1, OverKeepsDeal
  <1>4. PICK p \in Payments : BookingOf[p] = b /\ pstatus[p] = "held"
    BY DEF IInv, ConfirmedIsBacked, PaymentFacts, PaymentFact, Earned
  <1>5. \A q \in Payments \ {p} : DealOf(q)' = DealOf(q) /\ DueOf(q)' = DueOf(q)
    BY <1>2, <1>3, <1>4 DEF IInv, OnePerBooking
  <1>6. ~ Earned(p) /\ DealOf(p) = "secured" /\ DueOf(p) = 0
    BY <1>4 DEF Earned, DealOf, DueOf
  <1>7. CASE s = "completed"
    <2>1. Earned(p)' /\ DealOf(p)' = "owed" /\ DueOf(p)' = AmountOf(p)
      BY <1>1, <1>4, <1>7 DEF Earned, DealOf, DueOf, AmountOf
    <2>2. AmountOf(p) \in 0..AmountOf(p)
      BY AmountType, SMT
    <2> QED
      BY <1>5, <1>6, <2>1, <2>2, Owes DEF EscrowStep
  <1>8. CASE s = "no_show"
    <2>1. ~ Earned(p)' /\ DealOf(p)' = "secured" /\ DueOf(p)' = 0
      BY <1>1, <1>4, <1>8 DEF Earned, DealOf, DueOf
    <2> QED
      BY <1>5, <1>6, <2>1, Stutters DEF EscrowStep
  <1> QED
    BY <1>7, <1>8

LEMMA ConfirmIsEscrow ==
    ASSUME IInv, NEW e \in Events, ConfirmHold(e)
    PROVE  EscrowStep
  <1> DEFINE p == e.pay
             b == BookingOf[p]
  <1>1. /\ p \in Payments /\ b \in Bookings /\ pstatus[p] = "created" /\ bstatus[b] = "pending"
        /\ pstatus' = [pstatus EXCEPT ![p] = "held"]
        /\ bstatus' = [bstatus EXCEPT ![b] = "confirmed"]
        /\ UNCHANGED <<retained, credited>>
    BY DEF ConfirmHold, Events, tutorVars
  <1>2. /\ pstatus'[p] = "held" /\ \A q \in Payments \ {p} : pstatus'[q] = pstatus[q]
        /\ bstatus'[b] = "confirmed" /\ \A c \in Bookings \ {b} : bstatus'[c] = bstatus[c]
    BY <1>1 DEF IInv, TypeOK
  <1> HIDE DEF p
  <1>3. \A q \in Payments \ {p} : BookingOf[q] = b =>
            pstatus[q] \in {"none", "refunded", "failed"}
    BY <1>1
    DEF IInv, TypeOK, PaymentStatus, OnePerBooking, LiveStatus, CoherentPair, HoldIsStillOwed,
        PaymentFacts, PaymentFact, Earned
  <1>4. ASSUME NEW q \in Payments \ {p}
        PROVE  DealOf(q)' = DealOf(q) /\ DueOf(q)' = DueOf(q)
    <2>1. CASE BookingOf[q] = b
      BY <1>2, <1>3, <2>1, OverKeepsDeal
    <2>2. CASE BookingOf[q] # b
      BY <1>1, <1>2, <2>2, SameDeal
    <2> QED
      BY <2>1, <2>2
  <1>5. ~ Earned(p)' /\ DealOf(p) = "open" /\ DealOf(p)' = "secured" /\ DueOf(p)' = DueOf(p)
    BY <1>1, <1>2 DEF Earned, DealOf, DueOf
  <1>6. ASSUME NEW q \in Payments, BookingOf[q] = b PROVE ~ Ideal!Funded(q)
    <2>1. DealOf(q) \in {"open", "returned"}
      BY <1>1, <1>3, <1>6 DEF DealOf
    <2> QED
      BY <2>1 DEF Ideal!Funded, Deal
  <1> QED
    BY <1>1, <1>4, <1>5, <1>6, Secures DEF EscrowStep

LEMMA FailIsEscrow ==
    ASSUME IInv, NEW e \in Events, FailAndRelease(e) \/ HoldFailed(e)
    PROVE  EscrowStep
  <1> DEFINE p == e.pay
  <1>1. p \in Payments /\ UNCHANGED <<bstatus, retained, credited>>
    BY DEF FailAndRelease, HoldFailed, Events, bookingVars, tutorVars
  <1>2. \A q \in Payments \ {p} : pstatus'[q] = pstatus[q]
    BY <1>1 DEF IInv, TypeOK, FailAndRelease, HoldFailed
  <1>3. \/ pstatus'[p] = pstatus[p]
        \/ /\ pstatus'[p] = "failed"
           /\ \/ pstatus[p] = "created"
              \/ pstatus[p] = "held" /\ bstatus[BookingOf[p]] = "no_show"
    BY <1>1
    DEF IInv, TypeOK, PaymentStatus, FailAndRelease, HoldFailed, LiveStatus, EventFacts, EventFact
  <1> HIDE DEF p
  <1>4. \A q \in Payments \ {p} : DealOf(q)' = DealOf(q) /\ DueOf(q)' = DueOf(q)
    BY <1>1, <1>2, SameDeal
  <1>5. CASE pstatus'[p] = pstatus[p]
    BY <1>1, <1>4, <1>5, SameDeal, Stutters DEF EscrowStep
  <1>6. CASE pstatus'[p] # pstatus[p]
    <2>1. DealOf(p) \in {"open", "secured"} /\ DealOf(p)' = "returned" /\ DueOf(p)' = DueOf(p)
      BY <1>1, <1>3, <1>6 DEF DealOf, DueOf, Earned
    <2> QED
      BY <1>1, <1>4, <2>1, Returns DEF EscrowStep
  <1> QED
    BY <1>5, <1>6

LEMMA CreditIsEscrow ==
    ASSUME IInv, NEW w \in Workers, CaptureAndCredit(w)
    PROVE  EscrowStep
  <1>1. job[w].pay \in Payments /\ job[w].amount \in Nat
    BY JobFields DEF CaptureAndCredit, Running, IInv
  <1>2. PICK p \in Payments, amount \in Nat : p = job[w].pay /\ amount = job[w].amount
    BY <1>1
  <1>3. UNCHANGED <<bstatus, retained>> /\ TaskFact(job[w].kind, "credit", p, amount)
    BY <1>2 DEF CaptureAndCredit, Running, bookingVars, IInv, JobFacts, JobFact
  <1>4. CASE pstatus[p] = "held"
    <2>1. /\ pstatus'[p] = "captured" /\ \A q \in Payments \ {p} : pstatus'[q] = pstatus[q]
          /\ credited' = [credited EXCEPT ![TutorOf[BookingOf[p]]] = @ + Payout(amount, StandardRate)]
      BY <1>2, <1>4 DEF CaptureAndCredit, Settle, TutorOfPayment, IInv, TypeOK
    <2>2. Earned(p) /\ Earned(p)' /\ DueOf(p) = amount /\ DueOf(p)' = amount
      BY <1>3, <1>4, <2>1 DEF TaskFact, Earned, DueOf, AmountOf
    <2>3. DealOf(p) = "owed" /\ DealOf(p)' = "paid"
      BY <1>4, <2>1, <2>2 DEF DealOf
    <2>4. \A q \in Payments \ {p} : DealOf(q)' = DealOf(q) /\ DueOf(q)' = DueOf(q)
      BY <1>3, <2>1, SameDeal
    <2> QED
      BY <1>3, <2>1, <2>2, <2>3, <2>4, Pays DEF EscrowStep
  <1>5. CASE pstatus[p] # "held"
    <2>1. UNCHANGED <<pstatus, credited>>
      BY <1>2, <1>5 DEF CaptureAndCredit, tutorVars
    <2> QED
      BY <1>3, <2>1, SameDeal, Stutters DEF EscrowStep
  <1> QED
    BY <1>4, <1>5

LEMMA StepIsEscrow ==
    ASSUME IInv, [Next]_vars
    PROVE  EscrowStep
  <1>1. CASE Quiet
    BY <1>1, SameDeal, Stutters DEF Quiet, EscrowStep
  <1>2. ASSUME NEW b \in Bookings, InitiatePayment(b) PROVE EscrowStep
    BY <1>2, InitiateIsEscrow
  <1>3. ASSUME NEW b \in Bookings, CancelByStudent(b) \/ CancelByTutor(b) \/ ExpireBooking(b)
        PROVE  EscrowStep
    <2>1. bstatus[b] \in {"pending", "confirmed"} /\ UNCHANGED credited
      BY <1>3 DEF CancelByStudent, CancelByTutor, ExpireBooking, Reconcile, tutorVars
    <2> QED
      BY <1>3, <2>1, CancelSettles, CancelIsEscrow
  <1>4. ASSUME NEW b \in Bookings, MarkNoShow(b) \/ CompleteBooking(b) PROVE EscrowStep
    BY <1>4, LeaveConfirmedIsEscrow DEF MarkNoShow, CompleteBooking, paymentVars, tutorVars
  <1>5. ASSUME NEW e \in Events, ConfirmHold(e) \/ FailAndRelease(e) \/ HoldFailed(e)
        PROVE  EscrowStep
    BY <1>5, ConfirmIsEscrow, FailIsEscrow
  <1>6. ASSUME NEW w \in Workers, CaptureAndCredit(w) PROVE EscrowStep
    BY <1>6, CreditIsEscrow
  <1> QED
    BY <1>1, <1>2, <1>3, <1>4, <1>5, <1>6, Movers DEF MovesBooking

LEMMA InitIsEscrow ==
    ASSUME Init
    PROVE  Ideal!Init
  <1>1. \A p \in Payments : DealOf(p) = "open" /\ DueOf(p) = 0
    BY DEF Init, DealOf, DueOf
  <1> QED
    BY <1>1 DEF Init, Ideal!Init, Deal, Due

\* The refinement: whatever the faults, the interleaving and the sizes, the
\* payments behave as an escrow (payments/models.py:5-8, services.py:313-326).
THEOREM Implements == Spec => ImplementsEscrow
  <1>1. Init => Ideal!Init
    BY InitIsEscrow
  <1>2. IInv /\ [Next]_vars => [Ideal!Next]_(Ideal!escrowVars)
    BY StepIsEscrow DEF EscrowStep
  <1> QED
    BY <1>1, <1>2, Inductive, PTL DEF Spec, ImplementsEscrow, Ideal!Spec

-----------------------------------------------------------------------------
\* What a step may never do.

\* Earned money stays the tutor's: what is owed stays owed at the same amount or
\* is paid (confirm_hold, services.py:206-208).
THEOREM EarnedIsKeptHolds == Spec => EarnedIsKept
  <1>1. IInv /\ IInv' /\ [Next]_vars => [KeepEarned]_vars
    <2> SUFFICES ASSUME IInv, IInv', [Next]_vars, NEW p \in Payments,
                        pstatus[p] = "held", Earned(p)
                 PROVE  /\ pstatus'[p] \in {"held", "captured"}
                        /\ Earned(p)' /\ retained'[p] = retained[p]
      BY DEF KeepEarned
    <2>1. bstatus'[BookingOf[p]] = bstatus[BookingOf[p]]
      BY FinalStatus DEF Earned
    <2>2. CASE Quiet
      BY <2>1, <2>2 DEF Quiet, Earned
    <2>3. ASSUME NEW b \in Bookings, InitiatePayment(b)
          PROVE  pstatus'[p] = "held" /\ retained'[p] = retained[p]
      BY <2>3 DEF InitiatePayment, IInv, TypeOK
    <2>4. ASSUME NEW b \in Bookings,
                 CancelByStudent(b) \/ CancelByTutor(b) \/ ExpireBooking(b)
          PROVE  pstatus'[p] = "held" /\ retained'[p] = retained[p]
      <3>1. BookingOf[p] # b
        BY <2>4 DEF CancelByStudent, CancelByTutor, ExpireBooking, Earned
      <3> QED
        BY <2>4, <3>1, CancelSettles DEF Settled
    <2>5. ASSUME NEW b \in Bookings, MarkNoShow(b) \/ CompleteBooking(b)
          PROVE  pstatus'[p] = "held" /\ retained'[p] = retained[p]
      BY <2>5 DEF MarkNoShow, CompleteBooking, paymentVars
    <2>6. ASSUME NEW e \in Events, ConfirmHold(e) \/ FailAndRelease(e) \/ HoldFailed(e)
          PROVE  pstatus'[p] = "held" /\ retained'[p] = retained[p]
      BY <2>6
      DEF ConfirmHold, FailAndRelease, HoldFailed, IInv, TypeOK, EventFacts, EventFact, Earned
    <2>7. ASSUME NEW w \in Workers, CaptureAndCredit(w)
          PROVE  pstatus'[p] \in {"held", "captured"} /\ retained'[p] = retained[p]
      BY <2>7 DEF CaptureAndCredit, Settle, IInv, TypeOK
    <2>8. pstatus'[p] \in {"held", "captured"} /\ retained'[p] = retained[p]
      BY <2>2, <2>3, <2>4, <2>5, <2>6, <2>7, Movers DEF Quiet, MovesBooking
    <2> QED
      BY <2>1, <2>8 DEF Earned
  <1> QED
    BY <1>1, Inductive, PTL DEF Spec, EarnedIsKept

-----------------------------------------------------------------------------
\* The tutors' credits and balances.

\* They change in a capture, by its payout, and in a profile form's request.
LEMMA TutorMovers ==
    ASSUME IInv, [Next]_vars
    PROVE  \/ UNCHANGED tutorVars
           \/ \E t \in Tutors : LoadProfile(t)
           \/ \E t \in Tutors : SaveProfile(t)
           \/ \E p \in Payments, amount \in Nat : pstatus[p] = "held" /\ Settle(p, amount)
  <1> USE DEF paymentVars
  <1>1. ASSUME NEW b \in Bookings, Requests(b) \/ Clock(b) PROVE UNCHANGED tutorVars
    BY <1>1 DEF Requests, Clock, InitiatePayment, CancelByStudent, CancelByTutor, Reconcile,
                MarkNoShow, BecomeStale, PassPhase
  <1>2. ASSUME Sweeps \/ SweepDies PROVE UNCHANGED tutorVars
    BY <1>2 DEF Sweeps, ScanPending, ScanFinished, ExpireBooking, Reconcile, SkipExpired,
                CompleteBooking, SkipCompleted, SweepDies
  <1>3. ASSUME NEW p \in Payments, PayerAuthorizes(p) PROVE UNCHANGED tutorVars
    BY <1>3 DEF PayerAuthorizes
  <1>4. ASSUME NEW e \in Events, Notify(e) \/ Redeliver(e) \/ HandleEvent(e) \/ HandlerDies(e)
        PROVE  UNCHANGED tutorVars
    BY <1>4 DEF Notify, Redeliver, HandlerDies, HandleEvent, UnknownHold, HoldAlreadyApplied,
                ConfirmHold, HoldNotConfirmable, FailAndRelease, HoldFailed, EchoRecorded
  <1>5. ASSUME NEW w \in Workers, Work(w) \/ WorkerFaults(w), ~ CaptureAndCredit(w)
        PROVE  UNCHANGED tutorVars
    BY <1>5 DEF Work, WorkerFaults, TakeTask, SkipTask, CreateHold, StoreHoldId,
                ReleaseIfFailed, Capture, Release, CallFails, ReplyLost, WorkerDies, Retry
  <1>6. ASSUME NEW w \in Workers, CaptureAndCredit(w)
        PROVE  \/ UNCHANGED tutorVars
               \/ \E p \in Payments, amount \in Nat : pstatus[p] = "held" /\ Settle(p, amount)
    <2>1. job[w].pay \in Payments /\ job[w].amount \in Nat
      BY <1>6, JobFields DEF CaptureAndCredit, Running, IInv
    <2> QED
      BY <1>6, <2>1 DEF CaptureAndCredit
  <1>7. ASSUME NEW m \in Messages, Duplicate(m) PROVE UNCHANGED tutorVars
    BY <1>7 DEF Duplicate
  <1>8. ASSUME UNCHANGED vars PROVE UNCHANGED tutorVars
    BY <1>8 DEF vars
  <1> QED
    BY <1>1, <1>2, <1>3, <1>4, <1>5, <1>6, <1>7, <1>8 DEF Next

\* A capture adds its payout to the credits and to the balance of its tutor.
LEMMA SettleCredits ==
    ASSUME TypeOK, NEW p \in Payments, NEW amount \in Nat, Settle(p, amount)
    PROVE  /\ TutorOfPayment(p) \in Tutors /\ Payout(amount, StandardRate) \in Nat
           /\ credited' = [credited EXCEPT ![TutorOfPayment(p)] =
                              credited[TutorOfPayment(p)] + Payout(amount, StandardRate)]
           /\ balance' = [balance EXCEPT ![TutorOfPayment(p)] =
                              balance[TutorOfPayment(p)] + Payout(amount, StandardRate)]
           /\ UNCHANGED forms
  BY StandardSplit DEF Settle, TutorOfPayment

\* A tutor is credited by exactly one capture, by its payout, so a captured
\* payment is never credited twice (capture_and_credit, services.py:325-326), and
\* that credit adds to the balance of the moment; any other move of a balance
\* takes it back to what a profile form loaded (catalog/views.py:167-168).
THEOREM CreditedOnCaptureHolds == Spec => CreditedOnCapture
  <1>1. IInv /\ [Next]_vars => [CreditOneCapture]_vars
    <2> SUFFICES ASSUME IInv, [Next]_vars PROVE CreditOneCapture
      OBVIOUS
    <2> USE DEF IInv, TypeOK
    <2>1. CASE UNCHANGED tutorVars
      BY <2>1 DEF CreditOneCapture, tutorVars
    <2>2. ASSUME NEW t \in Tutors, LoadProfile(t) PROVE CreditOneCapture
      BY <2>2 DEF CreditOneCapture, LoadProfile
    <2>3. ASSUME NEW u \in Tutors, SaveProfile(u) PROVE CreditOneCapture
      <3>1. PICK form \in forms : form[1] = u /\ balance' = [balance EXCEPT ![u] = form[2]]
        BY <2>3 DEF SaveProfile
      <3>2. UNCHANGED <<credited, pstatus>>
        BY <2>3 DEF SaveProfile
      <3>3. ASSUME NEW t \in Tutors, balance'[t] # balance[t]
            PROVE  <<t, balance'[t]>> \in forms
        <4>1. t = u /\ balance'[t] = form[2]
          BY <3>1, <3>3
        <4>2. form = <<form[1], form[2]>>
          BY <3>1
        <4> QED
          BY <3>1, <4>1, <4>2
      <3> QED
        BY <3>2, <3>3 DEF CreditOneCapture
    <2>4. ASSUME NEW p \in Payments, NEW amount \in Nat, pstatus[p] = "held", Settle(p, amount)
          PROVE  CreditOneCapture
      <3> DEFINE payout == Payout(amount, StandardRate)
      <3>1. /\ pstatus'[p] = "captured" /\ \A q \in Payments \ {p} : pstatus'[q] = pstatus[q]
            /\ captured'[p] = amount /\ commission'[p] = Commission(amount, StandardRate)
        BY <2>4 DEF Settle
      <3>2. /\ Commission(amount, StandardRate) \in Nat /\ payout \in Nat
            /\ Commission(amount, StandardRate) + payout = amount
        BY StandardSplit
      <3>3. ASSUME NEW t \in Tutors, t # TutorOfPayment(p)
            PROVE  credited'[t] = credited[t] /\ balance'[t] = balance[t]
        BY <2>4, <3>3, SettleCredits
      <3>4. ASSUME NEW t \in Tutors, t = TutorOfPayment(p)
            PROVE  credited'[t] = credited[t] + payout /\ balance'[t] = balance[t] + payout
        BY <2>4, <3>4, SettleCredits
      <3> HIDE DEF payout
      <3>5. ASSUME NEW t \in Tutors, t = TutorOfPayment(p)
            PROVE  /\ credited'[t] = credited[t] + captured'[p] - commission'[p]
                   /\ balance'[t] = balance[t] + captured'[p] - commission'[p]
                   /\ credited'[t] = credited[t] => balance'[t] = balance[t]
        <4>1. credited[t] \in Nat /\ balance[t] \in Nat
          OBVIOUS
        <4> QED
          BY <3>1, <3>2, <3>4, <3>5, <4>1, SMT
      <3> QED
        BY <2>4, <3>1, <3>3, <3>5 DEF CreditOneCapture
    <2> QED
      BY <2>1, <2>2, <2>3, <2>4, TutorMovers
  <1> QED
    BY <1>1, Inductive, PTL DEF Spec, CreditedOnCapture

\* No tutor's balance, and no form that may overwrite it, holds more than the
\* captures credited (capture_and_credit, services.py:345-350;
\* catalog/views.py:167-168).
THEOREM BalanceWithinCreditsHolds == Spec => []BalanceWithinCredits
  <1>1. Init => BalanceWithinCredits
    BY DEF Init, BalanceWithinCredits
  <1>2. IInv /\ BalanceWithinCredits /\ [Next]_vars => BalanceWithinCredits'
    <2> SUFFICES ASSUME IInv, BalanceWithinCredits, [Next]_vars PROVE BalanceWithinCredits'
      OBVIOUS
    <2> USE DEF IInv, TypeOK, BalanceWithinCredits
    <2>1. CASE UNCHANGED tutorVars
      BY <2>1 DEF tutorVars
    <2>2. ASSUME NEW t \in Tutors, LoadProfile(t) PROVE BalanceWithinCredits'
      BY <2>2 DEF LoadProfile
    <2>3. ASSUME NEW t \in Tutors, SaveProfile(t) PROVE BalanceWithinCredits'
      BY <2>3 DEF SaveProfile
    <2>4. ASSUME NEW p \in Payments, NEW amount \in Nat, Settle(p, amount)
          PROVE  BalanceWithinCredits'
      <3> DEFINE payout == Payout(amount, StandardRate)
                 u == TutorOfPayment(p)
      <3>1. /\ u \in Tutors /\ payout \in Nat /\ UNCHANGED forms
            /\ credited' = [credited EXCEPT ![u] = credited[u] + payout]
            /\ balance' = [balance EXCEPT ![u] = balance[u] + payout]
        BY <2>4, SettleCredits
      <3> HIDE DEF payout, u
      <3>2. ASSUME NEW t \in Tutors
            PROVE  credited'[t] >= credited[t] /\ balance'[t] <= credited'[t]
        BY <3>1, SMT
      <3>3. ASSUME NEW form \in forms PROVE form[2] <= credited'[form[1]]
        <4>1. form[1] \in Tutors /\ form[2] \in Nat
          OBVIOUS
        <4>2. credited[form[1]] \in Nat /\ credited'[form[1]] \in Nat
          BY <3>1, <4>1
        <4> QED
          BY <3>2, <4>1, <4>2
      <3> QED
        BY <3>1, <3>2, <3>3
    <2> QED
      BY <2>1, <2>2, <2>3, <2>4, TutorMovers
  <1> QED
    BY <1>1, <1>2, Inductive, PTL DEF Spec

\* The sweeps leave alone what changed since their scan
\* (bookings/services.py:314-318, 359-361).
THEOREM SweepsRecheckHolds == Spec => SweepsRecheck
  <1>1. [Next]_vars => [RecheckScan]_vars
    <2> SUFFICES ASSUME [Next]_vars PROVE RecheckScan
      OBVIOUS
    <2> USE DEF RecheckScan, sweepVars
    <2>1. ASSUME NEW b \in Bookings, Requests(b) \/ Clock(b) PROVE RecheckScan
      BY <2>1 DEF Requests, Clock, InitiatePayment, CancelByStudent, CancelByTutor, MarkNoShow,
                  BecomeStale, PassPhase
    <2>2. CASE ScanPending \/ ScanFinished \/ SweepDies
      BY <2>2 DEF ScanPending, ScanFinished, SweepDies, bookingVars
    <2>3. ASSUME NEW b \in Bookings, ExpireBooking(b) PROVE RecheckScan
      BY <2>3 DEF ExpireBooking
    <2>4. ASSUME NEW b \in Bookings, CompleteBooking(b) PROVE RecheckScan
      BY <2>4 DEF CompleteBooking
    <2>5. ASSUME NEW b \in Bookings, SkipExpired(b) \/ SkipCompleted(b) PROVE RecheckScan
      BY <2>5 DEF SkipExpired, SkipCompleted, bookingVars
    <2>6. ASSUME NEW p \in Payments, PayerAuthorizes(p) PROVE RecheckScan
      BY <2>6 DEF PayerAuthorizes
    <2>7. ASSUME NEW e \in Events, Notify(e) \/ Redeliver(e) \/ HandleEvent(e) \/ HandlerDies(e)
          PROVE  RecheckScan
      BY <2>7 DEF Notify, Redeliver, HandlerDies, HandleEvent, UnknownHold, HoldAlreadyApplied,
                  ConfirmHold, HoldNotConfirmable, FailAndRelease, HoldFailed, EchoRecorded
    <2>8. ASSUME NEW w \in Workers, Work(w) \/ WorkerFaults(w) PROVE RecheckScan
      BY <2>8 DEF Work, WorkerFaults, TakeTask, SkipTask, CreateHold, StoreHoldId,
                  ReleaseIfFailed, Capture, CaptureAndCredit, Release, CallFails, ReplyLost,
                  WorkerDies, Retry
    <2>9. ASSUME NEW m \in Messages, Duplicate(m) PROVE RecheckScan
      BY <2>9 DEF Duplicate
    <2>10. ASSUME NEW t \in Tutors, LoadProfile(t) \/ SaveProfile(t) PROVE RecheckScan
      BY <2>10 DEF LoadProfile, SaveProfile
    <2>11. CASE UNCHANGED vars
      BY <2>11 DEF vars
    <2> QED
      BY <2>1, <2>2, <2>3, <2>4, <2>5, <2>6, <2>7, <2>8, <2>9, <2>10, <2>11 DEF Next, Sweeps
  <1> QED
    BY <1>1, PTL DEF Spec, SweepsRecheck

-----------------------------------------------------------------------------
\* Induction up to n, from the least number at which it would fail.
LEMMA CountUp ==
    ASSUME NEW n \in Nat, NEW P, 0 \in P, \A k \in 1 .. n : k - 1 \in P => k \in P
    PROVE  n \in P
  <1> DEFINE Bad == {k \in 0 .. n : k \notin P}
  <1>1. SUFFICES ASSUME Bad # {} PROVE FALSE
    OBVIOUS
  <1>2. PICK k \in Bad : \A i \in Bad : ~ (<<i, k>> \in OpToRel(<, Nat))
    <2>1. Bad \subseteq Nat
      OBVIOUS
    <2> HIDE DEF Bad
    <2> QED
      BY <1>1, <2>1, NatLessThanWellFounded, WFMin, Zenon
  <1>3. k \in 1 .. n
    <2>1. k \in 0 .. n /\ k # 0
      BY <1>2
    <2> QED
      BY <2>1
  <1>4. <<k - 1, k>> \in OpToRel(<, Nat)
    BY <1>3 DEF OpToRel
  <1>5. k - 1 \in P
    <2>1. k - 1 \in 0 .. n
      BY <1>3
    <2>2. k - 1 \notin Bad
      <3> HIDE DEF Bad
      <3> QED
        BY <1>2, <1>4
    <2> QED
      BY <2>1, <2>2
  <1> QED
    BY <1>2, <1>3, <1>5

-----------------------------------------------------------------------------
\* Sums.  A table of the sums of f gives each set of U the sum over it.

First(s) == CHOOSE x \in s : TRUE
SumStep(f, h, s) == IF s = {} THEN 0 ELSE f[First(s)] + h[s \ {First(s)}]
SumTable(f, S) == LET table[s \in SUBSET S] == SumStep(f, table, s) IN table
AddsUp(f, U, h) == \A T, y : T \subseteq U /\ y \in U /\ y \notin T => h[T \cup {y}] = h[T] + f[y]
IsSumTable(f, U, h) == \A s \in SUBSET U : h[s] = SumStep(f, h, s)

LEMMA FirstOfSet ==
    ASSUME NEW s, s # {}
    PROVE  First(s) \in s
  BY DEF First

LEMMA WithoutFirst ==
    ASSUME NEW U, IsFiniteSet(U), NEW s \in SUBSET U, s # {}
    PROVE  /\ First(s) \in U /\ s \ {First(s)} \in SUBSET U
           /\ Cardinality(s) \in Nat \ {0}
           /\ Cardinality(s \ {First(s)}) = Cardinality(s) - 1
  <1>1. IsFiniteSet(s) /\ First(s) \in s
    BY FS_Subset, FirstOfSet
  <1>2. Cardinality(s) \in Nat /\ Cardinality(s) # 0
    BY <1>1, FS_CardinalityType, FS_EmptySet
  <1>3. PICK x : x = First(s)
    OBVIOUS
  <1>4. Cardinality(s \ {x}) = Cardinality(s) - 1
    BY <1>1, <1>3, FS_RemoveElement
  <1> QED
    BY <1>1, <1>2, <1>3, <1>4

\* Tables up to sets of each size, one after the other.
LEMMA SumTableExists ==
    ASSUME NEW U, IsFiniteSet(U), NEW f \in [U -> Int]
    PROVE  \E h \in [SUBSET U -> Int] : IsSumTable(f, U, h)
  <1> DEFINE Upto(h, k) == \A s \in SUBSET U : Cardinality(s) <= k => h[s] = SumStep(f, h, s)
             P == {k \in Nat : \E h \in [SUBSET U -> Int] : Upto(h, k)}
  <1>1. \A s \in SUBSET U : Cardinality(s) \in Nat /\ (Cardinality(s) <= 0 => s = {})
    <2> SUFFICES ASSUME NEW s \in SUBSET U
                 PROVE  Cardinality(s) \in Nat /\ (Cardinality(s) <= 0 => s = {})
      OBVIOUS
    <2>1. IsFiniteSet(s)
      BY FS_Subset
    <2>2. Cardinality(s) \in Nat /\ (Cardinality(s) = 0 => s = {})
      BY <2>1, FS_CardinalityType, FS_EmptySet
    <2> QED
      BY <2>2
  <1>2. 0 \in P
    <2> DEFINE zero == [s \in SUBSET U |-> 0]
    <2>1. zero \in [SUBSET U -> Int] /\ Upto(zero, 0)
      BY <1>1 DEF SumStep
    <2> QED
      BY <2>1
  <1>3. ASSUME NEW k \in Nat \ {0}, k - 1 \in P PROVE k \in P
    <2>1. PICK h \in [SUBSET U -> Int] : Upto(h, k - 1)
      BY <1>3
    <2> DEFINE g == [s \in SUBSET U |-> IF Cardinality(s) = k THEN SumStep(f, h, s) ELSE h[s]]
    <2>2. ASSUME NEW s \in SUBSET U PROVE SumStep(f, h, s) \in Int
      <3>1. CASE s = {}
        BY <3>1 DEF SumStep
      <3>2. CASE s # {}
        <4>1. First(s) \in U /\ s \ {First(s)} \in SUBSET U
          BY <3>2, WithoutFirst
        <4> QED
          BY <3>2, <4>1 DEF SumStep
      <3> QED
        BY <3>1, <3>2
    <2>3. g \in [SUBSET U -> Int]
      BY <2>1, <2>2
    <2>4. ASSUME NEW s \in SUBSET U, Cardinality(s) <= k PROVE g[s] = SumStep(f, g, s)
      <3>1. SumStep(f, g, s) = SumStep(f, h, s)
        <4>1. CASE s = {}
          BY <4>1 DEF SumStep
        <4>2. CASE s # {}
          <5>1. s \ {First(s)} \in SUBSET U /\ Cardinality(s \ {First(s)}) # k
            BY <2>4, <4>2, WithoutFirst
          <5> QED
            BY <4>2, <5>1 DEF SumStep
        <4> QED
          BY <4>1, <4>2
      <3>2. CASE Cardinality(s) = k
        BY <3>1, <3>2
      <3>3. CASE Cardinality(s) # k
        <4>1. Cardinality(s) <= k - 1
          BY <1>1, <1>3, <2>4, <3>3
        <4> QED
          BY <2>1, <3>1, <3>3, <4>1
      <3> QED
        BY <3>2, <3>3
    <2>5. Upto(g, k)
      BY <2>4
    <2> HIDE DEF g
    <2> QED
      BY <2>3, <2>5
  <1>4. Cardinality(U) \in Nat /\ \A s \in SUBSET U : Cardinality(s) <= Cardinality(U)
    BY FS_CardinalityType, FS_Subset
  <1>5. Cardinality(U) \in P
    <2>1. \A k \in Nat \ {0} : k - 1 \in P => k \in P
      BY <1>3
    <2> HIDE DEF P
    <2>2. \A k \in 1 .. Cardinality(U) : k - 1 \in P => k \in P
      BY <1>4, <2>1
    <2> QED
      BY <1>2, <1>4, <2>2, CountUp
  <1> QED
    BY <1>4, <1>5 DEF IsSumTable

\* A table of U is, on the subsets of S, any table of S.
LEMMA SumTableUnique ==
    ASSUME NEW U, IsFiniteSet(U), NEW S \in SUBSET U, NEW f, NEW g, NEW h,
           IsSumTable(f, U, h), IsSumTable(f, S, g)
    PROVE  g[S] = h[S]
  <1> DEFINE P == {k \in Nat : \A s \in SUBSET S : Cardinality(s) = k => g[s] = h[s]}
  <1>1. IsFiniteSet(S)
    BY FS_Subset
  <1>2. 0 \in P
    <2>1. ASSUME NEW s \in SUBSET S, Cardinality(s) = 0 PROVE g[s] = h[s]
      <3>1. s = {}
        BY <1>1, <2>1, FS_Subset, FS_EmptySet
      <3> QED
        BY <3>1 DEF IsSumTable, SumStep
    <2> QED
      BY <2>1
  <1>3. ASSUME NEW k \in Nat \ {0}, k - 1 \in P PROVE k \in P
    <2>1. ASSUME NEW s \in SUBSET S, Cardinality(s) = k PROVE g[s] = h[s]
      <3>1. s # {}
        BY <2>1, FS_EmptySet
      <3>2. s \ {First(s)} \in SUBSET S /\ Cardinality(s \ {First(s)}) = k - 1
        BY <1>1, <2>1, <3>1, WithoutFirst
      <3>3. g[s \ {First(s)}] = h[s \ {First(s)}]
        BY <1>3, <3>2
      <3> QED
        BY <3>1, <3>3 DEF IsSumTable, SumStep
    <2> QED
      BY <2>1
  <1>4. Cardinality(S) \in Nat
    BY <1>1, FS_CardinalityType
  <1>5. Cardinality(S) \in P
    <2>1. \A k \in 1 .. Cardinality(S) : k - 1 \in P => k \in P
      BY <1>3, <1>4
    <2> HIDE DEF P
    <2> QED
      BY <1>2, <1>4, <2>1, CountUp
  <1> QED
    BY <1>5

LEMMA SumIsInTable ==
    ASSUME NEW U, IsFiniteSet(U), NEW S \in SUBSET U, NEW f \in [U -> Int], NEW h,
           IsSumTable(f, U, h)
    PROVE  SumFunctionOnSet(f, S) = h[S]
  <1> DEFINE Good(g) == g = [s \in SUBSET S |-> SumStep(f, g, s)]
  <1>1. SumFunctionOnSet(f, S) = SumTable(f, S)[S]
    BY DEF SumFunctionOnSet, FoldFunctionOnSet, MapThenFoldSet, SumTable, SumStep, First
  <1>2. \E g : Good(g)
    <2> DEFINE g == [s \in SUBSET S |-> h[s]]
    <2>1. ASSUME NEW s \in SUBSET S PROVE g[s] = SumStep(f, g, s)
      <3>1. s # {} => s \ {First(s)} \in SUBSET S
        OBVIOUS
      <3> QED
        BY <3>1 DEF IsSumTable, SumStep
    <2>2. Good(g)
      BY <2>1
    <2> QED
      BY <2>2
  <1>3. Good(SumTable(f, S))
    BY <1>2 DEF SumTable
  <1>4. IsSumTable(f, S, SumTable(f, S))
    BY <1>3 DEF IsSumTable
  <1> QED
    BY <1>1, <1>4, SumTableUnique

\* One more element adds its value, whichever element the sum begins with.
LEMMA TableAdds ==
    ASSUME NEW U, IsFiniteSet(U), NEW f \in [U -> Int], NEW h \in [SUBSET U -> Int],
           IsSumTable(f, U, h)
    PROVE  AddsUp(f, U, h)
  <1> SUFFICES ASSUME NEW T \in SUBSET U, NEW y \in U \ T
               PROVE  h[T \cup {y}] = h[T] + f[y]
    BY DEF AddsUp
  <1> DEFINE Adds(S, x) == h[S \cup {x}] = h[S] + f[x]
             P == {k \in Nat : \A S \in SUBSET U : \A x \in U \ S : Cardinality(S) = k => Adds(S, x)}
  <1>1. ASSUME NEW S \in SUBSET U, NEW x \in U \ S, First(S \cup {x}) = x
        PROVE  Adds(S, x)
    <2>1. (S \cup {x}) \ {x} = S /\ S \cup {x} # {} /\ S \cup {x} \in SUBSET U
      OBVIOUS
    <2>2. h[S \cup {x}] = f[x] + h[S]
      BY <1>1, <2>1 DEF IsSumTable, SumStep
    <2>3. f[x] \in Int /\ h[S] \in Int
      OBVIOUS
    <2> QED
      BY <2>2, <2>3
  <1>2. 0 \in P
    <2>1. ASSUME NEW S \in SUBSET U, NEW x \in U \ S, Cardinality(S) = 0 PROVE Adds(S, x)
      <3>1. S = {}
        BY <2>1, FS_Subset, FS_EmptySet
      <3>2. First(S \cup {x}) = x
        BY <3>1, FirstOfSet
      <3> QED
        BY <1>1, <3>2
    <2> QED
      BY <2>1
  <1>3. ASSUME NEW k \in Nat \ {0}, k - 1 \in P PROVE k \in P
    <2>1. ASSUME NEW S \in SUBSET U, NEW x \in U \ S, Cardinality(S) = k, First(S \cup {x}) # x
          PROVE  Adds(S, x)
      <3>1. PICK c : c = First(S \cup {x})
        OBVIOUS
      <3>2. c \in S /\ c # x
        <4>1. c \in S \cup {x}
          BY <3>1, FirstOfSet
        <4> QED
          BY <2>1, <3>1, <4>1
      <3>3. PICK R : R = S \ {c}
        OBVIOUS
      <3>4. R \in SUBSET U /\ x \in U \ R /\ c \in U \ R /\ S = R \cup {c}
        BY <3>2, <3>3
      <3>5. Cardinality(R) = k - 1
        BY <2>1, <3>2, <3>3, FS_Subset, FS_RemoveElement
      <3>6. h[R \cup {x}] = h[R] + f[x] /\ h[R \cup {c}] = h[R] + f[c]
        BY <1>3, <3>4, <3>5
      <3>7. h[S \cup {x}] = f[c] + h[R \cup {x}]
        <4>1. (S \cup {x}) \ {c} = R \cup {x} /\ S \cup {x} # {} /\ S \cup {x} \in SUBSET U
          BY <3>2, <3>3
        <4> QED
          BY <3>1, <4>1 DEF IsSumTable, SumStep
      <3>8. f[c] \in Int /\ f[x] \in Int /\ h[R] \in Int
        BY <3>4
      <3>9. h[S] = h[R] + f[c]
        BY <3>4, <3>6
      <3> QED
        BY <3>6, <3>7, <3>8, <3>9
    <2>2. ASSUME NEW S \in SUBSET U, NEW x \in U \ S, Cardinality(S) = k PROVE Adds(S, x)
      BY <1>1, <2>1, <2>2
    <2> HIDE DEF Adds
    <2> QED
      BY <2>2
  <1>4. Cardinality(T) \in Nat
    BY FS_Subset, FS_CardinalityType
  <1>5. Cardinality(T) \in P
    <2>1. \A k \in Nat \ {0} : k - 1 \in P => k \in P
      BY <1>3
    <2> HIDE DEF P
    <2>2. \A k \in 1 .. Cardinality(T) : k - 1 \in P => k \in P
      BY <1>4, <2>1
    <2> QED
      BY <1>2, <1>4, <2>2, CountUp
  <1> QED
    BY <1>5

\* A sum is an integer, the sum over no element is zero, and an element adds
\* its value.
LEMMA SumAdds ==
    ASSUME NEW U, IsFiniteSet(U), NEW f \in [U -> Int], NEW S \in SUBSET U
    PROVE  /\ SumFunctionOnSet(f, S) \in Int
           /\ SumFunctionOnSet(f, {}) = 0
           /\ \A x : x \in U /\ x \notin S =>
                 SumFunctionOnSet(f, S \cup {x}) = SumFunctionOnSet(f, S) + f[x]
  <1>1. PICK h \in [SUBSET U -> Int] : IsSumTable(f, U, h)
    BY SumTableExists
  <1>2. \A R \in SUBSET U : SumFunctionOnSet(f, R) = h[R]
    BY <1>1, SumIsInTable
  <1>3. h[{}] = 0
    BY <1>1 DEF IsSumTable, SumStep
  <1>4. AddsUp(f, U, h)
    BY <1>1, TableAdds
  <1>5. /\ {} \in SUBSET U /\ h[S] \in Int
        /\ \A x \in U : S \cup {x} \in SUBSET U
    OBVIOUS
  <1> QED
    BY <1>2, <1>3, <1>4, <1>5 DEF AddsUp

\* Two functions that agree on a set have the same sum over it.
LEMMA SumAgrees ==
    ASSUME NEW U, IsFiniteSet(U), NEW f \in [U -> Int], NEW g \in [U -> Int],
           NEW S \in SUBSET U, \A x \in S : f[x] = g[x]
    PROVE  SumFunctionOnSet(f, S) = SumFunctionOnSet(g, S)
  <1>1. PICK h \in [SUBSET U -> Int] : IsSumTable(f, U, h)
    BY SumTableExists
  <1>2. PICK i \in [SUBSET U -> Int] : IsSumTable(g, U, i)
    BY SumTableExists
  <1>3. IsFiniteSet(S)
    BY FS_Subset
  <1>4. IsSumTable(f, S, i)
    <2>1. ASSUME NEW s \in SUBSET S PROVE i[s] = SumStep(f, i, s)
      <3>1. s # {} => First(s) \in S
        BY FirstOfSet
      <3> QED
        BY <1>2, <3>1 DEF IsSumTable, SumStep
    <2> QED
      BY <2>1 DEF IsSumTable
  <1>5. i[S] = h[S]
    BY <1>1, <1>4, SumTableUnique
  <1> QED
    BY <1>1, <1>2, <1>5, SumIsInTable

-----------------------------------------------------------------------------
\* What the PSP took stays what it was, and only a capture is credited.

LEMMA TakenStays ==
    ASSUME [Next]_vars, TypeOK, NEW p \in charged
    PROVE  taken'[p] = taken[p]
  <1> USE DEF TypeOK, pspVars
  <1>1. ASSUME NEW b \in Bookings, Requests(b) \/ Clock(b) PROVE UNCHANGED taken
    BY <1>1 DEF Requests, Clock, InitiatePayment, CancelByStudent, CancelByTutor, MarkNoShow,
                BecomeStale, PassPhase
  <1>2. ASSUME Sweeps \/ SweepDies PROVE UNCHANGED taken
    BY <1>2 DEF Sweeps, ScanPending, ScanFinished, ExpireBooking, SkipExpired, CompleteBooking,
                SkipCompleted, SweepDies
  <1>3. ASSUME NEW q \in Payments, PayerAuthorizes(q) PROVE UNCHANGED taken
    BY <1>3 DEF PayerAuthorizes
  <1>4. ASSUME NEW e \in Events, Notify(e) \/ Redeliver(e) \/ HandleEvent(e) \/ HandlerDies(e)
        PROVE  UNCHANGED taken
    BY <1>4 DEF Notify, Redeliver, HandlerDies, HandleEvent, UnknownHold, HoldAlreadyApplied,
                ConfirmHold, HoldNotConfirmable, FailAndRelease, HoldFailed, EchoRecorded
  <1>5. ASSUME NEW q \in Payments, NEW amount, PSPCapture(q, amount) PROVE taken'[p] = taken[p]
    BY <1>5 DEF PSPCapture
  <1>6. ASSUME NEW w \in Workers, Work(w) \/ WorkerFaults(w)
        PROVE  UNCHANGED taken \/ \E q \in Payments, amount \in Nat : PSPCapture(q, amount)
    <2>1. CASE Capture(w)
      BY <2>1, JobFields DEF Capture, Calling, Running
    <2>2. CASE ReplyLost(w)
      BY <2>2, JobFields DEF ReplyLost, Running, PSPCreateHold, PSPRelease
    <2> QED
      BY <1>6, <2>1, <2>2 DEF Work, WorkerFaults, TakeTask, SkipTask, CreateHold, StoreHoldId,
             ReleaseIfFailed, CaptureAndCredit, Release, CallFails, WorkerDies,
             PSPCreateHold, PSPRelease
  <1>7. ASSUME NEW m \in Messages, Duplicate(m) PROVE UNCHANGED taken
    BY <1>7 DEF Duplicate
  <1>8. ASSUME NEW t \in Tutors, LoadProfile(t) \/ SaveProfile(t) PROVE UNCHANGED taken
    BY <1>8 DEF LoadProfile, SaveProfile
  <1>9. ASSUME UNCHANGED vars PROVE UNCHANGED taken
    BY <1>9 DEF vars
  <1> QED
    BY <1>1, <1>2, <1>3, <1>4, <1>5, <1>6, <1>7, <1>8, <1>9 DEF Next

LEMMA ReconcileCapturesNone ==
    ASSUME TypeOK, NEW b, NEW refund, Reconcile(b, refund)
    PROVE  /\ UNCHANGED credited
           /\ \A p \in Payments : pstatus'[p] = "captured" <=> pstatus[p] = "captured"
  <1>1. \A p \in LivePayments(b) : pstatus[p] # "captured"
    BY DEF LivePayments, LiveStatus
  <1>2. PICK failed, freed \in SUBSET LivePayments(b) :
          pstatus' = [p \in Payments |-> IF p \in failed THEN "failed"
                                         ELSE IF p \in freed THEN "refunded" ELSE pstatus[p]]
    <2> DEFINE failed == {p \in LivePayments(b) : pstatus[p] = "created"}
               freed == {p \in LivePayments(b) \ failed : refund >= AmountOf(p)}
    <2>1. pstatus' = [p \in Payments |-> IF p \in failed THEN "failed"
                                         ELSE IF p \in freed THEN "refunded" ELSE pstatus[p]]
      BY DEF Reconcile
    <2>2. failed \in SUBSET LivePayments(b) /\ freed \in SUBSET LivePayments(b)
      OBVIOUS
    <2> HIDE DEF failed, freed
    <2> QED
      BY <2>1, <2>2
  <1>3. UNCHANGED credited
    BY DEF Reconcile, tutorVars
  <1> QED
    BY <1>1, <1>2, <1>3 DEF TypeOK

\* A step that captures nothing leaves the credits and who is paid alone; one
\* that does credits the tutor of one held payment.
LEMMA CreditOrNot ==
    ASSUME IInv, IInv', [Next]_vars
    PROVE  \/ /\ UNCHANGED credited
              /\ \A p \in Payments : pstatus'[p] = "captured" <=> pstatus[p] = "captured"
           \/ \E p \in Payments :
                 /\ pstatus[p] = "held" /\ pstatus' = [pstatus EXCEPT ![p] = "captured"]
                 /\ credited' = [credited EXCEPT ![TutorOfPayment(p)] =
                                  @ + (taken'[p] - commission'[p])]
  <1> USE DEF IInv, TypeOK
  <1>1. CASE Quiet
    BY <1>1 DEF Quiet
  <1>2. ASSUME NEW b \in Bookings, InitiatePayment(b)
        PROVE  /\ UNCHANGED credited
               /\ \A p \in Payments : pstatus'[p] = "captured" <=> pstatus[p] = "captured"
    BY <1>2 DEF InitiatePayment, tutorVars
  <1>3. ASSUME NEW b \in Bookings, MovesBooking(b)
        PROVE  /\ UNCHANGED credited
               /\ \A p \in Payments : pstatus'[p] = "captured" <=> pstatus[p] = "captured"
    BY <1>3, ReconcileCapturesNone DEF MovesBooking, CancelByStudent, CancelByTutor,
                ExpireBooking, MarkNoShow, CompleteBooking, paymentVars, tutorVars
  <1>4. ASSUME NEW e \in Events, ConfirmHold(e) \/ FailAndRelease(e) \/ HoldFailed(e)
        PROVE  /\ UNCHANGED credited
               /\ \A p \in Payments : pstatus'[p] = "captured" <=> pstatus[p] = "captured"
    BY <1>4 DEF ConfirmHold, FailAndRelease, HoldFailed, LiveStatus, Events, tutorVars
  <1>5. ASSUME NEW w \in Workers, CaptureAndCredit(w), pstatus[job[w].pay] = "held"
        PROVE  \E p \in Payments :
                 /\ pstatus[p] = "held" /\ pstatus' = [pstatus EXCEPT ![p] = "captured"]
                 /\ credited' = [credited EXCEPT ![TutorOfPayment(p)] =
                                  @ + (taken'[p] - commission'[p])]
    <2>1. job[w].pay \in Payments /\ job[w].amount \in Nat
      BY <1>5, JobFields DEF CaptureAndCredit, Running
    <2>2. PICK p \in Payments, amount \in Nat : p = job[w].pay /\ amount = job[w].amount
      BY <2>1
    <2>3. Settle(p, amount)
      BY <1>5, <2>2 DEF CaptureAndCredit
    <2>4. pstatus'[p] = "captured" /\ captured'[p] = amount
          /\ commission'[p] = Commission(amount, StandardRate)
      BY <2>3 DEF Settle
    <2>5. taken'[p] = amount
      BY <2>4 DEF CapturedIsTaken
    <2>6. Payout(amount, StandardRate) = taken'[p] - commission'[p]
      BY <2>4, <2>5 DEF Payout
    <2> QED
      BY <1>5, <2>2, <2>3, <2>6 DEF Settle
  <1>6. ASSUME NEW w \in Workers, CaptureAndCredit(w), pstatus[job[w].pay] # "held"
        PROVE  UNCHANGED <<credited, pstatus>>
    BY <1>6 DEF CaptureAndCredit, tutorVars
  <1> QED
    BY <1>1, <1>2, <1>3, <1>4, <1>5, <1>6, Movers

-----------------------------------------------------------------------------
\* Every step keeps the ledger of a tutor balanced.
LEMMA StepBalances ==
    ASSUME IInv, IInv', LedgerBalances, [Next]_vars, NEW t \in Tutors
    PROVE  credited'[t] + SumFunctionOnSet(commission', PaidTo(t)')
             = SumFunctionOnSet(taken', PaidTo(t)')
  <1> DEFINE paid == PaidTo(t)
  <1>1. /\ commission \in [Payments -> Int] /\ commission' \in [Payments -> Int]
        /\ taken \in [Payments -> Int] /\ taken' \in [Payments -> Int]
        /\ credited \in [Tutors -> Int] /\ paid \in SUBSET Payments
        /\ IsFiniteSet(Payments)
    <2>1. /\ commission \in [Payments -> Nat] /\ commission' \in [Payments -> Nat]
          /\ taken \in [Payments -> Nat] /\ taken' \in [Payments -> Nat]
          /\ credited \in [Tutors -> Nat]
      BY DEF IInv, TypeOK
    <2> QED
      BY <2>1, FiniteAssumption DEF PaidTo
  <1>2. ASSUME NEW p \in Payments, pstatus[p] = "captured", pstatus'[p] = "captured"
        PROVE  taken'[p] = taken[p] /\ commission'[p] = commission[p]
    <2>1. p \in charged /\ commission[p] = Commission(taken[p], StandardRate)
          /\ commission'[p] = Commission(taken'[p], StandardRate)
      BY <1>2 DEF IInv, CapturedIsTaken
    <2>2. taken'[p] = taken[p]
      BY <2>1, TakenStays DEF IInv
    <2> QED
      BY <2>1, <2>2
  <1>3. credited[t] + SumFunctionOnSet(commission, paid) = SumFunctionOnSet(taken, paid)
    BY DEF LedgerBalances
  <1>4. ASSUME \A p \in paid : pstatus'[p] = "captured"
        PROVE  /\ SumFunctionOnSet(commission', paid) = SumFunctionOnSet(commission, paid)
               /\ SumFunctionOnSet(taken', paid) = SumFunctionOnSet(taken, paid)
    <2>1. \A p \in paid : commission'[p] = commission[p] /\ taken'[p] = taken[p]
      BY <1>2, <1>4 DEF PaidTo
    <2> HIDE DEF paid
    <2> QED
      BY <1>1, <2>1, SumAgrees
  <1>5. CASE /\ UNCHANGED credited
             /\ \A p \in Payments : pstatus'[p] = "captured" <=> pstatus[p] = "captured"
    <2>1. PaidTo(t)' = paid
      BY <1>5 DEF PaidTo, TutorOfPayment
    <2>2. \A p \in paid : pstatus'[p] = "captured"
      BY <1>5 DEF PaidTo
    <2> QED
      BY <1>3, <1>4, <1>5, <2>1, <2>2
  <1>6. ASSUME NEW p \in Payments, pstatus[p] = "held",
               pstatus' = [pstatus EXCEPT ![p] = "captured"],
               credited' = [credited EXCEPT ![TutorOfPayment(p)] = @ + (taken'[p] - commission'[p])]
        PROVE  credited'[t] + SumFunctionOnSet(commission', PaidTo(t)')
                 = SumFunctionOnSet(taken', PaidTo(t)')
    <2>1. pstatus'[p] = "captured" /\ \A q \in Payments \ {p} : pstatus'[q] = pstatus[q]
      BY <1>6 DEF IInv, TypeOK
    <2>2. \A q \in paid : pstatus'[q] = "captured"
      BY <1>6, <2>1 DEF PaidTo
    <2>3. CASE TutorOfPayment(p) # t
      <3>1. PaidTo(t)' = paid
        BY <1>6, <2>1, <2>3 DEF PaidTo, TutorOfPayment
      <3>2. credited'[t] = credited[t]
        BY <1>1, <1>6, <2>3
      <3> QED
        BY <1>3, <1>4, <2>2, <3>1, <3>2
    <2>4. CASE TutorOfPayment(p) = t
      <3>1. PaidTo(t)' = paid \cup {p} /\ p \notin paid
        BY <1>6, <2>1, <2>4 DEF PaidTo, TutorOfPayment
      <3>2. credited'[t] = credited[t] + (taken'[p] - commission'[p])
        BY <1>1, <1>6, <2>4
      <3> HIDE DEF paid
      <3>3. /\ SumFunctionOnSet(commission', paid) \in Int
            /\ SumFunctionOnSet(commission', paid \cup {p})
                 = SumFunctionOnSet(commission', paid) + commission'[p]
        BY <1>1, <3>1, SumAdds
      <3>4. /\ SumFunctionOnSet(taken', paid) \in Int
            /\ SumFunctionOnSet(taken', paid \cup {p})
                 = SumFunctionOnSet(taken', paid) + taken'[p]
        BY <1>1, <3>1, SumAdds
      <3>5. credited[t] + SumFunctionOnSet(commission', paid) = SumFunctionOnSet(taken', paid)
        BY <1>3, <1>4, <2>2
      <3>6. credited[t] \in Int /\ taken'[p] \in Int /\ commission'[p] \in Int
        BY <1>1
      <3>7. PICK c, m, b, x, y \in Int :
              /\ c = SumFunctionOnSet(commission', paid) /\ m = SumFunctionOnSet(taken', paid)
              /\ b = credited[t] /\ x = taken'[p] /\ y = commission'[p]
        BY <3>3, <3>4, <3>6
      <3>8. b + c = m /\ b + (x - y) + (c + y) = m + x
        BY <3>5, <3>7
      <3> QED
        BY <3>1, <3>2, <3>3, <3>4, <3>7, <3>8
    <2> QED
      BY <2>3, <2>4
  <1> QED
    BY <1>5, <1>6, CreditOrNot

\* What was credited to a tutor and kept as commission is what the PSP took for
\* the captures of that tutor's lessons (payments/models.py:5-8).
THEOREM LedgerBalancesHolds == Spec => []LedgerBalances
  <1>1. Init => LedgerBalances
    <2> SUFFICES ASSUME Init, NEW t \in Tutors
                 PROVE  credited[t] + SumFunctionOnSet(commission, PaidTo(t))
                          = SumFunctionOnSet(taken, PaidTo(t))
      BY DEF LedgerBalances
    <2>1. PaidTo(t) = {} /\ credited[t] = 0
      BY DEF Init, PaidTo
    <2>2. commission \in [Payments -> Int] /\ taken \in [Payments -> Int]
      BY DEF Init
    <2>3. SumFunctionOnSet(commission, {}) = 0 /\ SumFunctionOnSet(taken, {}) = 0
      BY <2>2, FiniteAssumption, SumAdds
    <2> QED
      BY <2>1, <2>3
  <1>2. IInv /\ IInv' /\ LedgerBalances /\ [Next]_vars => LedgerBalances'
    BY StepBalances DEF LedgerBalances
  <1> QED
    BY <1>1, <1>2, Inductive, PTL DEF Spec
=============================================================================
