--------------------------- MODULE SettlementTypes ---------------------------
(***************************************************************************)
(* The money arithmetic for every amount and every percentage, and the     *)
(* type correctness of Settlement for every value of the constants.        *)
(***************************************************************************)
EXTENDS SettlementProperties, TLAPS

-----------------------------------------------------------------------------
\* The money arithmetic.

\* Rounding to the kopeck, halves up: the result is the one natural number at
\* most half a kopeck below, and less than half a kopeck above, n / 100.
THEOREM HalfUpRounds ==
    ASSUME NEW n \in Nat
    PROVE  /\ HalfUp(n, 100) \in Nat
           /\ 200 * HalfUp(n, 100) <= 2 * n + 100
           /\ 2 * n + 100 < 200 * HalfUp(n, 100) + 200
  BY SMT DEF HalfUp

LEMMA PercentOfAmount ==
    ASSUME NEW amount \in Nat, NEW percent \in 0..100
    PROVE  amount * percent \in Nat /\ amount * percent <= 100 * amount
  BY SMT

\* calc_commission (services.py:40-57): commission and payout are natural
\* numbers that add up to the captured amount, at either rate, so neither
\* exceeds it (the constraint payment_commission_le_captured).
THEOREM CommissionSplits ==
    ASSUME NEW amount \in Nat, NEW rate \in {StandardRate, ProRate}
    PROVE  /\ Commission(amount, rate) \in 0..amount
           /\ Payout(amount, rate) \in 0..amount
           /\ Commission(amount, rate) + Payout(amount, rate) = amount
  <1>1. rate \in 0..100
    BY SMT DEF StandardRate, ProRate
  <1>2. amount * rate \in Nat /\ amount * rate <= 100 * amount
    BY <1>1, PercentOfAmount
  <1>3. Commission(amount, rate) \in Nat /\ 200 * Commission(amount, rate) <= 200 * amount + 100
    BY <1>2, HalfUpRounds, SMT DEF Commission
  <1>4. Commission(amount, rate) <= amount
    BY <1>3, SMT
  <1> QED
    BY <1>3, <1>4, SMT DEF Payout

\* _refund_amount (bookings/services.py:251-266): a late refund never exceeds the
\* price, so what is retained of it (amount - refund) is never negative.
THEOREM LateRefundWithinPrice ==
    ASSUME NEW price \in Nat, NEW percent \in 0..100
    PROVE  LateRefund(price, percent) \in 0..price
  <1>1. price * percent \in Nat /\ price * percent <= 100 * price
    BY PercentOfAmount
  <1> DEFINE n == price * percent
  <1>2. /\ HalfUp(n, 100) \in Nat
        /\ 200 * HalfUp(n, 100) <= 2 * n + 100
    BY <1>1, HalfUpRounds
  <1>3. LateRefund(price, percent) = HalfUp(n, 100)
    BY DEF LateRefund
  <1> HIDE DEF n
  <1>4. HalfUp(n, 100) <= price
    BY <1>1, <1>2, SMT DEF n
  <1> QED
    BY <1>2, <1>3, <1>4, SMT

-----------------------------------------------------------------------------
USE ForeignKeys, PriceAssumption, PercentAssumption, BoundAssumption, SetAssumption

-----------------------------------------------------------------------------
\* Publishing messages keeps the queue a bag of messages.
LEMMA SentIsQueue ==
    ASSUME NEW q \in [Messages -> Nat], NEW msgs
    PROVE  Sent(msgs, q) \in [Messages -> Nat]
  BY DEF Sent

LEMMA FaultCounted ==
    ASSUME TypeOK, NEW kind, Fault(kind)
    PROVE  faults' \in 0..MaxFaults
  BY SMT DEF TypeOK, Fault

LEMMA EnqueueKeepsTypes ==
    ASSUME TypeOK, NEW msgs, Enqueue(msgs)
    PROVE  queue' \in [Messages -> Nat] /\ faults' \in 0..MaxFaults
  <1>1. queue \in [Messages -> Nat] /\ faults \in 0..MaxFaults
    BY DEF TypeOK
  <1>2. CASE queue' = Sent(msgs, queue) /\ UNCHANGED faults
    BY <1>1, <1>2, SentIsQueue
  <1>3. CASE Fault("lost_enqueue") /\ UNCHANGED queue
    BY <1>1, <1>3, FaultCounted
  <1> QED
    BY <1>2, <1>3 DEF Enqueue

LEMMA ReceivedKeepsTypes ==
    ASSUME TypeOK, NEW m \in Messages, Received(m)
    PROVE  queue' \in [Messages -> Nat]
  BY SMT DEF TypeOK, Received

\* The amount a cancellation keeps is a price at most.
LEMMA AmountType == \A p \in Payments : AmountOf(p) \in Nat
  BY DEF AmountOf

LEMMA RefundType ==
    ASSUME NEW b \in Bookings, NEW percent \in Percents
    PROVE  LateRefund(Price[b], percent) \in 0..Price[b]
  <1>1. percent \in 0..100 /\ Price[b] \in Nat
    OBVIOUS
  <1> QED
    BY <1>1, LateRefundWithinPrice

LEMMA StandardSplit ==
    ASSUME NEW amount \in Nat
    PROVE  /\ Commission(amount, StandardRate) \in 0..amount
           /\ Payout(amount, StandardRate) \in 0..amount
           /\ Commission(amount, StandardRate) + Payout(amount, StandardRate) = amount
  BY CommissionSplits

\* reconcile_booking_payment keeps the types, for any refund.
LEMMA ReconcileKeepsTypes ==
    ASSUME TypeOK, NEW b \in Bookings, NEW refund \in Nat, Reconcile(b, refund)
    PROVE  /\ pstatus' \in [Payments -> PaymentStatus]
           /\ retained' \in [Payments -> Nat]
           /\ queue' \in [Messages -> Nat] /\ faults' \in 0..MaxFaults
           /\ UNCHANGED <<known, captured, commission, tutorVars>>
  <1> DEFINE live == LivePayments(b)
             unconfirmed == {p \in live : pstatus[p] = "created"}
             freed == {p \in live \ unconfirmed : refund >= AmountOf(p)}
             kept == live \ (unconfirmed \cup freed)
  <1>1. /\ pstatus' = [p \in Payments |-> IF p \in unconfirmed THEN "failed"
                                          ELSE IF p \in freed THEN "refunded"
                                          ELSE pstatus[p]]
        /\ retained' = [p \in Payments |-> IF p \in kept THEN AmountOf(p) - refund
                                           ELSE retained[p]]
        /\ UNCHANGED <<known, captured, commission, tutorVars>>
    BY DEF Reconcile, Retained
  <1>2. \E msgs : Enqueue(msgs)
    BY DEF Reconcile, Retained
  <1>3. \A p \in kept : p \in Payments /\ AmountOf(p) - refund \in Nat
    BY AmountType, SMT DEF LivePayments
  <1>4. pstatus' \in [Payments -> PaymentStatus]
    BY <1>1 DEF TypeOK, PaymentStatus
  <1>5. retained' \in [Payments -> Nat]
    BY <1>1, <1>3 DEF TypeOK
  <1> QED
    BY <1>1, <1>2, <1>4, <1>5, EnqueueKeepsTypes

-----------------------------------------------------------------------------
THEOREM InitTypes == Init => TypeOK
  <1> SUFFICES ASSUME Init PROVE TypeOK
    OBVIOUS
  <1>1. faults \in 0..MaxFaults
    BY SMT DEF Init
  <1> QED
    BY <1>1 DEF Init, TypeOK, BookingStatus, PaymentStatus

-----------------------------------------------------------------------------
\* Each action keeps the types.

\* Requests and sweeps that settle a booking's payments.
LEMMA SettledTypes ==
    ASSUME TypeOK, NEW b \in Bookings, NEW refund \in Nat, NEW s \in BookingStatus,
           bstatus' = [bstatus EXCEPT ![b] = s], Reconcile(b, refund),
           expireIds' \subseteq Bookings,
           UNCHANGED <<stale, phase, event, pspVars, completeIds, job>>
    PROVE  TypeOK'
  <1>1. /\ pstatus' \in [Payments -> PaymentStatus] /\ retained' \in [Payments -> Nat]
        /\ queue' \in [Messages -> Nat] /\ faults' \in 0..MaxFaults
        /\ UNCHANGED <<known, captured, commission, tutorVars>>
    BY ReconcileKeepsTypes
  <1>2. bstatus' \in [Bookings -> BookingStatus]
    BY DEF TypeOK
  <1> QED
    BY <1>1, <1>2 DEF TypeOK, pspVars, tutorVars

LEMMA RequestTypes ==
    ASSUME TypeOK, NEW b \in Bookings, Requests(b) \/ Clock(b)
    PROVE  TypeOK'
  <1>1. CASE InitiatePayment(b)
    <2>1. PICK p \in Payments : /\ pstatus' = [pstatus EXCEPT ![p] = "created"]
                                /\ Enqueue({Task("hold", p)})
      BY <1>1 DEF InitiatePayment
    <2>2. queue' \in [Messages -> Nat] /\ faults' \in 0..MaxFaults
      BY <2>1, EnqueueKeepsTypes
    <2>3. pstatus' \in [Payments -> PaymentStatus]
      BY <2>1 DEF TypeOK, PaymentStatus
    <2> QED
      BY <1>1, <2>2, <2>3
      DEF TypeOK, InitiatePayment, bookingVars, pspVars, sweepVars, tutorVars
  <1>2. CASE CancelByStudent(b)
    <2>1. PICK percent \in Percents :
            Reconcile(b, IF phase[b] = "far" THEN Price[b] ELSE LateRefund(Price[b], percent))
      BY <1>2 DEF CancelByStudent
    <2>2. LateRefund(Price[b], percent) \in Nat
      BY RefundType
    <2>3. "cancelled_by_student" \in BookingStatus
      BY DEF BookingStatus
    <2> QED
      BY <1>2, <2>1, <2>2, <2>3, SettledTypes DEF CancelByStudent, sweepVars, TypeOK
  <1>3. CASE CancelByTutor(b)
    <2>1. "cancelled_by_tutor" \in BookingStatus
      BY DEF BookingStatus
    <2> QED
      BY <1>3, <2>1, SettledTypes DEF CancelByTutor, sweepVars, TypeOK
  <1>4. CASE MarkNoShow(b)
    BY <1>4
    DEF MarkNoShow, TypeOK, BookingStatus, paymentVars, pspVars, sweepVars, celeryVars, tutorVars
  <1>5. CASE BecomeStale(b)
    BY <1>5 DEF BecomeStale, TypeOK, paymentVars, pspVars, sweepVars, celeryVars, tutorVars
  <1>6. CASE PassPhase(b)
    BY <1>6 DEF PassPhase, TypeOK, paymentVars, pspVars, sweepVars, celeryVars, tutorVars
  <1> QED
    BY <1>1, <1>2, <1>3, <1>4, <1>5, <1>6 DEF Requests, Clock

LEMMA SweepTypes ==
    ASSUME TypeOK, Sweeps \/ SweepDies
    PROVE  TypeOK'
  <1>1. CASE ScanPending
    BY <1>1
    DEF ScanPending, TypeOK, bookingVars, paymentVars, pspVars, celeryVars, tutorVars
  <1>2. CASE ScanFinished
    BY <1>2
    DEF ScanFinished, TypeOK, bookingVars, paymentVars, pspVars, celeryVars, tutorVars
  <1>3. ASSUME NEW b \in Bookings, ExpireBooking(b) PROVE TypeOK'
    <2>1. "cancelled_by_student" \in BookingStatus
      BY DEF BookingStatus
    <2> QED
      BY <1>3, <2>1, SettledTypes DEF ExpireBooking, TypeOK
  <1>4. ASSUME NEW b \in Bookings, SkipExpired(b) PROVE TypeOK'
    BY <1>4
    DEF SkipExpired, TypeOK, bookingVars, paymentVars, pspVars, celeryVars, tutorVars
  <1>5. ASSUME NEW b \in Bookings, CompleteBooking(b) PROVE TypeOK'
    <2>1. \E msgs : Enqueue(msgs)
      BY <1>5 DEF CompleteBooking
    <2>2. queue' \in [Messages -> Nat] /\ faults' \in 0..MaxFaults
      BY <2>1, EnqueueKeepsTypes
    <2> QED
      BY <1>5, <2>2
      DEF CompleteBooking, TypeOK, BookingStatus, paymentVars, pspVars, tutorVars
  <1>6. ASSUME NEW b \in Bookings, SkipCompleted(b) PROVE TypeOK'
    BY <1>6
    DEF SkipCompleted, TypeOK, bookingVars, paymentVars, pspVars, celeryVars, tutorVars
  <1>7. CASE SweepDies
    BY <1>7, FaultCounted
    DEF SweepDies, TypeOK, bookingVars, paymentVars, pspVars, celeryVars, tutorVars
  <1> QED
    BY <1>1, <1>2, <1>3, <1>4, <1>5, <1>6, <1>7 DEF Sweeps

LEMMA WebhookTypesKept ==
    ASSUME TypeOK, NEW e \in Events,
           Notify(e) \/ Redeliver(e) \/ HandleEvent(e) \/ HandlerDies(e)
    PROVE  TypeOK'
  <1> USE DEF TypeOK, bookingVars, paymentVars, tutorVars, pspVars, sweepVars, celeryVars
  <1>0. e.pay \in Payments /\ BookingOf[e.pay] \in Bookings
    BY DEF Events
  <1>1. CASE Notify(e)
    BY <1>1 DEF Notify
  <1>2. CASE Redeliver(e)
    BY <1>2, FaultCounted DEF Redeliver
  <1>3. CASE UnknownHold(e) \/ HoldAlreadyApplied(e) \/ HoldNotConfirmable(e) \/ EchoRecorded(e)
    BY <1>3 DEF UnknownHold, HoldAlreadyApplied, HoldNotConfirmable, EchoRecorded, Answer
  <1>4. CASE ConfirmHold(e)
    BY <1>0, <1>4 DEF ConfirmHold, Answer, BookingStatus, PaymentStatus
  <1>5. CASE FailAndRelease(e)
    <2>1. \E msgs : Enqueue(msgs)
      BY <1>5 DEF FailAndRelease
    <2>2. queue' \in [Messages -> Nat] /\ faults' \in 0..MaxFaults
      BY <2>1, EnqueueKeepsTypes
    <2> QED
      BY <1>5, <2>2 DEF FailAndRelease, Answer, PaymentStatus
  <1>6. CASE HoldFailed(e)
    BY <1>6 DEF HoldFailed, Answer, PaymentStatus
  <1>7. CASE HandlerDies(e)
    BY <1>7, FaultCounted DEF HandlerDies, Answer
  <1> QED
    BY <1>1, <1>2, <1>3, <1>4, <1>5, <1>6, <1>7 DEF HandleEvent

\* Celery workers.
LEMMA JobFields ==
    ASSUME TypeOK, NEW w \in Workers, job[w] # NoJob
    PROVE  /\ job[w] \in Jobs
           /\ job[w].pay \in Payments /\ job[w].amount \in Nat
           /\ BookingOf[job[w].pay] \in Bookings
           /\ TutorOfPayment(job[w].pay) \in Tutors
  BY DEF TypeOK, Jobs, TutorOfPayment

LEMMA FinishTypes ==
    ASSUME TypeOK, NEW w \in Workers, Finish(w)
    PROVE  job' \in [Workers -> Jobs \cup {NoJob}]
  BY DEF TypeOK, Finish

LEMMA RetryTypes ==
    ASSUME TypeOK, NEW w \in Workers, Retry(w)
    PROVE  /\ job' \in [Workers -> Jobs \cup {NoJob}]
           /\ queue' \in [Messages -> Nat]
  BY SentIsQueue, FinishTypes DEF TypeOK, Retry

LEMMA CaptureTypes ==
    ASSUME TypeOK, NEW p \in Payments, NEW amount \in Nat, PSPCapture(p, amount)
    PROVE  /\ charged' \subseteq Payments /\ taken' \in [Payments -> Nat]
           /\ UNCHANGED <<hold, voided>>
  BY DEF TypeOK, PSPCapture

LEMMA AmountAskedType ==
    ASSUME TypeOK, NEW p \in Payments, NEW kind
    PROVE  AmountAsked(kind, p) \in Nat
  BY AmountType, SMT DEF TypeOK, AmountAsked

LEMMA WorkTypes ==
    ASSUME TypeOK, NEW w \in Workers, Work(w)
    PROVE  TypeOK'
  <1>1. ASSUME NEW m \in Messages, TakeTask(w, m) PROVE TypeOK'
    <2>1. queue' \in [Messages -> Nat]
      BY <1>1, ReceivedKeepsTypes DEF TakeTask
    <2> DEFINE j == [kind |-> m.kind, pay |-> m.pay, tries |-> m.tries, pc |-> "call",
                     amount |-> AmountAsked(m.kind, m.pay)]
    <2>2. j \in Jobs
      BY AmountAskedType DEF Jobs, Messages
    <2>3. job' = [job EXCEPT ![w] = j]
      BY <1>1 DEF TakeTask
    <2>4. job' \in [Workers -> Jobs \cup {NoJob}]
      BY <2>2, <2>3 DEF TypeOK
    <2> QED
      BY <1>1, <2>1, <2>4
      DEF TakeTask, TypeOK, bookingVars, paymentVars, pspVars, sweepVars, tutorVars
  <1>2. ASSUME NEW m \in Messages, SkipTask(w, m) PROVE TypeOK'
    BY <1>2, ReceivedKeepsTypes
    DEF SkipTask, TypeOK, bookingVars, paymentVars, pspVars, sweepVars, tutorVars
  <1>3. CASE CreateHold(w)
    <2>1. job[w] # NoJob
      BY <1>3 DEF CreateHold, Calling, Running
    <2>2. job[w] \in Jobs /\ job[w].pay \in Payments
      BY <2>1, JobFields
    <2>3. [job[w] EXCEPT !.pc = "store"] \in Jobs
      BY <2>2 DEF Jobs
    <2>4. job' \in [Workers -> Jobs \cup {NoJob}]
      BY <1>3, <2>3 DEF CreateHold, TypeOK
    <2>5. hold' \in [Payments -> {"none", "open", "authorized"}]
      BY <1>3 DEF CreateHold, PSPCreateHold, TypeOK
    <2> QED
      BY <1>3, <2>4, <2>5
      DEF CreateHold, PSPCreateHold, TypeOK, bookingVars, paymentVars, sweepVars, tutorVars
  <1>4. CASE StoreHoldId(w)
    <2>1. job[w] \in Jobs /\ job[w].pay \in Payments
      BY <1>4, JobFields DEF StoreHoldId, Running
    <2>2. [job[w] EXCEPT !.pc = "check"] \in Jobs
      BY <2>1 DEF Jobs
    <2>3. job' \in [Workers -> Jobs \cup {NoJob}]
      BY <1>4, <2>2, FinishTypes DEF StoreHoldId, TypeOK
    <2> QED
      BY <1>4, <2>1, <2>3
      DEF StoreHoldId, TypeOK, bookingVars, pspVars, sweepVars, tutorVars
  <1>5. CASE ReleaseIfFailed(w)
    <2>1. \E msgs : Enqueue(msgs)
      BY <1>5 DEF ReleaseIfFailed
    <2> QED
      BY <1>5, <2>1, EnqueueKeepsTypes, FinishTypes
      DEF ReleaseIfFailed, TypeOK, bookingVars, paymentVars, pspVars, sweepVars, tutorVars
  <1>6. CASE Capture(w)
    <2>1. job[w] \in Jobs /\ job[w].pay \in Payments /\ job[w].amount \in Nat
      BY <1>6, JobFields DEF Capture, Calling, Running
    <2>2. /\ charged' \subseteq Payments /\ taken' \in [Payments -> Nat]
          /\ UNCHANGED <<hold, voided>>
      BY <1>6, <2>1, CaptureTypes DEF Capture
    <2>3. taken'[job[w].pay] \in Nat
      BY <2>1, <2>2
    <2>4. [job[w] EXCEPT !.pc = "credit", !.amount = taken'[job[w].pay]] \in Jobs
      BY <2>1, <2>3 DEF Jobs
    <2>5. job' \in [Workers -> Jobs \cup {NoJob}]
      BY <1>6, <2>4 DEF Capture, TypeOK
    <2> QED
      BY <1>6, <2>2, <2>5
      DEF Capture, TypeOK, bookingVars, paymentVars, sweepVars, tutorVars
  <1>7. CASE CaptureAndCredit(w)
    <2>1. job[w].pay \in Payments /\ job[w].amount \in Nat /\ TutorOfPayment(job[w].pay) \in Tutors
      BY <1>7, JobFields DEF CaptureAndCredit, Running
    <2>2. /\ Commission(job[w].amount, StandardRate) \in Nat
          /\ Payout(job[w].amount, StandardRate) \in Nat
      BY <2>1, StandardSplit
    <2>3. CASE pstatus[job[w].pay] = "held"
      <3>1. Settle(job[w].pay, job[w].amount)
        BY <1>7, <2>3 DEF CaptureAndCredit
      <3>2. /\ pstatus' \in [Payments -> PaymentStatus] /\ captured' \in [Payments -> Nat]
            /\ commission' \in [Payments -> Nat] /\ UNCHANGED forms
        BY <2>1, <2>2, <3>1 DEF Settle, TypeOK, PaymentStatus
      <3>3. balance' \in [Tutors -> Nat] /\ credited' \in [Tutors -> Nat]
        BY <2>1, <2>2, <3>1 DEF Settle, TypeOK
      <3> QED
        BY <1>7, <3>2, <3>3, FinishTypes
        DEF CaptureAndCredit, TypeOK, bookingVars, pspVars, sweepVars
    <2>4. CASE pstatus[job[w].pay] # "held"
      BY <1>7, <2>4, FinishTypes
      DEF CaptureAndCredit, TypeOK, bookingVars, tutorVars, pspVars, sweepVars
    <2> QED
      BY <2>3, <2>4
  <1>8. CASE Release(w)
    <2>1. job[w].pay \in Payments
      BY <1>8, JobFields DEF Release, Calling, Running
    <2> QED
      BY <1>8, <2>1, FinishTypes
      DEF Release, PSPRelease, TypeOK, bookingVars, paymentVars, sweepVars, tutorVars
  <1> QED
    BY <1>1, <1>2, <1>3, <1>4, <1>5, <1>6, <1>7, <1>8 DEF Work

LEMMA WorkerFaultTypes ==
    ASSUME TypeOK, NEW w \in Workers, WorkerFaults(w)
    PROVE  TypeOK'
  <1>1. CASE CallFails(w)
    BY <1>1, RetryTypes, FaultCounted
    DEF CallFails, Retry, TypeOK, bookingVars, paymentVars, pspVars, sweepVars, tutorVars
  <1>2. CASE ReplyLost(w)
    <2>1. job[w].pay \in Payments /\ job[w].amount \in Nat
      BY <1>2, JobFields DEF ReplyLost, Running
    <2>2. /\ hold' \in [Payments -> {"none", "open", "authorized"}] /\ voided' \subseteq Payments
          /\ charged' \subseteq Payments /\ taken' \in [Payments -> Nat]
      <3>1. CASE PSPCreateHold(job[w].pay)
        BY <2>1, <3>1 DEF PSPCreateHold, TypeOK
      <3>2. CASE PSPCapture(job[w].pay, job[w].amount)
        BY <2>1, <3>2, CaptureTypes DEF TypeOK
      <3>3. CASE PSPRelease(job[w].pay)
        BY <2>1, <3>3 DEF PSPRelease, TypeOK
      <3> QED
        BY <1>2, <3>1, <3>2, <3>3 DEF ReplyLost
    <2> QED
      BY <1>2, <2>2, RetryTypes, FaultCounted
      DEF ReplyLost, Retry, TypeOK, bookingVars, paymentVars, sweepVars, tutorVars
  <1>3. CASE WorkerDies(w)
    BY <1>3, SentIsQueue, FinishTypes, FaultCounted
    DEF WorkerDies, TypeOK, bookingVars, paymentVars, pspVars, sweepVars, tutorVars
  <1> QED
    BY <1>1, <1>2, <1>3 DEF WorkerFaults

LEMMA ProfileTypes ==
    ASSUME TypeOK, NEW t \in Tutors, LoadProfile(t) \/ SaveProfile(t)
    PROVE  TypeOK'
  <1>1. CASE LoadProfile(t)
    <2>1. forms' \subseteq Tutors \X Nat
      BY <1>1 DEF LoadProfile, TypeOK
    <2> QED
      BY <1>1, <2>1 DEF LoadProfile, TypeOK, bookingVars, pspVars, sweepVars, celeryVars
  <1>2. CASE SaveProfile(t)
    <2>1. PICK form \in forms : form[1] = t /\ balance' = [balance EXCEPT ![t] = form[2]]
      BY <1>2 DEF SaveProfile
    <2>2. form[2] \in Nat
      BY <2>1 DEF TypeOK
    <2>3. balance' \in [Tutors -> Nat]
      BY <2>1, <2>2 DEF TypeOK
    <2> QED
      BY <1>2, <2>3 DEF SaveProfile, TypeOK, bookingVars, pspVars, sweepVars, celeryVars
  <1> QED
    BY <1>1, <1>2

-----------------------------------------------------------------------------
\* TypeOK is inductive.
THEOREM StepTypes == TypeOK /\ [Next]_vars => TypeOK'
  <1> SUFFICES ASSUME TypeOK, [Next]_vars PROVE TypeOK'
    OBVIOUS
  <1>1. ASSUME NEW b \in Bookings, Requests(b) \/ Clock(b) PROVE TypeOK'
    BY <1>1, RequestTypes
  <1>2. CASE Sweeps \/ SweepDies
    BY <1>2, SweepTypes
  <1>3. ASSUME NEW p \in Payments, PayerAuthorizes(p) PROVE TypeOK'
    BY <1>3
    DEF PayerAuthorizes, TypeOK, bookingVars, paymentVars, sweepVars, celeryVars, tutorVars
  <1>4. ASSUME NEW e \in Events, Notify(e) \/ Redeliver(e) \/ HandleEvent(e) \/ HandlerDies(e)
        PROVE  TypeOK'
    BY <1>4, WebhookTypesKept
  <1>5. ASSUME NEW w \in Workers, Work(w) \/ WorkerFaults(w) PROVE TypeOK'
    BY <1>5, WorkTypes, WorkerFaultTypes
  <1>6. ASSUME NEW m \in Messages, Duplicate(m) PROVE TypeOK'
    BY <1>6, SentIsQueue, FaultCounted
    DEF Duplicate, TypeOK, bookingVars, paymentVars, pspVars, sweepVars, tutorVars
  <1>7. ASSUME NEW t \in Tutors, LoadProfile(t) \/ SaveProfile(t) PROVE TypeOK'
    BY <1>7, ProfileTypes
  <1>8. CASE UNCHANGED vars
    BY <1>8
    DEF vars, TypeOK, bookingVars, paymentVars, pspVars, sweepVars, celeryVars, tutorVars
  <1> QED
    BY <1>1, <1>2, <1>3, <1>4, <1>5, <1>6, <1>7, <1>8 DEF Next

\* Every reachable state is well typed: in particular no captured, retained or
\* commission amount and no balance is ever negative.
THEOREM TypeCorrect == Spec => []TypeOK
  <1> QED
    BY InitTypes, StepTypes, PTL DEF Spec
=============================================================================
