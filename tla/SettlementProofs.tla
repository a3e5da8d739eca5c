-------------------------- MODULE SettlementProofs --------------------------
(***************************************************************************)
(* The safety of Settlement, for every value of the constants: IInv is     *)
(* inductive, and the properties that TLC checks follow from it.           *)
(***************************************************************************)
EXTENDS SettlementTypes

USE ForeignKeys, PriceAssumption, PercentAssumption, BoundAssumption, SetAssumption

\* IInv without the types, and the variables it depends on.
CoreInv == /\ CoherentPair /\ ConfirmedIsBacked /\ ChargedWhatIsOwed /\ CapturedIsTaken
           /\ OnePerBooking /\ PaymentFacts /\ EventFacts /\ JobFacts

statusVars == <<bstatus, pstatus, known, retained, captured, commission>>
coreVars == <<statusVars, event, pspVars, job>>

-----------------------------------------------------------------------------
\* Steps that leave most of the core alone.

LEMMA StatusUnchanged ==
    ASSUME CoreInv, UNCHANGED <<statusVars, pspVars>>
    PROVE  /\ CoherentPair' /\ ConfirmedIsBacked' /\ ChargedWhatIsOwed' /\ CapturedIsTaken'
           /\ OnePerBooking' /\ PaymentFacts'
  BY DEF CoreInv, CoherentPair, ConfirmedIsBacked, ChargedWhatIsOwed, CapturedIsTaken,
         OnePerBooking, PaymentFacts, PaymentFact, HoldIsStillOwed, Earned, statusVars, pspVars

LEMMA EventStep ==
    ASSUME CoreInv, UNCHANGED <<statusVars, pspVars, job>>, EventFacts'
    PROVE  CoreInv'
  <1>1. JobFacts'
    BY DEF CoreInv, JobFacts, JobFact, TaskFact, statusVars, pspVars
  <1> QED
    BY <1>1, StatusUnchanged DEF CoreInv

LEMMA JobStep ==
    ASSUME CoreInv, UNCHANGED <<statusVars, pspVars, event>>, JobFacts'
    PROVE  CoreInv'
  <1>1. EventFacts'
    BY DEF CoreInv, EventFacts, EventFact, statusVars, pspVars
  <1> QED
    BY <1>1, StatusUnchanged DEF CoreInv

LEMMA IdleStep ==
    ASSUME CoreInv, UNCHANGED coreVars
    PROVE  CoreInv'
  <1>1. UNCHANGED <<statusVars, pspVars>> /\ UNCHANGED event /\ UNCHANGED job
    BY DEF coreVars
  <1>2. EventFacts'
    BY <1>1 DEF CoreInv, EventFacts, EventFact, statusVars, pspVars
  <1> QED
    BY <1>1, <1>2, EventStep

-----------------------------------------------------------------------------
\* Settling the payments of a booking that is cancelled.

\* What reconcile_booking_payment does to each payment when booking b becomes s.
Settled(b, s) ==
    /\ UNCHANGED <<known, captured, commission>>
    /\ pstatus' \in [Payments -> PaymentStatus] /\ bstatus' \in [Bookings -> BookingStatus]
    /\ \A p \in Payments : BookingOf[p] # b =>
          /\ bstatus'[BookingOf[p]] = bstatus[BookingOf[p]]
          /\ pstatus'[p] = pstatus[p] /\ retained'[p] = retained[p]
    /\ \A p \in Payments : BookingOf[p] = b =>
          /\ bstatus'[BookingOf[p]] = s
          /\ pstatus[p] # "captured" /\ p \notin charged /\ retained[p] = 0
          /\ pstatus[p] = "created" => pstatus'[p] = "failed"
          /\ pstatus[p] = "held" =>
                \/ pstatus'[p] = "refunded" /\ retained'[p] = 0
                \/ /\ pstatus'[p] = "held" /\ s = "cancelled_by_student"
                   /\ retained'[p] \in 1..AmountOf(p)
          /\ pstatus[p] \notin LiveStatus => pstatus'[p] = pstatus[p]
          /\ pstatus[p] # "held" => retained'[p] = 0

LEMMA SettledPayments ==
    ASSUME IInv, NEW b \in Bookings, NEW refund \in 0..Price[b],
           NEW s \in {"cancelled_by_student", "cancelled_by_tutor"},
           s = "cancelled_by_tutor" => refund = Price[b],
           bstatus[b] \in {"pending", "confirmed"},
           bstatus' = [bstatus EXCEPT ![b] = s],
           Reconcile(b, refund), UNCHANGED <<event, pspVars, job>>
    PROVE  Settled(b, s)
  <1> DEFINE live == LivePayments(b)
             unconfirmed == {p \in live : pstatus[p] = "created"}
             freed == {p \in live \ unconfirmed : refund >= AmountOf(p)}
             kept == live \ (unconfirmed \cup freed)
  <1> USE DEF IInv
  <1>1. /\ pstatus' = [p \in Payments |-> IF p \in unconfirmed THEN "failed"
                                          ELSE IF p \in freed THEN "refunded"
                                          ELSE pstatus[p]]
        /\ retained' = [p \in Payments |-> IF p \in kept THEN AmountOf(p) - refund
                                           ELSE retained[p]]
        /\ UNCHANGED <<known, captured, commission>>
    BY DEF Reconcile, Retained
  <1>2. \A p \in Payments : BookingOf[p] = b =>
            /\ bstatus'[BookingOf[p]] = s
            /\ pstatus[p] # "captured" /\ p \notin charged /\ retained[p] = 0
    BY AmountType, SMT DEF TypeOK, PaymentFacts, PaymentFact, ChargedWhatIsOwed, Earned
  <1>3. \A p \in Payments : BookingOf[p] # b =>
            /\ bstatus'[BookingOf[p]] = bstatus[BookingOf[p]]
            /\ pstatus'[p] = pstatus[p] /\ retained'[p] = retained[p]
    BY <1>1 DEF TypeOK, LivePayments
  <1>4. \A p \in Payments : BookingOf[p] = b =>
            /\ pstatus[p] = "created" => pstatus'[p] = "failed"
            /\ pstatus[p] = "held" =>
                  \/ pstatus'[p] = "refunded" /\ retained'[p] = 0
                  \/ /\ pstatus'[p] = "held" /\ s = "cancelled_by_student"
                     /\ retained'[p] \in 1..AmountOf(p)
            /\ pstatus[p] \notin LiveStatus => pstatus'[p] = pstatus[p]
            /\ pstatus[p] # "held" => retained'[p] = 0
    <2> SUFFICES ASSUME NEW p \in Payments, BookingOf[p] = b
                 PROVE  /\ pstatus[p] = "created" => pstatus'[p] = "failed"
                        /\ pstatus[p] = "held" =>
                              \/ pstatus'[p] = "refunded" /\ retained'[p] = 0
                              \/ /\ pstatus'[p] = "held" /\ s = "cancelled_by_student"
                                 /\ retained'[p] \in 1..AmountOf(p)
                        /\ pstatus[p] \notin LiveStatus => pstatus'[p] = pstatus[p]
                        /\ pstatus[p] # "held" => retained'[p] = 0
      OBVIOUS
    <2>1. AmountOf(p) = Price[b] /\ Price[b] \in Nat
      BY DEF AmountOf
    <2>2. CASE pstatus[p] = "created"
      BY <1>1, <1>2, <2>2 DEF LivePayments, LiveStatus
    <2>3. CASE pstatus[p] = "held" /\ refund >= AmountOf(p)
      BY <1>1, <1>2, <2>3 DEF LivePayments, LiveStatus
    <2>4. CASE pstatus[p] = "held" /\ ~ (refund >= AmountOf(p))
      <3>1. pstatus'[p] = "held" /\ retained'[p] = AmountOf(p) - refund
        BY <1>1, <2>4 DEF LivePayments, LiveStatus
      <3>2. AmountOf(p) - refund \in 1..AmountOf(p) /\ s = "cancelled_by_student"
        BY <2>1, <2>4, SMT
      <3> QED
        BY <3>1, <3>2, <2>4
    <2>5. CASE pstatus[p] \notin LiveStatus
      BY <1>1, <1>2, <2>5 DEF LivePayments, LiveStatus
    <2> QED
      BY <2>2, <2>3, <2>4, <2>5 DEF LiveStatus
  <1>5. pstatus' \in [Payments -> PaymentStatus] /\ bstatus' \in [Bookings -> BookingStatus]
    BY <1>1 DEF TypeOK, PaymentStatus, BookingStatus
  <1> QED
    BY <1>1, <1>2, <1>3, <1>4, <1>5 DEF Settled

LEMMA SettledKeepsCore ==
    ASSUME IInv, NEW b \in Bookings, NEW refund \in 0..Price[b],
           NEW s \in {"cancelled_by_student", "cancelled_by_tutor"},
           s = "cancelled_by_tutor" => refund = Price[b],
           bstatus[b] \in {"pending", "confirmed"},
           bstatus' = [bstatus EXCEPT ![b] = s],
           Reconcile(b, refund), UNCHANGED <<event, pspVars, job>>
    PROVE  CoreInv'
  <1> USE DEF IInv
  <1>1. Settled(b, s)
    BY SettledPayments
  <1>2. CoherentPair'
    <2> SUFFICES ASSUME NEW p \in Payments
                 PROVE  /\ pstatus'[p] = "created" => bstatus'[BookingOf[p]] = "pending"
                        /\ pstatus'[p] = "held" => \/ HoldIsStillOwed(p)'
                                                   \/ bstatus'[BookingOf[p]] = "no_show"
      BY DEF CoherentPair
    <2>1. CASE BookingOf[p] = b
      BY <1>1, <2>1, SMT DEF Settled, HoldIsStillOwed, LiveStatus, AmountOf
    <2>2. CASE BookingOf[p] # b
      BY <1>1, <2>2 DEF Settled, CoherentPair, HoldIsStillOwed
    <2> QED
      BY <2>1, <2>2
  <1>3. ConfirmedIsBacked'
    <2> SUFFICES ASSUME NEW c \in Bookings, bstatus'[c] \in {"confirmed", "completed"}
                 PROVE  \E p \in Payments :
                           /\ BookingOf[p] = c /\ pstatus'[p] \in {"held", "captured"}
                           /\ p \in known' \ voided' /\ hold'[p] = "authorized"
      BY DEF ConfirmedIsBacked
    <2>1. c # b /\ bstatus[c] \in {"confirmed", "completed"}
      BY DEF TypeOK
    <2> QED
      BY <1>1, <2>1 DEF Settled, ConfirmedIsBacked, pspVars
  <1>4. ChargedWhatIsOwed'
    BY <1>1 DEF Settled, ChargedWhatIsOwed, TypeOK, pspVars
  <1>5. CapturedIsTaken'
    BY <1>1 DEF Settled, CapturedIsTaken, LiveStatus, pspVars
  <1>6. OnePerBooking'
    BY <1>1 DEF Settled, OnePerBooking, LiveStatus
  <1>7. PaymentFacts'
    <2> SUFFICES ASSUME NEW p \in Payments PROVE PaymentFact(p)'
      BY DEF PaymentFacts
    <2>1. CASE BookingOf[p] = b
      <3>1. AmountOf(p) \in Nat
        BY AmountType
      <3> QED
        BY <1>1, <2>1, <3>1, SMT DEF Settled, PaymentFacts, PaymentFact, LiveStatus, pspVars, AmountOf
    <2>2. CASE BookingOf[p] # b
      BY <1>1, <2>2 DEF Settled, PaymentFacts, PaymentFact, Earned, AmountOf, pspVars
    <2> QED
      BY <2>1, <2>2
  <1>8. EventFacts'
    <2> SUFFICES ASSUME NEW e \in Events PROVE EventFact(e)'
      BY DEF EventFacts
    <2>1. e.pay \in Payments
      BY DEF Events
    <2>2. CASE BookingOf[e.pay] = b
      BY <1>1, <2>1, <2>2 DEF Settled, EventFacts, EventFact, LiveStatus, pspVars
    <2>3. CASE BookingOf[e.pay] # b
      BY <1>1, <2>1, <2>3 DEF Settled, EventFacts, EventFact, pspVars
    <2> QED
      BY <2>2, <2>3
  <1>9. JobFacts'
    <2> SUFFICES ASSUME NEW w \in Workers, job[w] # NoJob PROVE JobFact(w)'
      BY DEF JobFacts, JobFact
    <2>1. job[w].pay \in Payments /\ AmountOf(job[w].pay)' = AmountOf(job[w].pay)
      BY JobFields DEF AmountOf
    <2>2. CASE BookingOf[job[w].pay] = b
      BY <1>1, <2>1, <2>2 DEF Settled, JobFacts, JobFact, TaskFact, LiveStatus, pspVars
    <2>3. CASE BookingOf[job[w].pay] # b
      BY <1>1, <2>1, <2>3 DEF Settled, JobFacts, JobFact, TaskFact, pspVars
    <2> QED
      BY <2>2, <2>3
  <1> QED
    BY <1>2, <1>3, <1>4, <1>5, <1>6, <1>7, <1>8, <1>9 DEF CoreInv

\* The three actions that settle a booking's payments.
LEMMA CancelSettles ==
    ASSUME IInv, NEW b \in Bookings,
           CancelByStudent(b) \/ CancelByTutor(b) \/ ExpireBooking(b)
    PROVE  \E s \in {"cancelled_by_student", "cancelled_by_tutor"} : Settled(b, s) /\ CoreInv'
  <1>1. Price[b] \in Nat
    OBVIOUS
  <1>2. Price[b] \in 0..Price[b]
    BY <1>1, SMT
  <1>3. CASE CancelByStudent(b)
    <2>1. PICK percent \in Percents :
            Reconcile(b, IF phase[b] = "far" THEN Price[b] ELSE LateRefund(Price[b], percent))
      BY <1>3 DEF CancelByStudent
    <2>2. LateRefund(Price[b], percent) \in 0..Price[b]
      BY RefundType
    <2>3. PICK refund \in 0..Price[b] : Reconcile(b, refund)
      BY <1>2, <2>1, <2>2
    <2> QED
      BY <1>3, <2>3, SettledKeepsCore, SettledPayments DEF CancelByStudent
  <1>4. CASE CancelByTutor(b)
    BY <1>2, <1>4, SettledKeepsCore, SettledPayments DEF CancelByTutor
  <1>5. CASE ExpireBooking(b)
    BY <1>2, <1>5, SettledKeepsCore, SettledPayments DEF ExpireBooking
  <1> QED
    BY <1>3, <1>4, <1>5

-----------------------------------------------------------------------------
\* The other requests and sweeps.

LEMMA InitiateKeepsCore ==
    ASSUME IInv, NEW b \in Bookings, InitiatePayment(b)
    PROVE  CoreInv'
  <1>1. PICK p \in Payments : /\ BookingOf[p] = b /\ pstatus[p] = "none"
                              /\ pstatus' = [pstatus EXCEPT ![p] = "created"]
    BY DEF InitiatePayment
  <1>2. UNCHANGED <<bstatus, known, retained, captured, commission, event, hold, voided,
                    charged, taken, job>>
    BY DEF InitiatePayment, bookingVars, pspVars
  <1>3. /\ pstatus'[p] = "created"
        /\ \A q \in Payments \ {p} : pstatus'[q] = pstatus[q]
    BY <1>1 DEF IInv, TypeOK
  <1>4. /\ p \notin known \cup voided \cup charged /\ hold[p] = "none"
        /\ captured[p] = 0 /\ commission[p] = 0 /\ retained[p] = 0
    BY <1>1, AmountType, SMT
    DEF IInv, PaymentFacts, PaymentFact, ChargedWhatIsOwed, CapturedIsTaken, TypeOK
  <1> USE DEF IInv
  <1>5. CoherentPair'
    BY <1>1, <1>2, <1>3 DEF CoherentPair, HoldIsStillOwed, InitiatePayment
  <1>6. ConfirmedIsBacked'
    BY <1>1, <1>2, <1>3 DEF ConfirmedIsBacked
  <1>7. ChargedWhatIsOwed'
    BY <1>2, <1>3, <1>4 DEF ChargedWhatIsOwed, TypeOK
  <1>8. CapturedIsTaken'
    BY <1>2, <1>3, <1>4 DEF CapturedIsTaken
  <1>9. OnePerBooking'
    BY <1>1, <1>2, <1>3 DEF OnePerBooking, InitiatePayment, LivePayments, LiveStatus
  <1>10. PaymentFacts'
    <2> SUFFICES ASSUME NEW q \in Payments PROVE PaymentFact(q)'
      BY DEF PaymentFacts
    <2>1. CASE q = p
      BY <1>2, <1>3, <1>4, <2>1, AmountType, SMT DEF PaymentFact, AmountOf
    <2>2. CASE q # p
      BY <1>2, <1>3, <2>2 DEF PaymentFacts, PaymentFact, Earned, AmountOf
    <2> QED
      BY <2>1, <2>2
  <1>11. EventFacts'
    BY <1>1, <1>2, <1>3 DEF EventFacts, EventFact, Events
  <1>12. JobFacts'
    BY <1>1, <1>2, <1>3, JobFields DEF JobFacts, JobFact, TaskFact, AmountOf
  <1> QED
    BY <1>5, <1>6, <1>7, <1>8, <1>9, <1>10, <1>11, <1>12 DEF CoreInv

\* confirmed -> completed and confirmed -> no_show: a booking that is still
\* confirmed has nothing charged, captured or retained.
LEMMA ConfirmedLeft ==
    ASSUME IInv, NEW b \in Bookings, NEW s \in {"completed", "no_show"},
           bstatus[b] = "confirmed", bstatus' = [bstatus EXCEPT ![b] = s],
           UNCHANGED <<pstatus, known, retained, captured, commission, event, pspVars, job>>
    PROVE  CoreInv'
  <1> USE DEF IInv, pspVars
  <1>1. /\ bstatus'[b] = s
        /\ \A c \in Bookings \ {b} : bstatus'[c] = bstatus[c]
    BY DEF TypeOK
  <1>2. \A p \in Payments : BookingOf[p] = b =>
            /\ pstatus[p] \notin {"created", "captured"} /\ p \notin charged
            /\ ~ (retained[p] > 0)
    BY DEF CoherentPair, PaymentFacts, PaymentFact, ChargedWhatIsOwed, Earned
  <1>3. CoherentPair'
    BY <1>1, <1>2 DEF CoherentPair, HoldIsStillOwed
  <1>4. ConfirmedIsBacked'
    BY <1>1 DEF ConfirmedIsBacked
  <1>5. ChargedWhatIsOwed'
    BY <1>1, <1>2 DEF ChargedWhatIsOwed, TypeOK, AmountOf
  <1>6. CapturedIsTaken' /\ OnePerBooking'
    BY DEF CapturedIsTaken, OnePerBooking
  <1>7. PaymentFacts'
    BY <1>1, <1>2 DEF PaymentFacts, PaymentFact, Earned, AmountOf
  <1>8. EventFacts'
    BY <1>1 DEF EventFacts, EventFact, Events
  <1>9. JobFacts'
    <2> SUFFICES ASSUME NEW w \in Workers, job[w] # NoJob PROVE JobFact(w)'
      BY DEF JobFacts, JobFact
    <2> QED
      BY <1>1, JobFields DEF JobFacts, JobFact, TaskFact, AmountOf
  <1> QED
    BY <1>3, <1>4, <1>5, <1>6, <1>7, <1>8, <1>9 DEF CoreInv

LEMMA RequestKeepsCore ==
    ASSUME IInv, NEW b \in Bookings, Requests(b) \/ Clock(b)
    PROVE  CoreInv'
  <1>1. CASE InitiatePayment(b)
    BY <1>1, InitiateKeepsCore
  <1>2. CASE CancelByStudent(b) \/ CancelByTutor(b)
    BY <1>2, CancelSettles
  <1>3. CASE MarkNoShow(b)
    BY <1>3, ConfirmedLeft DEF MarkNoShow, paymentVars, celeryVars
  <1>4. CASE Clock(b)
    BY <1>4, IdleStep
    DEF Clock, BecomeStale, PassPhase, IInv, CoreInv, coreVars, statusVars, paymentVars, celeryVars
  <1> QED
    BY <1>1, <1>2, <1>3, <1>4 DEF Requests

LEMMA SweepKeepsCore ==
    ASSUME IInv, Sweeps \/ SweepDies
    PROVE  CoreInv'
  <1>1. ASSUME NEW b \in Bookings, ExpireBooking(b) PROVE CoreInv'
    BY <1>1, CancelSettles
  <1>2. ASSUME NEW b \in Bookings, CompleteBooking(b) PROVE CoreInv'
    BY <1>2, ConfirmedLeft DEF CompleteBooking, paymentVars
  <1>3. CASE ScanPending \/ ScanFinished \/ SweepDies
    BY <1>3, IdleStep
    DEF ScanPending, ScanFinished, SweepDies, IInv, CoreInv, coreVars, statusVars,
        bookingVars, paymentVars, celeryVars
  <1>4. ASSUME NEW b \in Bookings, SkipExpired(b) \/ SkipCompleted(b) PROVE CoreInv'
    BY <1>4, IdleStep
    DEF SkipExpired, SkipCompleted, IInv, CoreInv, coreVars, statusVars,
        bookingVars, paymentVars, celeryVars
  <1> QED
    BY <1>1, <1>2, <1>3, <1>4 DEF Sweeps

-----------------------------------------------------------------------------
\* Webhook deliveries.

\* created -> held with pending -> confirmed.
LEMMA ConfirmKeepsCore ==
    ASSUME IInv, NEW e \in Events, ConfirmHold(e)
    PROVE  CoreInv'
  <1> DEFINE p == e.pay
             b == BookingOf[p]
  <1>1. /\ p \in Payments /\ b \in Bookings
        /\ pstatus[p] = "created" /\ bstatus[b] = "pending" /\ p \in known
        /\ event[e] = "sent" /\ e.type = "hold_succeeded"
        /\ pstatus' = [pstatus EXCEPT ![p] = "held"]
        /\ bstatus' = [bstatus EXCEPT ![b] = "confirmed"]
        /\ event' = [event EXCEPT ![e] = "recorded"]
    BY DEF ConfirmHold, Delivered, Answer, Events
  <1>2. UNCHANGED <<known, retained, captured, commission, hold, voided, charged, taken, job>>
    BY DEF ConfirmHold, pspVars, celeryVars
  <1> HIDE DEF p, b
  <1> USE DEF IInv
  <1>3. /\ pstatus'[p] = "held" /\ \A q \in Payments \ {p} : pstatus'[q] = pstatus[q]
        /\ bstatus'[b] = "confirmed" /\ \A c \in Bookings \ {b} : bstatus'[c] = bstatus[c]
        /\ event'[e] = "recorded" /\ \A d \in Events \ {e} : event'[d] = event[d]
    BY <1>1 DEF TypeOK
  <1>4. hold[p] = "authorized" /\ p \notin voided
    BY <1>1 DEF EventFacts, EventFact, PaymentFacts, PaymentFact, p
  <1>5. \A q \in Payments \ {p} : BookingOf[q] = b =>
            pstatus[q] \notin {"created", "held", "captured"}
    BY <1>1
    DEF OnePerBooking, LiveStatus, CoherentPair, HoldIsStillOwed, PaymentFacts, PaymentFact,
        Earned, b
  <1>6. \A q \in Payments : BookingOf[q] = b => q \notin charged /\ ~ (retained[q] > 0)
    BY <1>1 DEF ChargedWhatIsOwed, PaymentFacts, PaymentFact
  <1>7. CoherentPair'
    BY <1>1, <1>2, <1>3, <1>5 DEF CoherentPair, HoldIsStillOwed, b
  <1>8. ConfirmedIsBacked'
    <2> SUFFICES ASSUME NEW c \in Bookings, bstatus'[c] \in {"confirmed", "completed"}
                 PROVE  \E q \in Payments :
                           /\ BookingOf[q] = c /\ pstatus'[q] \in {"held", "captured"}
                           /\ q \in known' \ voided' /\ hold'[q] = "authorized"
      BY DEF ConfirmedIsBacked
    <2>1. CASE c = b
      BY <1>1, <1>2, <1>3, <1>4, <2>1 DEF b
    <2>2. CASE c # b
      BY <1>1, <1>2, <1>3, <2>2 DEF ConfirmedIsBacked
    <2> QED
      BY <2>1, <2>2
  <1>9. ChargedWhatIsOwed'
    BY <1>1, <1>2, <1>3, <1>6 DEF ChargedWhatIsOwed, TypeOK, AmountOf, b
  <1>10. CapturedIsTaken'
    BY <1>1, <1>2, <1>3 DEF CapturedIsTaken
  <1>11. OnePerBooking'
    BY <1>1, <1>3, <1>5 DEF OnePerBooking, LiveStatus, b
  <1>12. PaymentFacts'
    <2> SUFFICES ASSUME NEW q \in Payments PROVE PaymentFact(q)'
      BY DEF PaymentFacts
    <2>1. CASE q = p
      BY <1>1, <1>2, <1>3, <1>4, <1>6, <2>1 DEF PaymentFacts, PaymentFact, AmountOf, b
    <2>2. CASE q # p
      BY <1>1, <1>2, <1>3, <1>5, <1>6, <2>2 DEF PaymentFacts, PaymentFact, Earned, AmountOf, b
    <2> QED
      BY <2>1, <2>2
  <1>13. EventFacts'
    <2> SUFFICES ASSUME NEW d \in Events PROVE EventFact(d)'
      BY DEF EventFacts
    <2>1. d.pay \in Payments /\ BookingOf[d.pay] \in Bookings
      BY DEF Events
    <2>2. CASE d = e
      BY <1>1, <1>2, <1>3, <1>4, <2>2 DEF EventFact, p
    <2>3. CASE d # e
      BY <1>1, <1>2, <1>3, <2>1, <2>3 DEF EventFacts, EventFact
    <2> QED
      BY <2>2, <2>3
  <1>14. JobFacts'
    <2> SUFFICES ASSUME NEW w \in Workers, job[w] # NoJob PROVE JobFact(w)'
      BY <1>2 DEF JobFacts, JobFact
    <2> QED
      BY <1>1, <1>2, <1>3, JobFields DEF JobFacts, JobFact, TaskFact, AmountOf, b
  <1> QED
    BY <1>7, <1>8, <1>9, <1>10, <1>11, <1>12, <1>13, <1>14 DEF CoreInv

\* A payment the tutor has not earned fails.
LEMMA FailKeepsCore ==
    ASSUME IInv, NEW e \in Events,
           \/ pstatus[e.pay] = "created"
           \/ pstatus[e.pay] = "held" /\ bstatus[BookingOf[e.pay]] = "no_show",
           pstatus'[e.pay] = "failed",
           \A q \in Payments \ {e.pay} : pstatus'[q] = pstatus[q],
           event'[e] = "recorded", event[e] # "unsent",
           \A d \in Events \ {e} : event'[d] = event[d],
           UNCHANGED <<bstatus, known, retained, captured, commission, pspVars, job>>
    PROVE  CoreInv'
  <1> DEFINE p == e.pay
  <1>1. p \in Payments /\ BookingOf[p] \in Bookings
    BY DEF Events
  <1> USE DEF IInv, pspVars
  <1>2. pstatus'[p] = "failed" /\ \A q \in Payments \ {p} : pstatus'[q] = pstatus[q]
    OBVIOUS
  <1>3. /\ pstatus[p] \notin {"captured", "refunded", "failed"} /\ ~ (retained[p] > 0)
        /\ p \notin voided \cup charged
        /\ bstatus[BookingOf[p]] \notin {"confirmed", "completed"}
    BY <1>1 DEF CoherentPair, ChargedWhatIsOwed, PaymentFacts, PaymentFact, p
  <1> HIDE DEF p
  <1>4. CoherentPair'
    BY <1>2 DEF CoherentPair, HoldIsStillOwed
  <1>5. ConfirmedIsBacked'
    BY <1>2, <1>3 DEF ConfirmedIsBacked
  <1>6. ChargedWhatIsOwed'
    BY <1>2, <1>3 DEF ChargedWhatIsOwed, TypeOK, AmountOf
  <1>7. CapturedIsTaken'
    BY <1>2, <1>3 DEF CapturedIsTaken
  <1>8. OnePerBooking'
    BY <1>2 DEF OnePerBooking, LiveStatus
  <1>9. PaymentFacts'
    <2> SUFFICES ASSUME NEW q \in Payments PROVE PaymentFact(q)'
      BY DEF PaymentFacts
    <2> QED
      BY <1>2, <1>3 DEF PaymentFacts, PaymentFact, Earned, AmountOf
  <1>10. EventFacts'
    <2> SUFFICES ASSUME NEW d \in Events PROVE EventFact(d)'
      BY DEF EventFacts
    <2>1. d.pay \in Payments
      BY DEF Events
    <2> QED
      BY <1>2, <2>1 DEF EventFacts, EventFact
  <1>11. JobFacts'
    <2> SUFFICES ASSUME NEW w \in Workers, job[w] # NoJob PROVE JobFact(w)'
      BY DEF JobFacts, JobFact
    <2>1. JobFact(w) /\ job[w].pay \in Payments
      BY JobFields DEF JobFacts
    <2>2. pstatus[p] = "created" =>
            bstatus[BookingOf[p]] \notin {"completed", "cancelled_by_student"}
      BY <1>1 DEF CoherentPair
    <2>3. CASE job[w].pay = p
      BY <1>2, <1>3, <2>1, <2>2, <2>3 DEF JobFact, TaskFact, AmountOf, p
    <2>4. CASE job[w].pay # p
      BY <1>2, <2>1, <2>4 DEF JobFact, TaskFact, AmountOf
    <2> QED
      BY <2>3, <2>4
  <1> QED
    BY <1>4, <1>5, <1>6, <1>7, <1>8, <1>9, <1>10, <1>11 DEF CoreInv

LEMMA AnswerKeepsFacts ==
    ASSUME IInv, NEW e \in Events, NEW outcome \in {"sent", "recorded", "ignored"},
           event[e] # "unsent", event' = [event EXCEPT ![e] = outcome],
           UNCHANGED <<statusVars, pspVars, job>>
    PROVE  CoreInv'
  <1>1. EventFacts'
    BY DEF IInv, TypeOK, EventFacts, EventFact, statusVars, pspVars
  <1> QED
    BY <1>1, EventStep DEF IInv, CoreInv

LEMMA WebhookKeepsCore ==
    ASSUME IInv, NEW e \in Events,
           Notify(e) \/ Redeliver(e) \/ HandleEvent(e) \/ HandlerDies(e)
    PROVE  CoreInv'
  <1> USE DEF statusVars, bookingVars, paymentVars, celeryVars, Answer
  <1>1. CASE Notify(e)
    <2>1. EventFacts'
      BY <1>1 DEF Notify, Notifiable, IInv, TypeOK, EventFacts, EventFact, pspVars
    <2> QED
      BY <1>1, <2>1, EventStep DEF Notify, IInv, CoreInv
  <1>2. CASE Redeliver(e)
    BY <1>2, AnswerKeepsFacts DEF Redeliver
  <1>3. CASE UnknownHold(e) \/ HoldAlreadyApplied(e) \/ EchoRecorded(e)
    BY <1>3, AnswerKeepsFacts DEF UnknownHold, HoldAlreadyApplied, EchoRecorded, Delivered
  <1>4. CASE HandlerDies(e)
    BY <1>4, AnswerKeepsFacts DEF HandlerDies
  <1>5. CASE ConfirmHold(e)
    BY <1>5, ConfirmKeepsCore
  <1>6. CASE HoldNotConfirmable(e)
    <2> DEFINE p == e.pay
    <2>1. p \in Payments /\ hold[p] = "authorized" /\ p \in known
      BY <1>6 DEF HoldNotConfirmable, Delivered, IInv, EventFacts, EventFact, Events
    <2>2. \/ pstatus[p] \in {"captured", "refunded", "failed"}
          \/ pstatus[p] = "held" /\ bstatus[BookingOf[p]] = "no_show"
      <3>1. pstatus[p] \in PaymentStatus /\ pstatus[p] # "none"
        BY <2>1 DEF IInv, TypeOK, PaymentFacts, PaymentFact
      <3> QED
        BY <1>6, <2>1, <3>1 DEF HoldNotConfirmable, IInv, CoherentPair, PaymentStatus
    <2>3. EventFacts'
      BY <1>6, <2>1, <2>2 DEF HoldNotConfirmable, IInv, TypeOK, EventFacts, EventFact, pspVars
    <2> QED
      BY <1>6, <2>3, EventStep DEF HoldNotConfirmable, IInv, CoreInv
  <1>7. CASE FailAndRelease(e) \/ HoldFailed(e)
    <2>1. pstatus \in [Payments -> PaymentStatus] /\ e.pay \in Payments
      BY DEF IInv, TypeOK, Events
    <2>2. event[e] # "unsent" /\ event' = [event EXCEPT ![e] = "recorded"]
      BY <1>7 DEF FailAndRelease, HoldFailed, Delivered
    <2>3. UNCHANGED <<bstatus, known, retained, captured, commission, pspVars, job>>
      BY <1>7 DEF FailAndRelease, HoldFailed
    <2>4. \/ UNCHANGED pstatus
          \/ /\ pstatus' = [pstatus EXCEPT ![e.pay] = "failed"]
             /\ \/ pstatus[e.pay] = "created"
                \/ pstatus[e.pay] = "held" /\ bstatus[BookingOf[e.pay]] = "no_show"
      BY <1>7, <2>1
      DEF FailAndRelease, HoldFailed, LiveStatus, IInv, EventFacts, EventFact, PaymentStatus
    <2>5. CASE UNCHANGED pstatus
      BY <2>2, <2>3, <2>5, AnswerKeepsFacts
    <2>6. CASE ~ UNCHANGED pstatus
      <3>1. /\ pstatus'[e.pay] = "failed"
            /\ \A q \in Payments \ {e.pay} : pstatus'[q] = pstatus[q]
            /\ \/ pstatus[e.pay] = "created"
               \/ pstatus[e.pay] = "held" /\ bstatus[BookingOf[e.pay]] = "no_show"
        BY <2>1, <2>4, <2>6
      <3>2. event'[e] = "recorded" /\ \A d \in Events \ {e} : event'[d] = event[d]
        BY <2>2 DEF IInv, TypeOK
      <3> QED
        BY <2>2, <2>3, <3>1, <3>2, FailKeepsCore
    <2> QED
      BY <2>5, <2>6
  <1> QED
    BY <1>1, <1>2, <1>3, <1>4, <1>5, <1>6, <1>7 DEF HandleEvent

-----------------------------------------------------------------------------
\* Celery workers.

\* A worker that ends a task, and one that goes on to a step whose facts hold.
LEMMA JobMoves ==
    ASSUME IInv, NEW w \in Workers, NEW j,
           job' = [job EXCEPT ![w] = j],
           j # NoJob => TaskFact(j.kind, j.pc, j.pay, j.amount),
           UNCHANGED <<statusVars, pspVars, event>>
    PROVE  CoreInv'
  <1>1. job'[w] = j /\ \A v \in Workers \ {w} : job'[v] = job[v]
    BY DEF IInv, TypeOK
  <1>2. JobFacts'
    <2> SUFFICES ASSUME NEW v \in Workers, job'[v] # NoJob PROVE JobFact(v)'
      BY DEF JobFacts, JobFact
    <2>1. CASE v = w
      BY <1>1, <2>1 DEF JobFact, TaskFact, statusVars, pspVars, AmountOf
    <2>2. CASE v # w
      BY <1>1, <2>2 DEF IInv, JobFacts, JobFact, TaskFact, statusVars, pspVars, AmountOf
    <2> QED
      BY <2>1, <2>2
  <1> QED
    BY <1>2, JobStep DEF IInv, CoreInv

LEMMA FinishKeepsCore ==
    ASSUME IInv, NEW w \in Workers, Finish(w), UNCHANGED <<statusVars, pspVars, event>>
    PROVE  CoreInv'
  BY JobMoves DEF Finish

\* The provider opens a hold for a task.
LEMMA HoldKeepsCore ==
    ASSUME IInv, NEW w \in Workers, NEW j, Calling(w, {"hold"}),
           PSPCreateHold(job[w].pay), job' = [job EXCEPT ![w] = j],
           j # NoJob => j.kind = "hold" /\ j.pay = job[w].pay /\ j.pc = "store",
           UNCHANGED <<statusVars, event>>
    PROVE  CoreInv'
  <1> DEFINE p == job[w].pay
  <1>1. p \in Payments /\ job[w].kind = "hold" /\ job[w] # NoJob
    BY JobFields DEF Calling, Running, IInv
  <1>2. /\ UNCHANGED <<voided, charged, taken>>
        /\ hold'[p] # "none" /\ (hold[p] # "none" => hold'[p] = hold[p])
        /\ \A q \in Payments \ {p} : hold'[q] = hold[q]
    BY <1>1 DEF PSPCreateHold, IInv, TypeOK
  <1>3. job'[w] = j /\ \A v \in Workers \ {w} : job'[v] = job[v]
    BY DEF IInv, TypeOK
  <1>4. pstatus[p] # "none"
    BY <1>1 DEF IInv, JobFacts, JobFact, TaskFact
  <1> HIDE DEF p
  <1> USE DEF IInv, statusVars
  <1>5. \A q \in Payments : hold[q] = "authorized" => hold'[q] = "authorized"
    BY <1>2
  <1>6. CoherentPair' /\ CapturedIsTaken' /\ OnePerBooking'
    BY <1>2 DEF CoherentPair, HoldIsStillOwed, CapturedIsTaken, OnePerBooking
  <1>7. ConfirmedIsBacked'
    BY <1>2, <1>5 DEF ConfirmedIsBacked
  <1>8. ChargedWhatIsOwed'
    BY <1>2 DEF ChargedWhatIsOwed, AmountOf
  <1>9. PaymentFacts'
    <2> SUFFICES ASSUME NEW q \in Payments PROVE PaymentFact(q)'
      BY DEF PaymentFacts
    <2> QED
      BY <1>2, <1>4, <1>5 DEF PaymentFacts, PaymentFact, Earned, AmountOf
  <1>10. EventFacts'
    BY <1>5 DEF EventFacts, EventFact, Events
  <1>11. JobFacts'
    <2> SUFFICES ASSUME NEW v \in Workers, job'[v] # NoJob PROVE JobFact(v)'
      BY DEF JobFacts, JobFact
    <2>1. CASE v = w
      BY <1>1, <1>2, <1>3, <1>4, <2>1 DEF JobFact, TaskFact, p
    <2>2. CASE v # w
      <3>1. job[v].pay \in Payments /\ JobFact(v)
        BY <1>3, <2>2, JobFields DEF JobFacts
      <3> QED
        BY <1>2, <1>3, <2>2, <3>1 DEF JobFact, TaskFact, AmountOf
    <2> QED
      BY <2>1, <2>2
  <1> QED
    BY <1>6, <1>7, <1>8, <1>9, <1>10, <1>11 DEF CoreInv

\* The provider captures the hold of a payment the tutor has earned.
LEMMA CaptureKeepsCore ==
    ASSUME IInv, NEW w \in Workers, NEW j, Calling(w, {"capture", "partial"}),
           PSPCapture(job[w].pay, job[w].amount), job' = [job EXCEPT ![w] = j],
           j # NoJob => /\ j.kind = job[w].kind /\ j.pay = job[w].pay /\ j.pc = "credit"
                        /\ j.amount = taken'[job[w].pay],
           UNCHANGED <<statusVars, event>>
    PROVE  CoreInv'
  <1> DEFINE p == job[w].pay
  <1>1. p \in Payments /\ job[w].kind \in {"capture", "partial"} /\ job[w] # NoJob
    BY JobFields DEF Calling, Running, IInv
  <1>2. /\ UNCHANGED <<hold, voided>> /\ charged' = charged \cup {p}
        /\ taken'[p] = IF p \in charged THEN taken[p] ELSE job[w].amount
        /\ \A q \in Payments \ {p} : taken'[q] = taken[q]
    BY <1>1 DEF PSPCapture, IInv, TypeOK
  <1>3. job'[w] = j /\ \A v \in Workers \ {w} : job'[v] = job[v]
    BY DEF IInv, TypeOK
  <1>4. TaskFact(job[w].kind, job[w].pc, p, job[w].amount)
    BY <1>1 DEF IInv, JobFacts, JobFact
  <1>5. taken'[p] = job[w].amount
    BY <1>1, <1>2, <1>4 DEF TaskFact, IInv, ChargedWhatIsOwed
  <1> HIDE DEF p
  <1> USE DEF IInv, statusVars
  <1>6. CoherentPair' /\ ConfirmedIsBacked' /\ OnePerBooking'
    BY <1>2 DEF CoherentPair, HoldIsStillOwed, ConfirmedIsBacked, OnePerBooking
  <1>7. ChargedWhatIsOwed'
    <2> SUFFICES ASSUME NEW q \in charged'
                 PROVE  (/\ pstatus[q] \in {"held", "captured"}
                         /\ \/ bstatus[BookingOf[q]] = "completed" /\ taken[q] = AmountOf(q)
                            \/ /\ bstatus[BookingOf[q]] = "cancelled_by_student"
                               /\ 0 < retained[q] /\ taken[q] = retained[q]
                               /\ taken[q] <= AmountOf(q))'
      BY DEF ChargedWhatIsOwed
    <2>1. CASE q = p
      <3>1. retained[p] <= AmountOf(p) /\ retained[p] \in Nat /\ AmountOf(p) \in Nat
        BY <1>1, AmountType DEF PaymentFacts, PaymentFact, TypeOK
      <3> QED
        BY <1>1, <1>4, <1>5, <2>1, <3>1, SMT DEF TaskFact, AmountOf
    <2>2. CASE q # p
      BY <1>2, <2>2 DEF ChargedWhatIsOwed, TypeOK, AmountOf
    <2> QED
      BY <2>1, <2>2
  <1>8. CapturedIsTaken'
    BY <1>1, <1>2 DEF CapturedIsTaken, TypeOK
  <1>9. PaymentFacts'
    BY <1>2 DEF PaymentFacts, PaymentFact, Earned, AmountOf
  <1>10. EventFacts'
    BY <1>2 DEF EventFacts, EventFact
  <1>11. JobFacts'
    <2> SUFFICES ASSUME NEW v \in Workers, job'[v] # NoJob PROVE JobFact(v)'
      BY DEF JobFacts, JobFact
    <2>1. CASE v = w
      BY <1>1, <1>2, <1>3, <1>4, <1>5, <2>1 DEF JobFact, TaskFact, AmountOf, p
    <2>2. CASE v # w
      BY <1>2, <1>3, <2>2 DEF JobFacts, JobFact, TaskFact, AmountOf
    <2> QED
      BY <2>1, <2>2
  <1> QED
    BY <1>6, <1>7, <1>8, <1>9, <1>10, <1>11 DEF CoreInv

\* The provider releases the hold of a payment that is failed or refunded.
LEMMA ReleaseKeepsCore ==
    ASSUME IInv, NEW w \in Workers, Calling(w, {"release"}),
           PSPRelease(job[w].pay), Finish(w), UNCHANGED <<statusVars, event>>
    PROVE  CoreInv'
  <1> DEFINE p == job[w].pay
  <1>1. p \in Payments /\ pstatus[p] \in {"failed", "refunded"}
    BY JobFields DEF Calling, Running, IInv, JobFacts, JobFact, TaskFact
  <1>2. voided' = voided \cup {p} /\ UNCHANGED <<hold, charged, taken>>
    BY DEF PSPRelease
  <1>3. job'[w] = NoJob /\ \A v \in Workers \ {w} : job'[v] = job[v]
    BY DEF IInv, TypeOK, Finish
  <1> HIDE DEF p
  <1> USE DEF IInv, statusVars
  <1>4. CoherentPair' /\ CapturedIsTaken' /\ OnePerBooking' /\ ChargedWhatIsOwed'
    BY <1>2
    DEF CoherentPair, HoldIsStillOwed, CapturedIsTaken, OnePerBooking, ChargedWhatIsOwed, AmountOf
  <1>5. ConfirmedIsBacked'
    BY <1>1, <1>2 DEF ConfirmedIsBacked
  <1>6. PaymentFacts'
    BY <1>1, <1>2 DEF PaymentFacts, PaymentFact, Earned, AmountOf
  <1>7. EventFacts'
    BY <1>2 DEF EventFacts, EventFact
  <1>8. JobFacts'
    BY <1>2, <1>3 DEF JobFacts, JobFact, TaskFact, AmountOf
  <1> QED
    BY <1>4, <1>5, <1>6, <1>7, <1>8 DEF CoreInv

\* The stored hold id.
LEMMA StoreKeepsCore ==
    ASSUME IInv, NEW w \in Workers, StoreHoldId(w)
    PROVE  CoreInv'
  <1> DEFINE p == job[w].pay
  <1>1. p \in Payments /\ job[w] # NoJob /\ job[w] \in Jobs /\ job[w].kind = "hold"
        /\ job[w].pc = "store" /\ pstatus[p] # "none" /\ hold[p] # "none"
    BY JobFields DEF StoreHoldId, Running, IInv, JobFacts, JobFact, TaskFact
  <1>2. /\ known' = known \cup {p}
        /\ UNCHANGED <<bstatus, pstatus, retained, captured, commission, event, pspVars>>
    BY DEF StoreHoldId, bookingVars
  <1>3. \A v \in Workers \ {w} : job'[v] = job[v]
    BY DEF IInv, TypeOK, StoreHoldId, Finish
  <1>4. job'[w] # NoJob => job'[w] = [job[w] EXCEPT !.pc = "check"]
    BY DEF IInv, TypeOK, StoreHoldId, Finish
  <1>5. job'[w] # NoJob =>
            /\ job'[w].kind = "hold" /\ job'[w].pc = "check" /\ job'[w].pay = p
    BY <1>1, <1>4 DEF Jobs
  <1> HIDE DEF p
  <1> USE DEF IInv, pspVars
  <1>6. CoherentPair' /\ CapturedIsTaken' /\ OnePerBooking' /\ ChargedWhatIsOwed'
    BY <1>2
    DEF CoherentPair, HoldIsStillOwed, CapturedIsTaken, OnePerBooking, ChargedWhatIsOwed, AmountOf
  <1>7. ConfirmedIsBacked'
    BY <1>2 DEF ConfirmedIsBacked
  <1>8. PaymentFacts'
    BY <1>1, <1>2 DEF PaymentFacts, PaymentFact, Earned, AmountOf
  <1>9. EventFacts'
    BY <1>2 DEF EventFacts, EventFact
  <1>10. JobFacts'
    <2> SUFFICES ASSUME NEW v \in Workers, job'[v] # NoJob PROVE JobFact(v)'
      BY DEF JobFacts, JobFact
    <2>1. CASE v = w
      BY <1>1, <1>2, <1>5, <2>1 DEF JobFact, TaskFact
    <2>2. CASE v # w
      BY <1>2, <1>3, <2>2 DEF JobFacts, JobFact, TaskFact, AmountOf
    <2> QED
      BY <2>1, <2>2
  <1> QED
    BY <1>6, <1>7, <1>8, <1>9, <1>10 DEF CoreInv

\* held -> captured, for the amount the provider took.
LEMMA CreditKeepsCore ==
    ASSUME IInv, NEW w \in Workers, CaptureAndCredit(w)
    PROVE  CoreInv'
  <1> DEFINE p == job[w].pay
             amount == job[w].amount
  <1>1. p \in Payments /\ job[w] # NoJob /\ amount \in Nat
        /\ TaskFact(job[w].kind, "credit", p, amount)
    BY JobFields DEF CaptureAndCredit, Running, IInv, JobFacts, JobFact
  <1>2. p \in charged /\ taken[p] = amount /\ Earned(p)
    BY <1>1 DEF TaskFact, IInv, ChargedWhatIsOwed, Earned
  <1>3. /\ UNCHANGED <<bstatus, known, retained, event, pspVars>> /\ Finish(w)
    BY DEF CaptureAndCredit, bookingVars
  <1>4. CASE pstatus[p] = "held"
    <2>1. /\ pstatus'[p] = "captured" /\ \A q \in Payments \ {p} : pstatus'[q] = pstatus[q]
          /\ captured'[p] = amount /\ \A q \in Payments \ {p} : captured'[q] = captured[q]
          /\ commission'[p] = Commission(amount, StandardRate)
          /\ \A q \in Payments \ {p} : commission'[q] = commission[q]
      BY <1>1, <1>4 DEF CaptureAndCredit, Settle, IInv, TypeOK
    <2>2. \A v \in Workers : job'[v] # NoJob => job'[v] = job[v]
      BY <1>3 DEF IInv, TypeOK, Finish
    <2> HIDE DEF p, amount
    <2> USE DEF IInv, pspVars
    <2>3. CoherentPair'
      BY <1>3, <2>1 DEF CoherentPair, HoldIsStillOwed
    <2>4. ConfirmedIsBacked'
      BY <1>3, <2>1 DEF ConfirmedIsBacked
    <2>5. ChargedWhatIsOwed'
      BY <1>3, <2>1 DEF ChargedWhatIsOwed, TypeOK, AmountOf
    <2>6. CapturedIsTaken'
      BY <1>2, <1>3, <2>1 DEF CapturedIsTaken
    <2>7. OnePerBooking'
      BY <1>4, <2>1 DEF OnePerBooking, LiveStatus
    <2>8. PaymentFacts'
      <3> SUFFICES ASSUME NEW q \in Payments PROVE PaymentFact(q)'
        BY DEF PaymentFacts
      <3> QED
        BY <1>2, <1>3, <1>4, <2>1 DEF PaymentFacts, PaymentFact, Earned, AmountOf
    <2>9. EventFacts'
      BY <1>3, <2>1 DEF EventFacts, EventFact, Events
    <2>10. JobFacts'
      <3> SUFFICES ASSUME NEW v \in Workers, job'[v] # NoJob PROVE JobFact(v)'
        BY DEF JobFacts, JobFact
      <3>1. job[v] # NoJob /\ job'[v] = job[v] /\ job[v].pay \in Payments
        BY <2>2, JobFields
      <3> QED
        BY <1>3, <1>4, <2>1, <3>1 DEF JobFacts, JobFact, TaskFact, AmountOf
    <2> QED
      BY <2>3, <2>4, <2>5, <2>6, <2>7, <2>8, <2>9, <2>10 DEF CoreInv
  <1>5. CASE pstatus[p] # "held"
    <2>1. UNCHANGED <<pstatus, captured, commission>>
      BY <1>5 DEF CaptureAndCredit
    <2> QED
      BY <1>3, <2>1, FinishKeepsCore DEF statusVars
  <1> QED
    BY <1>4, <1>5

LEMMA WorkKeepsCore ==
    ASSUME IInv, NEW w \in Workers, Work(w)
    PROVE  CoreInv'
  <1> USE DEF statusVars, bookingVars, paymentVars
  <1>1. ASSUME NEW m \in Messages, TakeTask(w, m) PROVE CoreInv'
    <2> DEFINE j == [kind |-> m.kind, pay |-> m.pay, tries |-> m.tries, pc |-> "call",
                     amount |-> AmountAsked(m.kind, m.pay)]
    <2>1. m.pay \in Payments /\ StillWanted(m.kind, m.pay)
      BY <1>1 DEF TakeTask, Messages
    <2>2. AmountAsked("capture", m.pay) = AmountOf(m.pay)
          /\ AmountAsked("partial", m.pay) = retained[m.pay]
      BY DEF AmountAsked
    <2>3. TaskFact(j.kind, j.pc, j.pay, j.amount)
      BY <2>1, <2>2 DEF TaskFact, StillWanted
    <2>4. job' = [job EXCEPT ![w] = j]
      BY <1>1 DEF TakeTask
    <2> HIDE DEF j
    <2> QED
      BY <1>1, <2>3, <2>4, JobMoves DEF TakeTask
  <1>2. ASSUME NEW m \in Messages, SkipTask(w, m) PROVE CoreInv'
    BY <1>2, IdleStep DEF SkipTask, IInv, CoreInv, coreVars
  <1>3. CASE CreateHold(w)
    <2>1. job[w] \in Jobs /\ job[w].kind = "hold"
      BY <1>3, JobFields DEF CreateHold, Calling, Running, IInv
    <2> DEFINE j == [job[w] EXCEPT !.pc = "store"]
    <2>2. j.kind = "hold" /\ j.pay = job[w].pay /\ j.pc = "store"
      BY <2>1 DEF Jobs
    <2>3. job' = [job EXCEPT ![w] = j]
      BY <1>3 DEF CreateHold
    <2> HIDE DEF j
    <2> QED
      BY <1>3, <2>2, <2>3, HoldKeepsCore DEF CreateHold
  <1>4. CASE StoreHoldId(w)
    BY <1>4, StoreKeepsCore
  <1>5. CASE ReleaseIfFailed(w)
    BY <1>5, FinishKeepsCore DEF ReleaseIfFailed
  <1>6. CASE Capture(w)
    <2>1. job[w] \in Jobs
      BY <1>6, JobFields DEF Capture, Calling, Running, IInv
    <2> DEFINE j == [job[w] EXCEPT !.pc = "credit", !.amount = taken'[job[w].pay]]
    <2>2. /\ j.kind = job[w].kind /\ j.pay = job[w].pay /\ j.pc = "credit"
          /\ j.amount = taken'[job[w].pay]
      BY <2>1 DEF Jobs
    <2>3. job' = [job EXCEPT ![w] = j]
      BY <1>6 DEF Capture
    <2> HIDE DEF j
    <2> QED
      BY <1>6, <2>2, <2>3, CaptureKeepsCore DEF Capture
  <1>7. CASE CaptureAndCredit(w)
    BY <1>7, CreditKeepsCore
  <1>8. CASE Release(w)
    BY <1>8, ReleaseKeepsCore DEF Release
  <1> QED
    BY <1>1, <1>2, <1>3, <1>4, <1>5, <1>6, <1>7, <1>8 DEF Work

LEMMA WorkerFaultKeepsCore ==
    ASSUME IInv, NEW w \in Workers, WorkerFaults(w)
    PROVE  CoreInv'
  <1> USE DEF statusVars, bookingVars, paymentVars
  <1>1. CASE CallFails(w)
    BY <1>1, FinishKeepsCore DEF CallFails, Retry
  <1>2. CASE WorkerDies(w)
    BY <1>2, FinishKeepsCore DEF WorkerDies
  <1>3. CASE ReplyLost(w)
    <2>1. Running(w, "call") /\ Finish(w) /\ UNCHANGED <<statusVars, event>>
      BY <1>3 DEF ReplyLost, Retry
    <2>2. job' = [job EXCEPT ![w] = NoJob]
      BY <2>1 DEF Finish
    <2>3. CASE job[w].kind = "hold" /\ PSPCreateHold(job[w].pay)
      BY <2>1, <2>2, <2>3, HoldKeepsCore DEF Calling
    <2>4. CASE job[w].kind \in {"capture", "partial"} /\ PSPCapture(job[w].pay, job[w].amount)
      BY <2>1, <2>2, <2>4, CaptureKeepsCore DEF Calling
    <2>5. CASE job[w].kind = "release" /\ PSPRelease(job[w].pay)
      BY <2>1, <2>5, ReleaseKeepsCore DEF Calling
    <2> QED
      BY <1>3, <2>3, <2>4, <2>5 DEF ReplyLost
  <1> QED
    BY <1>1, <1>2, <1>3 DEF WorkerFaults

-----------------------------------------------------------------------------
\* IInv is inductive.
THEOREM InitInv == Init => IInv
  <1> SUFFICES ASSUME Init PROVE IInv
    OBVIOUS
  <1>1. TypeOK
    BY InitTypes
  <1>2. CoherentPair /\ ConfirmedIsBacked /\ ChargedWhatIsOwed /\ CapturedIsTaken
    BY DEF Init, CoherentPair, ConfirmedIsBacked, ChargedWhatIsOwed, CapturedIsTaken
  <1>3. OnePerBooking /\ EventFacts /\ JobFacts
    BY DEF Init, OnePerBooking, LiveStatus, EventFacts, EventFact, JobFacts, JobFact
  <1>4. PaymentFacts
    BY AmountType, SMT DEF Init, PaymentFacts, PaymentFact
  <1> QED
    BY <1>1, <1>2, <1>3, <1>4 DEF IInv

THEOREM StepInv == IInv /\ [Next]_vars => IInv'
  <1> SUFFICES ASSUME IInv, [Next]_vars PROVE IInv'
    OBVIOUS
  <1>1. TypeOK'
    BY StepTypes DEF IInv
  <1>2. ASSUME NEW b \in Bookings, Requests(b) \/ Clock(b) PROVE CoreInv'
    BY <1>2, RequestKeepsCore
  <1>3. ASSUME Sweeps \/ SweepDies PROVE CoreInv'
    BY <1>3, SweepKeepsCore
  <1>4. ASSUME NEW p \in Payments, PayerAuthorizes(p) PROVE CoreInv'
    <2>1. hold[p] = "open" /\ p \notin voided /\ hold' = [hold EXCEPT ![p] = "authorized"]
      BY <1>4 DEF PayerAuthorizes
    <2>2. UNCHANGED <<statusVars, event, voided, charged, taken, job>>
      BY <1>4 DEF PayerAuthorizes, statusVars, bookingVars, paymentVars, celeryVars
    <2>3. hold'[p] = "authorized" /\ \A q \in Payments \ {p} : hold'[q] = hold[q]
      BY <2>1 DEF IInv, TypeOK
    <2> USE DEF IInv, statusVars
    <2>4. CoherentPair' /\ CapturedIsTaken' /\ OnePerBooking' /\ ChargedWhatIsOwed'
      BY <2>2
      DEF CoherentPair, HoldIsStillOwed, CapturedIsTaken, OnePerBooking, ChargedWhatIsOwed,
          AmountOf
    <2>5. ConfirmedIsBacked'
      BY <2>2, <2>3 DEF ConfirmedIsBacked
    <2>6. PaymentFacts'
      BY <2>1, <2>2, <2>3 DEF PaymentFacts, PaymentFact, Earned, AmountOf
    <2>7. EventFacts'
      BY <2>2, <2>3 DEF EventFacts, EventFact, Events
    <2>8. JobFacts'
      BY <2>1, <2>2, <2>3, JobFields DEF JobFacts, JobFact, TaskFact, AmountOf
    <2> QED
      BY <2>4, <2>5, <2>6, <2>7, <2>8 DEF CoreInv
  <1>5. ASSUME NEW e \in Events, Notify(e) \/ Redeliver(e) \/ HandleEvent(e) \/ HandlerDies(e)
        PROVE  CoreInv'
    BY <1>5, WebhookKeepsCore
  <1>6. ASSUME NEW w \in Workers, Work(w) \/ WorkerFaults(w) PROVE CoreInv'
    BY <1>6, WorkKeepsCore, WorkerFaultKeepsCore
  <1>7. ASSUME NEW m \in Messages, Duplicate(m) PROVE CoreInv'
    BY <1>7, IdleStep
    DEF Duplicate, IInv, CoreInv, coreVars, statusVars, bookingVars, paymentVars
  <1>8. ASSUME NEW t \in Tutors, LoadProfile(t) \/ SaveProfile(t) PROVE CoreInv'
    BY <1>8, IdleStep
    DEF LoadProfile, SaveProfile, IInv, CoreInv, coreVars, statusVars, bookingVars, celeryVars
  <1>9. ASSUME UNCHANGED vars PROVE CoreInv'
    BY <1>9, IdleStep
    DEF vars, IInv, CoreInv, coreVars, statusVars, bookingVars, paymentVars, celeryVars
  <1>10. CoreInv'
    BY <1>2, <1>3, <1>4, <1>5, <1>6, <1>7, <1>8, <1>9 DEF Next
  <1> QED
    BY <1>1, <1>10 DEF IInv, CoreInv

\* The inductive invariant holds of every reachable state, for any number of
\* bookings, payments, workers, events, retries and faults of any kind.
THEOREM Inductive == Spec => []IInv
  <1> QED
    BY InitInv, StepInv, PTL DEF Spec

-----------------------------------------------------------------------------
\* The safety properties.

\* A booking never has two live payments, nor two captures (initiate_payment,
\* services.py:68-70).
THEOREM NoDoublePaymentHolds == Spec => []NoDoublePayment
  <1>1. IInv => NoDoublePayment
    <2> SUFFICES ASSUME IInv, NEW p \in Payments, NEW q \in Payments,
                        BookingOf[p] = BookingOf[q], p # q
                 PROVE  /\ ~ (/\ pstatus[p] \in LiveStatus
                              /\ pstatus[q] \in LiveStatus \cup {"captured"})
                        /\ ~ (p \in charged /\ q \in charged)
      BY DEF NoDoublePayment
    <2>1. /\ ~ (pstatus[p] \in LiveStatus /\ pstatus[q] \in LiveStatus)
          /\ ~ (pstatus[p] \in {"held", "captured"} /\ pstatus[q] \in {"held", "captured"})
      BY DEF IInv, OnePerBooking
    <2>2. ~ (p \in charged /\ q \in charged)
      BY <2>1 DEF IInv, ChargedWhatIsOwed
    <2>3. ~ (pstatus[p] = "created" /\ pstatus[q] = "captured")
      BY DEF IInv, CoherentPair, PaymentFacts, PaymentFact, Earned
    <2> QED
      BY <2>1, <2>2, <2>3 DEF LiveStatus
  <1> QED
    BY <1>1, Inductive, PTL

\* Payment and booking move in step (confirm_hold, services.py:177-178).
THEOREM CoherentPairHolds == Spec => []CoherentPair
  <1>1. IInv => CoherentPair
    BY DEF IInv
  <1> QED
    BY <1>1, Inductive, PTL

\* A confirmed or completed lesson has an authorized hold behind it that was not
\* released (confirm_hold; request_release, services.py:529-552).
THEOREM ConfirmedIsBackedHolds == Spec => []ConfirmedIsBacked
  <1>1. IInv => ConfirmedIsBacked
    BY DEF IInv
  <1> QED
    BY <1>1, Inductive, PTL

\* The PSP takes exactly what is owed (request_capture, request_partial_capture,
\* services.py:356-420).
THEOREM ChargedWhatIsOwedHolds == Spec => []ChargedWhatIsOwed
  <1>1. IInv => ChargedWhatIsOwed
    BY DEF IInv
  <1> QED
    BY <1>1, Inductive, PTL

\* No hold is both captured and released (request_capture and request_release,
\* services.py:356-380, 529-552).
THEOREM NeverCapturedAndReleasedHolds == Spec => []NeverCapturedAndReleased
  <1>1. IInv => NeverCapturedAndReleased
    BY DEF IInv, TypeOK, ChargedWhatIsOwed, PaymentFacts, PaymentFact, NeverCapturedAndReleased
  <1> QED
    BY <1>1, Inductive, PTL

\* A captured payment records the money the PSP took and its exact commission
\* (capture_and_credit, services.py:313-353).
THEOREM CapturedIsTakenHolds == Spec => []CapturedIsTaken
  <1>1. IInv => CapturedIsTaken
    BY DEF IInv
  <1> QED
    BY <1>1, Inductive, PTL
=============================================================================
