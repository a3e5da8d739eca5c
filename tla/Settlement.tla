----------------------------- MODULE Settlement -----------------------------
(***************************************************************************)
(* The settlement of bookings: the booking status machine, the payments    *)
(* behind it, the Celery tasks that talk to the payment provider (PSP),    *)
(* the provider's webhooks and the two periodic sweeps.                    *)
(*                                                                         *)
(* An action is one database transaction, one provider call, or one        *)
(* unlocked read or update of a task: everything between two points where  *)
(* the code holds no row lock.  Row ids are assigned in advance: a payment *)
(* row that does not exist yet has the status "none".                      *)
(***************************************************************************)
EXTENDS Money, FiniteSets

CONSTANTS
    Bookings, Tutors, Payments, \* row ids
    TutorOf, BookingOf,         \* foreign keys
    Price,                      \* price of each booking, in kopecks
    Percents,                   \* late-cancellation policies a tutor may set
    NoShows,                    \* bookings that may be marked no_show
    FormUsers,                  \* tutors who edit their profile meanwhile
    Workers, NoJob,             \* Celery worker slots; what an idle one runs
    EventTypes,                 \* webhook types the PSP sends
    MaxEvents,                  \* distinct events per payment and type
    MaxRetries,                 \* retries of a task (5 in tasks.py)
    Faults, MaxFaults           \* kinds of faults allowed, and how many

VARIABLES
    bstatus,     \* Booking.status
    stale,       \* bookings created over PENDING_PAYMENT_TIMEOUT ago
    phase,       \* time to the lesson: "far", "near" (within 24 h) or "over"
    pstatus,     \* Payment.status
    known,       \* payments whose provider_id is stored
    retained,    \* Payment.retained_amount
    captured,    \* Payment.captured_amount
    commission,  \* Payment.commission
    balance,     \* TutorProfile.balance
    credited,    \* history: the sum of the credits to each tutor
    forms,       \* profile forms under way: a tutor, and the balance loaded
    event,       \* each webhook event: sent by the PSP, handled, recorded
    hold,        \* PSP: the authorization behind each payment
    voided,      \* PSP: holds it was asked to release
    charged,     \* PSP: holds it was asked to capture
    taken,       \* PSP: the money taken from each hold
    expireIds,   \* bookings scanned by expire_pending_bookings, not yet done
    completeIds, \* bookings scanned by complete_confirmed_bookings, not yet done
    queue,       \* the broker: how many copies of each task message
    job,         \* the task each worker slot runs, and where it is in it
    faults       \* faults so far

bookingVars == <<bstatus, stale, phase>>
tutorVars == <<balance, credited, forms>>
paymentVars == <<pstatus, known, retained, captured, commission, tutorVars>>
pspVars == <<hold, voided, charged, taken>>
sweepVars == <<expireIds, completeIds>>
celeryVars == <<queue, job>>
vars == <<bookingVars, paymentVars, event, pspVars, sweepVars, celeryVars, faults>>

-----------------------------------------------------------------------------
BookingStatus == {"pending", "confirmed", "completed", "cancelled_by_student",
                  "cancelled_by_tutor", "no_show"}
PaymentStatus == {"none", "created", "held", "captured", "refunded", "failed"}
WebhookTypes == {"hold_succeeded", "hold_failed", "capture_succeeded", "capture_failed"}
FaultKinds == {"crash", "psp_error", "lost_reply", "duplicate", "lost_enqueue",
               "redelivery"}
TaskKinds == {"hold", "capture", "partial", "release"}

Events == [type: EventTypes, pay: Payments, n: 1..MaxEvents]
Messages == [kind: TaskKinds, pay: Payments, tries: 0..MaxRetries]
Jobs == [kind: TaskKinds, pay: Payments, tries: 0..MaxRetries,
         pc: {"call", "store", "check", "credit"}, amount: Nat]

ASSUME ForeignKeys == /\ BookingOf \in [Payments -> Bookings]
                      /\ TutorOf \in [Bookings -> Tutors]
ASSUME PriceAssumption == Price \in [Bookings -> Nat]
ASSUME PercentAssumption == Percents \subseteq 0..100
ASSUME NoJobAssumption == NoJob \notin Jobs
ASSUME BoundAssumption == MaxEvents \in Nat /\ MaxRetries \in Nat /\ MaxFaults \in Nat
ASSUME FiniteAssumption == IsFiniteSet(Payments)
ASSUME SetAssumption == /\ NoShows \subseteq Bookings
                        /\ FormUsers \subseteq Tutors
                        /\ EventTypes \subseteq WebhookTypes
                        /\ Faults \subseteq FaultKinds

AmountOf(p) == Price[BookingOf[p]]
TutorOfPayment(p) == TutorOf[BookingOf[p]]
LiveStatus == {"created", "held"}
FirstOf(S) == IF S = {} THEN {{}} ELSE {{x} : x \in S}   \* queryset.first()
\* Mutated form: a payment that is not confirmed yet is not live.
OnlyHeldPayments(b) == {p \in Payments : BookingOf[p] = b /\ pstatus[p] = "held"}
LivePayments(b) == {p \in Payments : BookingOf[p] = b /\ pstatus[p] \in LiveStatus}

\* Mutated form: the pinned penalty does not make a hold owed.
PenaltyForgotten(p) == bstatus[BookingOf[p]] \in {"confirmed", "completed"}

\* _hold_is_still_owed
HoldIsStillOwed(p) ==
    \/ bstatus[BookingOf[p]] \in {"confirmed", "completed"}
    \/ bstatus[BookingOf[p]] = "cancelled_by_student" /\ retained[p] > 0

-----------------------------------------------------------------------------
\* Faults and the broker.

Fault(kind) == kind \in Faults /\ faults < MaxFaults /\ faults' = faults + 1

Task(kind, p) == [kind |-> kind, pay |-> p, tries |-> 0]
Sent(msgs, q) == [m \in Messages |-> IF m \in msgs THEN q[m] + 1 ELSE q[m]]

\* transaction.on_commit(.. .delay()): the message is published after the
\* commit, so a process that dies in between, or a broker that is down, loses it.
Enqueue(msgs) ==
    \/ queue' = Sent(msgs, queue) /\ UNCHANGED faults
    \/ msgs # {} /\ Fault("lost_enqueue") /\ UNCHANGED queue

-----------------------------------------------------------------------------
Init ==
    /\ bstatus = [b \in Bookings |-> "pending"]
    /\ stale = {}
    /\ phase \in [Bookings -> {"far", "near"}]
    /\ pstatus = [p \in Payments |-> "none"]
    /\ known = {}
    /\ retained = [p \in Payments |-> 0]
    /\ captured = [p \in Payments |-> 0]
    /\ commission = [p \in Payments |-> 0]
    /\ balance = [t \in Tutors |-> 0]
    /\ credited = [t \in Tutors |-> 0]
    /\ forms = {}
    /\ event = [e \in Events |-> "unsent"]
    /\ hold = [p \in Payments |-> "none"]
    /\ voided = {}
    /\ charged = {}
    /\ taken = [p \in Payments |-> 0]
    /\ expireIds = {}
    /\ completeIds = {}
    /\ queue = [m \in Messages |-> 0]
    /\ job = [w \in Workers |-> NoJob]
    /\ faults = 0

-----------------------------------------------------------------------------
\* Requests of the parties.

\* initiate_payment: a pending booking without a live payment gets one.
InitiatePayment(b) ==
    /\ bstatus[b] = "pending"
    /\ LivePayments(b) = {}
    /\ \E p \in Payments :
          /\ BookingOf[p] = b /\ pstatus[p] = "none"
          /\ pstatus' = [pstatus EXCEPT ![p] = "created"]
          /\ Enqueue({Task("hold", p)})
    /\ UNCHANGED <<bookingVars, known, retained, captured, commission, tutorVars,
                   event, pspVars, sweepVars, job>>

\* What a late cancellation leaves of the price.  (Mutated form: the wrong way.)
RetainedSwapped(p, refund) == refund - AmountOf(p)
Retained(p, refund) == AmountOf(p) - refund

\* reconcile_booking_payment: within a cancelling transaction, settle every
\* live payment of the booking for the refund the policy owes.
Reconcile(b, refund) ==
    LET live == LivePayments(b)
        unconfirmed == {p \in live : pstatus[p] = "created"}
        freed == {p \in live \ unconfirmed : refund >= AmountOf(p)}
        kept == live \ (unconfirmed \cup freed)
    IN  /\ pstatus' = [p \in Payments |-> IF p \in unconfirmed THEN "failed"
                                          ELSE IF p \in freed THEN "refunded"
                                          ELSE pstatus[p]]
        /\ retained' = [p \in Payments |-> IF p \in kept THEN Retained(p, refund)
                                           ELSE retained[p]]
        /\ Enqueue({Task("release", p) : p \in unconfirmed \cup freed}
                     \cup {Task("partial", p) : p \in kept})
        /\ UNCHANGED <<known, captured, commission, tutorVars>>

\* Mutated form: a completed lesson can still be cancelled.
CancelDelivered(b) ==
    /\ bstatus[b] \in {"pending", "confirmed", "completed"}
    /\ bstatus' = [bstatus EXCEPT ![b] = "cancelled_by_student"]
    /\ Reconcile(b, Price[b])
    /\ UNCHANGED <<stale, phase, event, pspVars, sweepVars, job>>

\* cancel_booking by the student; the refund depends on the time to the lesson.
CancelByStudent(b) ==
    /\ bstatus[b] \in {"pending", "confirmed"}
    /\ bstatus' = [bstatus EXCEPT ![b] = "cancelled_by_student"]
    /\ \E percent \in Percents :
          Reconcile(b, IF phase[b] = "far" THEN Price[b]
                                           ELSE LateRefund(Price[b], percent))
    /\ UNCHANGED <<stale, phase, event, pspVars, sweepVars, job>>

\* cancel_booking by the tutor: a full refund, and no edge from pending.
CancelByTutor(b) ==
    /\ bstatus[b] = "confirmed"
    /\ bstatus' = [bstatus EXCEPT ![b] = "cancelled_by_tutor"]
    /\ Reconcile(b, Price[b])
    /\ UNCHANGED <<stale, phase, event, pspVars, sweepVars, job>>

\* The confirmed -> no_show edge; nothing in the code settles the payment.
MarkNoShow(b) ==
    /\ b \in NoShows /\ bstatus[b] = "confirmed"
    /\ bstatus' = [bstatus EXCEPT ![b] = "no_show"]
    /\ UNCHANGED <<stale, phase, paymentVars, event, pspVars, sweepVars, celeryVars,
                   faults>>

-----------------------------------------------------------------------------
\* PATCH /tutor/profile loads the tutor's row without a lock and later saves
\* every column of it, the balance included.  Any number of such requests may
\* have loaded the same balance, so a form is not used up by its save.

LoadProfile(t) ==
    /\ t \in FormUsers
    /\ forms' = forms \cup {<<t, balance[t]>>}
    /\ UNCHANGED <<bookingVars, pstatus, known, retained, captured, commission, balance,
                   credited, event, pspVars, sweepVars, celeryVars, faults>>

\* Mutated form: the balance of the form is added to the one that is there.
SaveAdds(t) ==
    /\ \E form \in forms : form[1] = t /\ balance' = [balance EXCEPT ![t] = @ + form[2]]
    /\ UNCHANGED <<bookingVars, pstatus, known, retained, captured, commission, credited,
                   forms, event, pspVars, sweepVars, celeryVars, faults>>

SaveProfile(t) ==
    /\ \E form \in forms : form[1] = t /\ balance' = [balance EXCEPT ![t] = form[2]]
    /\ UNCHANGED <<bookingVars, pstatus, known, retained, captured, commission, credited,
                   forms, event, pspVars, sweepVars, celeryVars, faults>>

-----------------------------------------------------------------------------
\* The periodic sweeps: an unlocked scan, then one transaction per booking that
\* re-checks the status under the row lock.

\* Mutated form: a booking with a payment under way is not scanned.
ScanUnpaid ==
    LET ids == {b \in stale : bstatus[b] = "pending" /\ LivePayments(b) = {}}
    IN  /\ ~ ids \subseteq expireIds
        /\ expireIds' = expireIds \cup ids
        /\ UNCHANGED <<bookingVars, paymentVars, event, pspVars, completeIds,
                       celeryVars, faults>>

ScanPending ==
    LET ids == {b \in stale : bstatus[b] = "pending"}
    IN  /\ ~ ids \subseteq expireIds
        /\ expireIds' = expireIds \cup ids
        /\ UNCHANGED <<bookingVars, paymentVars, event, pspVars, completeIds,
                       celeryVars, faults>>

\* Mutated form: the edge is legal, so the status is not checked again.
ExpireUnchecked(b) ==
    /\ b \in expireIds
    /\ bstatus[b] \in {"pending", "confirmed"}
    /\ expireIds' = expireIds \ {b}
    /\ bstatus' = [bstatus EXCEPT ![b] = "cancelled_by_student"]
    /\ Reconcile(b, Price[b])
    /\ UNCHANGED <<stale, phase, event, pspVars, completeIds, job>>

ExpireBooking(b) ==
    /\ b \in expireIds
    /\ bstatus[b] = "pending"
    /\ expireIds' = expireIds \ {b}
    /\ bstatus' = [bstatus EXCEPT ![b] = "cancelled_by_student"]
    /\ Reconcile(b, Price[b])
    /\ UNCHANGED <<stale, phase, event, pspVars, completeIds, job>>

SkipExpired(b) ==
    /\ b \in expireIds
    /\ bstatus[b] # "pending"
    /\ expireIds' = expireIds \ {b}
    /\ UNCHANGED <<bookingVars, paymentVars, event, pspVars, completeIds, celeryVars,
                   faults>>

ScanFinished ==
    LET ids == {b \in Bookings : phase[b] = "over" /\ bstatus[b] = "confirmed"}
    IN  /\ ~ ids \subseteq completeIds
        /\ completeIds' = completeIds \cup ids
        /\ UNCHANGED <<bookingVars, paymentVars, event, pspVars, expireIds,
                       celeryVars, faults>>

\* The completion and capture_booking_payment, which leaves the hold in place
\* and asks for its capture after the commit.
CompleteBooking(b) ==
    /\ b \in completeIds
    /\ bstatus[b] = "confirmed"
    /\ completeIds' = completeIds \ {b}
    /\ bstatus' = [bstatus EXCEPT ![b] = "completed"]
    /\ \E first \in FirstOf({p \in LivePayments(b) : pstatus[p] = "held"}) :
          Enqueue({Task("capture", p) : p \in first})
    /\ UNCHANGED <<stale, phase, paymentVars, event, pspVars, expireIds, job>>

SkipCompleted(b) ==
    /\ b \in completeIds
    /\ bstatus[b] # "confirmed"
    /\ completeIds' = completeIds \ {b}
    /\ UNCHANGED <<bookingVars, paymentVars, event, pspVars, expireIds, celeryVars,
                   faults>>

\* A process that dies in a sweep leaves the rest of its scan to the next one.
SweepDies ==
    /\ expireIds \cup completeIds # {}
    /\ Fault("crash")
    /\ expireIds' = {} /\ completeIds' = {}
    /\ UNCHANGED <<bookingVars, paymentVars, event, pspVars, celeryVars>>

-----------------------------------------------------------------------------
\* The clock of each booking.  A lesson is booked at least two hours ahead, so
\* its booking is stale long before the lesson is over.

BecomeStale(b) ==
    /\ b \notin stale
    /\ stale' = stale \cup {b}
    /\ UNCHANGED <<bstatus, phase, paymentVars, event, pspVars, sweepVars, celeryVars,
                   faults>>

PassPhase(b) ==
    /\ \/ phase[b] = "far" /\ phase' = [phase EXCEPT ![b] = "near"]
       \/ phase[b] = "near" /\ b \in stale /\ phase' = [phase EXCEPT ![b] = "over"]
    /\ UNCHANGED <<bstatus, stale, paymentVars, event, pspVars, sweepVars, celeryVars,
                   faults>>

-----------------------------------------------------------------------------
\* The payment provider and the payer.

PayerAuthorizes(p) ==
    /\ hold[p] = "open" /\ p \notin voided
    /\ hold' = [hold EXCEPT ![p] = "authorized"]
    /\ UNCHANGED <<bookingVars, paymentVars, event, voided, charged, taken, sweepVars,
                   celeryVars, faults>>

\* What must have happened at the PSP for it to send an event of the type.
Notifiable(type, p) ==
    \/ type = "hold_succeeded" /\ hold[p] = "authorized"
    \/ type = "hold_failed" /\ hold[p] = "open"
    \/ type \in {"capture_succeeded", "capture_failed"} /\ p \in charged

Notify(e) ==
    /\ event[e] = "unsent"
    /\ Notifiable(e.type, e.pay)
    /\ event' = [event EXCEPT ![e] = "sent"]
    /\ UNCHANGED <<bookingVars, paymentVars, pspVars, sweepVars, celeryVars, faults>>

\* The PSP repeats a delivery it had an answer to (it never saw the answer).
\* A recorded event is dropped by its id, so only an ignored one matters.
Redeliver(e) ==
    /\ event[e] = "ignored"
    /\ Fault("redelivery")
    /\ event' = [event EXCEPT ![e] = "sent"]
    /\ UNCHANGED <<bookingVars, paymentVars, pspVars, sweepVars, celeryVars>>

-----------------------------------------------------------------------------
\* Webhook deliveries (handle_webhook_event).

Delivered(e, type) == event[e] = "sent" /\ e.type = type /\ e.pay \in known

Answer(e, outcome) == event' = [event EXCEPT ![e] = outcome]

\* A provider_id no payment has yet: nothing is recorded, and the answer is 200.
UnknownHold(e) ==
    /\ event[e] = "sent"
    /\ e.pay \notin known
    /\ Answer(e, "ignored")
    /\ UNCHANGED <<bookingVars, paymentVars, pspVars, sweepVars, celeryVars, faults>>

HoldAlreadyApplied(e) ==
    /\ Delivered(e, "hold_succeeded")
    /\ pstatus[e.pay] = "held" /\ HoldIsStillOwed(e.pay)
    /\ Answer(e, "recorded")
    /\ UNCHANGED <<bookingVars, paymentVars, pspVars, sweepVars, celeryVars, faults>>

\* Mutated form: a late success brings a failed payment back to life.
ConfirmRevived(e) ==
    /\ Delivered(e, "hold_succeeded")
    /\ pstatus[e.pay] \in {"created", "failed"}
    /\ pstatus' = [pstatus EXCEPT ![e.pay] = "held"]
    /\ bstatus' = [bstatus EXCEPT ![BookingOf[e.pay]] = "confirmed"]
    /\ Answer(e, "recorded")
    /\ UNCHANGED <<stale, phase, known, retained, captured, commission, tutorVars,
                   pspVars, sweepVars, celeryVars, faults>>

\* confirm_hold: payment created -> held and booking pending -> confirmed.
ConfirmHold(e) ==
    /\ Delivered(e, "hold_succeeded")
    /\ pstatus[e.pay] = "created" /\ bstatus[BookingOf[e.pay]] = "pending"
    /\ pstatus' = [pstatus EXCEPT ![e.pay] = "held"]
    /\ bstatus' = [bstatus EXCEPT ![BookingOf[e.pay]] = "confirmed"]
    /\ Answer(e, "recorded")
    /\ UNCHANGED <<stale, phase, known, retained, captured, commission, tutorVars,
                   pspVars, sweepVars, celeryVars, faults>>

\* confirm_hold raises: its savepoint is rolled back, which releases the
\* booking's lock, before _fail_and_release takes the payment's.
HoldNotConfirmable(e) ==
    /\ Delivered(e, "hold_succeeded")
    /\ ~ (pstatus[e.pay] = "held" /\ HoldIsStillOwed(e.pay))
    /\ ~ (pstatus[e.pay] = "created" /\ bstatus[BookingOf[e.pay]] = "pending")
    /\ Answer(e, "handling")
    /\ UNCHANGED <<bookingVars, paymentVars, pspVars, sweepVars, celeryVars, faults>>

FailAndRelease(e) ==
    /\ event[e] = "handling"
    /\ pstatus' = [pstatus EXCEPT ![e.pay] = IF @ \in LiveStatus THEN "failed" ELSE @]
    /\ Enqueue({Task("release", p) : p \in {e.pay} \cap
                    {q \in Payments : pstatus[q] \in LiveStatus \cup {"failed"}}})
    /\ Answer(e, "recorded")
    /\ UNCHANGED <<bookingVars, known, retained, captured, commission, tutorVars, pspVars,
                   sweepVars, job>>

\* The process dies in the transaction: it is rolled back, the PSP gets no
\* answer and delivers the event again.
HandlerDies(e) ==
    /\ event[e] = "handling"
    /\ Fault("crash")
    /\ Answer(e, "sent")
    /\ UNCHANGED <<bookingVars, paymentVars, pspVars, sweepVars, celeryVars>>

\* Mutated form: a late failure fails a held payment as well.
HoldFailedLate(e) ==
    /\ Delivered(e, "hold_failed")
    /\ pstatus' = [pstatus EXCEPT ![e.pay] = IF @ \in LiveStatus THEN "failed" ELSE @]
    /\ Answer(e, "recorded")
    /\ UNCHANGED <<bookingVars, known, retained, captured, commission, tutorVars, pspVars,
                   sweepVars, celeryVars, faults>>

\* _on_hold_failed: only a payment that is still created fails.
HoldFailed(e) ==
    /\ Delivered(e, "hold_failed")
    /\ pstatus' = [pstatus EXCEPT ![e.pay] = IF @ = "created" THEN "failed" ELSE @]
    /\ Answer(e, "recorded")
    /\ UNCHANGED <<bookingVars, known, retained, captured, commission, tutorVars, pspVars,
                   sweepVars, celeryVars, faults>>

\* A type without a handler is recorded and changes nothing else.
EchoRecorded(e) ==
    /\ event[e] = "sent" /\ e.pay \in known
    /\ e.type \notin {"hold_succeeded", "hold_failed"}
    /\ Answer(e, "recorded")
    /\ UNCHANGED <<bookingVars, paymentVars, pspVars, sweepVars, celeryVars, faults>>

HandleEvent(e) ==
    UnknownHold(e) \/ HoldAlreadyApplied(e) \/ ConfirmHold(e) \/ HoldNotConfirmable(e)
      \/ FailAndRelease(e) \/ HoldFailed(e) \/ EchoRecorded(e)

-----------------------------------------------------------------------------
\* Celery workers: each task reads its payment without a lock, calls the
\* provider, and then writes.

\* The early returns of request_hold, request_capture, request_partial_capture
\* and request_release.
StillWanted(kind, p) ==
    \/ kind = "hold" /\ pstatus[p] = "created" /\ p \notin known
    \/ /\ kind = "capture" /\ pstatus[p] = "held" /\ p \in known
       /\ bstatus[BookingOf[p]] = "completed"
    \/ /\ kind = "partial" /\ pstatus[p] = "held" /\ p \in known
       /\ bstatus[BookingOf[p]] = "cancelled_by_student" /\ retained[p] > 0
    \/ kind = "release" /\ pstatus[p] \in {"failed", "refunded"} /\ p \in known

\* Mutated form: a partial capture asks for the full price.
AskFullPrice(kind, p) == IF kind \in {"capture", "partial"} THEN AmountOf(p) ELSE 0

AmountAsked(kind, p) == CASE kind = "capture" -> AmountOf(p)
                          [] kind = "partial" -> retained[p]
                          [] OTHER -> 0

Received(m) == queue[m] > 0 /\ queue' = [queue EXCEPT ![m] = @ - 1]
Running(w, pc) == job[w] # NoJob /\ job[w].pc = pc
Calling(w, kinds) == Running(w, "call") /\ job[w].kind \in kinds
Finish(w) == job' = [job EXCEPT ![w] = NoJob]
MessageOf(j, tries) == [kind |-> j.kind, pay |-> j.pay, tries |-> tries]

TakeTask(w, m) ==
    /\ job[w] = NoJob
    /\ Received(m)
    /\ StillWanted(m.kind, m.pay)
    /\ job' = [job EXCEPT ![w] =
                 [kind |-> m.kind, pay |-> m.pay, tries |-> m.tries, pc |-> "call",
                  amount |-> AmountAsked(m.kind, m.pay)]]
    /\ UNCHANGED <<bookingVars, paymentVars, event, pspVars, sweepVars, faults>>

SkipTask(w, m) ==
    /\ job[w] = NoJob
    /\ Received(m)
    /\ ~ StillWanted(m.kind, m.pay)
    /\ UNCHANGED <<bookingVars, paymentVars, event, pspVars, sweepVars, job, faults>>

\* What a provider call does at the PSP.  The idempotency keys make a repeated
\* call the same hold, the same capture.
PSPCreateHold(p) ==
    /\ hold' = [hold EXCEPT ![p] = IF @ = "none" THEN "open" ELSE @]
    /\ UNCHANGED <<voided, charged, taken>>
PSPCapture(p, amount) ==
    /\ charged' = charged \cup {p}
    /\ taken' = [taken EXCEPT ![p] = IF p \in charged THEN @ ELSE amount]
    /\ UNCHANGED <<hold, voided>>
PSPRelease(p) ==
    /\ voided' = voided \cup {p}
    /\ UNCHANGED <<hold, charged, taken>>

CreateHold(w) ==
    /\ Calling(w, {"hold"})
    /\ PSPCreateHold(job[w].pay)
    /\ job' = [job EXCEPT ![w].pc = "store"]
    /\ UNCHANGED <<bookingVars, paymentVars, event, sweepVars, queue, faults>>

\* The compare-and-swap on an empty provider_id.
StoreHoldId(w) ==
    /\ Running(w, "store")
    /\ known' = known \cup {job[w].pay}
    /\ IF job[w].pay \in known THEN Finish(w)
                               ELSE job' = [job EXCEPT ![w].pc = "check"]
    /\ UNCHANGED <<bookingVars, pstatus, retained, captured, commission, tutorVars, event,
                   pspVars, sweepVars, queue, faults>>

\* Mutated form: nobody looks whether the payment failed meanwhile.
ReleaseNever(w) ==
    /\ Running(w, "check")
    /\ Finish(w)
    /\ UNCHANGED <<bookingVars, paymentVars, event, pspVars, sweepVars, queue, faults>>

\* A payment failed while its hold was being opened is released at once.
ReleaseIfFailed(w) ==
    /\ Running(w, "check")
    /\ Enqueue({Task("release", p) : p \in {q \in {job[w].pay} : pstatus[q] = "failed"}})
    /\ Finish(w)
    /\ UNCHANGED <<bookingVars, paymentVars, event, pspVars, sweepVars>>

Capture(w) ==
    /\ Calling(w, {"capture", "partial"})
    /\ PSPCapture(job[w].pay, job[w].amount)
    /\ job' = [job EXCEPT ![w].pc = "credit", ![w].amount = taken'[job[w].pay]]
    /\ UNCHANGED <<bookingVars, paymentVars, event, sweepVars, queue, faults>>

\* The money settled on the capture edge and the tutor's credit, in one
\* transaction; the balance is read and written under the tutor's row lock.
Settle(p, amount) ==
    /\ pstatus' = [pstatus EXCEPT ![p] = "captured"]
    /\ captured' = [captured EXCEPT ![p] = amount]
    /\ commission' = [commission EXCEPT ![p] = Commission(amount, StandardRate)]
    /\ LET t == TutorOfPayment(p)
           payout == Payout(amount, StandardRate)
       IN  /\ balance' = [balance EXCEPT ![t] = @ + payout]
           /\ credited' = [credited EXCEPT ![t] = @ + payout]
    /\ UNCHANGED forms

\* Mutated form: a payment that is already captured is credited again.
CreditEveryTime(w) ==
    /\ Running(w, "credit")
    /\ Settle(job[w].pay, job[w].amount)
    /\ Finish(w)
    /\ UNCHANGED <<bookingVars, known, retained, event, pspVars, sweepVars, queue, faults>>

\* capture_and_credit.  A payment that is neither held nor captured has no edge
\* to captured: the task fails, and it is not one that is retried.
CaptureAndCredit(w) ==
    /\ Running(w, "credit")
    /\ IF pstatus[job[w].pay] = "held"
       THEN Settle(job[w].pay, job[w].amount)
       ELSE UNCHANGED <<pstatus, captured, commission, tutorVars>>
    /\ Finish(w)
    /\ UNCHANGED <<bookingVars, known, retained, event, pspVars, sweepVars, queue, faults>>

Release(w) ==
    /\ Calling(w, {"release"})
    /\ PSPRelease(job[w].pay)
    /\ Finish(w)
    /\ UNCHANGED <<bookingVars, paymentVars, event, sweepVars, queue, faults>>

Work(w) ==
    \/ \E m \in Messages : TakeTask(w, m) \/ SkipTask(w, m)
    \/ CreateHold(w) \/ StoreHoldId(w) \/ ReleaseIfFailed(w)
    \/ Capture(w) \/ CaptureAndCredit(w) \/ Release(w)

\* Mutated form: the last try is never made.
RetryOnceLess(w) ==
    /\ queue' = IF job[w].tries + 1 < MaxRetries
                  THEN Sent({MessageOf(job[w], job[w].tries + 1)}, queue)
                  ELSE queue
    /\ Finish(w)
    /\ UNCHANGED <<bookingVars, paymentVars, event, sweepVars>>

\* autoretry_for PaymentProviderError: the next try is a message of its own,
\* until max_retries is used up and the task is given up.
Retry(w) ==
    /\ queue' = IF job[w].tries < MaxRetries
                  THEN Sent({MessageOf(job[w], job[w].tries + 1)}, queue)
                  ELSE queue
    /\ Finish(w)
    /\ UNCHANGED <<bookingVars, paymentVars, event, sweepVars>>

\* Mutated form: a capture that failed is credited all the same.
CreditOnError(w) ==
    /\ Calling(w, {"capture", "partial"})
    /\ Fault("psp_error")
    /\ job' = [job EXCEPT ![w].pc = "credit"]
    /\ UNCHANGED <<bookingVars, paymentVars, event, pspVars, sweepVars, queue>>

CallFails(w) ==
    /\ Running(w, "call")
    /\ Fault("psp_error")
    /\ Retry(w)
    /\ UNCHANGED pspVars

\* The call takes effect and its answer is lost.
ReplyLost(w) ==
    /\ Running(w, "call")
    /\ Fault("lost_reply")
    /\ \/ job[w].kind = "hold" /\ PSPCreateHold(job[w].pay)
       \/ job[w].kind \in {"capture", "partial"} /\ PSPCapture(job[w].pay, job[w].amount)
       \/ job[w].kind = "release" /\ PSPRelease(job[w].pay)
    /\ Retry(w)

\* Mutated form: the message is acknowledged before the task runs.
AckedEarly(w) ==
    /\ job[w] # NoJob
    /\ Fault("crash")
    /\ Finish(w)
    /\ UNCHANGED <<bookingVars, paymentVars, event, pspVars, sweepVars, queue>>

\* CELERY_TASK_ACKS_LATE and REJECT_ON_WORKER_LOST: the message of a worker
\* that dies is delivered again.
WorkerDies(w) ==
    /\ job[w] # NoJob
    /\ Fault("crash")
    /\ queue' = Sent({MessageOf(job[w], job[w].tries)}, queue)
    /\ Finish(w)
    /\ UNCHANGED <<bookingVars, paymentVars, event, pspVars, sweepVars>>

\* At-least-once delivery: the broker delivers a message twice.
Duplicate(m) ==
    /\ queue[m] > 0
    /\ Fault("duplicate")
    /\ queue' = Sent({m}, queue)
    /\ UNCHANGED <<bookingVars, paymentVars, event, pspVars, sweepVars, job>>

-----------------------------------------------------------------------------
Requests(b) == InitiatePayment(b) \/ CancelByStudent(b) \/ CancelByTutor(b) \/ MarkNoShow(b)
Sweeps == \/ ScanPending \/ ScanFinished
          \/ \E b \in Bookings : \/ ExpireBooking(b) \/ SkipExpired(b)
                                \/ CompleteBooking(b) \/ SkipCompleted(b)
Clock(b) == BecomeStale(b) \/ PassPhase(b)
WorkerFaults(w) == CallFails(w) \/ ReplyLost(w) \/ WorkerDies(w)

Next ==
    \/ \E b \in Bookings : Requests(b) \/ Clock(b)
    \/ \E t \in Tutors : LoadProfile(t) \/ SaveProfile(t)
    \/ Sweeps \/ SweepDies
    \/ \E p \in Payments : PayerAuthorizes(p)
    \/ \E e \in Events : Notify(e) \/ Redeliver(e) \/ HandleEvent(e) \/ HandlerDies(e)
    \/ \E w \in Workers : Work(w) \/ WorkerFaults(w)
    \/ \E m \in Messages : Duplicate(m)

\* Users, the payer and the faults owe nothing.  Time passes, beat keeps starting
\* the sweeps, the workers keep draining the queue, and the PSP reports an
\* authorized hold and delivers an event until it is answered.
Fairness ==
    /\ \A b \in Bookings : WF_vars(Clock(b))
    /\ WF_vars(Sweeps)
    /\ \A w \in Workers : WF_vars(Work(w))
    /\ WF_vars(\E e \in Events : HandleEvent(e))
    /\ WF_vars(\E e \in Events : e.type = "hold_succeeded" /\ Notify(e))

Spec == Init /\ [][Next]_vars
FairSpec == Spec /\ Fairness
=============================================================================
