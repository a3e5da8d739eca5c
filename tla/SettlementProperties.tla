------------------------ MODULE SettlementProperties ------------------------
(***************************************************************************)
(* What must hold of Settlement, and the inductive invariant behind it.    *)
(***************************************************************************)
EXTENDS Settlement, Functions

TypeOK ==
    /\ bstatus \in [Bookings -> BookingStatus]
    /\ stale \subseteq Bookings
    /\ phase \in [Bookings -> {"far", "near", "over"}]
    /\ pstatus \in [Payments -> PaymentStatus]
    /\ known \subseteq Payments
    /\ retained \in [Payments -> Nat]
    /\ captured \in [Payments -> Nat]
    /\ commission \in [Payments -> Nat]
    /\ balance \in [Tutors -> Nat]
    /\ credited \in [Tutors -> Nat]
    /\ forms \subseteq Tutors \X Nat
    /\ event \in [Events -> {"unsent", "sent", "handling", "ignored", "recorded"}]
    /\ hold \in [Payments -> {"none", "open", "authorized"}]
    /\ voided \subseteq Payments
    /\ charged \subseteq Payments
    /\ taken \in [Payments -> Nat]
    /\ expireIds \subseteq Bookings
    /\ completeIds \subseteq Bookings
    /\ queue \in [Messages -> Nat]
    /\ job \in [Workers -> Jobs \cup {NoJob}]
    /\ faults \in 0..MaxFaults

\* The money of a held payment belongs to the tutor: the lesson was delivered,
\* or the student cancelled late.
Earned(p) ==
    \/ bstatus[BookingOf[p]] = "completed"
    \/ bstatus[BookingOf[p]] = "cancelled_by_student" /\ retained[p] > 0

\* A booking never has two live payments, and the PSP is never asked to take
\* money twice for one booking (initiate_payment, services.py:68-70).
NoDoublePayment ==
    \A p, q \in Payments :
        /\ BookingOf[p] = BookingOf[q]
        /\ \/ pstatus[p] \in LiveStatus /\ pstatus[q] \in LiveStatus \cup {"captured"}
           \/ p \in charged /\ q \in charged
        => p = q

\* A payment and its booking move in step: an unconfirmed payment has a pending
\* booking and a held one a booking that still owes it, unless the booking was
\* marked no_show, which settles nothing (confirm_hold, services.py:177-178;
\* cancel_booking, bookings/services.py:278-279).
CoherentPair ==
    \A p \in Payments :
        /\ pstatus[p] = "created" => bstatus[BookingOf[p]] = "pending"
        /\ pstatus[p] = "held" => \/ HoldIsStillOwed(p)
                                 \/ bstatus[BookingOf[p]] = "no_show"

\* A lesson that is going to be given, or was given, has real money behind it:
\* an authorization at the PSP that we know of and have not released.
ConfirmedIsBacked ==
    \A b \in Bookings : bstatus[b] \in {"confirmed", "completed"} =>
        \E p \in Payments : /\ BookingOf[p] = b /\ pstatus[p] \in {"held", "captured"}
                            /\ p \in known \ voided /\ hold[p] = "authorized"

\* No hold is both captured and released at the PSP, in whatever order the
\* tasks, webhooks, sweeps and cancellations run.
NeverCapturedAndReleased == charged \cap voided = {}

\* The PSP takes the full price of a completed lesson, the pinned penalty of a
\* late cancellation, and nothing for any other booking.
ChargedWhatIsOwed ==
    \A p \in charged :
        /\ pstatus[p] \in {"held", "captured"}
        /\ \/ bstatus[BookingOf[p]] = "completed" /\ taken[p] = AmountOf(p)
           \/ /\ bstatus[BookingOf[p]] = "cancelled_by_student"
              /\ 0 < retained[p] /\ taken[p] = retained[p] /\ taken[p] <= AmountOf(p)

\* A payment is recorded as captured only for money the PSP took, at the very
\* amount (capture_and_credit, services.py:321-323), and splits it exactly.
CapturedIsTaken ==
    \A p \in Payments :
        IF pstatus[p] = "captured"
        THEN /\ p \in charged /\ captured[p] = taken[p]
             /\ commission[p] = Commission(taken[p], StandardRate)
        ELSE captured[p] = 0 /\ commission[p] = 0

\* The ledger balances: what was credited to a tutor, all credits together, and
\* what was kept as commission is, to the kopeck, what the PSP took for the
\* recorded captures (payments/models.py:5-8).  The stored balance is another
\* matter: the profile form overwrites it (BalanceWithinCredits).
PaidTo(t) == {p \in Payments : TutorOfPayment(p) = t /\ pstatus[p] = "captured"}
LedgerBalances ==
    \A t \in Tutors :
        credited[t] + SumFunctionOnSet(commission, PaidTo(t)) = SumFunctionOnSet(taken, PaidTo(t))

\* However captures and the saves of profile forms interleave, a tutor's balance
\* never exceeds what the captures credited: a form that loads before a capture
\* and saves after it can lose a credit, and can invent none
\* (capture_and_credit, services.py:345-350; catalog/views.py:167-168).  The admin
\* site, where staff may type in any balance, is left out.
BalanceWithinCredits ==
    /\ \A t \in Tutors : balance[t] <= credited[t]
    /\ \A form \in forms : form[2] <= credited[form[1]]

\* A step never takes earned money away from the tutor: an earned hold stays
\* held for the same amount or is captured (confirm_hold, services.py:206-208).
KeepEarned ==
    \A p \in Payments : pstatus[p] = "held" /\ Earned(p) =>
        /\ pstatus'[p] \in {"held", "captured"}
        /\ Earned(p)' /\ retained'[p] = retained[p]
EarnedIsKept == [][KeepEarned]_vars

\* A tutor is credited only when one held payment of theirs is captured, by its
\* payout, once per payment (capture_and_credit, services.py:325-326); the credit
\* adds to the balance as it is at that moment.  The balance moves otherwise only
\* back to what a profile form loaded, and then no payment does.
CreditOneCapture ==
    \A t \in Tutors :
        /\ credited'[t] # credited[t] =>
              \E p \in Payments :
                 /\ TutorOfPayment(p) = t /\ pstatus[p] = "held" /\ pstatus'[p] = "captured"
                 /\ credited'[t] = credited[t] + captured'[p] - commission'[p]
                 /\ balance'[t] = balance[t] + captured'[p] - commission'[p]
                 /\ \A q \in Payments \ {p} : pstatus'[q] = pstatus[q]
        /\ credited'[t] = credited[t] /\ balance'[t] # balance[t] =>
              <<t, balance'[t]>> \in forms /\ pstatus' = pstatus
CreditedOnCapture == [][CreditOneCapture]_vars

\* A sweep leaves alone what changed since its scan: a lesson paid for in time
\* is not timed out, and one cancelled or missed in time is not completed
\* (bookings/services.py:314-318, 359-361).
RecheckScan ==
    \A b \in Bookings :
        /\ b \in expireIds \ expireIds' /\ bstatus[b] # "pending" => bstatus'[b] = bstatus[b]
        /\ b \in completeIds \ completeIds' /\ bstatus[b] # "confirmed" =>
              bstatus'[b] = bstatus[b]
SweepsRecheck == [][RecheckScan]_vars

\* A message in the broker, or a worker on it, that is about the payment.
InFlight(kind, p) ==
    \/ \E m \in Messages : m.kind = kind /\ m.pay = p /\ queue[m] > 0
    \/ \E w \in Workers : job[w] # NoJob /\ job[w].kind = kind /\ job[w].pay = p
OpeningHold(p, pc) == \E w \in Workers : Running(w, pc) /\ job[w].pay = p

\* Every message reached the broker, and no task can have used up its retries.
WithinRetries == "lost_enqueue" \notin Faults /\ faults <= MaxRetries

\* Earned money is always on its way to the tutor: whatever the crashes, lost
\* answers, duplicates and provider errors, the capture of an earned hold is in
\* the broker or in a worker's hands until it is recorded, because a task is
\* acknowledged late and retried (tasks.py:17, base.py:158-159), and no early
\* return drops it (services.py:368-369, 389-391).
CaptureKind(p) == IF bstatus[BookingOf[p]] = "completed" THEN "capture" ELSE "partial"
EarnedIsUnderway ==
    WithinRetries => \A p \in Payments :
        pstatus[p] = "held" /\ Earned(p) => InFlight(CaptureKind(p), p)

\* The student's money is on its way back, where the code sees to it.  A hold whose
\* id we stored behind a refunded payment has its release under way.  So has one
\* behind a payment that failed, or the worker that stored the id is about to look
\* (services.py:497-503): unless a hold_failed webhook failed it, and as long as no
\* worker dies.  A hold whose id nobody stored is in the hands of the worker that
\* opened it, as long as no worker dies and no reply of the PSP is lost.
Declined(p) == \E e \in Events : e.type = "hold_failed" /\ e.pay = p /\ event[e] = "recorded"
DeadHoldIsUnderway ==
    WithinRetries => \A p \in Payments :
        /\ pstatus[p] = "refunded" /\ p \notin voided => InFlight("release", p)
        /\ /\ pstatus[p] = "failed" /\ p \in known \ voided /\ ~ Declined(p)
           /\ "crash" \notin Faults
           => InFlight("release", p) \/ OpeningHold(p, "check")
        /\ /\ p \notin known /\ hold[p] # "none"
           /\ Faults \cap {"crash", "lost_reply"} = {}
           => OpeningHold(p, "store")

\* Every booking reaches an end: it is paid for or times out, and a lesson that
\* is given is completed by the sweep (bookings/services.py:306-312, 351-357).
EveryBookingEnds ==
    \A b \in Bookings : <>(bstatus[b] \notin {"pending", "confirmed"})

\* Earned money is paid out: "a completed booking always ends up with its hold
\* captured" (bookings/services.py:363-365), and so does a late cancellation.
EarnedIsPaid ==
    \A p \in Payments : (pstatus[p] = "held" /\ Earned(p)) ~> (pstatus[p] = "captured")

\* The student's money comes back: an authorized hold behind a payment that is
\* failed or refunded is released (services.py:119-122, 141-144, 497-503).
DeadHoldIsReleased ==
    \A p \in Payments :
        (pstatus[p] \in {"failed", "refunded"} /\ hold[p] = "authorized") ~> (p \in voided)

\* An authorization reported before its hold id was stored is reported again and
\* picked up: "a genuine later redelivery" (services.py:450-453).
IgnoredIsHeardAgain ==
    \A e \in Events : (event[e] = "ignored") ~> (event[e] = "recorded")

\* "held -> refunded is a full release of a confirmed hold (tutor cancel,
\* student > 24h, no-show)" (payments/models.py:39-40).
NoShowIsReleased ==
    \A p \in Payments : (pstatus[p] = "held" /\ bstatus[BookingOf[p]] = "no_show")
                            ~> (pstatus[p] = "refunded")

-----------------------------------------------------------------------------
\* The inductive invariant: the safety properties above and what they rest on.

\* No two payments of a booking are unfinished, or funded, at once.
OnePerBooking ==
    \A p, q \in Payments : BookingOf[p] = BookingOf[q] /\ p # q =>
        \A S \in {LiveStatus, {"held", "captured"}} : ~ (pstatus[p] \in S /\ pstatus[q] \in S)

\* What the status of a payment says about its hold and its booking.
PaymentFact(p) ==
    /\ p \in known => hold[p] # "none"
    /\ hold[p] # "none" => pstatus[p] # "none"
    /\ pstatus[p] \in {"held", "captured", "refunded"} => p \in known /\ hold[p] = "authorized"
    /\ p \in voided => pstatus[p] \in {"failed", "refunded"}
    /\ pstatus[p] = "captured" => Earned(p)
    /\ retained[p] <= AmountOf(p)
    /\ retained[p] > 0 => /\ bstatus[BookingOf[p]] = "cancelled_by_student"
                          /\ pstatus[p] \in {"held", "captured"}
PaymentFacts == \A p \in Payments : PaymentFact(p)

\* An event about an authorization comes after it, and one that is about to
\* void a payment finds nothing there that the tutor has earned.
EventFact(e) ==
    /\ e.type = "hold_succeeded" /\ event[e] # "unsent" => hold[e.pay] = "authorized"
    /\ event[e] = "handling" =>
          \/ pstatus[e.pay] \in {"captured", "refunded", "failed"}
          \/ pstatus[e.pay] = "held" /\ bstatus[BookingOf[e.pay]] = "no_show"
EventFacts == \A e \in Events : EventFact(e)

\* What a task read before its provider call still holds when it acts on it.
TaskFact(kind, pc, p, amount) ==
    /\ pc \in {"store", "check"} => kind = "hold"
    /\ pc = "credit" => kind \in {"capture", "partial"} /\ p \in charged
    /\ kind = "hold" => pstatus[p] # "none"
    /\ kind = "hold" /\ pc # "call" => hold[p] # "none"
    /\ kind = "release" => pstatus[p] \in {"failed", "refunded"}
    /\ kind = "capture" => /\ pstatus[p] \in {"held", "captured"}
                          /\ bstatus[BookingOf[p]] = "completed" /\ amount = AmountOf(p)
    /\ kind = "partial" => /\ pstatus[p] \in {"held", "captured"}
                          /\ bstatus[BookingOf[p]] = "cancelled_by_student"
                          /\ retained[p] > 0 /\ amount = retained[p]
JobFact(w) == job[w] # NoJob => TaskFact(job[w].kind, job[w].pc, job[w].pay, job[w].amount)
JobFacts == \A w \in Workers : JobFact(w)

IInv == /\ TypeOK /\ CoherentPair /\ ConfirmedIsBacked /\ ChargedWhatIsOwed
        /\ CapturedIsTaken /\ OnePerBooking /\ PaymentFacts /\ EventFacts /\ JobFacts

\* Every try of a task but the first answers a fault.
TriesAreFaults ==
    /\ \A m \in Messages : queue[m] > 0 => m.tries <= faults
    /\ \A w \in Workers : job[w] # NoJob => job[w].tries <= faults

\* IInv and the work that is in flight, which rests on it: no early return drops
\* a message that is still wanted, and the retry of a call has one try left.
UnderwayInv == IInv /\ TriesAreFaults /\ EarnedIsUnderway /\ DeadHoldIsUnderway
=============================================================================
