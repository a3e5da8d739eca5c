------------------------------ MODULE RowLocks ------------------------------
(***************************************************************************)
(* The row locks of the transactions, in the order in which they are taken *)
(* and held until the transaction, or its savepoint, ends.  Settlement and *)
(* TutorCalendar say what the transactions do; here is only whom they wait *)
(* for.                                                                    *)
(*                                                                         *)
(* The insert of an event id waits for a transaction that is inserting the *)
(* same one, so the id is a row like the others.  A lock is taken once: a  *)
(* row that is locked again by its own transaction (transition_to) is not  *)
(* waited for.                                                             *)
(***************************************************************************)
EXTENDS Integers

CONSTANTS
    Sessions,                             \* database connections
    Bookings, Payments, Tutors, Events,   \* rows
    BookingOf, TutorOf, PaymentOf,        \* foreign keys; what an event is about
    EventType,
    Nobody, Idle, Done     \* no holder; no transaction; nothing left to lock

VARIABLES
    holder,   \* who has the lock on each row
    txn       \* each session's transaction, and the row it wants next

vars == <<holder, txn>>

Rows == Events \cup Bookings \cup Payments \cup Tutors
EventTypes == {"hold_succeeded", "hold_failed", "echo"}
BookingOps == {"initiate_payment", "cancel_booking", "expire", "complete"}
PaymentOps == {"request_hold", "capture_and_credit"}
TutorOps == {"create_booking", "edit_availability", "edit_subjects", "edit_profile"}
Ops == EventTypes \cup {"fail_and_release"} \cup BookingOps \cup PaymentOps \cup TutorOps
Transactions == [op: Ops, about: Rows, want: Rows \cup {Done}]

ASSUME KeysAssumption ==
    /\ BookingOf \in [Payments -> Bookings] /\ TutorOf \in [Bookings -> Tutors]
    /\ PaymentOf \in [Events -> Payments] /\ EventType \in [Events -> EventTypes]
ASSUME KindsAssumption ==
    /\ Events \cap (Bookings \cup Payments \cup Tutors) = {}
    /\ Bookings \cap (Payments \cup Tutors) = {} /\ Payments \cap Tutors = {}
ASSUME NullsAssumption == Nobody \notin Sessions /\ Done \notin Rows /\ Idle \notin Transactions

Init ==
    /\ holder = [r \in Rows |-> Nobody]
    /\ txn = [s \in Sessions |-> Idle]

-----------------------------------------------------------------------------
Begin(s, ops, row) ==
    /\ txn[s] = Idle
    /\ \E op \in ops : txn' = [txn EXCEPT ![s] = [op |-> op, about |-> row, want |-> row]]
    /\ UNCHANGED holder

BeginAny(s) ==
    \/ \E e \in Events : Begin(s, {EventType[e]}, e)
    \/ \E b \in Bookings : Begin(s, BookingOps, b)
    \/ \E p \in Payments : Begin(s, PaymentOps, p)
    \/ \E t \in Tutors : Begin(s, TutorOps, t)

Runs(s, ops) == txn[s] # Idle /\ txn[s].op \in ops
Wants(s, rows) == txn[s] # Idle /\ txn[s].want \in rows

\* SELECT .. FOR UPDATE, UPDATE or the insert of an id; next is locked after it.
Lock(s, next) ==
    /\ holder[txn[s].want] = Nobody
    /\ holder' = [holder EXCEPT ![txn[s].want] = s]
    /\ txn' = [txn EXCEPT ![s].want = next]

\* handle_webhook_event: an id that is there already ends it.  An event of another
\* type is only recorded; its reference to the payment is checked at the commit,
\* which waits for the payment's row.
LockEvent(s) ==
    /\ Wants(s, Events)
    /\ LET p == PaymentOf[txn[s].about]
       IN  \/ Lock(s, Done)
           \/ Runs(s, {"hold_succeeded"}) /\ Lock(s, BookingOf[p])
           \/ Runs(s, {"hold_failed", "echo"}) /\ Lock(s, p)

\* confirm_hold goes on to the payment; a cancellation and the sweeps do so unless
\* the booking has moved on or has no payment they settle; initiate_payment does
\* not lock the payments it looks at.
LockBooking(s) ==
    /\ Wants(s, Bookings)
    /\ \/ ~ Runs(s, {"hold_succeeded"}) /\ Lock(s, Done)
       \/ /\ Runs(s, BookingOps \ {"initiate_payment"})
          /\ \E p \in Payments : BookingOf[p] = txn[s].want /\ Lock(s, p)
       \/ Runs(s, {"hold_succeeded"}) /\ Lock(s, PaymentOf[txn[s].about])

\* capture_and_credit goes on to the tutor, unless the payment is captured.
\* (Mutated form: it locks the lesson, to see whose it was.)
LessonOf(p) == BookingOf[p]
CreditedRow(p) == TutorOf[BookingOf[p]]
LockPayment(s) ==
    /\ Wants(s, Payments)
    /\ \/ Lock(s, Done)
       \/ Runs(s, {"capture_and_credit"}) /\ Lock(s, CreditedRow(txn[s].want))

LockTutor(s) == Wants(s, Tutors) /\ Lock(s, Done)

Released(s, rows) == [r \in Rows |-> IF r \in rows /\ holder[r] = s THEN Nobody ELSE holder[r]]

\* confirm_hold raises: its savepoint is rolled back, and with it every lock but the
\* one on the event, taken before it; _fail_and_release locks the payment again.
RollBackConfirm(s) ==
    /\ Runs(s, {"hold_succeeded"}) /\ Wants(s, {Done})
    /\ holder[PaymentOf[txn[s].about]] = s
    /\ holder' = Released(s, Rows \ Events)
    /\ txn' = [txn EXCEPT ![s] = [op |-> "fail_and_release", about |-> txn[s].about,
                                  want |-> PaymentOf[txn[s].about]]]

\* The end of the transaction: its commit, or a rollback after an exception or a
\* lost connection, at any statement.
End(s) ==
    /\ txn[s] # Idle
    /\ holder' = Released(s, Rows)
    /\ txn' = [txn EXCEPT ![s] = Idle]
Commit(s) == Wants(s, {Done}) /\ End(s)
Abort(s) == Wants(s, Rows) /\ End(s)

LockNext(s) == LockEvent(s) \/ LockBooking(s) \/ LockPayment(s) \/ LockTutor(s)
Next == \E s \in Sessions :
    BeginAny(s) \/ LockNext(s) \/ RollBackConfirm(s) \/ Commit(s) \/ Abort(s)

Spec == Init /\ [][Next]_vars

\* A transaction goes on when it can, and a lock that is freed again and again is
\* granted in the end (PostgreSQL queues the waiting transactions).  Nothing
\* makes a transaction begin or fail.
FairSpec == Spec /\ \A s \in Sessions : SF_vars(LockNext(s)) /\ WF_vars(Commit(s))

-----------------------------------------------------------------------------
TypeOK ==
    /\ holder \in [Rows -> Sessions \cup {Nobody}]
    /\ txn \in [Sessions -> Transactions \cup {Idle}]

\* No set of transactions waits for itself: "the lock order stays booking ->
\* payment (matching confirm_hold and the timeout sweep) and no deadlock forms"
\* (payments/services.py:232-235), with the event ids before and the tutors after.
WaitsIn(s, group) == Wants(s, Rows) /\ holder[txn[s].want] \in group
NoDeadlock == \A group \in (SUBSET Sessions) \ {{}} : \E s \in group : ~ WaitsIn(s, group)

\* A transaction that waits for a lock gets it, or is rolled back: none waits for
\* ever behind others (payments/services.py:232-235).
EveryTransactionEnds == \A s \in Sessions : txn[s] # Idle ~> txn[s] = Idle

\* The inductive invariant: locks are taken in the order of their kinds, by
\* transactions that are still running.
Kind(r) == CASE r \in Events -> 0 [] r \in Bookings -> 1 [] r \in Payments -> 2 [] OTHER -> 3
InOrder ==
    \A r \in Rows : LET s == holder[r] IN
        s # Nobody => /\ txn[s] # Idle
                      /\ txn[s].want # Done => Kind(r) < Kind(txn[s].want)
AboutEvents ==
    \A s \in Sessions : Runs(s, EventTypes \cup {"fail_and_release"}) => txn[s].about \in Events
RowLocksInv == TypeOK /\ AboutEvents /\ InOrder
=============================================================================
