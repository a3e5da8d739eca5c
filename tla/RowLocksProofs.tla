--------------------------- MODULE RowLocksProofs ---------------------------
(***************************************************************************)
(* Rows are locked in the order of their kinds, so no transactions wait    *)
(* for each other, whatever the number of sessions and rows.               *)
(***************************************************************************)
EXTENDS RowLocks, TLAPS

USE KeysAssumption, KindsAssumption, NullsAssumption

-----------------------------------------------------------------------------
\* The kinds of rows are told apart, and ordered.
LEMMA KindsOfRows ==
    /\ \A r \in Events : Kind(r) = 0
    /\ \A r \in Bookings : Kind(r) = 1
    /\ \A r \in Payments : Kind(r) = 2
    /\ \A r \in Tutors : Kind(r) = 3
  BY DEF Kind

LEMMA KindType ==
    ASSUME NEW r
    PROVE  Kind(r) \in 0 .. 3
  BY DEF Kind

\* A step that locks a row: the row was free, and comes before what is wanted next.
LEMMA LockStep ==
    ASSUME RowLocksInv, NEW s \in Sessions, NEW next \in Rows \cup {Done},
           txn[s] # Idle, txn[s].want \in Rows, Lock(s, next),
           next # Done => Kind(txn[s].want) < Kind(next)
    PROVE  RowLocksInv'
  <1> USE DEF RowLocksInv
  <1>1. PICK t \in Transactions : t = txn[s]
    BY DEF TypeOK
  <1>2. /\ t.want \in Rows /\ holder[t.want] = Nobody
        /\ holder' = [holder EXCEPT ![t.want] = s]
        /\ txn' = [txn EXCEPT ![s] = [t EXCEPT !.want = next]]
    BY <1>1 DEF Lock, TypeOK
  <1>3. [t EXCEPT !.want = next] \in Transactions
    BY <1>1 DEF Transactions
  <1>4. TypeOK'
    BY <1>2, <1>3 DEF TypeOK
  <1>5. /\ txn'[s] # Idle /\ txn'[s].want = next
        /\ txn'[s].op = t.op /\ txn'[s].about = t.about
        /\ \A u \in Sessions \ {s} : txn'[u] = txn[u]
    BY <1>1, <1>2, <1>3 DEF TypeOK, Transactions
  <1>6. AboutEvents'
    BY <1>1, <1>5 DEF AboutEvents, Runs
  <1>7. ASSUME NEW r \in Rows, holder'[r] # Nobody
        PROVE  /\ txn'[holder'[r]] # Idle
               /\ txn'[holder'[r]].want # Done => Kind(r) < Kind(txn'[holder'[r]].want)
    <2>1. CASE r = t.want
      BY <1>1, <1>2, <1>5, <2>1 DEF TypeOK
    <2>2. CASE r # t.want /\ holder[r] = s
      <3>1. holder'[r] = s
        BY <1>2, <2>2 DEF TypeOK
      <3>2. Kind(r) < Kind(t.want)
        BY <1>1, <1>2, <2>2 DEF InOrder
      <3>3. next # Done => Kind(r) < Kind(next)
        BY <1>1, <3>2, KindType
      <3> QED
        BY <1>5, <3>1, <3>3
    <2>3. CASE r # t.want /\ holder[r] # s
      <3>1. holder'[r] = holder[r] /\ holder[r] \in Sessions \ {s}
        BY <1>2, <1>7, <2>3 DEF TypeOK
      <3>2. txn'[holder[r]] = txn[holder[r]]
        BY <1>5, <3>1
      <3> QED
        BY <3>1, <3>2 DEF InOrder
    <2> QED
      BY <2>1, <2>2, <2>3
  <1>8. InOrder'
    BY <1>7 DEF InOrder
  <1> QED
    BY <1>4, <1>6, <1>8

\* A step that gives up locks, and then runs nothing or wants a row that comes
\* after those it still has.
LEMMA ReleaseStep ==
    ASSUME RowLocksInv, NEW s \in Sessions, NEW rows \in SUBSET Rows,
           NEW t \in Transactions \cup {Idle},
           holder' = Released(s, rows), txn' = [txn EXCEPT ![s] = t],
           t = Idle => rows = Rows,
           t # Idle => /\ t.op \in EventTypes \cup {"fail_and_release"} => t.about \in Events
                       /\ \A r \in Rows \ rows : t.want # Done => Kind(r) < Kind(t.want)
    PROVE  RowLocksInv'
  <1> USE DEF RowLocksInv
  <1>1. \A r \in Rows : holder'[r] = IF r \in rows /\ holder[r] = s THEN Nobody ELSE holder[r]
    BY DEF Released
  <1>2. TypeOK'
    BY DEF TypeOK, Released
  <1>3. txn'[s] = t /\ \A u \in Sessions \ {s} : txn'[u] = txn[u]
    BY DEF TypeOK
  <1>4. AboutEvents'
    BY <1>3 DEF AboutEvents, Runs
  <1>5. ASSUME NEW r \in Rows, holder'[r] # Nobody
        PROVE  /\ txn'[holder'[r]] # Idle
               /\ txn'[holder'[r]].want # Done => Kind(r) < Kind(txn'[holder'[r]].want)
    <2>1. holder'[r] = holder[r] /\ holder[r] \in Sessions /\ (holder[r] = s => r \notin rows)
      BY <1>1, <1>5 DEF TypeOK
    <2>2. CASE holder[r] = s
      BY <1>3, <2>1, <2>2
    <2>3. CASE holder[r] # s
      <3>1. txn'[holder[r]] = txn[holder[r]]
        BY <1>3, <2>1, <2>3
      <3> QED
        BY <2>1, <3>1 DEF InOrder
    <2> QED
      BY <2>2, <2>3
  <1>6. InOrder'
    BY <1>5 DEF InOrder
  <1> QED
    BY <1>2, <1>4, <1>6

-----------------------------------------------------------------------------
LEMMA BeginStep ==
    ASSUME RowLocksInv, NEW s \in Sessions, BeginAny(s)
    PROVE  RowLocksInv'
  <1> USE DEF RowLocksInv
  <1>1. PICK op \in Ops, row \in Rows :
           /\ op \in EventTypes \cup {"fail_and_release"} => row \in Events
           /\ txn[s] = Idle /\ UNCHANGED holder
           /\ txn' = [txn EXCEPT ![s] = [op |-> op, about |-> row, want |-> row]]
    <2>1. CASE \E e \in Events : Begin(s, {EventType[e]}, e)
      BY <2>1 DEF Begin, Rows, Ops
    <2>2. CASE \E b \in Bookings : Begin(s, BookingOps, b)
      BY <2>2 DEF Begin, Rows, Ops, BookingOps, EventTypes
    <2>3. CASE \E p \in Payments : Begin(s, PaymentOps, p)
      BY <2>3 DEF Begin, Rows, Ops, PaymentOps, EventTypes
    <2>4. CASE \E t \in Tutors : Begin(s, TutorOps, t)
      BY <2>4 DEF Begin, Rows, Ops, TutorOps, EventTypes
    <2> QED
      BY <2>1, <2>2, <2>3, <2>4 DEF BeginAny
  <1>2. [op |-> op, about |-> row, want |-> row] \in Transactions
    BY DEF Transactions
  <1>3. TypeOK'
    BY <1>1, <1>2 DEF TypeOK
  <1>4. /\ txn'[s] = [op |-> op, about |-> row, want |-> row]
        /\ \A u \in Sessions \ {s} : txn'[u] = txn[u]
    BY <1>1 DEF TypeOK
  <1>5. AboutEvents'
    BY <1>1, <1>4 DEF AboutEvents, Runs
  <1>6. \A r \in Rows : holder[r] # s
    BY <1>1 DEF InOrder
  <1>7. InOrder'
    BY <1>1, <1>4, <1>6 DEF InOrder, TypeOK
  <1> QED
    BY <1>3, <1>5, <1>7

LEMMA LockingStep ==
    ASSUME RowLocksInv, NEW s \in Sessions, LockNext(s)
    PROVE  RowLocksInv'
  <1>1. TypeOK /\ AboutEvents
    BY DEF RowLocksInv
  <1>2. CASE LockEvent(s)
    <2>1. txn[s] # Idle /\ txn[s].want \in Events /\ txn[s].want \in Rows
      BY <1>2 DEF LockEvent, Wants, Rows
    <2>2. CASE Lock(s, Done)
      BY <2>1, <2>2, LockStep
    <2>3. ASSUME Runs(s, EventTypes) PROVE txn[s].about \in Events
      BY <1>1, <2>3 DEF AboutEvents, Runs
    <2>4. CASE Runs(s, {"hold_succeeded"}) /\ Lock(s, BookingOf[PaymentOf[txn[s].about]])
      <3>1. BookingOf[PaymentOf[txn[s].about]] \in Bookings
        BY <2>3, <2>4 DEF Runs, EventTypes
      <3> QED
        BY <2>1, <2>4, <3>1, LockStep, KindsOfRows DEF Rows
    <2>5. CASE Runs(s, {"hold_failed", "echo"}) /\ Lock(s, PaymentOf[txn[s].about])
      <3>1. PaymentOf[txn[s].about] \in Payments
        BY <2>3, <2>5 DEF Runs, EventTypes
      <3> QED
        BY <2>1, <2>5, <3>1, LockStep, KindsOfRows DEF Rows
    <2> QED
      BY <1>2, <2>2, <2>4, <2>5 DEF LockEvent
  <1>3. CASE LockBooking(s)
    <2>1. txn[s] # Idle /\ txn[s].want \in Bookings /\ txn[s].want \in Rows
      BY <1>3 DEF LockBooking, Wants, Rows
    <2>2. CASE Lock(s, Done)
      BY <2>1, <2>2, LockStep
    <2>3. ASSUME NEW p \in Payments, Lock(s, p) PROVE RowLocksInv'
      BY <2>1, <2>3, LockStep, KindsOfRows DEF Rows
    <2>4. CASE Runs(s, {"hold_succeeded"}) /\ Lock(s, PaymentOf[txn[s].about])
      <3>1. PaymentOf[txn[s].about] \in Payments
        BY <1>1, <2>4 DEF Runs, AboutEvents, EventTypes
      <3> QED
        BY <2>3, <2>4, <3>1
    <2> QED
      BY <1>3, <2>2, <2>3, <2>4 DEF LockBooking
  <1>4. CASE LockPayment(s)
    <2>1. txn[s] # Idle /\ txn[s].want \in Payments /\ txn[s].want \in Rows
      BY <1>4 DEF LockPayment, Wants, Rows
    <2>2. CASE Lock(s, Done)
      BY <2>1, <2>2, LockStep
    <2>3. CASE Lock(s, CreditedRow(txn[s].want))
      <3>1. CreditedRow(txn[s].want) \in Tutors
        BY <2>1 DEF CreditedRow
      <3> QED
        BY <2>1, <2>3, <3>1, LockStep, KindsOfRows DEF Rows
    <2> QED
      BY <1>4, <2>2, <2>3 DEF LockPayment
  <1>5. CASE LockTutor(s)
    <2>1. txn[s] # Idle /\ txn[s].want \in Rows /\ Lock(s, Done)
      BY <1>5 DEF LockTutor, Wants, Rows
    <2> QED
      BY <2>1, LockStep
  <1> QED
    BY <1>2, <1>3, <1>4, <1>5 DEF LockNext

\* What is kept when confirm_hold is rolled back is the event, which comes before
\* the payment.
LEMMA RollBackStep ==
    ASSUME RowLocksInv, NEW s \in Sessions, RollBackConfirm(s)
    PROVE  RowLocksInv'
  <1> DEFINE t == [op |-> "fail_and_release", about |-> txn[s].about,
                   want |-> PaymentOf[txn[s].about]]
  <1>1. txn[s].about \in Events
    BY DEF RollBackConfirm, RowLocksInv, AboutEvents, Runs, EventTypes
  <1>2. t.want \in Payments /\ t \in Transactions
    BY <1>1 DEF Transactions, Ops, Rows
  <1>3. /\ holder' = Released(s, Rows \ Events)
        /\ txn' = [txn EXCEPT ![s] = t]
        /\ t.about \in Events
    BY <1>1 DEF RollBackConfirm
  <1>4. \A r \in Rows \ (Rows \ Events) : Kind(r) < Kind(t.want)
    BY <1>2, KindsOfRows
  <1>5. t # Idle
    BY <1>2
  <1> HIDE DEF t
  <1> QED
    BY <1>2, <1>3, <1>4, <1>5, ReleaseStep

LEMMA EndStep ==
    ASSUME RowLocksInv, NEW s \in Sessions, End(s)
    PROVE  RowLocksInv'
  BY ReleaseStep DEF End

LEMMA InitRowLocks == Init => RowLocksInv
  BY DEF Init, RowLocksInv, TypeOK, AboutEvents, Runs, InOrder

LEMMA StepRowLocks == RowLocksInv /\ [Next]_vars => RowLocksInv'
  <1> SUFFICES ASSUME RowLocksInv, [Next]_vars PROVE RowLocksInv'
    OBVIOUS
  <1>1. ASSUME NEW s \in Sessions, BeginAny(s) PROVE RowLocksInv'
    BY <1>1, BeginStep
  <1>2. ASSUME NEW s \in Sessions, LockNext(s) PROVE RowLocksInv'
    BY <1>2, LockingStep
  <1>3. ASSUME NEW s \in Sessions, RollBackConfirm(s) PROVE RowLocksInv'
    BY <1>3, RollBackStep
  <1>4. ASSUME NEW s \in Sessions, End(s) PROVE RowLocksInv'
    BY <1>4, EndStep
  <1>5. CASE UNCHANGED vars
    BY <1>5 DEF vars, RowLocksInv, TypeOK, AboutEvents, Runs, InOrder
  <1> QED
    BY <1>1, <1>2, <1>3, <1>4, <1>5 DEF Next, Commit, Abort

\* Every reachable state is well typed and has its rows locked in the order event,
\* booking, payment, tutor (payments/services.py:199-201, 232-235, 334-348, 464-475).
THEOREM RowLocksHold == Spec => []RowLocksInv
  BY InitRowLocks, StepRowLocks, PTL DEF Spec

-----------------------------------------------------------------------------
\* Whoever holds what a session waits for waits itself for a later kind, if at all.
LEMMA WaitsForLater ==
    ASSUME RowLocksInv, NEW s \in Sessions, NEW u \in Sessions,
           Wants(s, Rows), holder[txn[s].want] = u, Wants(u, Rows)
    PROVE  Kind(txn[s].want) < Kind(txn[u].want)
  BY DEF RowLocksInv, InOrder, Wants

\* Four kinds leave room for no more than a chain of four waiting sessions: a group
\* that waits for itself would have a fifth.
LEMMA OrderedIsFree == RowLocksInv => NoDeadlock
  <1> SUFFICES ASSUME RowLocksInv, NEW group \in (SUBSET Sessions) \ {{}},
                      \A s \in group : WaitsIn(s, group)
               PROVE  FALSE
    BY DEF NoDeadlock
  <1> DEFINE level(s) == Kind(txn[s].want)
  <1>1. ASSUME NEW s \in group PROVE \E u \in group : level(s) < level(u)
    <2>1. PICK u \in group : holder[txn[s].want] = u
      BY DEF WaitsIn
    <2> QED
      BY <2>1, WaitsForLater DEF WaitsIn
  <1>2. \A s \in group : level(s) \in 0 .. 3
    BY KindType
  <1> HIDE DEF level
  <1>3. PICK s1 \in group : TRUE
    OBVIOUS
  <1>4. PICK s2 \in group : level(s1) < level(s2)
    BY <1>1
  <1>5. PICK s3 \in group : level(s2) < level(s3)
    BY <1>1
  <1>6. PICK s4 \in group : level(s3) < level(s4)
    BY <1>1
  <1>7. PICK s5 \in group : level(s4) < level(s5)
    BY <1>1
  <1> QED
    BY <1>2, <1>4, <1>5, <1>6, <1>7

\* No set of transactions, of any size, waits for itself: no deadlock forms, as the
\* comment of reconcile_booking_payment says (payments/services.py:232-235).
THEOREM NoDeadlockHolds == Spec => []NoDeadlock
  BY RowLocksHold, OrderedIsFree, PTL
=============================================================================
