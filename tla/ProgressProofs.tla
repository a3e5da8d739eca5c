--------------------------- MODULE ProgressProofs ---------------------------
(***************************************************************************)
(* Work that is under way is never lost, for every value of the constants: *)
(* the safety half of "a completed booking always ends up with its hold    *)
(* captured" and of "the hold is released".                                *)
(***************************************************************************)
EXTENDS EscrowProofs

USE ForeignKeys, PriceAssumption, PercentAssumption, BoundAssumption, SetAssumption

-----------------------------------------------------------------------------
\* The broker.

LEMMA TaskIsMessage ==
    ASSUME NEW kind \in TaskKinds, NEW p \in Payments
    PROVE  /\ Task(kind, p) \in Messages /\ Task(kind, p).tries = 0
           /\ Task(kind, p).kind = kind /\ Task(kind, p).pay = p
  BY SMT DEF Task, Messages

LEMMA SentReaches ==
    ASSUME NEW q \in [Messages -> Nat], NEW msgs, NEW m \in Messages
    PROVE  /\ q[m] > 0 => Sent(msgs, q)[m] > 0
           /\ m \in msgs => Sent(msgs, q)[m] > 0
           /\ m \notin msgs => Sent(msgs, q)[m] = q[m]
  BY SMT DEF Sent

LEMMA FaultCounts ==
    ASSUME TypeOK, NEW kind, Fault(kind)
    PROVE  faults' = faults + 1 /\ faults' > faults /\ faults \in Nat
  BY SMT DEF TypeOK, Fault

\* What a step that publishes first tries, and touches no worker, does.
Calm == /\ UNCHANGED job /\ faults' >= faults
        /\ \A m \in Messages : /\ (queue[m] > 0 => queue'[m] > 0)
                               /\ queue'[m] > 0 => queue[m] > 0 \/ m.tries = 0

LEMMA EnqueueIsCalm ==
    ASSUME TypeOK, NEW msgs, \A m \in msgs : m.tries = 0, Enqueue(msgs), UNCHANGED job
    PROVE  Calm
  <1>0. queue \in [Messages -> Nat] /\ faults \in Nat
    BY SMT DEF TypeOK
  <1>1. CASE queue' = Sent(msgs, queue) /\ UNCHANGED faults
    <2>1. \A m \in Messages : /\ (queue[m] > 0 => queue'[m] > 0)
                              /\ queue'[m] > 0 => queue[m] > 0 \/ m.tries = 0
      BY <1>0, <1>1, SentReaches
    <2>2. faults' >= faults
      BY <1>0, <1>1, SMT
    <2> QED
      BY <2>1, <2>2 DEF Calm
  <1>2. CASE Fault("lost_enqueue") /\ UNCHANGED queue
    <2>1. faults' >= faults
      BY <1>2, FaultCounts, SMT
    <2>2. \A m \in Messages : queue[m] > 0 => queue'[m] > 0
      BY <1>0, <1>2, SMT
    <2> QED
      BY <1>2, <2>1, <2>2 DEF Calm
  <1> QED
    BY <1>1, <1>2 DEF Enqueue

\* Without lost messages, what is enqueued is in flight.
LEMMA EnqueueSends ==
    ASSUME TypeOK, "lost_enqueue" \notin Faults, NEW msgs, Enqueue(msgs),
           NEW kind \in TaskKinds, NEW p \in Payments, Task(kind, p) \in msgs
    PROVE  InFlight(kind, p)'
  <1>1. queue \in [Messages -> Nat] /\ queue' = Sent(msgs, queue)
    BY DEF TypeOK, Enqueue, Fault
  <1>2. Task(kind, p) \in Messages /\ queue'[Task(kind, p)] > 0
    BY <1>1, TaskIsMessage, SentReaches
  <1> QED
    BY <1>2, TaskIsMessage DEF InFlight

LEMMA QuietIsCalm ==
    ASSUME TypeOK, UNCHANGED celeryVars, faults' >= faults
    PROVE  Calm
  <1>1. \A m \in Messages : queue[m] > 0 => queue'[m] > 0
    BY SMT DEF TypeOK, celeryVars
  <1> QED
    BY <1>1 DEF Calm, celeryVars

LEMMA ReconcileSends ==
    ASSUME TypeOK, NEW b \in Bookings, NEW refund, Reconcile(b, refund), UNCHANGED job
    PROVE  Calm
  <1>1. PICK msgs : Enqueue(msgs) /\ \A m \in msgs : m.tries = 0
    BY DEF Reconcile, Task
  <1> QED
    BY <1>1, EnqueueIsCalm

\* Every step is calm or a worker's.
LEMMA Traffic ==
    ASSUME TypeOK, [Next]_vars
    PROVE  Calm \/ \E w \in Workers : Work(w) \/ WorkerFaults(w)
  <1>0. faults \in Nat
    BY SMT DEF TypeOK
  <1>00. UNCHANGED faults => faults' >= faults
    BY <1>0, SMT
  <1>1. ASSUME NEW b \in Bookings, Requests(b) \/ Clock(b) PROVE Calm
    <2>1. CASE InitiatePayment(b)
      <3>1. PICK p \in Payments : Enqueue({Task("hold", p)})
        BY <2>1 DEF InitiatePayment
      <3> QED
        BY <2>1, <3>1, EnqueueIsCalm DEF InitiatePayment, Task
    <2>2. CASE CancelByStudent(b) \/ CancelByTutor(b)
      BY <2>2, ReconcileSends DEF CancelByStudent, CancelByTutor
    <2>3. CASE MarkNoShow(b) \/ Clock(b)
      BY <1>00, <2>3, QuietIsCalm DEF MarkNoShow, Clock, BecomeStale, PassPhase
    <2> QED
      BY <1>1, <2>1, <2>2, <2>3 DEF Requests
  <1>2. CASE Sweeps \/ SweepDies
    <2>1. CASE ScanPending \/ ScanFinished
      BY <1>00, <2>1, QuietIsCalm DEF ScanPending, ScanFinished
    <2>2. ASSUME NEW b \in Bookings, SkipExpired(b) \/ SkipCompleted(b) PROVE Calm
      BY <1>00, <2>2, QuietIsCalm DEF SkipExpired, SkipCompleted
    <2>3. ASSUME NEW b \in Bookings, ExpireBooking(b) PROVE Calm
      BY <2>3, ReconcileSends DEF ExpireBooking
    <2>4. ASSUME NEW b \in Bookings, CompleteBooking(b) PROVE Calm
      <3>1. PICK first : Enqueue({Task("capture", p) : p \in first})
        BY <2>4 DEF CompleteBooking
      <3> QED
        BY <2>4, <3>1, EnqueueIsCalm DEF CompleteBooking, Task
    <2>5. CASE SweepDies
      <3>1. faults' >= faults
        BY <2>5, FaultCounts, SMT DEF SweepDies
      <3> QED
        BY <2>5, <3>1, QuietIsCalm DEF SweepDies
    <2> QED
      BY <1>2, <2>1, <2>2, <2>3, <2>4, <2>5 DEF Sweeps
  <1>3. ASSUME NEW p \in Payments, PayerAuthorizes(p) PROVE Calm
    BY <1>00, <1>3, QuietIsCalm DEF PayerAuthorizes
  <1>4. ASSUME NEW e \in Events, Notify(e) \/ Redeliver(e) \/ HandleEvent(e) \/ HandlerDies(e)
        PROVE  Calm
    <2>1. CASE Redeliver(e) \/ HandlerDies(e)
      <3>1. faults' >= faults
        BY <2>1, FaultCounts, SMT DEF Redeliver, HandlerDies
      <3> QED
        BY <2>1, <3>1, QuietIsCalm DEF Redeliver, HandlerDies
    <2>2. CASE FailAndRelease(e)
      <3>1. PICK S : Enqueue({Task("release", p) : p \in S})
        BY <2>2 DEF FailAndRelease
      <3> QED
        BY <2>2, <3>1, EnqueueIsCalm DEF FailAndRelease, Task
    <2>3. CASE Notify(e) \/ UnknownHold(e) \/ HoldAlreadyApplied(e) \/ ConfirmHold(e)
                 \/ HoldNotConfirmable(e) \/ HoldFailed(e) \/ EchoRecorded(e)
      BY <1>00, <2>3, QuietIsCalm
      DEF Notify, UnknownHold, HoldAlreadyApplied, ConfirmHold, HoldNotConfirmable, HoldFailed,
          EchoRecorded
    <2> QED
      BY <1>4, <2>1, <2>2, <2>3 DEF HandleEvent
  <1>5. ASSUME NEW m \in Messages, Duplicate(m) PROVE Calm
    <2>1. queue \in [Messages -> Nat] /\ queue' = Sent({m}, queue) /\ queue[m] > 0
      BY <1>5 DEF Duplicate, TypeOK
    <2>2. \A n \in Messages : (queue[n] > 0 => queue'[n] > 0) /\ (queue'[n] > 0 => queue[n] > 0)
      BY <2>1, SentReaches
    <2>3. faults' >= faults
      BY <1>5, FaultCounts, SMT DEF Duplicate
    <2> QED
      BY <1>5, <2>2, <2>3 DEF Duplicate, Calm
  <1>6. ASSUME NEW t \in Tutors, LoadProfile(t) \/ SaveProfile(t) PROVE Calm
    BY <1>00, <1>6, QuietIsCalm DEF LoadProfile, SaveProfile
  <1>7. CASE UNCHANGED vars
    BY <1>00, <1>7, QuietIsCalm DEF vars
  <1> QED
    BY <1>1, <1>2, <1>3, <1>4, <1>5, <1>6, <1>7 DEF Next

LEMMA CalmKeeps ==
    ASSUME TypeOK, Calm, NEW kind, NEW p, InFlight(kind, p)
    PROVE  InFlight(kind, p)'
  <1>1. CASE \E m \in Messages : m.kind = kind /\ m.pay = p /\ queue[m] > 0
    <2>1. PICK m \in Messages : m.kind = kind /\ m.pay = p /\ queue[m] > 0
      BY <1>1
    <2> QED
      BY <2>1 DEF InFlight, Calm
  <1>2. CASE \E w \in Workers : job[w] # NoJob /\ job[w].kind = kind /\ job[w].pay = p
    BY <1>2 DEF InFlight, Calm
  <1> QED
    BY <1>1, <1>2 DEF InFlight

-----------------------------------------------------------------------------
\* The workers.

LEMMA StillQueued ==
    ASSUME NEW m \in Messages, queue'[m] > 0
    PROVE  InFlight(m.kind, m.pay)'
  BY DEF InFlight

\* A worker that goes on with its task, and one that ends it.
LEMMA GoesOn ==
    ASSUME TypeOK, NEW w \in Workers, NEW j \in Jobs,
           job[w] # NoJob, job' = [job EXCEPT ![w] = j],
           j.kind = job[w].kind, j.pay = job[w].pay, UNCHANGED queue,
           NEW kind, NEW p, InFlight(kind, p)
    PROVE  InFlight(kind, p)'
  <1>1. job'[w] = j /\ \A v \in Workers \ {w} : job'[v] = job[v]
    BY DEF TypeOK
  <1> QED
    BY <1>1, NoJobAssumption DEF InFlight

LEMMA FinishesAlone ==
    ASSUME TypeOK, NEW w \in Workers, Finish(w), \A m \in Messages : queue[m] > 0 => queue'[m] > 0,
           NEW kind, NEW p, InFlight(kind, p)
    PROVE  InFlight(kind, p)' \/ (job[w] # NoJob /\ job[w].kind = kind /\ job[w].pay = p)
  <1>1. \A v \in Workers \ {w} : job'[v] = job[v]
    BY DEF TypeOK, Finish
  <1>2. CASE \E m \in Messages : m.kind = kind /\ m.pay = p /\ queue[m] > 0
    BY <1>2, StillQueued
  <1>3. CASE \E v \in Workers : job[v] # NoJob /\ job[v].kind = kind /\ job[v].pay = p
    BY <1>1, <1>3 DEF InFlight
  <1> QED
    BY <1>2, <1>3 DEF InFlight

\* A worker that hands its message back, for this try or the next.
LEMMA HandsBack ==
    ASSUME TypeOK, NEW w \in Workers, job[w] # NoJob, Finish(w), NEW tries \in 0..MaxRetries,
           queue' = Sent({MessageOf(job[w], tries)}, queue),
           NEW kind, NEW p, InFlight(kind, p)
    PROVE  InFlight(kind, p)'
  <1>0. MessageOf(job[w], tries) \in Messages
    BY JobFields DEF MessageOf, Messages, Jobs
  <1>1. PICK n \in Messages : n = MessageOf(job[w], tries)
    BY <1>0
  <1>2. queue \in [Messages -> Nat]
    BY DEF TypeOK
  <1>3. queue'[n] > 0
    BY <1>1, <1>2, SentReaches
  <1>4. InFlight(n.kind, n.pay)'
    BY <1>3, StillQueued
  <1>5. \A m \in Messages : queue[m] > 0 => queue'[m] > 0
    BY <1>2, SentReaches
  <1>6. InFlight(kind, p)' \/ (job[w].kind = kind /\ job[w].pay = p)
    BY <1>5, FinishesAlone
  <1>7. n.kind = job[w].kind /\ n.pay = job[w].pay
    BY <1>1 DEF MessageOf
  <1> QED
    BY <1>4, <1>6, <1>7

\* A message that is received goes to the worker, or is no longer wanted.
LEMMA ReceivedStays ==
    ASSUME TypeOK, NEW w \in Workers, NEW m \in Messages, job[w] = NoJob, Received(m),
           \A v \in Workers \ {w} : job'[v] = job[v],
           NEW kind, NEW p, InFlight(kind, p)
    PROVE  InFlight(kind, p)' \/ (m.kind = kind /\ m.pay = p)
  <1>1. \A n \in Messages \ {m} : queue'[n] = queue[n]
    BY DEF Received, TypeOK
  <1>2. CASE \E n \in Messages : n.kind = kind /\ n.pay = p /\ queue[n] > 0
    BY <1>1, <1>2 DEF InFlight
  <1>3. CASE \E v \in Workers : job[v] # NoJob /\ job[v].kind = kind /\ job[v].pay = p
    BY <1>3 DEF InFlight
  <1> QED
    BY <1>2, <1>3 DEF InFlight

\* The only ways for work to leave: nobody wants it any more, or it was done.
Dropped(w, kind, p) == \E m \in Messages : SkipTask(w, m) /\ m.kind = kind /\ m.pay = p
Done(w, kind, p) ==
    /\ job[w] # NoJob /\ job[w].kind = kind /\ job[w].pay = p
    /\ StoreHoldId(w) \/ ReleaseIfFailed(w) \/ CaptureAndCredit(w) \/ Release(w)

LEMMA WorkStays ==
    ASSUME TypeOK, NEW w \in Workers, Work(w), NEW kind, NEW p, InFlight(kind, p)
    PROVE  InFlight(kind, p)' \/ Dropped(w, kind, p) \/ Done(w, kind, p)
  <1>0. UNCHANGED queue => \A m \in Messages : queue[m] > 0 => queue'[m] > 0
    BY SMT DEF TypeOK
  <1>1. ASSUME NEW m \in Messages, TakeTask(w, m) PROVE InFlight(kind, p)'
    <2> DEFINE j == [kind |-> m.kind, pay |-> m.pay, tries |-> m.tries, pc |-> "call",
                     amount |-> AmountAsked(m.kind, m.pay)]
    <2>1. j \in Jobs
      BY AmountAskedType DEF Jobs, Messages
    <2>2. j # NoJob /\ j.kind = m.kind /\ j.pay = m.pay
      BY <2>1, NoJobAssumption
    <2>3. job'[w] = j /\ \A v \in Workers \ {w} : job'[v] = job[v]
      BY <1>1 DEF TakeTask, TypeOK
    <2> HIDE DEF j
    <2>4. InFlight(kind, p)' \/ (m.kind = kind /\ m.pay = p)
      BY <1>1, <2>3, ReceivedStays DEF TakeTask
    <2> QED
      BY <2>2, <2>3, <2>4 DEF InFlight
  <1>2. ASSUME NEW m \in Messages, SkipTask(w, m)
        PROVE  InFlight(kind, p)' \/ Dropped(w, kind, p)
    <2>1. InFlight(kind, p)' \/ (m.kind = kind /\ m.pay = p)
      BY <1>2, ReceivedStays DEF SkipTask
    <2> QED
      BY <1>2, <2>1 DEF Dropped
  <1>3. CASE CreateHold(w)
    <2>1. job[w] # NoJob /\ job[w] \in Jobs
      BY <1>3, JobFields DEF CreateHold, Calling, Running
    <2>2. [job[w] EXCEPT !.pc = "store"] \in Jobs
      BY <2>1 DEF Jobs
    <2> QED
      BY <1>3, <2>1, <2>2, GoesOn DEF CreateHold, Jobs
  <1>4. CASE Capture(w)
    <2>1. job[w] # NoJob /\ job[w] \in Jobs /\ job[w].pay \in Payments
      BY <1>4, JobFields DEF Capture, Calling, Running
    <2>2. taken' \in [Payments -> Nat]
      BY <1>4, <2>1, JobFields, CaptureTypes DEF Capture
    <2>3. taken'[job[w].pay] \in Nat
      BY <2>1, <2>2
    <2>4. [job[w] EXCEPT !.pc = "credit", !.amount = taken'[job[w].pay]] \in Jobs
      BY <2>1, <2>3 DEF Jobs
    <2> QED
      BY <1>4, <2>1, <2>4, GoesOn DEF Capture, Jobs
  <1>5. CASE StoreHoldId(w) \/ CaptureAndCredit(w) \/ Release(w)
    <2>1. CASE Finish(w)
      <3>1. \A m \in Messages : queue[m] > 0 => queue'[m] > 0
        BY <1>0, <1>5 DEF StoreHoldId, CaptureAndCredit, Release
      <3> QED
        BY <1>5, <2>1, <3>1, FinishesAlone DEF Done
    <2>2. CASE ~ Finish(w)
      <3>1. StoreHoldId(w) /\ job' = [job EXCEPT ![w].pc = "check"] /\ UNCHANGED queue
        BY <1>5, <2>2 DEF StoreHoldId, CaptureAndCredit, Release
      <3>2. job[w] # NoJob /\ job[w] \in Jobs
        BY <3>1, JobFields DEF StoreHoldId, Running
      <3>3. [job[w] EXCEPT !.pc = "check"] \in Jobs
        BY <3>2 DEF Jobs
      <3> QED
        BY <3>1, <3>2, <3>3, GoesOn DEF Jobs
    <2> QED
      BY <2>1, <2>2
  <1>6. CASE ReleaseIfFailed(w)
    <2>1. PICK msgs : Enqueue(msgs)
      BY <1>6 DEF ReleaseIfFailed
    <2>2. \A m \in Messages : queue[m] > 0 => queue'[m] > 0
      BY <1>0, <2>1, SentReaches DEF Enqueue, TypeOK
    <2> QED
      BY <1>6, <2>2, FinishesAlone DEF ReleaseIfFailed, Done
  <1> QED
    BY <1>1, <1>2, <1>3, <1>4, <1>5, <1>6 DEF Work

\* A fault hands the message back: a failed call has a try left as long as the
\* faults so far do not exceed the retries.
LEMMA FaultStays ==
    ASSUME TypeOK, TriesAreFaults, NEW w \in Workers, WorkerFaults(w), faults' <= MaxRetries,
           NEW kind, NEW p, InFlight(kind, p)
    PROVE  InFlight(kind, p)'
  <1>1. job[w] # NoJob
    BY DEF WorkerFaults, CallFails, ReplyLost, WorkerDies, Running
  <1>2. job[w].tries \in 0..MaxRetries /\ job[w].tries <= faults
    BY <1>1, JobFields DEF Jobs, TriesAreFaults
  <1>3. \E f \in FaultKinds : Fault(f)
    BY DEF WorkerFaults, CallFails, ReplyLost, WorkerDies, FaultKinds
  <1>4. faults' = faults + 1 /\ faults \in Nat
    BY <1>3, FaultCounts
  <1>5. CASE Retry(w)
    <2>1. job[w].tries < MaxRetries /\ job[w].tries + 1 \in 0..MaxRetries
      BY <1>2, <1>4, SMT
    <2>2. queue' = Sent({MessageOf(job[w], job[w].tries + 1)}, queue) /\ Finish(w)
      BY <1>5, <2>1 DEF Retry
    <2> QED
      BY <1>1, <2>1, <2>2, HandsBack
  <1>6. CASE WorkerDies(w)
    BY <1>1, <1>2, <1>6, HandsBack DEF WorkerDies
  <1> QED
    BY <1>5, <1>6 DEF WorkerFaults, CallFails, ReplyLost

\* What leaves was not wanted any more, or done.
LEMMA OnlyFinishedLeaves ==
    ASSUME TypeOK, TriesAreFaults, [Next]_vars, faults' <= MaxRetries,
           NEW kind, NEW p, InFlight(kind, p)
    PROVE  InFlight(kind, p)' \/ \E w \in Workers : Dropped(w, kind, p) \/ Done(w, kind, p)
  BY Traffic, CalmKeeps, WorkStays, FaultStays

-----------------------------------------------------------------------------
\* Every try but the first answers a fault.

LEMMA CalmTries ==
    ASSUME TypeOK, TriesAreFaults, Calm, faults' \in Nat
    PROVE  TriesAreFaults'
  <1>1. ASSUME NEW m \in Messages, queue'[m] > 0 PROVE m.tries <= faults'
    <2>1. m.tries \in Nat /\ faults \in Nat /\ faults' >= faults
      BY SMT DEF Messages, TypeOK, Calm
    <2>2. m.tries <= faults \/ m.tries = 0
      BY <1>1 DEF Calm, TriesAreFaults
    <2> QED
      BY <2>1, <2>2, SMT
  <1>2. ASSUME NEW w \in Workers, job'[w] # NoJob PROVE job'[w].tries <= faults'
    <2>1. job'[w] = job[w]
      BY DEF Calm
    <2>2. job[w].tries \in Nat /\ job[w].tries <= faults /\ faults \in Nat /\ faults' >= faults
      BY <1>2, <2>1, JobFields, SMT DEF Jobs, TriesAreFaults, TypeOK, Calm
    <2> QED
      BY <2>1, <2>2, SMT
  <1> QED
    BY <1>1, <1>2 DEF TriesAreFaults

\* A worker's step that leaves or ends its task, or takes one from the queue.
LEMMA WorkTries ==
    ASSUME TypeOK, TriesAreFaults, NEW w \in Workers, Work(w)
    PROVE  TriesAreFaults' /\ faults' >= faults
  <1> USE DEF TriesAreFaults
  <1>0. faults \in Nat /\ faults >= faults /\ queue \in [Messages -> Nat]
    BY SMT DEF TypeOK
  <1>1. ASSUME NEW m \in Messages, TakeTask(w, m) PROVE TriesAreFaults' /\ faults' >= faults
    <2>1. \A n \in Messages : queue'[n] > 0 => queue[n] > 0
      BY <1>0, <1>1, SMT DEF TakeTask, Received
    <2>2. job'[w].tries = m.tries /\ \A v \in Workers \ {w} : job'[v] = job[v]
      BY <1>1 DEF TakeTask, TypeOK
    <2>3. UNCHANGED faults /\ queue[m] > 0
      BY <1>1 DEF TakeTask, Received
    <2> QED
      BY <1>0, <2>1, <2>2, <2>3
  <1>2. ASSUME NEW m \in Messages, SkipTask(w, m) PROVE TriesAreFaults' /\ faults' >= faults
    <2>1. \A n \in Messages : queue'[n] > 0 => queue[n] > 0
      BY <1>0, <1>2, SMT DEF SkipTask, Received
    <2> QED
      BY <1>0, <1>2, <2>1 DEF SkipTask
  <1>3. CASE CreateHold(w) \/ Capture(w) \/ (StoreHoldId(w) /\ ~ Finish(w))
    <2>1. job[w] # NoJob /\ job[w] \in Jobs
      BY <1>3, JobFields DEF CreateHold, Capture, StoreHoldId, Calling, Running
    <2>2. job'[w].tries = job[w].tries /\ \A v \in Workers \ {w} : job'[v] = job[v]
      BY <1>3, <2>1 DEF CreateHold, Capture, StoreHoldId, TypeOK, Jobs
    <2>3. UNCHANGED <<queue, faults>>
      BY <1>3 DEF CreateHold, Capture, StoreHoldId
    <2> QED
      BY <1>0, <2>1, <2>2, <2>3
  <1>4. ASSUME Finish(w), UNCHANGED <<queue, faults>> PROVE TriesAreFaults' /\ faults' >= faults
    BY <1>0, <1>4 DEF Finish, TypeOK
  <1>5. CASE ReleaseIfFailed(w)
    <2>1. PICK S : Enqueue({Task("release", p) : p \in S})
      BY <1>5 DEF ReleaseIfFailed
    <2> DEFINE msgs == {Task("release", p) : p \in S}
    <2>2. \A m \in msgs : m.tries = 0
      BY DEF Task
    <2>3. Enqueue(msgs)
      BY <2>1
    <2> HIDE DEF msgs
    <2>4. faults' >= faults
      BY <1>0, <2>3, FaultCounts, SMT DEF Enqueue
    <2>5. faults' \in Nat
      BY <2>3, EnqueueKeepsTypes, SMT
    <2>6. ASSUME NEW m \in Messages, queue'[m] > 0 PROVE m.tries <= faults'
      <3>1. queue[m] > 0 \/ m.tries = 0
        BY <1>0, <2>2, <2>3, <2>6, SentReaches DEF Enqueue
      <3>2. m.tries \in Nat
        BY SMT DEF Messages
      <3>3. m.tries <= faults \/ m.tries = 0
        BY <3>1
      <3> QED
        BY <1>0, <2>4, <2>5, <3>2, <3>3, SMT
    <2>7. ASSUME NEW v \in Workers, job'[v] # NoJob PROVE job'[v].tries <= faults'
      <3>1. job'[v] = job[v]
        BY <1>5, <2>7 DEF ReleaseIfFailed, Finish, TypeOK
      <3>2. job[v].tries \in Nat /\ job[v].tries <= faults
        BY <2>7, <3>1, JobFields, SMT DEF Jobs
      <3> QED
        BY <1>0, <2>4, <2>5, <3>1, <3>2, SMT
    <2> QED
      BY <2>4, <2>6, <2>7
  <1> QED
    BY <1>1, <1>2, <1>3, <1>4, <1>5 DEF Work, CaptureAndCredit, Release, StoreHoldId

LEMMA FaultTries ==
    ASSUME TypeOK, TriesAreFaults, NEW w \in Workers, WorkerFaults(w)
    PROVE  TriesAreFaults' /\ faults' >= faults
  <1>1. job[w] # NoJob /\ Finish(w)
    BY DEF WorkerFaults, CallFails, ReplyLost, WorkerDies, Running, Retry
  <1>2. \E f \in FaultKinds : Fault(f)
    BY DEF WorkerFaults, CallFails, ReplyLost, WorkerDies, FaultKinds
  <1>3. faults' = faults + 1 /\ faults \in Nat
    BY <1>2, FaultCounts
  <1>4. job[w].tries \in Nat /\ job[w].tries <= faults
    BY <1>1, JobFields, SMT DEF Jobs, TriesAreFaults
  <1>5. PICK tries \in {job[w].tries, job[w].tries + 1} :
          \/ queue' = Sent({MessageOf(job[w], tries)}, queue)
          \/ queue' = queue
    BY DEF WorkerFaults, CallFails, ReplyLost, WorkerDies, Retry
  <1>6. ASSUME NEW m \in Messages, queue'[m] > 0 PROVE m.tries <= faults'
    <2>1. queue \in [Messages -> Nat] /\ m.tries \in Nat
      BY SMT DEF TypeOK, Messages
    <2>2. queue[m] > 0 \/ m = MessageOf(job[w], tries)
      BY <1>5, <1>6, <2>1, SentReaches
    <2>3. CASE queue[m] > 0
      <3>1. m.tries <= faults
        BY <2>3 DEF TriesAreFaults
      <3> QED
        BY <1>3, <2>1, <3>1, SMT
    <2>4. CASE m = MessageOf(job[w], tries)
      <3>1. m.tries = tries
        BY <2>4 DEF MessageOf
      <3> QED
        BY <1>3, <1>4, <1>5, <3>1, SMT
    <2> QED
      BY <2>2, <2>3, <2>4
  <1>7. ASSUME NEW v \in Workers, job'[v] # NoJob PROVE job'[v].tries <= faults'
    <2>1. job'[v] = job[v]
      BY <1>1, <1>7 DEF Finish, TypeOK
    <2>2. job[v].tries \in Nat /\ job[v].tries <= faults
      BY <1>7, <2>1, JobFields, SMT DEF Jobs, TriesAreFaults
    <2> QED
      BY <1>3, <2>1, <2>2, SMT
  <1>8. faults' >= faults
    BY <1>3, SMT
  <1> QED
    BY <1>6, <1>7, <1>8 DEF TriesAreFaults

LEMMA TriesStep ==
    ASSUME TypeOK, TypeOK', TriesAreFaults, [Next]_vars
    PROVE  TriesAreFaults' /\ faults' >= faults
  <1>1. faults' \in Nat
    BY SMT DEF TypeOK
  <1>2. CASE Calm
    BY <1>1, <1>2, CalmTries DEF Calm
  <1> QED
    BY <1>2, Traffic, WorkTries, FaultTries

-----------------------------------------------------------------------------
\* Earned money is on its way to the tutor.

LEMMA HypothesisStays ==
    ASSUME TypeOK, TypeOK', faults' >= faults, WithinRetries'
    PROVE  WithinRetries /\ faults' <= MaxRetries /\ "lost_enqueue" \notin Faults
  BY SMT DEF TypeOK, WithinRetries

\* What reconcile_booking_payment leaves in flight for a payment it settles.
LEMMA ReconcileInFlight ==
    ASSUME TypeOK, "lost_enqueue" \notin Faults, NEW b \in Bookings, NEW refund,
           Reconcile(b, refund), NEW p \in LivePayments(b)
    PROVE  /\ pstatus'[p] \in {"failed", "refunded"} => InFlight("release", p)'
           /\ pstatus'[p] = "held" => InFlight("partial", p)'
  <1> DEFINE live == LivePayments(b)
             unconfirmed == {q \in live : pstatus[q] = "created"}
             freed == {q \in live \ unconfirmed : refund >= AmountOf(q)}
             kept == live \ (unconfirmed \cup freed)
             msgs == {Task("release", q) : q \in unconfirmed \cup freed}
                       \cup {Task("partial", q) : q \in kept}
  <1>1. /\ pstatus' = [q \in Payments |-> IF q \in unconfirmed THEN "failed"
                                          ELSE IF q \in freed THEN "refunded"
                                          ELSE pstatus[q]]
        /\ Enqueue(msgs)
    BY DEF Reconcile
  <1>2. p \in Payments /\ pstatus[p] \in LiveStatus
    BY DEF LivePayments
  <1>3. CASE p \in unconfirmed \cup freed
    <2>1. Task("release", p) \in msgs /\ "release" \in TaskKinds
      BY <1>3 DEF TaskKinds
    <2>2. InFlight("release", p)'
      BY <1>1, <1>2, <2>1, EnqueueSends
    <2>3. pstatus'[p] # "held"
      BY <1>1, <1>2, <1>3
    <2> QED
      BY <2>2, <2>3
  <1>4. CASE p \in kept
    <2>1. Task("partial", p) \in msgs /\ "partial" \in TaskKinds
      BY <1>4 DEF TaskKinds
    <2>2. InFlight("partial", p)'
      BY <1>1, <1>2, <2>1, EnqueueSends
    <2>3. pstatus'[p] = pstatus[p]
      BY <1>1, <1>2, <1>4
    <2> QED
      BY <1>2, <2>2, <2>3 DEF LiveStatus
  <1> QED
    BY <1>3, <1>4

LEMMA CancelInFlight ==
    ASSUME TypeOK, "lost_enqueue" \notin Faults, NEW b \in Bookings,
           CancelByStudent(b) \/ CancelByTutor(b) \/ ExpireBooking(b),
           NEW p \in LivePayments(b)
    PROVE  /\ pstatus'[p] \in {"failed", "refunded"} => InFlight("release", p)'
           /\ pstatus'[p] = "held" => InFlight("partial", p)'
  BY ReconcileInFlight DEF CancelByStudent, CancelByTutor, ExpireBooking

\* An earned hold's capture is never dropped, and only recording it ends it.
LEMMA EarnedStaysUnderway ==
    ASSUME IInv, TriesAreFaults, [Next]_vars, faults' <= MaxRetries,
           NEW p \in Payments, pstatus[p] = "held", Earned(p), pstatus'[p] = "held",
           InFlight(CaptureKind(p), p)
    PROVE  InFlight(CaptureKind(p), p)'
  <1>1. bstatus'[BookingOf[p]] = bstatus[BookingOf[p]]
    BY FinalStatus DEF Earned
  <1>2. PICK kind \in {"capture", "partial"} : kind = CaptureKind(p) /\ kind = CaptureKind(p)'
    BY <1>1 DEF CaptureKind
  <1>3. StillWanted(kind, p)
    BY <1>2 DEF StillWanted, CaptureKind, Earned, IInv, PaymentFacts, PaymentFact
  <1>4. ASSUME NEW w \in Workers, Dropped(w, kind, p) PROVE FALSE
    BY <1>3, <1>4 DEF Dropped, SkipTask
  <1>5. ASSUME NEW w \in Workers, Done(w, kind, p) PROVE FALSE
    <2>1. CASE CaptureAndCredit(w)
      BY <1>5, <2>1 DEF Done, CaptureAndCredit, Settle, IInv, TypeOK
    <2>2. CASE StoreHoldId(w) \/ ReleaseIfFailed(w)
      BY <1>5, <2>2 DEF Done, StoreHoldId, ReleaseIfFailed, Running, IInv, JobFacts, JobFact, TaskFact
    <2>3. CASE Release(w)
      BY <1>5, <2>3 DEF Done, Release, Calling
    <2> QED
      BY <1>5, <2>1, <2>2, <2>3 DEF Done
  <1>6. InFlight(kind, p)'
    BY <1>2, <1>4, <1>5, OnlyFinishedLeaves DEF IInv
  <1> QED
    BY <1>2, <1>6

\* A hold becomes earned by a completion or a late cancellation, and its capture
\* is enqueued there and then.
LEMMA EarnedGoesUnderway ==
    ASSUME IInv, [Next]_vars, "lost_enqueue" \notin Faults,
           NEW p \in Payments, pstatus'[p] = "held", Earned(p)', ~ (pstatus[p] = "held" /\ Earned(p))
    PROVE  InFlight(CaptureKind(p), p)'
  <1>1. ASSUME Quiet PROVE FALSE
    BY <1>1 DEF Quiet, Earned
  <1>2. ASSUME NEW b \in Bookings, InitiatePayment(b) PROVE FALSE
    BY <1>2 DEF InitiatePayment, IInv, TypeOK, Earned, bookingVars
  <1>3. ASSUME NEW b \in Bookings, CancelByStudent(b) \/ CancelByTutor(b) \/ ExpireBooking(b)
        PROVE  InFlight(CaptureKind(p), p)'
    <2>1. PICK s \in {"cancelled_by_student", "cancelled_by_tutor"} : Settled(b, s)
      BY <1>3, CancelSettles
    <2>2. BookingOf[p] = b
      BY <2>1 DEF Settled, Earned
    <2>3. pstatus[p] \in LiveStatus /\ p \in LivePayments(b)
      BY <2>1, <2>2 DEF Settled, LivePayments, LiveStatus
    <2>4. CaptureKind(p)' = "partial"
      BY <2>1, <2>2 DEF Settled, CaptureKind
    <2>5. InFlight("partial", p)'
      BY <1>3, <2>3, CancelInFlight DEF IInv
    <2> QED
      BY <2>4, <2>5
  <1>4. ASSUME NEW b \in Bookings, MarkNoShow(b) PROVE FALSE
    BY <1>4 DEF MarkNoShow, paymentVars, IInv, TypeOK, Earned
  <1>5. ASSUME NEW b \in Bookings, CompleteBooking(b) PROVE InFlight(CaptureKind(p), p)'
    <2>1. BookingOf[p] = b /\ pstatus[p] = "held" /\ bstatus'[b] = "completed"
      BY <1>5 DEF CompleteBooking, paymentVars, IInv, TypeOK, Earned
    <2> DEFINE held == {q \in LivePayments(b) : pstatus[q] = "held"}
    <2>2. held = {p}
      BY <2>1 DEF LivePayments, LiveStatus, IInv, OnePerBooking
    <2>3. PICK first \in FirstOf(held) : Enqueue({Task("capture", q) : q \in first})
      BY <1>5 DEF CompleteBooking
    <2>4. first = {p}
      BY <2>2, <2>3 DEF FirstOf
    <2>5. Task("capture", p) \in {Task("capture", q) : q \in first} /\ "capture" \in TaskKinds
      BY <2>4 DEF TaskKinds
    <2>6. InFlight("capture", p)'
      BY <2>3, <2>5, EnqueueSends DEF IInv
    <2>7. CaptureKind(p)' = "capture"
      BY <2>1 DEF CaptureKind
    <2> QED
      BY <2>6, <2>7
  <1>6. ASSUME NEW e \in Events, ConfirmHold(e) \/ FailAndRelease(e) \/ HoldFailed(e) PROVE FALSE
    <2>1. e.pay \in Payments /\ BookingOf[e.pay] \in Bookings
      BY DEF Events
    <2> QED
      BY <1>6, <2>1
      DEF ConfirmHold, FailAndRelease, HoldFailed, LiveStatus, IInv, TypeOK, Earned, bookingVars
  <1>7. ASSUME NEW w \in Workers, CaptureAndCredit(w) PROVE FALSE
    BY <1>7, JobFields DEF CaptureAndCredit, Running, Settle, IInv, TypeOK, Earned, bookingVars
  <1> QED
    BY <1>1, <1>2, <1>3, <1>4, <1>5, <1>6, <1>7, Movers DEF MovesBooking

LEMMA EarnedStep ==
    ASSUME UnderwayInv, IInv', [Next]_vars
    PROVE  EarnedIsUnderway'
  <1> SUFFICES ASSUME WithinRetries', NEW p \in Payments, pstatus'[p] = "held", Earned(p)'
               PROVE  InFlight(CaptureKind(p), p)'
    BY DEF EarnedIsUnderway
  <1>1. WithinRetries /\ faults' <= MaxRetries /\ "lost_enqueue" \notin Faults
    BY TriesStep, HypothesisStays DEF UnderwayInv, IInv
  <1>2. CASE pstatus[p] = "held" /\ Earned(p)
    BY <1>1, <1>2, EarnedStaysUnderway DEF UnderwayInv, EarnedIsUnderway
  <1>3. CASE ~ (pstatus[p] = "held" /\ Earned(p))
    BY <1>1, <1>3, EarnedGoesUnderway DEF UnderwayInv
  <1> QED
    BY <1>2, <1>3

-----------------------------------------------------------------------------
\* The student's money is on its way back.

\* What only grows, and who makes it grow.
Still == /\ UNCHANGED <<known, hold>> /\ voided \subseteq voided'
         /\ \A e \in Events : event[e] = "recorded" => event'[e] = "recorded"

LEMMA Grows ==
    ASSUME TypeOK, [Next]_vars
    PROVE  /\ known \subseteq known' /\ voided \subseteq voided'
           /\ \A e \in Events : event[e] = "recorded" => event'[e] = "recorded"
           /\ \A p \in known' \ known : \E w \in Workers : StoreHoldId(w) /\ job[w].pay = p
           /\ \A p \in Payments : hold[p] = "none" /\ hold'[p] # "none" =>
                 \E w \in Workers : job[w].pay = p /\ (CreateHold(w) \/ ReplyLost(w))
  <1> USE DEF Still, paymentVars, pspVars
  <1>1. ASSUME NEW b \in Bookings, Requests(b) \/ Clock(b) PROVE Still
    BY <1>1 DEF Requests, Clock, InitiatePayment, CancelByStudent, CancelByTutor, Reconcile,
                MarkNoShow, BecomeStale, PassPhase
  <1>2. ASSUME Sweeps \/ SweepDies PROVE Still
    BY <1>2 DEF Sweeps, ScanPending, ScanFinished, ExpireBooking, Reconcile, SkipExpired,
                CompleteBooking, SkipCompleted, SweepDies
  <1>3. ASSUME NEW p \in Payments, PayerAuthorizes(p)
        PROVE  /\ UNCHANGED <<known, voided, event>>
               /\ \A q \in Payments : hold[q] = "none" => hold'[q] = "none"
    BY <1>3 DEF PayerAuthorizes, TypeOK
  <1>4. ASSUME NEW e \in Events, Notify(e) \/ Redeliver(e) \/ HandleEvent(e) \/ HandlerDies(e)
        PROVE  Still
    BY <1>4 DEF TypeOK, Notify, Redeliver, HandlerDies, HandleEvent, UnknownHold,
                HoldAlreadyApplied, ConfirmHold, HoldNotConfirmable, FailAndRelease, HoldFailed,
                EchoRecorded, Answer, Delivered
  <1>5. ASSUME NEW w \in Workers, Work(w), ~ CreateHold(w), ~ StoreHoldId(w) PROVE Still
    BY <1>5 DEF Work, TakeTask, SkipTask, ReleaseIfFailed, Capture, PSPCapture,
                CaptureAndCredit, Settle, Release, PSPRelease
  <1>6. ASSUME NEW w \in Workers, StoreHoldId(w)
        PROVE  /\ UNCHANGED <<hold, voided, event>> /\ known \subseteq known'
               /\ \A p \in known' \ known : p = job[w].pay
    BY <1>6 DEF StoreHoldId
  <1>7. ASSUME NEW w \in Workers, CreateHold(w)
        PROVE  /\ UNCHANGED <<known, voided, event>>
               /\ \A p \in Payments : hold[p] = "none" /\ hold'[p] # "none" => p = job[w].pay
    BY <1>7 DEF CreateHold, PSPCreateHold, TypeOK
  <1>8. ASSUME NEW w \in Workers, WorkerFaults(w), ~ ReplyLost(w) PROVE Still
    BY <1>8 DEF WorkerFaults, CallFails, WorkerDies, Retry
  <1>9. ASSUME NEW w \in Workers, ReplyLost(w)
        PROVE  /\ UNCHANGED <<known, event>> /\ voided \subseteq voided'
               /\ \A p \in Payments : hold[p] = "none" /\ hold'[p] # "none" => p = job[w].pay
    BY <1>9 DEF ReplyLost, Retry, PSPCreateHold, PSPCapture, PSPRelease, TypeOK
  <1>10. ASSUME NEW m \in Messages, Duplicate(m) PROVE Still
    BY <1>10 DEF Duplicate
  <1>11. ASSUME NEW t \in Tutors, LoadProfile(t) \/ SaveProfile(t) PROVE Still
    BY <1>11 DEF LoadProfile, SaveProfile
  <1>12. ASSUME UNCHANGED vars PROVE Still
    BY <1>12 DEF vars
  <1> HIDE DEF Still
  <1>13. \/ Still
         \/ \E p \in Payments : PayerAuthorizes(p)
         \/ \E w \in Workers : StoreHoldId(w) \/ CreateHold(w) \/ ReplyLost(w)
    BY <1>1, <1>2, <1>4, <1>5, <1>8, <1>10, <1>11, <1>12 DEF Next
  <1>14. CASE Still
    BY <1>14 DEF Still
  <1>15. CASE \E p \in Payments : PayerAuthorizes(p)
    BY <1>3, <1>15
  <1>16. CASE \E w \in Workers : StoreHoldId(w) \/ CreateHold(w) \/ ReplyLost(w)
    BY <1>6, <1>7, <1>9, <1>16
  <1> QED
    BY <1>13, <1>14, <1>15, <1>16

\* Without crashes the worker that opened a hold goes through with it.
LEMMA OpeningStays ==
    ASSUME TypeOK, [Next]_vars, "crash" \notin Faults, NEW p, NEW pc \in {"store", "check"},
           OpeningHold(p, pc)
    PROVE  \/ OpeningHold(p, pc)'
           \/ \E w \in Workers : /\ Running(w, pc) /\ job[w].pay = p
                                 /\ StoreHoldId(w) \/ ReleaseIfFailed(w)
  <1>1. PICK w \in Workers : Running(w, pc) /\ job[w].pay = p
    BY DEF OpeningHold
  <1>2. job'[w] = job[w] => OpeningHold(p, pc)'
    BY <1>1 DEF OpeningHold, Running
  <1>3. CASE Calm
    BY <1>2, <1>3 DEF Calm
  <1>4. ASSUME NEW v \in Workers, v # w, Work(v) \/ WorkerFaults(v) PROVE job'[w] = job[w]
    BY <1>4
    DEF TypeOK, Work, TakeTask, SkipTask, CreateHold, StoreHoldId, ReleaseIfFailed, Capture,
        CaptureAndCredit, Release, WorkerFaults, CallFails, ReplyLost, WorkerDies, Retry, Finish
  <1>5. CASE Work(w)
    BY <1>1, <1>5
    DEF Work, TakeTask, SkipTask, CreateHold, Capture, CaptureAndCredit, Release, Calling, Running
  <1>6. ~ WorkerFaults(w)
    BY <1>1 DEF WorkerFaults, CallFails, ReplyLost, WorkerDies, Running, Fault
  <1> QED
    BY <1>2, <1>3, <1>4, <1>5, <1>6, Traffic

\* The release of a known dead hold is never dropped, and only the release ends it.
LEMMA ReleaseStaysUnderway ==
    ASSUME IInv, TriesAreFaults, [Next]_vars, faults' <= MaxRetries,
           NEW p \in known, pstatus[p] \in {"failed", "refunded"}, p \notin voided',
           InFlight("release", p)
    PROVE  InFlight("release", p)'
  <1>1. ASSUME NEW w \in Workers, Dropped(w, "release", p) PROVE FALSE
    BY <1>1 DEF Dropped, SkipTask, StillWanted
  <1>2. ASSUME NEW w \in Workers, Done(w, "release", p) PROVE FALSE
    <2>1. CASE Release(w)
      BY <1>2, <2>1 DEF Done, Release, PSPRelease
    <2>2. CASE StoreHoldId(w) \/ ReleaseIfFailed(w) \/ CaptureAndCredit(w)
      BY <1>2, <2>2
      DEF Done, StoreHoldId, ReleaseIfFailed, CaptureAndCredit, Running, IInv, JobFacts, JobFact,
          TaskFact
    <2> QED
      BY <1>2, <2>1, <2>2 DEF Done
  <1> QED
    BY <1>1, <1>2, OnlyFinishedLeaves DEF IInv

\* A dead payment stays as it is.
LEMMA FailedStays ==
    ASSUME IInv, [Next]_vars, NEW p \in Payments, pstatus[p] \in {"failed", "refunded"}
    PROVE  pstatus'[p] = pstatus[p]
  <1>1. CASE Quiet
    BY <1>1 DEF Quiet
  <1>2. ASSUME NEW b \in Bookings, InitiatePayment(b) \/ MarkNoShow(b) \/ CompleteBooking(b)
        PROVE  pstatus'[p] = pstatus[p]
    BY <1>2 DEF InitiatePayment, MarkNoShow, CompleteBooking, paymentVars, IInv, TypeOK
  <1>3. ASSUME NEW b \in Bookings, CancelByStudent(b) \/ CancelByTutor(b) \/ ExpireBooking(b)
        PROVE  pstatus'[p] = pstatus[p]
    BY <1>3, CancelSettles DEF Settled, LiveStatus
  <1>4. ASSUME NEW e \in Events, ConfirmHold(e) \/ FailAndRelease(e) \/ HoldFailed(e)
        PROVE  pstatus'[p] = pstatus[p]
    BY <1>4 DEF ConfirmHold, FailAndRelease, HoldFailed, LiveStatus, IInv, TypeOK
  <1>5. ASSUME NEW w \in Workers, CaptureAndCredit(w) PROVE pstatus'[p] = pstatus[p]
    BY <1>5 DEF CaptureAndCredit, Settle, IInv, TypeOK
  <1> QED
    BY <1>1, <1>2, <1>3, <1>4, <1>5, Movers DEF MovesBooking

\* A payment dies in a cancellation or by a webhook, and but for a hold_failed its
\* release is enqueued there and then.
LEMMA DeadGoesUnderway ==
    ASSUME IInv, [Next]_vars, "lost_enqueue" \notin Faults, NEW p \in Payments,
           pstatus[p] \notin {"failed", "refunded"}, pstatus'[p] \in {"failed", "refunded"}
    PROVE  InFlight("release", p)' \/ (pstatus'[p] = "failed" /\ Declined(p)')
  <1>1. ASSUME Quiet PROVE FALSE
    BY <1>1 DEF Quiet
  <1>2. ASSUME NEW b \in Bookings, InitiatePayment(b) \/ MarkNoShow(b) \/ CompleteBooking(b)
        PROVE  FALSE
    BY <1>2 DEF InitiatePayment, MarkNoShow, CompleteBooking, paymentVars, IInv, TypeOK
  <1>3. ASSUME NEW b \in Bookings, CancelByStudent(b) \/ CancelByTutor(b) \/ ExpireBooking(b)
        PROVE  InFlight("release", p)'
    <2>1. PICK s : Settled(b, s)
      BY <1>3, CancelSettles
    <2>2. p \in LivePayments(b)
      BY <2>1 DEF Settled, LivePayments
    <2> QED
      BY <1>3, <2>2, CancelInFlight DEF IInv
  <1>4. ASSUME NEW e \in Events, ConfirmHold(e) PROVE FALSE
    BY <1>4 DEF ConfirmHold, IInv, TypeOK
  <1>5. ASSUME NEW e \in Events, FailAndRelease(e) PROVE InFlight("release", p)'
    <2>1. e.pay = p /\ pstatus[p] \in LiveStatus
      BY <1>5 DEF FailAndRelease, IInv, TypeOK
    <2> DEFINE S == {e.pay} \cap {q \in Payments : pstatus[q] \in LiveStatus \cup {"failed"}}
    <2>2. Enqueue({Task("release", q) : q \in S})
      BY <1>5 DEF FailAndRelease
    <2>3. Task("release", p) \in {Task("release", q) : q \in S} /\ "release" \in TaskKinds
      BY <2>1 DEF TaskKinds
    <2> QED
      BY <2>2, <2>3, EnqueueSends DEF IInv
  <1>6. ASSUME NEW e \in Events, HoldFailed(e) PROVE pstatus'[p] = "failed" /\ Declined(p)'
    <2>1. e.pay = p /\ pstatus'[p] = "failed"
      BY <1>6 DEF HoldFailed, IInv, TypeOK
    <2>2. e.type = "hold_failed" /\ event'[e] = "recorded"
      BY <1>6 DEF HoldFailed, Delivered, Answer, IInv, TypeOK
    <2> QED
      BY <2>1, <2>2 DEF Declined
  <1>7. ASSUME NEW w \in Workers, CaptureAndCredit(w) PROVE FALSE
    BY <1>7 DEF CaptureAndCredit, Settle, IInv, TypeOK
  <1> QED
    BY <1>1, <1>2, <1>3, <1>4, <1>5, <1>6, <1>7, Movers DEF MovesBooking

LEMMA DeadHoldStep ==
    ASSUME UnderwayInv, IInv', [Next]_vars
    PROVE  DeadHoldIsUnderway'
  <1> SUFFICES ASSUME WithinRetries', NEW p \in Payments
               PROVE  /\ pstatus'[p] = "refunded" /\ p \notin voided' => InFlight("release", p)'
                      /\ /\ pstatus'[p] = "failed" /\ p \in known' \ voided' /\ ~ Declined(p)'
                         /\ "crash" \notin Faults
                         => InFlight("release", p)' \/ OpeningHold(p, "check")'
                      /\ /\ p \notin known' /\ hold'[p] # "none"
                         /\ Faults \cap {"crash", "lost_reply"} = {}
                         => OpeningHold(p, "store")'
    BY DEF DeadHoldIsUnderway
  <1>1. WithinRetries /\ faults' <= MaxRetries /\ "lost_enqueue" \notin Faults
    BY TriesStep, HypothesisStays DEF UnderwayInv, IInv
  <1>2. IInv /\ TypeOK /\ TriesAreFaults /\ DeadHoldIsUnderway
    BY DEF UnderwayInv, IInv
  <1>3. known \subseteq known' /\ voided \subseteq voided' /\ (Declined(p) => Declined(p)')
    BY <1>2, Grows DEF Declined
  <1>4. ASSUME pstatus'[p] = "refunded", p \notin voided' PROVE InFlight("release", p)'
    <2>1. CASE pstatus[p] = "refunded"
      <3>1. p \in known /\ p \notin voided
        BY <1>2, <1>3, <1>4, <2>1 DEF IInv, PaymentFacts, PaymentFact
      <3>2. InFlight("release", p)
        BY <1>1, <1>2, <2>1, <3>1 DEF DeadHoldIsUnderway
      <3> QED
        BY <1>1, <1>2, <1>4, <2>1, <3>1, <3>2, ReleaseStaysUnderway
    <2>2. pstatus[p] # "failed"
      BY <1>2, <1>4, FailedStays
    <2>3. CASE pstatus[p] # "refunded"
      BY <1>1, <1>2, <1>4, <2>2, <2>3, DeadGoesUnderway
    <2> QED
      BY <2>1, <2>3
  <1>5. ASSUME pstatus'[p] = "failed", p \in known' \ voided', ~ Declined(p)', "crash" \notin Faults
        PROVE  InFlight("release", p)' \/ OpeningHold(p, "check")'
    <2>1. CASE pstatus[p] = "failed" /\ p \in known
      <3>1. InFlight("release", p) \/ OpeningHold(p, "check")
        BY <1>1, <1>2, <1>3, <1>5, <2>1 DEF DeadHoldIsUnderway
      <3>2. ASSUME InFlight("release", p) PROVE InFlight("release", p)'
        BY <1>1, <1>2, <1>5, <2>1, <3>2, ReleaseStaysUnderway
      <3>3. ASSUME NEW w \in Workers, Running(w, "check"), job[w].pay = p, ReleaseIfFailed(w)
            PROVE  InFlight("release", p)'
        <4> DEFINE S == {q \in {job[w].pay} : pstatus[q] = "failed"}
        <4>1. Enqueue({Task("release", q) : q \in S})
          BY <3>3 DEF ReleaseIfFailed
        <4>2. Task("release", p) \in {Task("release", q) : q \in S} /\ "release" \in TaskKinds
          BY <2>1, <3>3 DEF TaskKinds
        <4> QED
          BY <1>1, <1>2, <4>1, <4>2, EnqueueSends
      <3>4. ASSUME NEW w \in Workers, Running(w, "check"), StoreHoldId(w) PROVE FALSE
        BY <3>4 DEF StoreHoldId, Running
      <3> QED
        BY <1>2, <1>5, <3>1, <3>2, <3>3, <3>4, OpeningStays
    <2>2. CASE p \notin known
      <3>1. PICK w \in Workers : StoreHoldId(w) /\ job[w].pay = p
        BY <1>2, <1>5, <2>2, Grows
      <3>2. job[w] # NoJob /\ job[w] \in Jobs
        BY <1>2, <3>1, JobFields DEF StoreHoldId, Running
      <3>3. job' = [job EXCEPT ![w].pc = "check"]
        BY <2>2, <3>1 DEF StoreHoldId
      <3>4. job'[w] \in Jobs /\ job'[w].pc = "check" /\ job'[w].pay = p
        BY <1>2, <3>1, <3>2, <3>3 DEF TypeOK, Jobs
      <3> QED
        BY <3>4, NoJobAssumption DEF OpeningHold, Running
    <2>3. CASE pstatus[p] # "failed"
      <3>1. pstatus[p] # "refunded"
        BY <1>2, <1>5, FailedStays
      <3> QED
        BY <1>1, <1>2, <1>5, <2>3, <3>1, DeadGoesUnderway
    <2> QED
      BY <2>1, <2>2, <2>3
  <1>6. ASSUME p \notin known', hold'[p] # "none", Faults \cap {"crash", "lost_reply"} = {}
        PROVE  OpeningHold(p, "store")'
    <2>1. CASE hold[p] # "none"
      <3>1. OpeningHold(p, "store")
        BY <1>1, <1>2, <1>3, <1>6, <2>1 DEF DeadHoldIsUnderway
      <3>2. ASSUME NEW w \in Workers, Running(w, "store"), job[w].pay = p,
                   StoreHoldId(w) \/ ReleaseIfFailed(w)
            PROVE  FALSE
        BY <1>6, <3>2 DEF StoreHoldId, ReleaseIfFailed, Running
      <3> QED
        BY <1>2, <1>6, <3>1, <3>2, OpeningStays
    <2>2. CASE hold[p] = "none"
      <3>1. PICK w \in Workers : CreateHold(w) /\ job[w].pay = p
        BY <1>2, <1>6, <2>2, Grows DEF ReplyLost, Fault
      <3>2. job[w] # NoJob /\ job[w] \in Jobs
        BY <1>2, <3>1, JobFields DEF CreateHold, Calling, Running
      <3>3. job'[w] \in Jobs /\ job'[w].pc = "store" /\ job'[w].pay = p
        BY <1>2, <3>1, <3>2 DEF CreateHold, TypeOK, Jobs
      <3> QED
        BY <3>3, NoJobAssumption DEF OpeningHold, Running
    <2> QED
      BY <2>1, <2>2
  <1> QED
    BY <1>4, <1>5, <1>6

-----------------------------------------------------------------------------
\* UnderwayInv is inductive.

THEOREM InitUnderway == Init => UnderwayInv
  <1> SUFFICES ASSUME Init PROVE UnderwayInv
    OBVIOUS
  <1>1. IInv
    BY InitInv
  <1>2. TriesAreFaults
    BY SMT DEF Init, TriesAreFaults
  <1>3. EarnedIsUnderway
    BY DEF Init, EarnedIsUnderway
  <1>4. DeadHoldIsUnderway
    BY DEF Init, DeadHoldIsUnderway
  <1> QED
    BY <1>1, <1>2, <1>3, <1>4 DEF UnderwayInv

THEOREM StepUnderway == UnderwayInv /\ [Next]_vars => UnderwayInv'
  <1> SUFFICES ASSUME UnderwayInv, [Next]_vars PROVE UnderwayInv'
    OBVIOUS
  <1>1. IInv'
    BY StepInv DEF UnderwayInv
  <1>2. TriesAreFaults'
    BY <1>1, TriesStep DEF UnderwayInv, IInv
  <1>3. EarnedIsUnderway' /\ DeadHoldIsUnderway'
    BY <1>1, EarnedStep, DeadHoldStep
  <1> QED
    BY <1>1, <1>2, <1>3 DEF UnderwayInv

\* The work in flight at every reachable state, whatever the sizes and however
\* many faults: IInv, the bound on the tries, and the two promises below.
THEOREM UnderwayInductive == Spec => []UnderwayInv
  <1> QED
    BY InitUnderway, StepUnderway, PTL DEF Spec

\* As long as every enqueued message reaches the broker and the faults so far do
\* not exceed the retries of a task, an earned hold has its capture in the broker
\* or in a worker's hands (tasks.py:17, base.py:158-159, services.py:368-371).
THEOREM EarnedIsUnderwayHolds == Spec => []EarnedIsUnderway
  <1>1. UnderwayInv => EarnedIsUnderway
    BY DEF UnderwayInv
  <1> QED
    BY <1>1, UnderwayInductive, PTL

\* Under the same hypothesis a known hold behind a refunded payment has its release
\* under way; without worker crashes so has one behind a payment that failed, other
\* than by hold_failed, or a worker is about to look whether it must; and without
\* crashes and lost replies a hold whose id is not stored is with the worker that
\* opened it (services.py:119-122, 141-151, 497-503).
THEOREM DeadHoldIsUnderwayHolds == Spec => []DeadHoldIsUnderway
  <1>1. UnderwayInv => DeadHoldIsUnderway
    BY DEF UnderwayInv
  <1> QED
    BY <1>1, UnderwayInductive, PTL
=============================================================================
