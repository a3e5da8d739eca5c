# Tetradka: specification of bookings and their money

Tetradka is a Django backend for a tutoring marketplace: a student books a
tutor's slot, pays by a *hold* (an authorization at a payment provider, the
PSP), the lesson is given, the hold is captured, and the tutor's balance is
credited with the amount less a commission. This directory holds TLA+ modules
for the part of the backend that has a protocol, TLC configurations that check
them, and proofs that TLAPS checks. Paths are relative to `src/`; `services.py`
without a directory is `apps/payments/services.py`.

## 1. The system

| Component | State | Operations | Works with |
|---|---|---|---|
| Payment lifecycle (`services.py`, `payments/models.py`) | a `Payment` row: status, provider id, retained, captured, commission | `initiate_payment`, `confirm_hold`, `reconcile_booking_payment`, `capture_booking_payment`, `capture_and_credit`, `request_hold/capture/partial_capture/release` | booking rows (read or locked in its transactions), tasks (published after commit), the PSP |
| Payment webhooks (`services.py:439-526`, `payments/views.py`) | the inbox of recorded event ids | `handle_webhook_event` and a handler per type | called by the PSP, at least once, in any order |
| Payment tasks (`payments/tasks.py`, Celery settings) | messages in the broker, running tasks | four tasks; retry on provider errors, acknowledged after the run | the PSP, then a database write |
| PSP (`payments/providers/`) | holds, captures, releases | `create_hold`, `capture`, `release`, keyed for idempotency | external; only its interface and a mock are here |
| Commission and refunds (`services.py:40-57`, `bookings/services.py:251-266`) | none | `calc_commission`, `_refund_amount` | used by capture and cancellation |
| Booking status machine (`bookings/models.py`, `bookings/services.py`) | a `Booking` row | `cancel_booking`, `transition_to` | settles the payment in the same transaction |
| Sweeps (`bookings/services.py:306-391`) | the ids scanned, while the loop runs | `expire_pending_bookings`, `complete_confirmed_bookings` | beat starts them every minute, every five minutes |
| Booking creation (`bookings/services.py:192-248`) | the booking rows of a tutor | `create_booking` | locks the tutor's row; reads availability |
| Availability edits (`bookings/views.py:124-165`, serializers) | rule and exception rows | create, update, delete | create and update lock the tutor's row |
| Free slots (`bookings/services.py:51-189`) | none: rules, exceptions, bookings and the tutor's timezone are read | `_local_to_utc`, `expand_availability`, `free_slots`, `_covers` | read by the catalog and by `create_booking` |
| Tutor profile (`catalog/`) | hourly rate, balance, texts | `PATCH /tutor/profile` | the same row that captures credit |
| Catalog, users, audit logs, admin, configuration | | reads, CRUD of one row, logs | no protocol between actors |
| Lessons, reviews, payouts, recording, notifications | tables | none: no code writes them | |

What is hard in it:

* **Interleaving.** Every task reads its payment *without* a lock, calls the PSP
  and then writes; between the three anything else may happen. Sweeps scan
  without locks and act later. A webhook that cannot be applied rolls back to a
  savepoint, which frees a lock, before it takes the next one.
* **Unreliable delivery.** The PSP redelivers webhooks and sends them in any
  order; the broker delivers a message twice, or, if the process dies between
  the commit and the publication, never.
* **Crashes and lost answers.** A worker may die, or lose the PSP's answer, after
  the PSP did what it was asked.
* **Two records of one truth.** Booking and payment change together, payment and
  PSP do not; money must be counted the same way on all three sides.
* **Wall clocks.** A rule says 10:00 in the tutor's timezone, a booking says an
  instant. Where the offset changes, a window shrinks, grows, vanishes or is
  split by times that come twice; two algorithms (the offer and the test of a
  booking) must read it alike.
* **One row, several writers.** Slot checks, rates and balance all rest on the
  lock of the tutor's row, and not every writer takes it. The timezone that gives
  the slots their hours is in another row, which nothing locks.

What makes it correct is stated per module below; `PROJECT.json` lists each
hazard at its line with the properties that cover it.

## 2. Modules

| Module | What it is | Code |
|---|---|---|
| `Money` | the arithmetic in kopecks, rounding half up | `calc_commission`, `_refund_amount` |
| `Settlement` | bookings, payments, tasks, webhooks, sweeps, PSP, clock and faults | `services.py`, `bookings/services.py`, `*/models.py`, `*/tasks.py` |
| `SettlementProperties` | its properties and its inductive invariant `IInv` | |
| `Escrow` | the abstract promise: a payment's money is open, secured, owed, paid or returned, and a tutor is credited what was paid | |
| `SettlementEscrow` | the refinement mapping from `Settlement` to `Escrow` | |
| `TutorCalendar` | one tutor's bookings, availability and rate under the row lock, and the timezone, which it does not guard, with its properties and its inductive invariant `CalendarInv` | `bookings/services.py`, `bookings/views.py`, `bookings/serializers.py`, `catalog/`, `users/views.py` |
| `Diary` | the abstract promise: lessons and windows written down in one step each, apart from the others that are there | |
| `FreeSlots` | rules and exceptions of several dates in a wall clock, bookings in UTC, and the algorithms that turn the one into free intervals of the other, with its properties | `bookings/services.py:51-189`, `bookings/views.py`, `bookings/serializers.py`, `catalog/views.py`, `users/` |
| `RowLocks` | whom the transactions wait for: the rows each one locks, in which order, until when | `services.py`, `payments/tasks.py`, `bookings/services.py`, `bookings/views.py`, `bookings/serializers.py`, `catalog/` |
| `MCSettlement`, `MCCalendar`, `MCFreeSlots`, `MCRowLocks` | constants of the instances | |
| `SettlementTypes`, `SettlementProofs`, `EscrowProofs`, `ProgressProofs`, `CalendarProofs`, `WallClockProofs`, `FreeSlotsProofs`, `RowLocksProofs` | theorems and proofs | |

### Settlement

One action is one database transaction, one PSP call, or one unlocked read or
update: everything the code does between two points at which it holds no row
lock. What a transaction enqueues with `on_commit` is put in `queue` by the same
action (`Enqueue`), except that under the fault `lost_enqueue` it is not.

* *Requests.* `InitiatePayment`, `CancelByStudent`, `CancelByTutor` (through
  `Reconcile`, the whole of `reconcile_booking_payment`) and `MarkNoShow`, an
  edge of the status machine that the code has no function for: the admin form
  takes it. `NoShows` says which bookings may.
* *Time.* `phase` is what the code compares `now` with: more than 24 hours ahead
  ("far"), less ("near"), or past the end and the grace ("over"). `stale` is the
  15-minute payment timeout. A lesson is booked two hours ahead, so a booking
  is stale before its lesson is over. A late-cancellation percentage is chosen
  from `Percents` at each cancellation.
* *Sweeps.* A scan adds ids to `expireIds` or `completeIds`; each booking is then
  taken in a step of its own, which looks at the status again.
  Reading the scan twice is harmless, so a set of ids stands for a sweep's list.
* *Webhooks.* `event` says of each event whether the PSP sent it and how it was
  answered. An event whose hold id nobody knows is answered and *not* recorded
  ("ignored"). `HoldNotConfirmable` and `FailAndRelease` are two steps, because
  the savepoint is rolled back between them.
* *Tasks.* `TakeTask` is the unlocked read with the early returns (`StillWanted`);
  the call is the next step, and `StoreHoldId`, `ReleaseIfFailed` and
  `CaptureAndCredit` the writes after it. Retries are messages with a count.
* *PSP.* `hold`, `voided`, `charged`, `taken`. A repeated call with the same key
  is the same call, as the interface promises (`providers/base.py:18-22`); the
  mock provider does not deduplicate, and is not what is modelled. The PSP does
  not refuse a capture after a release, or the reverse: that neither is asked for
  is a property (`NeverCapturedAndReleased`), not an assumption.
* *Profile form.* `PATCH /tutor/profile` loads the tutor's row without a lock
  (`LoadProfile`) and later saves every column of it, the balance included
  (`SaveProfile`). `balance` is that column; `credited` is a history variable, the sum of
  what the captures credited. `forms` are the forms that have loaded a row. One that
  was saved stays in the set, for any number of tabs may have loaded the same row.
  `FormUsers` are the tutors who edit their profile in a run.
* *Faults.* `Faults` names the kinds a run allows and `MaxFaults` how many.

`Escrow` knows four steps: secure, return, owe, pay. The mapping reads where the
money is off the statuses of payment and booking; what the PSP, the queue and
the events hold is forgotten. That every step of `Settlement` is a step of it
says: one payment per booking is funded, money goes back whole or becomes owed,
owed money never goes back, and it is paid once, at the payout of what is due. The
escrow counts credits. The column `balance` is no part of it, for a save of the
profile form puts an older balance back.

### TutorCalendar

`create_booking` is taken statement by statement: lock, read the timezone, read the
rules, read the exception, look for overlaps, insert. PostgreSQL lets every statement
see what others committed before it, so only what needs the lock is kept out
meanwhile: other bookings, creations and changes of rules, and any write of the
tutor's row. Deletions, cancellations and a change of the timezone (`PATCH /me`, which
writes the row of the user) come in between. The points of time lie
in one date in every zone, hence one exception row, `Override`, and one weekday; a
zone is the number of points its clock is ahead. Several dates, and zones whose
offset changes, are the subject of `FreeSlots`. The rates include 0, at which a
profile is hidden.

`create_booking` tests the slot against the rows as it read them, each kind in a
statement of its own, so a request carries `zone` and `seen`, what it has read, and
the test is an operator of them (`Effective`, `Covers`). What was seen may be
gone at the insert: neither deletions nor a change of the timezone take the lock.
`AcceptedIsOffered` says how much that can matter. When a request is about to insert,
every window it counts on is still there or has been *deleted* since, and the tutor's
clock is the one it read or was *moved* since; no window was changed, and no exception
it did not see has appeared, because creating and changing a row takes the lock.

`Diary` knows no requests, locks or stale reads: a lesson is booked in one step, apart
from all others and at the present rate; a window is written down next to the
others, touching none; entries are crossed out. The mapping forgets `lock`, `zone` and
`request`. That every step of `TutorCalendar` is a step of it says what the lock is
for. That a lesson lies within the tutor's hours is no part of it: a deletion or a
new timezone can overtake a request, so the code does not promise it, and
`AcceptedIsOffered` says what it does promise.

A price is the rate times a length in hours. The code takes the length in whole
seconds, without its microseconds, divides by 3600 with 28
decimal digits, and multiplies and rounds half up after that
(`bookings/services.py:236-240`). Lengths are counted in ticks, `PointLength` of them
between two points and `TicksPerSecond` to a second; `Seconds` drops the rest, so the
last part of a second is free, and a slot of less than a second costs nothing. `HalfUp`
is the set of prices that the division may give: the
nearest kopeck; half-way between two the upper one, or, where the repeating digits
of the length were rounded down, the lower one as well. Two minutes at 2.25 an
hour are exactly 0.075; 0.0333... times 2.25 is just below, and 0.07 is charged.
`Close`, and `Rounded` in the diary, bound a price against the exact length: half a
kopeck either way, and below it also the rate for what is dropped.

The exclusion constraint of
migration 0002 is left out on purpose: the code calls it the last line of
defence, and what is shown is that the lock alone suffices.
`Model.save` inserts a row that is gone, so `SaveEdit` may bring back a row
deleted between its check and its save; the model has that behaviour. The balance,
which the profile form saves with the rate, is in `Settlement`.

### FreeSlots

The rows are sets: `rules` (a weekday and a window of wall-clock times),
`exceptions` (a function from dates to none, a day off, or a window that
replaces the rules), `bookings` (pending and confirmed ones, as UTC intervals) and
the tutor's `timezone`. The actions are the requests that write them, each as one
step: creation, change and deletion of rules and exceptions, `PATCH /me` with a new
timezone, `create_booking`, and the end of a booking. How such requests interleave
is what `TutorCalendar` shows.

The read side is operators. `LocalToUtc` is `_local_to_utc` with its bisection
(`Transition`, which looks at the offset only, as the code does) for times that a
spring-forward skips; `FromLocal` is what `zoneinfo` gives for a wall-clock time
with `fold` 0 or 1. `Available` and `ExpandAvailability` are `expand_availability`
with its clipping and its sort; `CutOut`, `Remainder` and `Subtract` are the forward
pass of `free_slots`; `CoverStep` and `Covers` the loop of `_covers` with its two
ways out. Loops are functions over an index, so that they can be proved about.

They are checked against a definition that knows none of this: `Offered(u)` says
of a single instant whether the tutor's clock has by then reached a window of that
date. "Reached" (`Reached`) settles what happens in an hour that comes twice: the
code reads its times as the first pass, so a window that ends in that hour ends the
first time, and one that starts before it and ends after it goes on through the
second. The properties compare sets of instants, so an interval too short by one
point, or a hole between two, shows.

Abstractions: a timezone changes its offset once. A query spans at most 31 days, in
which a zone rarely changes more than once (Morocco around Ramadan is the case that
comes close); two changes in one query are not modelled. Points are instants at the grain at which
offsets and times are given. `ZonesAssumption` excludes a clock that falls back from past
midnight into the previous date, as St. John's did until 2011: there the window of
that date's evening comes a second time, which the code does not see, since it
goes through the dates from the first instant of the query to its last.
Left out are the lead time of a booking and the catalog's refusal of a hidden
profile: both only restrict which slots are asked for.

### RowLocks

`Settlement` takes a locked section as one step and `TutorCalendar` knows one lock
only. `RowLocks` shows that waiting for them ends. A transaction is the sequence of
rows it locks: `Begin` says where it starts, `LockEvent`, `LockBooking`, `LockPayment`
and `LockTutor` grant the lock it wants and name the next, with every early return
of the code as an early end. Locks are kept until the commit, or until a rollback,
which may come at any statement. The exception is `RollBackConfirm`: the savepoint
of `confirm_hold` gives up the locks on booking and payment and keeps the one on
the event's id, and `_fail_and_release` locks the payment afresh.
An insert of an event id waits for another transaction that inserts the same id, so
ids are rows as well. Django's foreign keys are deferred, so that an insert locks
what it refers to only at the commit; where that row is not locked already (an event
about a payment) the model locks it at the end. Deletions of
availability rows, `PATCH /me` and registration lock one row and wait for
nothing else while they hold it; they are left out.

## 3. Runs

| Run | Instance | Distinct states | Result |
|---|---|---|---|
| `retry` | 1 booking, 2 payments, 2 workers, both hold events, profile forms, no faults | 292 656 | holds |
| `faults` | 1 booking, 1 payment, 2 workers, 2 events of each type, profile forms, any 2 faults | 943 416 | holds |
| `settles` | 1 booking, 1 payment, fair, 1 fault that a retry absorbs | 56 396 | holds |
| `releases` | the same without declines, crashes and lost replies | 12 260 | holds |
| `slots` | 2 workers, 2 bookings, 2 rules, 1 exception, 2 timezones, 3 points of time 60.4 seconds apart, rates 0 and 2.25 | 1 755 452 | holds |
| `row_locks` | 3 sessions, 1 lesson, 2 payments, an event about each, fair | 79 566 | holds |
| `free_slots` | 3 timezones, 3 dates of 6 points, 2 weekdays, 2 rules, 2 exceptions, 2 bookings, 5 instants | 62 586 | holds |
| `lost_capture`, `orphaned_hold`, `early_webhook`, `missed_lesson`, `lost_balance` | the smallest instance | | violated (section 6) |

What each shows:

* `retry`: `NoDoublePayment`, `ConfirmedIsBacked`, `SweepsRecheck`, `EarnedIsKept`,
  `ImplementsEscrow` and the inductive invariant, when the student pays again
  after a decline while the tasks and webhooks of the first attempt are still
  on their way, the booking is cancelled, missed, timed out or completed.
* `faults`: `CoherentPair`, `ChargedWhatIsOwed`, `NeverCapturedAndReleased`,
  `CapturedIsTaken`, `CreditedOnCapture`, `EarnedIsKept`, `LedgerBalances` (what the
  tutor was credited and the platform kept is what the PSP took), `BalanceWithinCredits`
  (a profile form can lose a credit, as `lost_balance` shows, but no interleaving of
  forms and captures makes money) and the inductive
  invariant under any two of: a crash of a worker, a sweep or a handler, a
  provider error, a lost answer, a duplicated or lost message, a redelivery.
* `settles`, `releases`: `EveryBookingEnds`, `EarnedIsPaid`, `DeadHoldIsReleased`; and
  `EarnedIsUnderway`, `DeadHoldIsUnderway`, the safety half of the last two: while a
  hold is earned, its capture is queued, running or waiting for its retry; while an
  open hold is dead, its release is. `WithinRetries` is the
  hypothesis: no publication is lost, and no more faults have happened than a task
  has retries. `DeadHoldIsUnderway` excludes more. Of a failed payment it says nothing
  if a `hold_failed` webhook failed it or workers may die; of a hold whose id is not
  stored, nothing if workers may die or replies be lost.
* `slots`: `NoDoubleBooking`, `RulesDisjoint`, `AcceptedIsOffered`,
  `PricedAtCommittedRate`, `ImplementsDiary` and the inductive invariant for two
  concurrent requests of any kind, while the timezone changes.
  `PricedAtCommittedRate` says that a new booking costs what its length costs at the
  rate committed at that moment, to within half a kopeck and the part of a second
  that is dropped.
* `row_locks`: `NoDeadlock` (no set of transactions, each of which waits for a lock
  that one of the set holds), the inductive invariant, and `EveryTransactionEnds`,
  rolled-back savepoints included.
* `free_slots`: in every state, for every query: `AvailabilityIsExact` (rules and
  exceptions give exactly the instants the clock reaches, across a change of offset),
  `FreeIsExact` (of these, exactly those no booking takes, also where bookings were
  made under other rules or another timezone), `FreeIsOrdered`, and `OfferIsBookable`
  (a slot is accepted if and only if it is shown as free, also where it spans two
  windows that touch).

**Why the bounds are enough.** Two payments and two workers give every pair of
concurrent steps on one booking, which is what each property is about; the hazards
found in the code are races of two actors. Two faults are a crash and what
answers it (say a duplicate of the redelivered message). A price of 0.15 makes a
commission of exactly one and a half kopecks, and percentages 0, 50 and 100
make a penalty that is whole, rounded and none. `MaxRetries` is at most 1 instead of 5:
a second retry differs from the first by its number only. Three sessions let two transactions wait
for a third, or a third close a circle. How several lessons add up in the credits is
proved, for any number of them, and not model-checked. Three points of time
give windows that touch, overlap and contain each other, and a booking of 120.8
seconds whose price, for the 120 that count, is exactly half a kopeck (7.5). Two
timezones one point apart move a window onto, off and half across a slot.
In `free_slots` one timezone keeps its offset, one skips three of the six points of the second date and one repeats
two of them; with the three times of day a window can lie before the change,
start or end in the gap, vanish in it, span it, or end among the repeated points.
Two weekdays over three dates give a weekday that comes twice. Two bookings can
leave a hole between them, and with five instants they begin before, in and after
an interval. Only the widest query is refused, so that the refusal happens.
The safety properties are also proved for every value of these constants (section 5).

**Bounds in the guards.** `MaxEvents` events per payment and type, `MaxFaults`,
`MaxRetries`; in `FreeSlots` `MaxRules`, `MaxExceptions` and `MaxBookings` rows
(`MaxSlotsRange` is not a bound but the code's limit on a query). Rows of the other
modules are ids assigned in advance: `InitiatePayment` and `InsertBooking` need a
free one.

**Symmetry** (of workers, payments, bookings, rules) is used only in the runs
without liveness properties.

**Deadlock check.** The settlement runs switch the check off: bookings end, and a
system all of whose bookings have ended has nothing left to do. The calendar
runs, `free_slots` and `row_locks` keep it on. (TLC's check asks whether some
step is possible; `NoDeadlock` asks it of every set of transactions.)

**Fairness** (`FairSpec`). Weak fairness of the clock, of the sweeps (beat starts
them for as long as it runs), of each worker (it drains the queue, finishes or
retries), of the handling of webhooks and of the sending of `hold_succeeded`
(the PSP redelivers until it gets an answer, `payments/views.py:68-81`). Nothing is
assumed of users, of the payer, of declines, or of faults. In `RowLocks`: weak fairness
of a commit, strong fairness of a grant, because PostgreSQL queues those who wait for
a lock, so that a row that is freed again and again is not given to others for ever.
Nothing makes a transaction begin or fail.

`EarnedIsPaid` needs a fault that a retry absorbs: more provider errors than
retries, or a lost publication, break it (`lost_capture`). `DeadHoldIsReleased`
holds only without a crash between the provider call and its record
(`orphaned_hold`) and without declines: if an early `hold_succeeded` was ignored
and a `hold_failed` follows for a hold the payer then authorizes after all,
`_on_hold_failed` fails the payment and asks for no release.

## 4. Mutants

Each property of a passing run has a mutant in `PROJECT.json`: a definition,
placed just before the one it mutates and marked "Mutated form", that TLC refutes
under the run's own configuration. They are the mistakes the code guards
against: a sweep that trusts its scan, a success that revives a failed payment,
a penalty that does not count as a claim on the hold, a capture credited on an
error, a check made without the lock, a price computed from the rate read before
the lock, a skipped wall-clock time taken at its face value, a booking overlooked
because it began before the interval did, a slot looked for in one window only, a
rule changed without the lock, a message acknowledged before its task ran, a retry
too few, a capture that locks the lesson after the payment, a form whose balance is
added to the one that is there.

## 5. Proofs

Theorems hold for every set of bookings, payments, tutors, workers and events,
every price, policy, number of retries and kind and number of faults, every
length of day and week, set of timezones and set of instants that
satisfy the assumptions of the modules: foreign keys are total functions, prices
and payouts are natural numbers, percentages lie in 0..100, payments are finitely many,
no clock falls back into the date before, and the markers for
"none" (`NoJob`, `NoRow`, `Nobody`, ...) are not values of what they mark.

* `SettlementTypes`: `HalfUp` rounds to the nearest kopeck, halves up; commission and
  payout are natural numbers that add up to the amount (`CommissionSplits`); a
  late refund never exceeds the price (`LateRefundWithinPrice`). `TypeCorrect`, needed
  because a balance, a commission and a penalty are differences that must not go
  below zero.
* `SettlementProofs`: `Inductive` is `Spec => []IInv`, and from it
  `NoDoublePaymentHolds`, `CoherentPairHolds`, `ConfirmedIsBackedHolds`,
  `ChargedWhatIsOwedHolds`, `NeverCapturedAndReleasedHolds`, `CapturedIsTakenHolds`.
* `EscrowProofs`: `Implements`, each kind of step in a lemma that names the step of
  the escrow it is; `EarnedIsKeptHolds`, `CreditedOnCaptureHolds`,
  `SweepsRecheckHolds`; `BalanceWithinCreditsHolds`, for any number of forms;
  `LedgerBalancesHolds`, for any finite number of payments, with
  the facts about sums over finite sets that it rests on (`SumAdds`, `SumAgrees`).
* `ProgressProofs`: `UnderwayInductive`, and from it `EarnedIsUnderwayHolds` and
  `DeadHoldIsUnderwayHolds`.
* `CalendarProofs`: `CalendarHolds`, `CalendarTypeCorrect`, `NoDoubleBookingHolds`,
  `RulesDisjointHolds`, `AcceptedIsOfferedHolds`, `PricedAtCommittedRateHolds`, `ImplementsDiaryHolds`.
* `RowLocksProofs`: `RowLocksHold`, `NoDeadlockHolds`, for any number of sessions and rows.
* `WallClockProofs`: `ToUtcIsFirst` (a wall-clock time goes to the first instant by
  which the clock has reached it, the bisection included), `WindowAcrossChange`,
  `FreeSlotsTypeCorrect`, `AvailabilityIsExactHolds`.
* `FreeSlotsProofs`: `FreeIsExactHolds`, `FreeIsOrderedHolds`, `OfferIsBookableHolds`.

**Why `IInv` is needed.** None of the safety properties is inductive. That no
hold is captured and released rests on what a task read before its call still
being true when it calls, so `JobFacts` says, for each kind of task and each
point it may be at, what its payment and booking look like: a capture was read
for a completed booking and `completed` has no way out; a release was read for a
failed or refunded payment, and these have none either. `EventFacts` says the
same of a webhook between its two transactions: it is about to void a payment
only where the tutor has earned nothing. `PaymentFacts` ties the status of a
payment to its hold, and `OnePerBooking` keeps two payments from being
unfinished, or funded, together. `FailAndRelease` is where the argument is
thinnest: it fails whatever is live, so it must be known that no held payment
it finds is owed, also after the lock was let go in between.

**Why `UnderwayInv` is needed.** A task looks at its payment before it works and
returns early if it is not wanted (`StillWanted`), and the message is then
acknowledged: that is where wanted work could be dropped. `IInv` says what a payment
whose capture or release is still open looks like, and the early returns are false
of it. The other way to lose work is a retry too many. `TriesAreFaults` counts the
tries of a message, or of a running task, as faults that have happened, so within the
hypothesis a failed call always has a try left. A hold whose id is not stored yet is
the thin place: its release is asked for by the worker that opened it, after it
stored the id, and only if the payment has failed by then; `DeadHoldIsUnderway`
therefore names that worker as a carrier, and excludes the crashes that
`orphaned_hold` shows to matter. What is left to fairness, and to the liveness runs, is
that a queue is drained.

**Why `CalendarInv` is needed.** `NoDoubleBooking` follows at the insert from what
the overlap check found, which stays true because slots are only freed, not
taken, by anyone who does not hold the lock (`RequestFacts`). `RulesDisjoint` has
the same shape. `PricedAtCommittedRate` needs that the rate a request read under
the lock is still the committed one, since every writer of the row waits.
That it is close to the length as well as to the whole seconds is arithmetic
(`CloseToTicks`). `AcceptedIsOffered` needs that a request reads in three statements, and
that between them and the insert no row that was not seen, or was seen otherwise, can
appear; the timezone may move, and the property says so.
From the same facts every step is one of the diary's: the insert is its `Book`, the
saves are its `Offer` and `Except`, and all locking, reading and checking leave it as
it is. The one writer that asks for care is `SaveEdit`, which may insert a row again
that was deleted after it was read: that is an entry of the diary as well.

**Why nobody waits for ever.** `InOrder` says that a transaction holds only rows of
kinds before the kind of the row it wants: event, booking, payment, tutor.
`RollBackConfirm` goes back from the end to a payment, which keeps the order because
the savepoint gave up everything but the event. If every member of a set
waited for another member, one could go from each to a holder whose wanted row is of
a later kind; there are four kinds, so the fifth has nobody to wait for. The proof of
`NoDeadlockHolds` needs no induction for that reason, and no finite set of sessions.

**How the free slots are proved.** Two facts about rows are needed and proved as
invariants: rules of one weekday do not overlap, and the rows are finitely many.
Everything else is about the operators, for any such rows. That a time of the wall
clock goes to the first instant at which the clock has reached it turns a window
into exactly the instants whose reached time lies in it; windows that are apart
stay apart. The passes are functions over an index, and what they keep is shown
for all indices by the least one at which it would fail: the cursor of `Remainder`
never goes back, everything before it that no booking seen so far takes is in the
list, everything in the list is free, and since bookings come in order of their
start no later one reaches back. The bisection is treated in the same way, by the
width of its bracket. Sorting is a `CHOOSE`, so that a sorted list of a finite set
exists is proved first (`SortExists`). `OfferIsBookable` follows from what the
loop of `_covers` keeps: all of the slot up to `until` is available, and nothing
past it has been seen. Bookings need not be disjoint for any of this.

**How the ledger is proved.** A sum over the captured payments is a recursion over
subsets. That a table of such sums exists, that it is unique, and that an element
adds its value wherever the recursion begins, is shown for sets of every size by
the least size at which it would fail. `LedgerBalances` is then kept by every step
because what the PSP took for a recorded capture never changes (`TakenStays`, from
the idempotent call), and because a credit comes only with one capture. The
balance itself is not in that sum. `BalanceWithinCredits` carries its own
strengthening, that no form in a tab holds more than the credits either, and is then
kept by a capture, which adds the same to both sides, and by a save.

**Model-checked only.** The liveness properties `EveryBookingEnds`, `EarnedIsPaid`,
`DeadHoldIsReleased` and `EveryTransactionEnds`: fairness and `ENABLED` are out of the
prover's reach. Every safety property and both refinements that a passing run checks
are proved. Facts about sums, lists and loops, whose usual proof is an induction over
data, are proved by the least index or size at which they would fail.

## 6. Findings

* `lost_capture` (`services.py:310`). The capture of a completed lesson is asked
  for once, after the commit. If that publication is lost, nothing asks again:
  the booking has left the scan of every sweep. The comment at
  `bookings/services.py:363-365` promises that a completed booking always ends up
  captured.
* `orphaned_hold` (`services.py:128`). A worker dies after opening a hold; the
  booking is cancelled; the redelivered task returns early because the payment
  is failed. The hold's id is never stored, so it is never released.
* `early_webhook` (`services.py:461`). An authorization reported before the id of
  its hold is stored is answered 200 and dropped, so the "genuine later
  redelivery" that a comment counts on has no reason to come, and the
  "reconciliation job" that the comment names as the backstop (`services.py:453-455`) is
  not in the repository. No fault is needed.
* `missed_lesson` (`payments/models.py:39`). `no_show` is documented as a full
  release, and no code settles the payment of such a booking.
* `lost_balance` (`catalog/views.py:168`). The profile form loads the row without
  a lock and saves every column of it: a capture credited in between is lost. It is
  never the other way round (`BalanceWithinCredits`).

## 7. Not modelled

* One model of both what transactions do and whom they wait for. `Settlement` takes
  a locked section as one step; `RowLocks` has the locks and not the data. That the
  one step is what the locked statements amount to is argued, not checked: a row
  that a section bases a decision on is locked before it is read and kept until the
  commit, and a read without a lock is a step of its own. The payments that
  `initiate_payment` looks at are the exception: under the booking's lock no payment
  can be added to them, and one that fails meanwhile only makes the answer an older one.
* The lead time of a booking and its upper bound in the calendar: they restrict what
  is asked for, not what happens then.
* The exclusion constraint of bookings, see `TutorCalendar`.
* Writes that bypass the code: the admin forms can set any status and any balance.
* Dates in `TutorCalendar`: its points lie in one date in every zone, so that a change
  of the timezone does not move a slot to a date with other rules. `FreeSlots` has that,
  with requests as one step each.
* `capture_failed` and refund webhooks change nothing in the code; the settling of
  money after the PSP's answer is outside the model.
* Signatures, parsing, permissions and audit rows: pure checks and write-only data.
* Catalog listing, search and filters only read. A tutor's subjects, registration
  and the other fields of a profile are CRUD of rows that no other component
  of the core acts on; sessions and passwords are library code. Migrations repeat
  the models. Lessons, reviews, payouts, recording and notifications: tables that no
  code writes.

## 8. Plan

1. **Done.** `Money`, `Settlement`, `Escrow` with the refinement, `TutorCalendar`
   with the rounding of prices, `Diary` with the refinement, `FreeSlots`, `RowLocks`,
   and their proofs: the ledger, the work in flight, the lock order.
2. **Done.** The balance, which the profile form overwrites: it is not the sum of the
   credits (`lost_balance`) and never more than it (`BalanceWithinCredits`). **Open:** that
   the two are equal as long as `FormUsers` is empty, as a theorem.
3. **Open.** What `Escrow` promises by itself (money is paid or returned, once), as
   theorems that `Settlement` inherits through `Implements`.
4. **Open.** Timezones with several changes of offset in reach. `FromLocal` would
   become a choice among the changes; the argument of `ToUtcIsFirst` stays the same
   for each of them.
5. **When the code has them.** Lessons, payouts, refunds of captured money and the
   handling of `capture_failed`: today nothing writes their tables.
