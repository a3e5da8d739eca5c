--------------------------- MODULE TutorCalendar ---------------------------
(***************************************************************************)
(* One tutor's calendar: bookings created against the tutor's availability *)
(* while the tutor edits it, under the row lock on the tutor's profile;    *)
(* the profile form, which sets the hourly rate; and the tutor's timezone, *)
(* which stands in another row and changes under no lock of the tutor's.   *)
(*                                                                         *)
(* Each statement of create_booking is an action, since PostgreSQL lets    *)
(* every statement see what was committed before it.  Time is a range of   *)
(* points of what is one local date in every zone, PointLength ticks       *)
(* apart (a tick is a microsecond in the code); money is in kopecks; an    *)
(* interval is half-open, as in the code.  The windows of the rows are on  *)
(* the tutor's wall clock, the slots of the bookings are instants.         *)
(* The balance, which the same row holds, is Settlement's.                 *)
(* The exclusion constraint of migration 0002 is left out: what holds here *)
(* the row lock alone makes hold.                                          *)
(***************************************************************************)
EXTENDS Integers

CONSTANTS
    Times,             \* points in time
    PointLength,       \* the ticks between two of them
    TicksPerSecond,    \* and the ticks in a second
    Zones,             \* timezones, as the points their clocks are ahead
    Bookings, Rules,   \* row ids
    Override,          \* the row id of the exception for the date
    Rates,             \* hourly rates the tutor may set
    Workers,           \* web processes
    NoRow, DayOff,     \* a row that does not exist; an exception that is a day off
    Idle, Nobody       \* a worker without a request; a lock nobody holds

VARIABLES
    rows,      \* AvailabilityRule and AvailabilityException rows
    slot,      \* starts_at and ends_at of the pending and confirmed bookings
    price,     \* and their price
    rate,      \* TutorProfile.hourly_rate
    zone,      \* User.timezone of the tutor
    lock,      \* who holds the lock on the tutor's row
    request    \* what each worker is doing

bookingVars == <<slot, price>>
tutorVars == <<rate, zone>>
vars == <<rows, bookingVars, tutorVars, lock, request>>

-----------------------------------------------------------------------------
Windows == {w \in Times \X Times : w[1] < w[2]}
Rows == Rules \cup {Override}
RowValues == Windows \cup {DayOff, NoRow}

ASSUME TimesAssumption == /\ Times \subseteq Nat /\ Zones \subseteq Int
                          /\ PointLength \in Nat \ {0} /\ TicksPerSecond \in Nat \ {0}
ASSUME RatesAssumption == Rates \subseteq Nat
ASSUME DistinctAssumption ==
    /\ Override \notin Rules
    /\ NoRow \notin Windows /\ DayOff \notin Windows \cup {NoRow}
    /\ Nobody \notin Workers

BookRequests == [op: {"book"},
                 pc: {"lock", "zone", "rules", "override", "overlap", "insert"},
                 slot: Windows, rate: Rates, zone: Zones \cup {NoRow},
                 seen: [Rows -> RowValues]]
EditRequests == [op: {"edit"}, pc: {"lock", "check", "save"},
                 row: Rows, fresh: BOOLEAN, value: Windows \cup {DayOff}]
ProfileRequests == [op: {"profile"}, pc: {"save"}, rate: Rates]
Requests == BookRequests \cup EditRequests \cup ProfileRequests

ASSUME IdleAssumption == Idle \notin Requests

\* Half-open intervals.
Overlap(v, w) == v[1] < w[2] /\ w[1] < v[2]

\* _covers: every moment of the slot lies in some window, on a clock that is
\* ahead points ahead.
Covers(offered, ahead, s) ==
    \A t \in s[1] .. (s[2] - 1) : \E w \in offered : w[1] <= t + ahead /\ t + ahead < w[2]

\* The rate times the length in hours, rounded half up to the kopeck.  The length
\* is a decimal of 28 digits: where it is rounded down (its repeating digit is 1
\* to 4), a price of exactly half a kopeck may come out as less than that.
Cost(seconds, hourly) == hourly * seconds   \* in 3600ths of a kopeck
HalfUp(cost, seconds) ==
    LET down == cost \div 3600
        part == cost % 3600
    IN  IF part < 1800 THEN {down}
        ELSE IF part = 1800 /\ (7 * seconds) % 9 \in 1 .. 4 THEN {down, down + 1}
        ELSE {down + 1}

\* The length in whole seconds: days and seconds, and not the microseconds.
\* (Mutated form: the difference the wrong way round.)
Backwards(s) == ((s[1] - s[2]) * PointLength) \div TicksPerSecond
Seconds(s) == ((s[2] - s[1]) * PointLength) \div TicksPerSecond
Prices(s, hourly) == HalfUp(Cost(Seconds(s), hourly), Seconds(s))

Active == {b \in Bookings : slot[b] # NoRow}

\* What the rules of the date offer, unless the date has an exception.
RuleWindows(all) == {all[r] : r \in {q \in Rules : all[q] # NoRow}}
Effective(all) == CASE all[Override] = NoRow -> RuleWindows(all)
                    [] all[Override] = DayOff -> {}
                    [] OTHER -> {all[Override]}
NoRows == [r \in Rows |-> NoRow]

Init ==
    /\ rows = NoRows
    /\ slot = [b \in Bookings |-> NoRow]
    /\ price = [b \in Bookings |-> 0]
    /\ rate \in Rates
    /\ zone \in Zones
    /\ lock = Nobody
    /\ request = [w \in Workers |-> Idle]

-----------------------------------------------------------------------------
At(w, op, pc) == request[w] # Idle /\ request[w].op = op /\ request[w].pc = pc
GoTo(w, pc) == request' = [request EXCEPT ![w].pc = pc]

\* SELECT .. FOR UPDATE on the tutor's row; the end of the transaction.
\* (Mutated form: a SELECT that takes no lock.)
ReadWithoutLock(w) == UNCHANGED lock
LockProfile(w) == lock = Nobody /\ lock' = w
Answer(w) ==
    /\ request' = [request EXCEPT ![w] = Idle]
    /\ lock' = IF lock = w THEN Nobody ELSE lock

-----------------------------------------------------------------------------
\* create_booking.

\* The serializer has loaded the tutor, who must not be hidden (a rate of 0),
\* before the transaction begins.
BeginBooking(w, s) ==
    /\ request[w] = Idle
    /\ rate > 0
    /\ request' = [request EXCEPT ![w] =
          [op |-> "book", pc |-> "lock", slot |-> s, rate |-> rate, zone |-> NoRow,
           seen |-> NoRows]]
    /\ UNCHANGED <<rows, bookingVars, tutorVars, lock>>

\* The rate comes from the committed row, not from the one loaded earlier.
\* (Mutated form: from the one loaded earlier.)
RateAsLoaded(w) == request[w].rate
RateUnderLock(w) == rate

LockForBooking(w) ==
    /\ At(w, "book", "lock")
    /\ LockProfile(w)
    /\ request' = [request EXCEPT ![w].pc = "zone", ![w].rate = RateUnderLock(w)]
    /\ UNCHANGED <<rows, bookingVars, tutorVars>>

\* expand_availability reads the tutor's timezone, the rules and the exceptions
\* one after the other.
ReadZone(w) ==
    /\ At(w, "book", "zone")
    /\ request' = [request EXCEPT ![w].pc = "rules", ![w].zone = zone]
    /\ UNCHANGED <<rows, bookingVars, tutorVars, lock>>

ReadRules(w) ==
    /\ At(w, "book", "rules")
    /\ request' = [request EXCEPT ![w].pc = "override",
                                  ![w].seen = [rows EXCEPT ![Override] = NoRow]]
    /\ UNCHANGED <<rows, bookingVars, tutorVars, lock>>

ReadOverride(w) ==
    /\ At(w, "book", "override")
    /\ LET all == [request[w].seen EXCEPT ![Override] = rows[Override]]
       IN  IF Covers(Effective(all), request[w].zone, request[w].slot)
           THEN /\ request' = [request EXCEPT ![w].pc = "overlap", ![w].seen = all]
                /\ UNCHANGED lock
           ELSE Answer(w)
    /\ UNCHANGED <<rows, bookingVars, tutorVars>>

CheckOverlap(w) ==
    /\ At(w, "book", "overlap")
    /\ IF \E b \in Active : Overlap(slot[b], request[w].slot)
       THEN Answer(w)
       ELSE GoTo(w, "insert") /\ UNCHANGED lock
    /\ UNCHANGED <<rows, bookingVars, tutorVars>>

InsertBooking(w) ==
    /\ At(w, "book", "insert")
    /\ \E b \in Bookings, x \in Prices(request[w].slot, request[w].rate) :
          /\ slot[b] = NoRow
          /\ slot' = [slot EXCEPT ![b] = request[w].slot]
          /\ price' = [price EXCEPT ![b] = x]
    /\ Answer(w)
    /\ UNCHANGED <<rows, tutorVars>>

\* A cancellation, a timeout or the completion frees the slot; none of them
\* takes the tutor's lock, and no edge leads back.
EndBooking(b) ==
    /\ b \in Active
    /\ slot' = [slot EXCEPT ![b] = NoRow]
    /\ price' = [price EXCEPT ![b] = 0]
    /\ UNCHANGED <<rows, tutorVars, lock, request>>

-----------------------------------------------------------------------------
\* The tutor's edits of rules and of the exception.

\* POST makes a row, PATCH and PUT change one; a new rule has an id of its own.
BeginEdit(w, row, fresh, value) ==
    /\ request[w] = Idle
    /\ fresh /\ row \in Rules =>
          /\ rows[row] = NoRow
          /\ \A v \in Workers : request[v] # Idle /\ request[v].op = "edit" =>
                                   request[v].row # row
    /\ row \in Rules => value # DayOff
    /\ request' = [request EXCEPT ![w] =
          [op |-> "edit", pc |-> "lock", row |-> row, fresh |-> fresh, value |-> value]]
    /\ UNCHANGED <<rows, bookingVars, tutorVars, lock>>

\* (Mutated form: an edit takes no more locks than a deletion.)
EditWithoutLock(w) ==
    /\ At(w, "edit", "lock")
    /\ GoTo(w, "check")
    /\ UNCHANGED <<rows, bookingVars, tutorVars, lock>>
LockForEdit(w) ==
    /\ At(w, "edit", "lock")
    /\ LockProfile(w)
    /\ GoTo(w, "check")
    /\ UNCHANGED <<rows, bookingVars, tutorVars>>

\* _reject_overlap, for a rule.
\* (Mutated form: a window that starts before the other one is let through.)
ClashAtStart(row, value) ==
    \E r \in Rules \ {row} : /\ rows[r] # NoRow /\ row \in Rules
                           /\ rows[r][1] <= value[1] /\ value[1] < rows[r][2]
Clash(row, value) ==
    \E r \in Rules \ {row} : rows[r] # NoRow /\ row \in Rules /\ Overlap(rows[r], value)

\* A row to change that is gone, a second exception for the date, or a rule that
\* overlaps another one is refused.
CheckEdit(w) ==
    /\ At(w, "edit", "check")
    /\ LET q == request[w]
       IN  IF q.fresh = (rows[q.row] = NoRow) /\ ~ Clash(q.row, q.value)
           THEN GoTo(w, "save") /\ UNCHANGED lock
           ELSE Answer(w)
    /\ UNCHANGED <<rows, bookingVars, tutorVars>>

\* Model.save updates the row or, if it is gone by now, inserts it.
SaveEdit(w) ==
    /\ At(w, "edit", "save")
    /\ rows' = [rows EXCEPT ![request[w].row] = request[w].value]
    /\ Answer(w)
    /\ UNCHANGED <<bookingVars, tutorVars>>

\* DELETE takes no lock on the profile.
DeleteRow(row) ==
    /\ rows[row] # NoRow
    /\ rows' = [rows EXCEPT ![row] = NoRow]
    /\ UNCHANGED <<bookingVars, tutorVars, lock, request>>

-----------------------------------------------------------------------------
\* The tutor's profile and account.

\* PATCH /tutor/profile loads the row and later saves every column of it: its
\* rate is the one the tutor typed, or the one it loaded.  An UPDATE waits for
\* the lock of its row.
LoadProfile(w, hourly) ==
    /\ request[w] = Idle
    /\ request' = [request EXCEPT ![w] = [op |-> "profile", pc |-> "save", rate |-> hourly]]
    /\ UNCHANGED <<rows, bookingVars, tutorVars, lock>>

\* (Mutated form: the row is written while another transaction has it locked.)
SaveProfileAtOnce(w) ==
    /\ At(w, "profile", "save")
    /\ rate' = request[w].rate
    /\ Answer(w)
    /\ UNCHANGED <<rows, bookingVars, zone>>

SaveProfile(w) ==
    /\ At(w, "profile", "save")
    /\ lock = Nobody
    /\ rate' = request[w].rate
    /\ Answer(w)
    /\ UNCHANGED <<rows, bookingVars, zone>>

\* PATCH /me writes the user's row and waits for no lock of the profile's.
ChangeZone(z) ==
    /\ zone' = z
    /\ UNCHANGED <<rows, bookingVars, rate, lock, request>>

-----------------------------------------------------------------------------
CreateBooking(w) ==
    \/ \E s \in Windows : BeginBooking(w, s)
    \/ LockForBooking(w) \/ ReadZone(w) \/ ReadRules(w) \/ ReadOverride(w)
    \/ CheckOverlap(w) \/ InsertBooking(w)
EditAvailability(w) ==
    \/ \E row \in Rows, fresh \in BOOLEAN, value \in Windows \cup {DayOff} :
          BeginEdit(w, row, fresh, value)
    \/ LockForEdit(w) \/ CheckEdit(w) \/ SaveEdit(w)
EditProfile(w) ==
    \/ \E hourly \in Rates : LoadProfile(w, hourly)
    \/ SaveProfile(w)

Next ==
    \/ \E w \in Workers : CreateBooking(w) \/ EditAvailability(w) \/ EditProfile(w)
    \/ \E b \in Bookings : EndBooking(b)
    \/ \E row \in Rows : DeleteRow(row)
    \/ \E z \in Zones : ChangeZone(z)

Spec == Init /\ [][Next]_vars

-----------------------------------------------------------------------------
TypeOK ==
    /\ rows \in [Rows -> RowValues]
    /\ \A r \in Rules : rows[r] # DayOff
    /\ slot \in [Bookings -> Windows \cup {NoRow}]
    /\ price \in [Bookings -> Nat]
    /\ rate \in Rates
    /\ zone \in Zones
    /\ lock \in Workers \cup {Nobody}
    /\ request \in [Workers -> Requests \cup {Idle}]

\* No two active bookings of the tutor overlap, whatever runs between the check
\* of create_booking and its insert (bookings/services.py:203-207).
NoDoubleBooking ==
    \A a, b \in Active : a # b => ~ Overlap(slot[a], slot[b])

\* The tutor's weekly windows never overlap, so no free interval is offered
\* twice (_lock_own_profile, bookings/views.py:156-162; _reject_overlap,
\* bookings/serializers.py:151-155).
RulesDisjoint ==
    \A q, r \in Rules : q # r /\ rows[q] # NoRow /\ rows[r] # NoRow =>
                          ~ Overlap(rows[q], rows[r])

\* An amount for a length in ticks, against the rate times that length: not more
\* than half a kopeck too much, and too little by no more than half a kopeck and
\* the part of a second that was not charged for.
Close(amount, hourly, length) ==
    LET paid == 3600 * TicksPerSecond * amount
        half == 1800 * TicksPerSecond
    IN  /\ paid <= hourly * length + half
        /\ hourly * length <= paid + half + hourly * (TicksPerSecond - 1)

\* A booking is created at the rate that is committed at that moment, however
\* long ago the request saw another one (bookings/services.py:222-223).  Its length
\* counts in whole seconds, without its microseconds, and however that is written
\* as a decimal, the price is right to half a kopeck but for the part of a second
\* that is dropped (236-240).
CommittedRate ==
    \A b \in Bookings : slot[b] = NoRow /\ slot'[b] # NoRow =>
        Close(price'[b], rate, (slot'[b][2] - slot'[b][1]) * PointLength)
PricedAtCommittedRate == [][CommittedRate]_vars

\* A booking that is about to be inserted lies within the tutor's availability as
\* it is at that moment, rules, exception and timezone together, although they
\* were read one after the other; or the tutor has since deleted a row that was
\* read, or moved to another timezone, neither of which takes the lock
\* (bookings/services.py:200-202, 225; views.py:147-150; users/views.py:40-48).
AcceptedIsOffered ==
    \A w \in Workers : At(w, "book", "insert") =>
        \/ Covers(Effective(rows), zone, request[w].slot)
        \/ \E r \in Rows : request[w].seen[r] # NoRow /\ rows[r] = NoRow
        \/ zone # request[w].zone

\* However the statements of requests, edits, deletions and profile forms
\* interleave, each changes the calendar as one entry in a diary would: a lesson is
\* written down apart from all the others there are at that moment and at the rate
\* of that moment, a rule apart from the other rules (bookings/services.py:203-207,
\* 222-223, views.py:156-162).  That the lesson lies within the tutor's hours is no
\* part of the diary: AcceptedIsOffered says how far that goes.
Ideal == INSTANCE Diary
ImplementsDiary == Ideal!Spec

\* The inductive invariant: who is past the lock holds it, and what it checked
\* still holds.
RequestFact(w) ==
    LET q == request[w]
    IN  q # Idle =>
          /\ q.op # "profile" /\ q.pc # "lock" => lock = w
          /\ q.op = "book" /\ q.pc # "lock" => q.rate = rate
          /\ q.op = "book" /\ q.pc \notin {"lock", "zone"} => q.zone \in Zones
          /\ q.op = "book" /\ q.pc \in {"override", "overlap", "insert"} =>
                \A r \in Rules : rows[r] \in {NoRow, q.seen[r]}
          /\ q.op = "book" /\ q.pc \in {"overlap", "insert"} =>
                /\ rows[Override] \in {NoRow, q.seen[Override]}
                /\ Covers(Effective(q.seen), q.zone, q.slot)
          /\ q.op = "book" /\ q.pc = "insert" =>
                \A b \in Active : ~ Overlap(slot[b], q.slot)
          /\ q.op = "edit" => (q.row \in Rules => q.value # DayOff)
          /\ q.op = "edit" /\ q.pc = "save" => ~ Clash(q.row, q.value)
RequestFacts == \A w \in Workers : RequestFact(w)

CalendarInv == TypeOK /\ NoDoubleBooking /\ RulesDisjoint /\ RequestFacts
=============================================================================
