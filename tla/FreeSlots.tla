----------------------------- MODULE FreeSlots -----------------------------
(***************************************************************************)
(* What a tutor offers: weekly rules and exceptions in the tutor's wall    *)
(* clock, projected to UTC intervals (expand_availability), less the time  *)
(* of active bookings (free_slots), and the question whether a slot to be  *)
(* booked is covered (_covers).                                            *)
(*                                                                         *)
(* Instants are integers (UTC), wall-clock points are integers too: the    *)
(* date times DayLength plus the time.  An interval is half-open.  A       *)
(* timezone changes its offset once; a spring-forward skips wall-clock     *)
(* points (a gap), a fall-back repeats some.  Requests are atomic here;    *)
(* TutorCalendar interleaves them.                                         *)
(***************************************************************************)
EXTENDS Integers, Sequences, FiniteSets, Functions

CONSTANTS
    DayLength, WeekLength,  \* points in a date, dates in a week
    Times,                  \* times of day at which a window starts or ends
    Dates,                  \* local dates in reach
    Zones,                  \* timezones a tutor may choose
    Points,                 \* instants at which queries and bookings start or end
    MaxSlotsRange,          \* the widest query
    MaxRules, MaxExceptions, MaxBookings,  \* bounds on the rows
    NoException, DayOff

VARIABLES
    rules,       \* AvailabilityRule rows: a weekday and a window
    exceptions,  \* for each date NoException, DayOff or a replacement window
    timezone,    \* User.timezone of the tutor
    bookings     \* [starts_at, ends_at) of the pending and confirmed bookings

vars == <<rules, exceptions, timezone, bookings>>

-----------------------------------------------------------------------------
\* Dates, times and timezones.

DateOf(x) == x \div DayLength
TimeOf(x) == x % DayLength
WallClock(d, t) == d * DayLength + t
Weekday(d) == d % WeekLength

Zone == [before : Int, after : Int, at : Int]

Offset(z, u) == IF u < z.at THEN z.before ELSE z.after
Local(z, u) == u + Offset(z, u)

Later(a, b) == IF a < b THEN b ELSE a
Earlier(a, b) == IF a < b THEN a ELSE b

\* The instant zoneinfo gives a wall-clock point: fold 0 takes the old offset
\* until the new one is sure, fold 1 takes the new one as soon as it may be.
FromLocal(z, x, fold) ==
    LET turn == z.at + (IF fold = 0 THEN Later(z.before, z.after)
                                    ELSE Earlier(z.before, z.after))
    IN  x - (IF x < turn THEN z.before ELSE z.after)

ASSUME CalendarAssumption ==
    /\ DayLength \in Nat \ {0} /\ WeekLength \in Nat \ {0}
    /\ Times \subseteq 0 .. (DayLength - 1)
    /\ Dates \subseteq Int /\ Points \subseteq Int

\* No clock falls back from past midnight to the date before.
ASSUME ZonesAssumption ==
    /\ Zones \subseteq Zone
    /\ \A z \in Zones : DateOf(z.at - 1 + z.before) <= DateOf(z.at + z.after)

ASSUME DatesAssumption ==
    \A z \in Zones : \A t, u \in Points :
        DateOf(Local(z, t)) .. DateOf(Local(z, u)) \subseteq Dates

Windows == {w \in Times \X Times : w[1] < w[2]}
Intervals == {s \in Points \X Points : s[1] < s[2]}
ASSUME MarkersAssumption ==
    NoException # DayOff /\ NoException \notin Windows /\ DayOff \notin Windows

Overlap(v, w) == v[1] < w[2] /\ w[1] < v[2]

\* The instants in any of a set of intervals.
Moments(S) == UNION {v[1] .. (v[2] - 1) : v \in S}

-----------------------------------------------------------------------------
\* _local_to_utc.

\* The bisection for the instant at which the offset changes, between an
\* instant before it and one not before it.
Brackets(z) == {r \in Int \X Int : r[1] < z.at /\ z.at <= r[2]}
Transition(z, lo, hi) ==
    LET search[r \in Brackets(z)] ==
          LET mid == (r[1] + r[2]) \div 2
          IN  IF r[2] - r[1] <= 1 THEN r[2]
              ELSE IF Offset(z, mid) = Offset(z, hi) THEN search[<<r[1], mid>>]
              ELSE search[<<mid, r[2]>>]
    IN  search[<<lo, hi>>]

\* A point that does not show again after the round trip lies in the gap.
\* (Mutated form: the gap is not looked for.)
UnclampedToUtc(z, x) == FromLocal(z, x, 0)
LocalToUtc(z, x) ==
    LET utc == FromLocal(z, x, 0)
    IN  IF Local(z, utc) = x THEN utc ELSE Transition(z, FromLocal(z, x, 1), utc)

-----------------------------------------------------------------------------
\* expand_availability.

WindowsOn(d) ==
    CASE exceptions[d] = NoException -> {r.window : r \in {q \in rules : q.weekday = Weekday(d)}}
      [] exceptions[d] = DayOff -> {}
      [] OTHER -> {exceptions[d]}

UtcWindow(d, w) == <<LocalToUtc(timezone, WallClock(d, w[1])),
                     LocalToUtc(timezone, WallClock(d, w[2]))>>

DatesBetween(start, end) == DateOf(Local(timezone, start)) .. DateOf(Local(timezone, end))

Clip(v, start, end) == <<Later(v[1], start), Earlier(v[2], end)>>

Available(start, end) ==
    LET windows == UNION {{UtcWindow(d, w) : w \in WindowsOn(d)} : d \in DatesBetween(start, end)}
        clipped == {Clip(v, start, end) : v \in {w \in windows : w[1] < w[2]}}
    IN  {v \in clipped : v[1] < v[2]}

Before(v, w) == v[1] < w[1] \/ (v[1] = w[1] /\ v[2] < w[2])
Sorted(S) == CHOOSE s \in [1 .. Cardinality(S) -> S] :
                \A i, j \in 1 .. Cardinality(S) : i < j => Before(s[i], s[j])
ExpandAvailability(start, end) == Sorted(Available(start, end))

-----------------------------------------------------------------------------
\* free_slots: one forward pass over the bookings cuts them out of an interval.

Busy(start, end) == Sorted({b \in bookings : Overlap(b, <<start, end>>)})

\* (Mutated forms: a booking that has begun by the cursor is skipped; one that
\* begins after the interval is not.)
CutOutOnTime(acc, b, upto) ==
    IF b[1] < acc.cursor \/ b[1] >= upto \/ acc.cursor >= upto THEN acc
    ELSE [cursor |-> b[2],
          free |-> IF b[1] > acc.cursor THEN Append(acc.free, <<acc.cursor, b[1]>>)
                                        ELSE acc.free]
CutOutBeyond(acc, b, upto) ==
    IF b[2] <= acc.cursor \/ acc.cursor >= upto THEN acc
    ELSE [cursor |-> Later(acc.cursor, b[2]),
          free |-> IF b[1] > acc.cursor THEN Append(acc.free, <<acc.cursor, b[1]>>)
                                        ELSE acc.free]
CutOut(acc, b, upto) ==
    IF b[2] <= acc.cursor \/ b[1] >= upto \/ acc.cursor >= upto THEN acc
    ELSE [cursor |-> Later(acc.cursor, b[2]),
          free |-> IF b[1] > acc.cursor THEN Append(acc.free, <<acc.cursor, b[1]>>)
                                        ELSE acc.free]

Remainder(v, busy) ==
    LET cut[i \in 0 .. Len(busy)] ==
          IF i = 0 THEN [cursor |-> v[1], free |-> <<>>]
                   ELSE CutOut(cut[i - 1], busy[i], v[2])
        last == cut[Len(busy)]
    IN  IF last.cursor < v[2] THEN Append(last.free, <<last.cursor, v[2]>>) ELSE last.free

Subtract(intervals, busy) ==
    LET free[i \in 0 .. Len(intervals)] ==
          IF i = 0 THEN <<>> ELSE free[i - 1] \o Remainder(intervals[i], busy)
    IN  free[Len(intervals)]

FreeSlots(start, end) == Subtract(ExpandAvailability(start, end), Busy(start, end))

\* GET /tutors/{id}/slots refuses an empty range and one that is too wide.
Queries == {q \in Intervals : q[2] - q[1] <= MaxSlotsRange}

-----------------------------------------------------------------------------
\* _covers: the intervals must meet, up to the end of the slot.
CoverStep(acc, v, end) ==
    IF acc.answer # "open" THEN acc
    ELSE IF v[1] > acc.until THEN [acc EXCEPT !.answer = "no"]
    ELSE LET until == Later(acc.until, v[2])
         IN  [until |-> until, answer |-> IF until >= end THEN "yes" ELSE "open"]

\* (Mutated form: one window must hold the whole slot.)
CoveredByOne(start, end) ==
    \E v \in Available(start, end) : v[1] <= start /\ end <= v[2]
Covers(start, end) ==
    LET intervals == ExpandAvailability(start, end)
        seen[i \in 0 .. Len(intervals)] ==
          IF i = 0 THEN [until |-> start, answer |-> "open"]
                   ELSE CoverStep(seen[i - 1], intervals[i], end)
    IN  seen[Len(intervals)].answer = "yes"

-----------------------------------------------------------------------------
Init ==
    /\ rules = {}
    /\ exceptions = [d \in Dates |-> NoException]
    /\ timezone \in Zones
    /\ bookings = {}

\* A rule: its window ends after it starts and overlaps no other of the weekday.
\* (Mutated form: an empty window is let through.)
NotBackwards(w) == w[1] <= w[2]
WellFormed(w) == w[1] < w[2]
Clash(others, r) == \E o \in others : o.weekday = r.weekday /\ Overlap(o.window, r.window)

CreateRule(r) ==
    /\ Cardinality(rules) < MaxRules
    /\ WellFormed(r.window) /\ ~ Clash(rules, r)
    /\ rules' = rules \cup {r}
    /\ UNCHANGED <<exceptions, timezone, bookings>>

UpdateRule(old, r) ==
    /\ WellFormed(r.window) /\ ~ Clash(rules \ {old}, r)
    /\ rules' = (rules \ {old}) \cup {r}
    /\ UNCHANGED <<exceptions, timezone, bookings>>

DestroyRule(r) ==
    /\ rules' = rules \ {r}
    /\ UNCHANGED <<exceptions, timezone, bookings>>

\* An exception: one per date.
ExceptionDates == {d \in Dates : exceptions[d] # NoException}

CreateException(d, e) ==
    /\ Cardinality(ExceptionDates) < MaxExceptions
    /\ d \notin ExceptionDates
    /\ e # DayOff => WellFormed(e)
    /\ exceptions' = [exceptions EXCEPT ![d] = e]
    /\ UNCHANGED <<rules, timezone, bookings>>

\* A change may also move it to another date.
UpdateException(old, d, e) ==
    /\ d \notin ExceptionDates \ {old}
    /\ e # DayOff => WellFormed(e)
    /\ exceptions' = [exceptions EXCEPT ![old] = NoException, ![d] = e]
    /\ UNCHANGED <<rules, timezone, bookings>>

DestroyException(d) ==
    /\ exceptions' = [exceptions EXCEPT ![d] = NoException]
    /\ UNCHANGED <<rules, timezone, bookings>>

\* PATCH /me: every window moves, the bookings stay where they are.
ChangeTimezone(z) ==
    /\ timezone' = z
    /\ UNCHANGED <<rules, exceptions, bookings>>

\* create_booking accepts a slot that is covered and not taken.
Bookable(s) ==
    /\ ~ \E b \in bookings : Overlap(b, s)
    /\ Covers(s[1], s[2])

CreateBooking(s) ==
    /\ Cardinality(bookings) < MaxBookings
    /\ Bookable(s)
    /\ bookings' = bookings \cup {s}
    /\ UNCHANGED <<rules, exceptions, timezone>>

\* A cancellation, a timeout or the completion.
EndBooking(b) ==
    /\ bookings' = bookings \ {b}
    /\ UNCHANGED <<rules, exceptions, timezone>>

Rules == [weekday : 0 .. (WeekLength - 1), window : Times \X Times]
Next ==
    \/ \E r \in Rules : CreateRule(r)
    \/ \E old \in rules, r \in Rules : UpdateRule(old, r)
    \/ \E r \in rules : DestroyRule(r)
    \/ \E d \in Dates, e \in (Times \X Times) \cup {DayOff} : CreateException(d, e)
    \/ \E old \in ExceptionDates, d \in Dates, e \in (Times \X Times) \cup {DayOff} :
          UpdateException(old, d, e)
    \/ \E d \in ExceptionDates : DestroyException(d)
    \/ \E z \in Zones : ChangeTimezone(z)
    \/ \E s \in Intervals : CreateBooking(s)
    \/ \E b \in bookings : EndBooking(b)

Spec == Init /\ [][Next]_vars

-----------------------------------------------------------------------------
TypeOK ==
    /\ rules \subseteq [weekday : 0 .. (WeekLength - 1), window : Windows]
    /\ exceptions \in [Dates -> Windows \cup {DayOff, NoException}]
    /\ timezone \in Zones
    /\ bookings \subseteq Intervals

\* Rules of one weekday never overlap.
RulesApart ==
    \A q, r \in rules : q.weekday = r.weekday /\ q # r => ~ Overlap(q.window, r.window)

\* The furthest the tutor's wall clock has got by an instant: what it shows,
\* unless it shows for the second time what it showed before it fell back.
Reached(z, u) ==
    IF u < z.at THEN Local(z, u) ELSE Later(Local(z, u), z.at - 1 + z.before)

\* The tutor offers an instant if the wall clock has then reached a window of a
\* rule of that weekday, or of the exception that replaces the rules of that date.
Within(x, w) == w[1] <= TimeOf(x) /\ TimeOf(x) < w[2]
Offered(u) ==
    LET x == Reached(timezone, u)
        e == exceptions[DateOf(x)]
    IN  IF e = NoException
        THEN \E r \in rules : r.weekday = Weekday(DateOf(x)) /\ Within(x, r.window)
        ELSE e # DayOff /\ Within(x, e)

Taken(u) == \E b \in bookings : b[1] <= u /\ u < b[2]

\* The wall clock wins across a change of offset: of a query, exactly the
\* instants at which it has reached a window are available
\* (bookings/services.py:85-91).
AvailabilityIsExact ==
    \A q \in Queries :
        Moments(Available(q[1], q[2])) = {u \in q[1] .. (q[2] - 1) : Offered(u)}

\* Of a query, free_slots returns exactly the instants that the tutor offers and
\* no active booking takes, wherever the bookings lie (bookings/services.py:138-142).
FreeIsExact ==
    \A q \in Queries :
        Moments(Range(FreeSlots(q[1], q[2])))
            = {u \in q[1] .. (q[2] - 1) : Offered(u) /\ ~ Taken(u)}

\* Free intervals are not empty, sorted, and do not overlap
\* (bookings/services.py:143).
FreeIsOrdered ==
    \A q \in Queries :
        LET free == FreeSlots(q[1], q[2])
        IN  \A i \in DOMAIN free :
                /\ free[i][1] < free[i][2]
                /\ i > 1 => free[i - 1][2] <= free[i][1]

\* What the catalog shows as free can be booked, and what can be booked is shown
\* as free by every query around it, also where the slot spans two windows that
\* only touch (bookings/services.py:156-177 against 180-189 and 226-234).
OfferIsBookable ==
    \A q \in Queries :
        LET free == Moments(Range(FreeSlots(q[1], q[2])))
        IN  \A s \in Intervals : q[1] <= s[1] /\ s[2] <= q[2] =>
                (Bookable(s) <=> Moments({s}) \subseteq free)
=============================================================================
