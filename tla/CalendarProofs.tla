--------------------------- MODULE CalendarProofs ---------------------------
(***************************************************************************)
(* The tutor's row lock keeps the calendar right, for any windows, rates,  *)
(* rows and number of workers.                                             *)
(***************************************************************************)
EXTENDS TutorCalendar, TLAPS

USE TimesAssumption, RatesAssumption, DistinctAssumption, IdleAssumption

-----------------------------------------------------------------------------
\* What a request is follows from its operation.
LEMMA RequestKinds ==
    ASSUME TypeOK, NEW w \in Workers, request[w] # Idle
    PROVE  /\ request[w] \in Requests
           /\ request[w].op = "book" => request[w] \in BookRequests
           /\ request[w].op = "edit" => request[w] \in EditRequests
           /\ request[w].op = "profile" => request[w] \in ProfileRequests
  <1>1. request[w] \in Requests
    BY DEF TypeOK
  <1>2. CASE request[w] \in BookRequests
    BY <1>1, <1>2 DEF BookRequests
  <1>3. CASE request[w] \in EditRequests
    BY <1>1, <1>3 DEF EditRequests
  <1>4. CASE request[w] \in ProfileRequests
    BY <1>1, <1>4 DEF ProfileRequests
  <1> QED
    BY <1>1, <1>2, <1>3, <1>4 DEF Requests

\* Replacing one worker's request by another, or by none, keeps the type.
LEMMA RequestReplaced ==
    ASSUME TypeOK, NEW w \in Workers, NEW q \in Requests \cup {Idle},
           request' = [request EXCEPT ![w] = q]
    PROVE  request' \in [Workers -> Requests \cup {Idle}]
  BY DEF TypeOK

LEMMA AnswerType ==
    ASSUME TypeOK, NEW w \in Workers, Answer(w)
    PROVE  request' \in [Workers -> Requests \cup {Idle}] /\ lock' \in Workers \cup {Nobody}
  <1>1. request' = [request EXCEPT ![w] = Idle]
    BY DEF Answer
  <1>2. request' \in [Workers -> Requests \cup {Idle}]
    BY <1>1, RequestReplaced
  <1> QED
    BY <1>2 DEF TypeOK, Answer

\* An amount within half a kopeck of a cost.
Near(amount, cost) == 3600 * amount <= cost + 1800 /\ cost <= 3600 * amount + 1800

\* Rounding moves a cost by at most half a kopeck.
LEMMA HalfUpClose ==
    ASSUME NEW cost \in Nat, NEW seconds, NEW x \in HalfUp(cost, seconds)
    PROVE  x \in Nat /\ Near(x, cost)
  <1> DEFINE down == cost \div 3600
             part == cost % 3600
  <1>1. /\ down \in Nat /\ part \in 0 .. 3599
        /\ cost = 3600 * down + part
    BY SMT
  <1>2. \/ x = down /\ part <= 1800
        \/ x = down + 1 /\ part >= 1800
    BY <1>1, SMT DEF HalfUp
  <1> HIDE DEF down, part
  <1> QED
    BY <1>1, <1>2, SMT DEF Near

\* Whole seconds leave less than a second over.
LEMMA WholeSeconds ==
    ASSUME NEW ticks \in Nat, NEW t \in Nat \ {0}
    PROVE  \E seconds \in Nat, left \in Nat :
              /\ seconds = ticks \div t
              /\ left <= t - 1
              /\ ticks = t * seconds + left
  <1>1. ticks \div t \in Nat
    BY SMT
  <1>2. ticks % t \in Nat /\ ticks % t <= t - 1
    BY SMT
  <1>3. ticks = t * (ticks \div t) + (ticks % t)
    BY SMT
  <1> QED
    BY <1>1, <1>2, <1>3, Zenon

\* What is close to the cost of the whole seconds is close to that of the length,
\* but for what is left over.
LEMMA CloseToTicks ==
    ASSUME NEW x \in Nat, NEW hourly \in Nat, NEW seconds \in Nat, NEW left \in Nat,
           left <= TicksPerSecond - 1, Near(x, hourly * seconds)
    PROVE  Close(x, hourly, TicksPerSecond * seconds + left)
  <1> PICK t \in Nat \ {0} : t = TicksPerSecond
    BY TimesAssumption
  <1> PICK cost \in Nat : cost = hourly * seconds
    BY SMT
  <1>1. 3600 * x <= cost + 1800 /\ cost <= 3600 * x + 1800
    BY DEF Near
  <1>2. hourly * (t * seconds + left) = t * cost + hourly * left
    BY SMT
  <1>3. 0 <= hourly * left /\ hourly * left <= hourly * (t - 1)
    BY SMT
  <1>4. t * (3600 * x) <= t * (cost + 1800) /\ t * cost <= t * (3600 * x + 1800)
    BY <1>1, SMT
  <1>5. /\ 3600 * t * x <= t * cost + 1800 * t
        /\ t * cost <= 3600 * t * x + 1800 * t
    BY <1>4, SMT
  <1>6. /\ 3600 * t * x <= hourly * (t * seconds + left) + 1800 * t
        /\ hourly * (t * seconds + left) <= 3600 * t * x + 1800 * t + hourly * (t - 1)
    BY <1>2, <1>3, <1>5, SMT
  <1> QED
    BY <1>6 DEF Close

\* A price is a natural number, since a slot ends after it starts, and close to
\* what the slot costs.
LEMMA PriceType ==
    ASSUME NEW s \in Windows, NEW hourly \in Rates, NEW x \in Prices(s, hourly)
    PROVE  /\ x \in Nat
           /\ (s[2] - s[1]) * PointLength \in Nat
           /\ Close(x, hourly, (s[2] - s[1]) * PointLength)
  <1>1. s[1] \in Nat /\ s[2] \in Nat /\ s[1] < s[2] /\ PointLength \in Nat
    BY TimesAssumption DEF Windows
  <1>2. s[2] - s[1] \in Nat
    BY <1>1, SMT
  <1>3. PICK ticks \in Nat : ticks = (s[2] - s[1]) * PointLength
    BY <1>1, <1>2, SMT
  <1>4. PICK seconds \in Nat, left \in Nat :
          /\ seconds = ticks \div TicksPerSecond
          /\ left <= TicksPerSecond - 1
          /\ ticks = TicksPerSecond * seconds + left
    BY TimesAssumption, WholeSeconds, Zenon
  <1>5. hourly \in Nat
    BY RatesAssumption
  <1>6. PICK cost \in Nat : cost = hourly * seconds
    BY <1>5, SMT
  <1>7. x \in HalfUp(cost, seconds)
    <2>1. Seconds(s) = seconds
      BY <1>3, <1>4 DEF Seconds
    <2>2. Cost(Seconds(s), hourly) = cost
      BY <1>6, <2>1 DEF Cost
    <2> QED
      BY <2>1, <2>2, Zenon DEF Prices
  <1>8. x \in Nat /\ Near(x, hourly * seconds)
    BY <1>6, <1>7, HalfUpClose
  <1>9. Close(x, hourly, TicksPerSecond * seconds + left)
    BY <1>4, <1>5, <1>8, CloseToTicks, Zenon
  <1> QED
    BY <1>3, <1>4, <1>8, <1>9

\* What a booking request has read of the calendar when it has read the exception.
AllSeen(w) == [request[w].seen EXCEPT ![Override] = rows[Override]]

LEMMA AllSeenType ==
    ASSUME TypeOK, NEW w \in Workers, request[w] \in BookRequests
    PROVE  AllSeen(w) \in [Rows -> RowValues]
  BY DEF AllSeen, BookRequests, TypeOK, Rows

LEMMA OverlapCommutes ==
    ASSUME NEW v, NEW w
    PROVE  Overlap(v, w) <=> Overlap(w, v)
  BY DEF Overlap

-----------------------------------------------------------------------------
LEMMA InitCalendar == Init => CalendarInv
  <1> SUFFICES ASSUME Init PROVE CalendarInv
    OBVIOUS
  <1>1. TypeOK
    BY DEF Init, TypeOK, NoRows, RowValues, Rows
  <1>2. Active = {}
    BY DEF Init, Active
  <1>3. NoDoubleBooking
    BY <1>2 DEF NoDoubleBooking
  <1>4. RulesDisjoint
    BY DEF Init, RulesDisjoint, NoRows, Rows
  <1>5. RequestFacts
    BY DEF Init, RequestFacts, RequestFact
  <1> QED
    BY <1>1, <1>3, <1>4, <1>5 DEF CalendarInv

\* Type correctness, one request at a time.
LEMMA BookingTypes ==
    ASSUME TypeOK, NEW w \in Workers, CreateBooking(w)
    PROVE  TypeOK'
  <1>1. ASSUME NEW s \in Windows, BeginBooking(w, s) PROVE TypeOK'
    <2>1. [op |-> "book", pc |-> "lock", slot |-> s, rate |-> rate,
          zone |-> NoRow, seen |-> NoRows] \in Requests
      BY DEF Requests, BookRequests, NoRows, RowValues, TypeOK
    <2>2. request' \in [Workers -> Requests \cup {Idle}]
      BY <1>1, <2>1, RequestReplaced DEF BeginBooking
    <2> QED
      BY <1>1, <2>2 DEF BeginBooking, TypeOK, bookingVars, tutorVars
  <1>2. CASE LockForBooking(w)
    <2>1. request[w] \in BookRequests
      BY <1>2, RequestKinds DEF LockForBooking, At
    <2>2. [request[w] EXCEPT !.pc = "zone", !.rate = rate] \in Requests
      BY <2>1 DEF Requests, BookRequests, TypeOK
    <2>3. request' = [request EXCEPT ![w] = [request[w] EXCEPT !.pc = "zone", !.rate = rate]]
      BY <1>2 DEF LockForBooking, RateUnderLock, TypeOK
    <2>4. request' \in [Workers -> Requests \cup {Idle}]
      BY <2>2, <2>3, RequestReplaced
    <2> QED
      BY <1>2, <2>4 DEF LockForBooking, LockProfile, TypeOK, bookingVars, tutorVars
  <1>3. CASE ReadZone(w)
    <2>1. request[w] \in BookRequests
      BY <1>3, RequestKinds DEF ReadZone, At
    <2>2. [request[w] EXCEPT !.pc = "rules", !.zone = zone] \in Requests
      BY <2>1 DEF Requests, BookRequests, TypeOK
    <2>3. request' = [request EXCEPT ![w] = [request[w] EXCEPT !.pc = "rules", !.zone = zone]]
      BY <1>3 DEF ReadZone, TypeOK
    <2>4. request' \in [Workers -> Requests \cup {Idle}]
      BY <2>2, <2>3, RequestReplaced
    <2> QED
      BY <1>3, <2>4 DEF ReadZone, TypeOK, bookingVars, tutorVars
  <1>4. CASE ReadRules(w)
    <2>1. request[w] \in BookRequests
      BY <1>4, RequestKinds DEF ReadRules, At
    <2> DEFINE seen == [rows EXCEPT ![Override] = NoRow]
    <2>2. seen \in [Rows -> RowValues]
      BY DEF TypeOK, RowValues
    <2>3. [request[w] EXCEPT !.pc = "override", !.seen = seen] \in Requests
      BY <2>1, <2>2 DEF Requests, BookRequests
    <2>4. request' = [request EXCEPT ![w] = [request[w] EXCEPT !.pc = "override", !.seen = seen]]
      BY <1>4 DEF ReadRules, TypeOK
    <2> HIDE DEF seen
    <2>5. request' \in [Workers -> Requests \cup {Idle}]
      BY <2>3, <2>4, RequestReplaced
    <2> QED
      BY <1>4, <2>5 DEF ReadRules, TypeOK, bookingVars, tutorVars
  <1>5. CASE ReadOverride(w)
    <2>1. CASE Answer(w)
      BY <1>5, <2>1, AnswerType DEF ReadOverride, TypeOK, bookingVars, tutorVars
    <2>2. CASE /\ request' = [request EXCEPT ![w].pc = "overlap", ![w].seen = AllSeen(w)]
               /\ UNCHANGED lock
      <3>1. request[w] \in BookRequests
        BY <1>5, RequestKinds DEF ReadOverride, At
      <3>2. [request[w] EXCEPT !.pc = "overlap", !.seen = AllSeen(w)] \in Requests
        BY <3>1, AllSeenType DEF Requests, BookRequests
      <3>3. request' = [request EXCEPT ![w] = [request[w] EXCEPT !.pc = "overlap",
                                                                !.seen = AllSeen(w)]]
        BY <2>2 DEF TypeOK
      <3>4. request' \in [Workers -> Requests \cup {Idle}]
        BY <3>2, <3>3, RequestReplaced
      <3> QED
        BY <1>5, <2>2, <3>4 DEF ReadOverride, TypeOK, bookingVars, tutorVars
    <2> QED
      BY <1>5, <2>1, <2>2 DEF ReadOverride, AllSeen
  <1>6. CASE CheckOverlap(w)
    <2>1. CASE Answer(w)
      BY <1>6, <2>1, AnswerType DEF CheckOverlap, TypeOK, bookingVars, tutorVars
    <2>2. CASE GoTo(w, "insert") /\ UNCHANGED lock
      <3>1. request[w] \in BookRequests
        BY <1>6, RequestKinds DEF CheckOverlap, At
      <3>2. [request[w] EXCEPT !.pc = "insert"] \in Requests
        BY <3>1 DEF Requests, BookRequests
      <3>3. request' = [request EXCEPT ![w] = [request[w] EXCEPT !.pc = "insert"]]
        BY <2>2 DEF GoTo, TypeOK
      <3>4. request' \in [Workers -> Requests \cup {Idle}]
        BY <3>2, <3>3, RequestReplaced
      <3> QED
        BY <1>6, <2>2, <3>4 DEF CheckOverlap, TypeOK, bookingVars, tutorVars
    <2> QED
      BY <1>6, <2>1, <2>2 DEF CheckOverlap
  <1>7. CASE InsertBooking(w)
    <2>1. request[w] \in BookRequests /\ Answer(w)
      BY <1>7, RequestKinds DEF InsertBooking, At
    <2>2. /\ request[w].slot \in Windows
          /\ \A x \in Prices(request[w].slot, request[w].rate) : x \in Nat
      BY <2>1, PriceType DEF BookRequests
    <2>3. slot' \in [Bookings -> Windows \cup {NoRow}] /\ price' \in [Bookings -> Nat]
      BY <1>7, <2>2 DEF InsertBooking, TypeOK
    <2> QED
      BY <1>7, <2>1, <2>3, AnswerType DEF InsertBooking, TypeOK, tutorVars
  <1> QED
    BY <1>1, <1>2, <1>3, <1>4, <1>5, <1>6, <1>7 DEF CreateBooking

LEMMA EditTypes ==
    ASSUME TypeOK, RequestFacts, NEW w \in Workers, EditAvailability(w)
    PROVE  TypeOK'
  <1>1. ASSUME NEW row \in Rows, NEW fresh \in BOOLEAN, NEW value \in Windows \cup {DayOff},
               BeginEdit(w, row, fresh, value)
        PROVE  TypeOK'
    <2>1. [op |-> "edit", pc |-> "lock", row |-> row, fresh |-> fresh, value |-> value]
             \in Requests
      BY DEF Requests, EditRequests
    <2>2. request' \in [Workers -> Requests \cup {Idle}]
      BY <1>1, <2>1, RequestReplaced DEF BeginEdit
    <2> QED
      BY <1>1, <2>2 DEF BeginEdit, TypeOK, bookingVars, tutorVars
  <1>2. CASE LockForEdit(w)
    <2>1. request[w] \in EditRequests
      BY <1>2, RequestKinds DEF LockForEdit, At
    <2>2. [request[w] EXCEPT !.pc = "check"] \in Requests
      BY <2>1 DEF Requests, EditRequests
    <2>3. request' = [request EXCEPT ![w] = [request[w] EXCEPT !.pc = "check"]]
      BY <1>2 DEF LockForEdit, GoTo, TypeOK
    <2>4. request' \in [Workers -> Requests \cup {Idle}]
      BY <2>2, <2>3, RequestReplaced
    <2> QED
      BY <1>2, <2>4 DEF LockForEdit, LockProfile, TypeOK, bookingVars, tutorVars
  <1>3. CASE CheckEdit(w)
    <2>1. CASE Answer(w)
      BY <1>3, <2>1, AnswerType DEF CheckEdit, TypeOK, bookingVars, tutorVars
    <2>2. CASE GoTo(w, "save") /\ UNCHANGED lock
      <3>1. request[w] \in EditRequests
        BY <1>3, RequestKinds DEF CheckEdit, At
      <3>2. [request[w] EXCEPT !.pc = "save"] \in Requests
        BY <3>1 DEF Requests, EditRequests
      <3>3. request' = [request EXCEPT ![w] = [request[w] EXCEPT !.pc = "save"]]
        BY <2>2 DEF GoTo, TypeOK
      <3>4. request' \in [Workers -> Requests \cup {Idle}]
        BY <3>2, <3>3, RequestReplaced
      <3> QED
        BY <1>3, <2>2, <3>4 DEF CheckEdit, TypeOK, bookingVars, tutorVars
    <2> QED
      BY <1>3, <2>1, <2>2 DEF CheckEdit
  <1>4. CASE SaveEdit(w)
    <2>1. request[w] \in EditRequests /\ request[w].op = "edit" /\ request[w] # Idle /\ Answer(w)
      BY <1>4, RequestKinds DEF SaveEdit, At
    <2>2. request[w].row \in Rules => request[w].value # DayOff
      BY <2>1 DEF RequestFacts, RequestFact
    <2>3. /\ rows' \in [Rows -> RowValues]
          /\ \A r \in Rules : rows'[r] # DayOff
      BY <1>4, <2>1, <2>2 DEF SaveEdit, EditRequests, TypeOK, RowValues, Rows
    <2> QED
      BY <1>4, <2>1, <2>3, AnswerType DEF SaveEdit, TypeOK, bookingVars, tutorVars
  <1> QED
    BY <1>1, <1>2, <1>3, <1>4 DEF EditAvailability

LEMMA ProfileTypes ==
    ASSUME TypeOK, NEW w \in Workers, EditProfile(w)
    PROVE  TypeOK'
  <1>1. ASSUME NEW hourly \in Rates, LoadProfile(w, hourly) PROVE TypeOK'
    <2>1. [op |-> "profile", pc |-> "save", rate |-> hourly] \in Requests
      BY DEF Requests, ProfileRequests, TypeOK
    <2>2. request' \in [Workers -> Requests \cup {Idle}]
      BY <1>1, <2>1, RequestReplaced DEF LoadProfile
    <2> QED
      BY <1>1, <2>2 DEF LoadProfile, TypeOK, bookingVars, tutorVars
  <1>2. CASE SaveProfile(w)
    <2>1. request[w] \in ProfileRequests /\ Answer(w)
      BY <1>2, RequestKinds DEF SaveProfile, At
    <2>2. rate' \in Rates
      BY <1>2, <2>1 DEF SaveProfile, ProfileRequests
    <2> QED
      BY <1>2, <2>1, <2>2, AnswerType DEF SaveProfile, TypeOK, bookingVars
  <1> QED
    BY <1>1, <1>2 DEF EditProfile

LEMMA OtherTypes ==
    ASSUME TypeOK,
           \/ \E b \in Bookings : EndBooking(b)
           \/ \E row \in Rows : DeleteRow(row)
           \/ \E z \in Zones : ChangeZone(z)
    PROVE  TypeOK'
  <1>1. ASSUME NEW b \in Bookings, EndBooking(b) PROVE TypeOK'
    BY <1>1 DEF EndBooking, TypeOK, tutorVars
  <1>2. ASSUME NEW row \in Rows, DeleteRow(row) PROVE TypeOK'
    BY <1>2 DEF DeleteRow, TypeOK, Rows, RowValues, bookingVars, tutorVars
  <1>3. ASSUME NEW z \in Zones, ChangeZone(z) PROVE TypeOK'
    BY <1>3 DEF ChangeZone, TypeOK, bookingVars
  <1> QED
    BY <1>1, <1>2, <1>3

-----------------------------------------------------------------------------
\* A worker's checks stay good as long as nobody who does not hold the lock
\* does more than free a slot or delete a row.
Harmless(v) ==
    /\ request'[v] = request[v]
    /\ lock = v => /\ lock' = v /\ rate' = rate
                   /\ \A b \in Bookings : slot'[b] # NoRow => slot'[b] = slot[b]
                   /\ \A r \in Rows : rows'[r] # NoRow => rows'[r] = rows[r]

LEMMA Undisturbed ==
    ASSUME NEW v \in Workers, RequestFact(v), Harmless(v)
    PROVE  RequestFact(v)'
  <1> PICK q : q = request[v] /\ q = request'[v]
    BY DEF Harmless
  <1>1. SUFFICES ASSUME q # Idle PROVE RequestFact(v)'
    BY DEF RequestFact
  <1>2. q.op # "profile" /\ q.pc # "lock" => lock = v /\ lock' = v
    BY <1>1 DEF Harmless, RequestFact
  <1>3. q.op = "book" /\ q.pc # "lock" => q.rate = rate'
    BY <1>1, <1>2 DEF Harmless, RequestFact
  <1>4. ASSUME q.op = "book", q.pc = "insert"
        PROVE  \A b \in Active' : ~ Overlap(slot'[b], q.slot)
    BY <1>1, <1>2, <1>4 DEF Harmless, RequestFact, Active
  <1>5. ASSUME q.op = "edit", q.pc = "save" PROVE ~ Clash(q.row, q.value)'
    BY <1>1, <1>2, <1>5 DEF Harmless, RequestFact, Clash, Rows
  <1>7. ASSUME q.op = "book", q.pc \in {"override", "overlap", "insert"}
        PROVE  \A r \in Rules : rows'[r] \in {NoRow, q.seen[r]}
    BY <1>1, <1>2, <1>7 DEF Harmless, RequestFact, Rows
  <1>8. ASSUME q.op = "book", q.pc \in {"overlap", "insert"}
        PROVE  /\ rows'[Override] \in {NoRow, q.seen[Override]}
               /\ Covers(Effective(q.seen), q.zone, q.slot)
    BY <1>1, <1>2, <1>8 DEF Harmless, RequestFact, Rows
  <1>6. q.op = "edit" => (q.row \in Rules => q.value # DayOff)
    BY <1>1 DEF RequestFact
  <1>9. q.op = "book" /\ q.pc \notin {"lock", "zone"} => q.zone \in Zones
    BY <1>1 DEF RequestFact
  <1> QED
    BY <1>2, <1>3, <1>4, <1>5, <1>6, <1>7, <1>8, <1>9 DEF RequestFact, Clash

\* The facts of every worker, from the facts of the one that moved.
LEMMA OneMoved ==
    ASSUME RequestFacts, NEW w \in Workers, RequestFact(w)',
           \A v \in Workers \ {w} : Harmless(v)
    PROVE  RequestFacts'
  BY Undisturbed DEF RequestFacts

\* A worker that answered has nothing left to be wrong about.
LEMMA AnsweredFact ==
    ASSUME TypeOK, NEW w \in Workers, Answer(w)
    PROVE  /\ RequestFact(w)'
           /\ \A v \in Workers \ {w} : /\ request'[v] = request[v]
                                       /\ lock = v => lock' = v
  BY DEF TypeOK, Answer, RequestFact

-----------------------------------------------------------------------------
LEMMA BookingInv ==
    ASSUME CalendarInv, NEW w \in Workers, CreateBooking(w)
    PROVE  NoDoubleBooking' /\ RulesDisjoint' /\ RequestFacts'
  <1> USE DEF CalendarInv
  <1>1. ASSUME NEW s \in Windows, BeginBooking(w, s)
        PROVE  NoDoubleBooking' /\ RulesDisjoint' /\ RequestFacts'
    <2>1. RequestFact(w)' /\ \A v \in Workers \ {w} : Harmless(v)
      BY <1>1 DEF BeginBooking, TypeOK, bookingVars, tutorVars, Harmless, RequestFact
    <2> QED
      BY <1>1, <2>1, OneMoved DEF BeginBooking, bookingVars, NoDoubleBooking, RulesDisjoint, Active
  <1>2. CASE LockForBooking(w)
    <2>1. /\ request[w] # Idle /\ request[w].op = "book" /\ lock = Nobody /\ lock' = w
          /\ request' = [request EXCEPT ![w].pc = "zone", ![w].rate = rate]
          /\ UNCHANGED <<rows, slot, price, rate>>
      BY <1>2 DEF LockForBooking, LockProfile, RateUnderLock, At, bookingVars, tutorVars
    <2>2. request[w] \in BookRequests
      BY <2>1, RequestKinds
    <2>3. request'[w].op = "book" /\ request'[w].pc = "zone" /\ request'[w].rate = rate
      BY <2>1, <2>2 DEF TypeOK, BookRequests
    <2>4. RequestFact(w)'
      BY <2>1, <2>3 DEF RequestFact
    <2>5. \A v \in Workers \ {w} : Harmless(v)
      BY <2>1 DEF TypeOK, Harmless
    <2> QED
      BY <2>1, <2>4, <2>5, OneMoved DEF NoDoubleBooking, RulesDisjoint, Active
  <1>3. CASE ReadZone(w)
    <2>1. /\ request[w] # Idle /\ request[w].op = "book" /\ request[w].pc = "zone"
          /\ request' = [request EXCEPT ![w].pc = "rules", ![w].zone = zone]
          /\ UNCHANGED <<rows, slot, price, rate, lock>>
      BY <1>3 DEF ReadZone, At, bookingVars, tutorVars
    <2>2. request[w] \in BookRequests
      BY <2>1, RequestKinds
    <2>3. /\ request'[w].op = "book" /\ request'[w].pc = "rules"
          /\ request'[w].rate = request[w].rate /\ request'[w].zone \in Zones
      BY <2>1, <2>2 DEF TypeOK, BookRequests
    <2>4. RequestFact(w)'
      BY <2>1, <2>3 DEF RequestFact, RequestFacts
    <2>5. \A v \in Workers \ {w} : Harmless(v)
      BY <2>1 DEF TypeOK, Harmless
    <2> QED
      BY <2>1, <2>4, <2>5, OneMoved DEF NoDoubleBooking, RulesDisjoint, Active
  <1>4. CASE ReadRules(w)
    <2>1. /\ request[w] # Idle /\ request[w].op = "book" /\ request[w].pc = "rules"
          /\ request' = [request EXCEPT ![w].pc = "override",
                                        ![w].seen = [rows EXCEPT ![Override] = NoRow]]
          /\ UNCHANGED <<rows, slot, price, rate, lock>>
      BY <1>4 DEF ReadRules, At, bookingVars, tutorVars
    <2>2. request[w] \in BookRequests
      BY <2>1, RequestKinds
    <2>3. /\ request'[w].op = "book" /\ request'[w].pc = "override"
          /\ request'[w].rate = request[w].rate /\ request'[w].zone = request[w].zone
          /\ request'[w].seen = [rows EXCEPT ![Override] = NoRow]
      BY <2>1, <2>2 DEF TypeOK, BookRequests
    <2>6. \A r \in Rules : request'[w].seen[r] = rows'[r]
      BY <2>1, <2>3 DEF TypeOK, Rows
    <2>4. RequestFact(w)'
      BY <2>1, <2>3, <2>6 DEF RequestFact, RequestFacts
    <2>5. \A v \in Workers \ {w} : Harmless(v)
      BY <2>1 DEF TypeOK, Harmless
    <2> QED
      BY <2>1, <2>4, <2>5, OneMoved DEF NoDoubleBooking, RulesDisjoint, Active
  <1>5. CASE ReadOverride(w)
    <2>1. /\ request[w] # Idle /\ request[w].op = "book" /\ request[w].pc = "override"
          /\ UNCHANGED <<rows, slot, price, rate>>
      BY <1>5 DEF ReadOverride, At, bookingVars, tutorVars
    <2>2. CASE Answer(w)
      <3>1. RequestFact(w)' /\ \A v \in Workers \ {w} : Harmless(v)
        BY <2>1, <2>2, AnsweredFact DEF Harmless
      <3> QED
        BY <2>1, <3>1, OneMoved DEF NoDoubleBooking, RulesDisjoint, Active
    <2>3. CASE /\ Covers(Effective(AllSeen(w)), request[w].zone, request[w].slot)
               /\ request' = [request EXCEPT ![w].pc = "overlap", ![w].seen = AllSeen(w)]
               /\ UNCHANGED lock
      <3>1. request[w] \in BookRequests
        BY <2>1, RequestKinds
      <3>2. /\ request'[w].op = "book" /\ request'[w].pc = "overlap"
            /\ request'[w].rate = request[w].rate /\ request'[w].slot = request[w].slot
            /\ request'[w].zone = request[w].zone /\ request'[w].seen = AllSeen(w)
        BY <2>3, <3>1 DEF TypeOK, BookRequests
      <3>5. /\ \A r \in Rules : AllSeen(w)[r] = request[w].seen[r]
            /\ AllSeen(w)[Override] = rows[Override]
        BY <3>1 DEF AllSeen, BookRequests, Rows
      <3>6. \A r \in Rules : rows[r] \in {NoRow, request[w].seen[r]}
        BY <2>1 DEF RequestFacts, RequestFact
      <3>7. /\ \A r \in Rules : rows'[r] \in {NoRow, request'[w].seen[r]}
            /\ rows'[Override] \in {NoRow, request'[w].seen[Override]}
            /\ Covers(Effective(request'[w].seen), request'[w].zone, request'[w].slot)
        BY <2>1, <2>3, <3>2, <3>5, <3>6
      <3>8. lock' = w /\ request'[w].rate = rate' /\ request'[w].zone \in Zones
        BY <2>1, <2>3, <3>2 DEF RequestFact, RequestFacts
      <3>3. RequestFact(w)'
        BY <3>2, <3>7, <3>8 DEF RequestFact
      <3>4. \A v \in Workers \ {w} : Harmless(v)
        BY <2>1, <2>3 DEF TypeOK, Harmless
      <3> QED
        BY <2>1, <3>3, <3>4, OneMoved DEF NoDoubleBooking, RulesDisjoint, Active
    <2> QED
      BY <1>5, <2>2, <2>3 DEF ReadOverride, AllSeen
  <1>6. CASE CheckOverlap(w)
    <2>1. /\ request[w] # Idle /\ request[w].op = "book" /\ request[w].pc = "overlap"
          /\ UNCHANGED <<rows, slot, price, rate>>
      BY <1>6 DEF CheckOverlap, At, bookingVars, tutorVars
    <2>2. CASE Answer(w)
      <3>1. RequestFact(w)' /\ \A v \in Workers \ {w} : Harmless(v)
        BY <2>1, <2>2, AnsweredFact DEF Harmless
      <3> QED
        BY <2>1, <3>1, OneMoved DEF NoDoubleBooking, RulesDisjoint, Active
    <2>3. CASE /\ ~ \E b \in Active : Overlap(slot[b], request[w].slot)
               /\ GoTo(w, "insert") /\ UNCHANGED lock
      <3>1. request[w] \in BookRequests
        BY <2>1, RequestKinds
      <3>2. /\ request'[w].op = "book" /\ request'[w].pc = "insert"
            /\ request'[w].rate = request[w].rate /\ request'[w].slot = request[w].slot
            /\ request'[w].zone = request[w].zone /\ request'[w].seen = request[w].seen
        BY <2>3, <3>1 DEF TypeOK, GoTo, BookRequests
      <3>3. \A b \in Active' : ~ Overlap(slot'[b], request'[w].slot)
        BY <2>1, <2>3, <3>2 DEF Active
      <3>4. RequestFact(w)'
        BY <2>1, <2>3, <3>2, <3>3 DEF RequestFact, RequestFacts
      <3>5. \A v \in Workers \ {w} : Harmless(v)
        BY <2>1, <2>3 DEF TypeOK, GoTo, Harmless
      <3> QED
        BY <2>1, <3>4, <3>5, OneMoved DEF NoDoubleBooking, RulesDisjoint, Active
    <2> QED
      BY <1>6, <2>2, <2>3 DEF CheckOverlap
  <1>7. CASE InsertBooking(w)
    <2>1. PICK b \in Bookings :
             /\ slot[b] = NoRow
             /\ slot' = [slot EXCEPT ![b] = request[w].slot]
      BY <1>7 DEF InsertBooking
    <2>2. /\ request[w] # Idle /\ request[w].op = "book" /\ request[w].pc = "insert"
          /\ Answer(w) /\ UNCHANGED <<rows, rate>>
      BY <1>7 DEF InsertBooking, At, tutorVars
    <2>3. lock = w /\ \A a \in Active : ~ Overlap(slot[a], request[w].slot)
      BY <2>2 DEF RequestFacts, RequestFact
    <2>4. \A a \in Bookings : slot'[a] = IF a = b THEN request[w].slot ELSE slot[a]
      BY <2>1 DEF TypeOK
    <2>5. NoDoubleBooking'
      BY <2>3, <2>4, OverlapCommutes DEF NoDoubleBooking, Active
    <2>6. RequestFact(w)' /\ \A v \in Workers \ {w} : Harmless(v)
      BY <2>2, <2>3, AnsweredFact DEF Harmless
    <2> QED
      BY <2>2, <2>5, <2>6, OneMoved DEF RulesDisjoint
  <1> QED
    BY <1>1, <1>2, <1>3, <1>4, <1>5, <1>6, <1>7 DEF CreateBooking

LEMMA EditInv ==
    ASSUME CalendarInv, NEW w \in Workers, EditAvailability(w)
    PROVE  NoDoubleBooking' /\ RulesDisjoint' /\ RequestFacts'
  <1> USE DEF CalendarInv
  <1>1. ASSUME NEW row \in Rows, NEW fresh \in BOOLEAN, NEW value \in Windows \cup {DayOff},
               BeginEdit(w, row, fresh, value)
        PROVE  NoDoubleBooking' /\ RulesDisjoint' /\ RequestFacts'
    <2>1. RequestFact(w)' /\ \A v \in Workers \ {w} : Harmless(v)
      BY <1>1 DEF BeginEdit, TypeOK, bookingVars, tutorVars, Harmless, RequestFact
    <2> QED
      BY <1>1, <2>1, OneMoved DEF BeginEdit, bookingVars, NoDoubleBooking, RulesDisjoint, Active
  <1>2. CASE LockForEdit(w)
    <2>1. /\ request[w] # Idle /\ request[w].op = "edit" /\ lock = Nobody /\ lock' = w
          /\ GoTo(w, "check") /\ UNCHANGED <<rows, slot, price, rate>>
      BY <1>2 DEF LockForEdit, LockProfile, At, bookingVars, tutorVars
    <2>2. request[w] \in EditRequests
      BY <2>1, RequestKinds
    <2>3. /\ request'[w].op = "edit" /\ request'[w].pc = "check"
          /\ request'[w].row = request[w].row /\ request'[w].value = request[w].value
      BY <2>1, <2>2 DEF TypeOK, GoTo, EditRequests
    <2>4. RequestFact(w)'
      BY <2>1, <2>3 DEF RequestFact, RequestFacts
    <2>5. \A v \in Workers \ {w} : Harmless(v)
      BY <2>1 DEF TypeOK, GoTo, Harmless
    <2> QED
      BY <2>1, <2>4, <2>5, OneMoved DEF NoDoubleBooking, RulesDisjoint, Active
  <1>3. CASE CheckEdit(w)
    <2>1. /\ request[w] # Idle /\ request[w].op = "edit" /\ request[w].pc = "check"
          /\ UNCHANGED <<rows, slot, price, rate>>
      BY <1>3 DEF CheckEdit, At, bookingVars, tutorVars
    <2>2. CASE Answer(w)
      <3>1. RequestFact(w)' /\ \A v \in Workers \ {w} : Harmless(v)
        BY <2>1, <2>2, AnsweredFact DEF Harmless
      <3> QED
        BY <2>1, <3>1, OneMoved DEF NoDoubleBooking, RulesDisjoint, Active
    <2>3. CASE /\ ~ Clash(request[w].row, request[w].value)
               /\ GoTo(w, "save") /\ UNCHANGED lock
      <3>1. request[w] \in EditRequests
        BY <2>1, RequestKinds
      <3>2. /\ request'[w].op = "edit" /\ request'[w].pc = "save"
            /\ request'[w].row = request[w].row /\ request'[w].value = request[w].value
        BY <2>3, <3>1 DEF TypeOK, GoTo, EditRequests
      <3>3. ~ Clash(request[w].row, request[w].value)'
        BY <2>1, <2>3, <3>2 DEF Clash
      <3>4. RequestFact(w)'
        BY <2>1, <2>3, <3>2, <3>3 DEF RequestFact, RequestFacts
      <3>5. \A v \in Workers \ {w} : Harmless(v)
        BY <2>1, <2>3 DEF TypeOK, GoTo, Harmless
      <3> QED
        BY <2>1, <3>4, <3>5, OneMoved DEF NoDoubleBooking, RulesDisjoint, Active
    <2> QED
      BY <1>3, <2>2, <2>3 DEF CheckEdit
  <1>4. CASE SaveEdit(w)
    <2>1. /\ request[w] # Idle /\ request[w].op = "edit" /\ request[w].pc = "save"
          /\ rows' = [rows EXCEPT ![request[w].row] = request[w].value]
          /\ Answer(w) /\ UNCHANGED <<slot, price, rate>>
      BY <1>4 DEF SaveEdit, At, bookingVars, tutorVars
    <2>2. lock = w /\ ~ Clash(request[w].row, request[w].value)
      BY <2>1 DEF RequestFacts, RequestFact
    <2>3. \A r \in Rules : rows'[r] = IF r = request[w].row THEN request[w].value ELSE rows[r]
      BY <2>1 DEF TypeOK, Rows
    <2>4. RulesDisjoint'
      BY <2>2, <2>3, OverlapCommutes DEF RulesDisjoint, Clash
    <2>5. RequestFact(w)' /\ \A v \in Workers \ {w} : Harmless(v)
      BY <2>1, <2>2, AnsweredFact DEF Harmless
    <2> QED
      BY <2>1, <2>4, <2>5, OneMoved DEF NoDoubleBooking, Active
  <1> QED
    BY <1>1, <1>2, <1>3, <1>4 DEF EditAvailability

LEMMA ProfileInv ==
    ASSUME CalendarInv, NEW w \in Workers, EditProfile(w)
    PROVE  NoDoubleBooking' /\ RulesDisjoint' /\ RequestFacts'
  <1> USE DEF CalendarInv
  <1>1. ASSUME NEW hourly \in Rates, LoadProfile(w, hourly)
        PROVE  NoDoubleBooking' /\ RulesDisjoint' /\ RequestFacts'
    <2>1. RequestFact(w)' /\ \A v \in Workers \ {w} : Harmless(v)
      BY <1>1 DEF LoadProfile, TypeOK, bookingVars, tutorVars, Harmless, RequestFact
    <2> QED
      BY <1>1, <2>1, OneMoved DEF LoadProfile, bookingVars, NoDoubleBooking, RulesDisjoint, Active
  <1>2. CASE SaveProfile(w)
    <2>1. lock = Nobody /\ Answer(w) /\ UNCHANGED <<rows, slot, price>>
      BY <1>2 DEF SaveProfile, bookingVars
    <2>2. RequestFact(w)' /\ \A v \in Workers \ {w} : Harmless(v)
      BY <2>1, AnsweredFact DEF Harmless
    <2> QED
      BY <2>1, <2>2, OneMoved DEF NoDoubleBooking, RulesDisjoint, Active
  <1> QED
    BY <1>1, <1>2 DEF EditProfile

LEMMA OtherInv ==
    ASSUME CalendarInv,
           \/ \E b \in Bookings : EndBooking(b)
           \/ \E row \in Rows : DeleteRow(row)
           \/ \E z \in Zones : ChangeZone(z)
    PROVE  NoDoubleBooking' /\ RulesDisjoint' /\ RequestFacts'
  <1> USE DEF CalendarInv
  <1>1. ASSUME NEW b \in Bookings, EndBooking(b)
        PROVE  NoDoubleBooking' /\ RulesDisjoint' /\ RequestFacts'
    <2>1. \A a \in Bookings : slot'[a] # NoRow => slot'[a] = slot[a]
      BY <1>1 DEF EndBooking, TypeOK
    <2>2. \A v \in Workers : Harmless(v)
      BY <1>1, <2>1 DEF EndBooking, Harmless, tutorVars
    <2> QED
      BY <1>1, <2>1, <2>2, Undisturbed
      DEF EndBooking, NoDoubleBooking, RulesDisjoint, RequestFacts, Active
  <1>2. ASSUME NEW row \in Rows, DeleteRow(row)
        PROVE  NoDoubleBooking' /\ RulesDisjoint' /\ RequestFacts'
    <2>1. \A r \in Rows : rows'[r] # NoRow => rows'[r] = rows[r]
      BY <1>2 DEF DeleteRow, TypeOK
    <2>2. \A v \in Workers : Harmless(v)
      BY <1>2, <2>1 DEF DeleteRow, Harmless, bookingVars, tutorVars
    <2> QED
      BY <1>2, <2>1, <2>2, Undisturbed
      DEF DeleteRow, bookingVars, NoDoubleBooking, RulesDisjoint, RequestFacts, Active, Rows
  <1>3. ASSUME NEW z \in Zones, ChangeZone(z)
        PROVE  NoDoubleBooking' /\ RulesDisjoint' /\ RequestFacts'
    <2>1. \A v \in Workers : Harmless(v)
      BY <1>3 DEF ChangeZone, Harmless, bookingVars
    <2> QED
      BY <1>3, <2>1, Undisturbed
      DEF ChangeZone, bookingVars, NoDoubleBooking, RulesDisjoint, RequestFacts, Active
  <1> QED
    BY <1>1, <1>2, <1>3

-----------------------------------------------------------------------------
LEMMA StutterInv ==
    ASSUME CalendarInv, UNCHANGED vars
    PROVE  CalendarInv'
  <1> USE DEF vars, bookingVars, tutorVars
  <1>1. \A v \in Workers : Harmless(v)
    BY DEF Harmless
  <1>2. RequestFacts'
    BY <1>1, Undisturbed DEF CalendarInv, RequestFacts
  <1> QED
    BY <1>2 DEF CalendarInv, TypeOK, NoDoubleBooking, RulesDisjoint, Active

LEMMA StepCalendar == CalendarInv /\ [Next]_vars => CalendarInv'
  <1> SUFFICES ASSUME CalendarInv, [Next]_vars PROVE CalendarInv'
    OBVIOUS
  <1>1. TypeOK /\ RequestFacts
    BY DEF CalendarInv
  <1>2. ASSUME NEW w \in Workers, CreateBooking(w) PROVE CalendarInv'
    BY <1>1, <1>2, BookingTypes, BookingInv DEF CalendarInv
  <1>3. ASSUME NEW w \in Workers, EditAvailability(w) PROVE CalendarInv'
    BY <1>1, <1>3, EditTypes, EditInv DEF CalendarInv
  <1>4. ASSUME NEW w \in Workers, EditProfile(w) PROVE CalendarInv'
    BY <1>1, <1>4, ProfileTypes, ProfileInv DEF CalendarInv
  <1>5. CASE \/ \E b \in Bookings : EndBooking(b)
             \/ \E row \in Rows : DeleteRow(row)
             \/ \E z \in Zones : ChangeZone(z)
    BY <1>1, <1>5, OtherTypes, OtherInv DEF CalendarInv
  <1> QED
    BY <1>2, <1>3, <1>4, <1>5, StutterInv DEF Next

\* The invariant holds in every reachable state: whoever is past the lock holds
\* it, and what it checked still holds when it writes (bookings/services.py:221-250,
\* bookings/views.py:142-165).
THEOREM CalendarHolds == Spec => []CalendarInv
  BY InitCalendar, StepCalendar, PTL DEF Spec

\* Every variable keeps its type: no price below zero, no lock held by nobody
\* known, no request at a statement its operation does not have
\* (bookings/services.py:192-248).
THEOREM CalendarTypeCorrect == Spec => []TypeOK
  <1>1. CalendarInv => TypeOK
    BY DEF CalendarInv
  <1> QED
    BY <1>1, CalendarHolds, PTL

\* No two active bookings of a tutor overlap, with the row lock alone: the
\* exclusion constraint is a second line of defence (bookings/services.py:203-207).
THEOREM NoDoubleBookingHolds == Spec => []NoDoubleBooking
  <1>1. CalendarInv => NoDoubleBooking
    BY DEF CalendarInv
  <1> QED
    BY <1>1, CalendarHolds, PTL

\* The weekly windows never overlap, although deletions take no lock
\* (bookings/views.py:156-162).
THEOREM RulesDisjointHolds == Spec => []RulesDisjoint
  <1>1. CalendarInv => RulesDisjoint
    BY DEF CalendarInv
  <1> QED
    BY <1>1, CalendarHolds, PTL

\* A booking is priced at the rate committed when it is inserted, since the row lock
\* makes a change of the rate wait: right to half a kopeck, but for the microseconds
\* of its length, which are dropped (bookings/services.py:222-223, 236-240).
THEOREM PricedAtCommittedRateHolds == Spec => PricedAtCommittedRate
  <1>1. ASSUME CalendarInv, [Next]_vars PROVE [CommittedRate]_vars
    <2>1. SUFFICES ASSUME NEW b \in Bookings, slot[b] = NoRow, slot'[b] # NoRow
                   PROVE  Close(price'[b], rate, (slot'[b][2] - slot'[b][1]) * PointLength)
      BY DEF CommittedRate
    <2>2. PICK w \in Workers : InsertBooking(w)
      BY <1>1, <2>1 DEF Next, vars, bookingVars, CreateBooking, BeginBooking, LockForBooking,
         ReadZone, ReadRules, ReadOverride, CheckOverlap, EditAvailability, BeginEdit,
         LockForEdit, CheckEdit, SaveEdit, EditProfile, LoadProfile, SaveProfile, EndBooking,
         DeleteRow, ChangeZone, CalendarInv, TypeOK
    <2>3. request[w] # Idle /\ request[w].op = "book" /\ request[w].pc = "insert"
      BY <2>2 DEF InsertBooking, At
    <2>4. request[w].rate = rate
      BY <1>1, <2>3 DEF CalendarInv, RequestFacts, RequestFact
    <2>5. slot'[b] = request[w].slot /\ price'[b] \in Prices(request[w].slot, request[w].rate)
      BY <1>1, <2>1, <2>2 DEF InsertBooking, CalendarInv, TypeOK
    <2>6. request[w].slot \in Windows /\ rate \in Rates
      BY <1>1, <2>3, RequestKinds DEF CalendarInv, TypeOK, BookRequests
    <2>7. Close(price'[b], rate, (request[w].slot[2] - request[w].slot[1]) * PointLength)
      BY <2>4, <2>5, <2>6, PriceType
    <2> QED
      BY <2>5, <2>7
  <1> QED
    BY <1>1, CalendarHolds, PTL DEF Spec, PricedAtCommittedRate

\* A booking is inserted within the availability of that moment, unless the tutor
\* deleted a row that it had read or moved to another timezone: nothing else writes
\* the rows of a tutor whose lock is held (bookings/services.py:200-202, 225;
\* views.py:147-150; users/views.py:40-48).
THEOREM AcceptedIsOfferedHolds == Spec => []AcceptedIsOffered
  <1>1. ASSUME CalendarInv PROVE AcceptedIsOffered
    <2>1. SUFFICES ASSUME NEW w \in Workers, At(w, "book", "insert"),
                          \A r \in Rows : request[w].seen[r] # NoRow => rows[r] # NoRow,
                          zone = request[w].zone
                   PROVE  Covers(Effective(rows), zone, request[w].slot)
      BY DEF AcceptedIsOffered
    <2>2. /\ \A r \in Rules : rows[r] \in {NoRow, request[w].seen[r]}
          /\ rows[Override] \in {NoRow, request[w].seen[Override]}
          /\ Covers(Effective(request[w].seen), request[w].zone, request[w].slot)
      BY <1>1, <2>1 DEF CalendarInv, RequestFacts, RequestFact, At
    <2>3. \A r \in Rows : rows[r] = request[w].seen[r]
      BY <2>1, <2>2 DEF Rows
    <2>4. RuleWindows(rows) = RuleWindows(request[w].seen)
      BY <2>3 DEF RuleWindows, Rows
    <2>5. Effective(rows) = Effective(request[w].seen)
      BY <2>3, <2>4 DEF Effective, Rows
    <2> QED
      BY <2>1, <2>2, <2>5
  <1> QED
    BY <1>1, CalendarHolds, PTL

-----------------------------------------------------------------------------
\* Each step of the calendar is an entry in the diary, or none.

LEMMA SameDiary ==
    ASSUME UNCHANGED <<rows, slot, price, rate>>
    PROVE  [Ideal!Next]_Ideal!diaryVars
  BY DEF Ideal!diaryVars

LEMMA DisjointIsNoOverlap ==
    ASSUME NEW v \in Windows, NEW w \in Windows, ~ Overlap(v, w)
    PROVE  Ideal!Disjoint(v, w)
  <1>1. v[1] \in Nat /\ v[2] \in Nat /\ w[1] \in Nat /\ w[2] \in Nat
    BY TimesAssumption DEF Windows
  <1> QED
    BY <1>1 DEF Overlap, Ideal!Disjoint

LEMMA CloseIsRounded ==
    ASSUME NEW x \in Nat, NEW hourly \in Nat, NEW length \in Nat, Close(x, hourly, length)
    PROVE  Ideal!Rounded(x, hourly, length)
  <1> PICK t \in Nat \ {0} : t = TicksPerSecond
    BY TimesAssumption
  <1> PICK paid \in Nat, due \in Nat, free \in Nat :
          paid = 3600 * t * x /\ due = hourly * length /\ free = hourly * (t - 1)
    BY SMT
  <1>1. paid <= due + 1800 * t /\ due <= paid + 1800 * t + free
    BY DEF Close
  <1>2. /\ 2 * (paid - due) <= 3600 * t
        /\ -2 * (paid - due + free) <= 3600 * t
    BY <1>1, SMT
  <1> QED
    BY <1>2 DEF Ideal!Rounded

LEMMA InsertIsBook ==
    ASSUME CalendarInv, NEW w \in Workers, InsertBooking(w)
    PROVE  Ideal!Next
  <1>1. /\ request[w] # Idle /\ request[w].op = "book" /\ request[w].pc = "insert"
        /\ UNCHANGED <<rows, rate>>
    BY DEF InsertBooking, At, tutorVars
  <1>2. /\ \A a \in Active : ~ Overlap(slot[a], request[w].slot)
        /\ request[w].rate = rate
    BY <1>1 DEF CalendarInv, RequestFacts, RequestFact
  <1>3. request[w].slot \in Windows /\ rate \in Rates /\ rate \in Nat
    BY <1>1, RequestKinds, RatesAssumption DEF CalendarInv, TypeOK, BookRequests
  <1>4. PICK b \in Bookings, x \in Prices(request[w].slot, rate) :
           /\ slot[b] = NoRow
           /\ slot' = [slot EXCEPT ![b] = request[w].slot]
           /\ price' = [price EXCEPT ![b] = x]
    BY <1>2 DEF InsertBooking
  <1> PICK s \in Windows : s = request[w].slot
    BY <1>3
  <1> DEFINE length == (s[2] - s[1]) * PointLength
  <1>5. x \in Nat /\ length \in Nat /\ Close(x, rate, length)
    BY <1>3, <1>4, PriceType
  <1>6. Ideal!Rounded(x, rate, length)
    <2> HIDE DEF length
    <2> QED
      BY <1>3, <1>5, CloseIsRounded
  <1>7. price'[b] = x
    BY <1>4 DEF CalendarInv, TypeOK
  <1>8. \A a \in Bookings : slot[a] # NoRow => Ideal!Disjoint(slot[a], s)
    BY <1>2, DisjointIsNoOverlap DEF CalendarInv, TypeOK, Active
  <1>9. Ideal!Book(b, s)
    <2>1. price'[b] \in Nat /\ price' = [price EXCEPT ![b] = price'[b]]
      BY <1>4, <1>5, <1>7
    <2>2. slot' = [slot EXCEPT ![b] = s]
      BY <1>4
    <2>3. Ideal!Rounded(price'[b], rate, (s[2] - s[1]) * PointLength)
      BY <1>6, <1>7
    <2> HIDE DEF length
    <2> QED
      BY <1>1, <1>4, <1>8, <2>1, <2>2, <2>3 DEF Ideal!Book
  <1> QED
    BY <1>9 DEF Ideal!Next, Ideal!Windows, Windows

LEMMA SaveIsOffer ==
    ASSUME CalendarInv, NEW w \in Workers, SaveEdit(w)
    PROVE  Ideal!Next
  <1>1. /\ request[w] # Idle /\ request[w].op = "edit" /\ request[w].pc = "save"
        /\ UNCHANGED <<slot, price, rate>>
        /\ rows' = [rows EXCEPT ![request[w].row] = request[w].value]
    BY DEF SaveEdit, At, bookingVars, tutorVars
  <1>2. PICK row, value : row = request[w].row /\ value = request[w].value
    OBVIOUS
  <1>3. /\ ~ Clash(row, value)
        /\ row \in Rules => value # DayOff
    BY <1>1, <1>2 DEF CalendarInv, RequestFacts, RequestFact
  <1>4. row \in Rows /\ value \in Windows \cup {DayOff}
    BY <1>1, <1>2, RequestKinds DEF CalendarInv, EditRequests
  <1>5. CASE row \in Rules
    <2>1. value \in Windows
      BY <1>3, <1>4, <1>5
    <2>2. \A q \in Rules \ {row} : rows[q] # NoRow => rows[q] \in Windows
      BY DEF CalendarInv, TypeOK, Rows, RowValues
    <2>3. \A q \in Rules \ {row} : rows[q] # NoRow => Ideal!Disjoint(rows[q], value)
      BY <1>3, <1>5, <2>1, <2>2, DisjointIsNoOverlap DEF Clash
    <2>4. Ideal!Offer(row, value)
      BY <1>1, <1>2, <2>3 DEF Ideal!Offer
    <2> QED
      BY <1>5, <2>1, <2>4 DEF Ideal!Next, Ideal!Windows, Windows
  <1>6. CASE row = Override
    <2>1. Ideal!Except(value)
      BY <1>1, <1>2, <1>6 DEF Ideal!Except
    <2> QED
      BY <1>4, <2>1 DEF Ideal!Next, Ideal!Windows, Windows
  <1> QED
    BY <1>4, <1>5, <1>6 DEF Rows

LEMMA SaveIsCharge ==
    ASSUME CalendarInv, NEW w \in Workers, SaveProfile(w)
    PROVE  Ideal!Next
  <1>1. request[w] # Idle /\ request[w].op = "profile" /\ rate' = request[w].rate
    BY DEF SaveProfile, At
  <1>2. request[w].rate \in Rates
    BY <1>1, RequestKinds DEF CalendarInv, ProfileRequests
  <1>3. Ideal!Charge(request[w].rate)
    BY <1>1 DEF SaveProfile, bookingVars, Ideal!Charge
  <1> QED
    BY <1>2, <1>3 DEF Ideal!Next

LEMMA StepDiary == CalendarInv /\ [Next]_vars => [Ideal!Next]_Ideal!diaryVars
  <1> SUFFICES ASSUME CalendarInv, [Next]_vars PROVE [Ideal!Next]_Ideal!diaryVars
    OBVIOUS
  <1>1. ASSUME NEW w \in Workers, CreateBooking(w) PROVE [Ideal!Next]_Ideal!diaryVars
    <2>1. CASE InsertBooking(w)
      BY <2>1, InsertIsBook
    <2>2. CASE ~ InsertBooking(w)
      BY <1>1, <2>2, SameDiary DEF CreateBooking, BeginBooking, LockForBooking, ReadZone,
         ReadRules, ReadOverride, CheckOverlap, bookingVars, tutorVars
    <2> QED
      BY <2>1, <2>2
  <1>2. ASSUME NEW w \in Workers, EditAvailability(w) PROVE [Ideal!Next]_Ideal!diaryVars
    <2>1. CASE SaveEdit(w)
      BY <2>1, SaveIsOffer
    <2>2. CASE ~ SaveEdit(w)
      BY <1>2, <2>2, SameDiary DEF EditAvailability, BeginEdit, LockForEdit, CheckEdit,
         bookingVars, tutorVars
    <2> QED
      BY <2>1, <2>2
  <1>3. ASSUME NEW w \in Workers, EditProfile(w) PROVE [Ideal!Next]_Ideal!diaryVars
    <2>1. CASE SaveProfile(w)
      BY <2>1, SaveIsCharge
    <2>2. CASE ~ SaveProfile(w)
      BY <1>3, <2>2, SameDiary DEF EditProfile, LoadProfile, bookingVars, tutorVars
    <2> QED
      BY <2>1, <2>2
  <1>4. ASSUME NEW b \in Bookings, EndBooking(b) PROVE [Ideal!Next]_Ideal!diaryVars
    <2>1. Ideal!Free(b)
      BY <1>4 DEF EndBooking, Active, tutorVars, Ideal!Free
    <2> QED
      BY <2>1 DEF Ideal!Next
  <1>5. ASSUME NEW row \in Rows, DeleteRow(row) PROVE [Ideal!Next]_Ideal!diaryVars
    <2>1. Ideal!Remove(row)
      BY <1>5 DEF DeleteRow, bookingVars, tutorVars, Ideal!Remove
    <2> QED
      BY <2>1 DEF Ideal!Next, Rows
  <1>6. ASSUME NEW z \in Zones, ChangeZone(z) PROVE [Ideal!Next]_Ideal!diaryVars
    BY <1>6, SameDiary DEF ChangeZone, bookingVars
  <1>7. CASE UNCHANGED vars
    BY <1>7, SameDiary DEF vars, bookingVars, tutorVars
  <1> QED
    BY <1>1, <1>2, <1>3, <1>4, <1>5, <1>6, <1>7 DEF Next

\* The calendar implements the diary: requests, edits and profile forms, in
\* statements that interleave in any order, write each lesson apart from all the
\* others and at the present rate, and each rule apart from the other rules
\* (bookings/services.py:203-207, 221-248; bookings/views.py:142-165).
THEOREM ImplementsDiaryHolds == Spec => ImplementsDiary
  <1>1. Init => Ideal!Init
    BY DEF Init, NoRows, Rows, Ideal!Init
  <1> QED
    BY <1>1, StepDiary, CalendarHolds, PTL DEF Spec, ImplementsDiary, Ideal!Spec
=============================================================================
