-------------------------- MODULE WallClockProofs --------------------------
(***************************************************************************)
(* From wall-clock windows to UTC, for any change of offset, any rules and *)
(* exceptions, and any query: the bisection, _local_to_utc, and the        *)
(* intervals of expand_availability.                                       *)
(***************************************************************************)
EXTENDS FreeSlots, FiniteSetTheorems, TLAPS

\* Every set of naturals has a least element: what induction is replaced by here.
LEMMA LeastNumber ==
    ASSUME NEW S, S \subseteq Nat, S # {}
    PROVE  \E n \in S : \A m \in S : n <= m
  <1> DEFINE R == OpToRel(<, Nat)
  <1>1. IsWellFoundedOn(R, Nat)
    BY NatLessThanWellFounded
  <1>2. PICK n \in S : \A m \in S : ~ (<<m, n>> \in R)
    <2> HIDE DEF R
    <2> QED BY <1>1, WFMin, Zenon
  <1>3. ASSUME NEW m \in S PROVE n <= m
    <2>1. ~ (<<m, n>> \in R)
      BY <1>2
    <2>2. ~ (m < n)
      BY <2>1 DEF OpToRel
    <2> QED
      BY <2>2
  <1> QED
    BY <1>3

\* The bisection finds the instant at which the offset changes.
LEMMA TransitionFound ==
    ASSUME NEW z \in Zone, z.before # z.after,
           NEW lo \in Int, NEW hi \in Int, lo < z.at, z.at <= hi
    PROVE  Transition(z, lo, hi) = z.at
  <1> DEFINE Step(f) == [r \in Brackets(z) |->
                LET mid == (r[1] + r[2]) \div 2
                IN  IF r[2] - r[1] <= 1 THEN r[2]
                    ELSE IF Offset(z, mid) = Offset(z, hi) THEN f[<<r[1], mid>>]
                    ELSE f[<<mid, r[2]>>]]
  <1> DEFINE h == [r \in Brackets(z) |-> z.at]
  <1> DEFINE g == CHOOSE f : f = Step(f)
  <1>1. Transition(z, lo, hi) = g[<<lo, hi>>]
    BY DEF Transition
  <1>2. z.at \in Int /\ Offset(z, hi) = z.after
    BY DEF Zone, Offset
  <1>3. ASSUME NEW r \in Brackets(z), r[2] - r[1] <= 1
        PROVE  r[2] = z.at
    BY <1>2, <1>3 DEF Brackets
  <1>4. ASSUME NEW r \in Brackets(z), ~ (r[2] - r[1] <= 1),
               NEW mid, mid = (r[1] + r[2]) \div 2
        PROVE  /\ mid \in Int /\ r[1] < mid /\ mid < r[2]
               /\ Offset(z, mid) = Offset(z, hi) => <<r[1], mid>> \in Brackets(z)
               /\ Offset(z, mid) # Offset(z, hi) => <<mid, r[2]>> \in Brackets(z)
    <2>1. r[1] \in Int /\ r[2] \in Int /\ r[1] < z.at /\ z.at <= r[2]
      BY DEF Brackets
    <2>2. mid \in Int /\ r[1] < mid /\ mid < r[2]
      BY <1>4, <2>1
    <2>3. Offset(z, mid) = Offset(z, hi) <=> z.at <= mid
      BY <1>2, <2>2 DEF Offset
    <2> QED
      BY <1>2, <2>1, <2>2, <2>3 DEF Brackets
  <1>5. h = Step(h)
    <2>1. ASSUME NEW r \in Brackets(z) PROVE h[r] = Step(h)[r]
      BY <1>3, <1>4
    <2> QED
      BY <2>1
  <1>6. g = Step(g)
    BY <1>5
  <1>7. \A r \in Brackets(z) : g[r] = z.at
    <2> HIDE DEF g
    <2> DEFINE Bad == {n \in Nat : \E r \in Brackets(z) : r[2] - r[1] = n /\ g[r] # z.at}
    <2>1. SUFFICES ASSUME NEW r \in Brackets(z), g[r] # z.at PROVE FALSE
      OBVIOUS
    <2>2. r[2] - r[1] \in Bad
      BY <1>2, <2>1 DEF Brackets
    <2>3. PICK n \in Bad : \A m \in Bad : n <= m
      BY <2>2, LeastNumber
    <2>4. PICK s \in Brackets(z) : s[2] - s[1] = n /\ g[s] # z.at
      BY <2>3
    <2>5. g[s] = Step(g)[s]
      BY <1>6
    <2>6. ~ (s[2] - s[1] <= 1)
      BY <1>3, <2>4, <2>5
    <2>7. PICK mid : mid = (s[1] + s[2]) \div 2
      OBVIOUS
    <2>8. ASSUME NEW t \in Brackets(z), t[2] - t[1] < n
          PROVE  g[t] = z.at
      <3>1. t[2] - t[1] \in Nat
        BY <1>2 DEF Brackets
      <3> QED
        BY <2>3, <2>8, <3>1
    <2>9. s[1] \in Int /\ s[2] \in Int
      BY DEF Brackets
    <2>10. CASE Offset(z, mid) = Offset(z, hi)
      <3>1. g[s] = g[<<s[1], mid>>]
        BY <2>5, <2>6, <2>7, <2>10
      <3>2. <<s[1], mid>> \in Brackets(z) /\ s[1] < mid /\ mid < s[2] /\ mid \in Int
        BY <1>4, <2>6, <2>7, <2>10
      <3>3. mid - s[1] < n
        BY <2>4, <2>9, <3>2
      <3>4. g[<<s[1], mid>>] = z.at
        BY <2>8, <3>2, <3>3
      <3> QED
        BY <2>4, <3>1, <3>4
    <2>11. CASE Offset(z, mid) # Offset(z, hi)
      <3>1. g[s] = g[<<mid, s[2]>>]
        BY <2>5, <2>6, <2>7, <2>11
      <3>2. <<mid, s[2]>> \in Brackets(z) /\ s[1] < mid /\ mid < s[2] /\ mid \in Int
        BY <1>4, <2>6, <2>7, <2>11
      <3>3. s[2] - mid < n
        BY <2>4, <2>9, <3>2
      <3>4. g[<<mid, s[2]>>] = z.at
        BY <2>8, <3>2, <3>3
      <3> QED
        BY <2>4, <3>1, <3>4
    <2> QED
      BY <2>10, <2>11
  <1> QED
    BY <1>1, <1>7 DEF Brackets

-----------------------------------------------------------------------------
\* Dates and times.

LEMMA DateAndTime ==
    ASSUME NEW x \in Int
    PROVE  /\ DateOf(x) \in Int /\ TimeOf(x) \in 0 .. (DayLength - 1)
           /\ x = WallClock(DateOf(x), TimeOf(x))
  BY CalendarAssumption DEF DateOf, TimeOf, WallClock

LEMMA WallClockOrder ==
    ASSUME NEW d \in Int, NEW e \in Int,
           NEW s \in 0 .. (DayLength - 1), NEW t \in 0 .. (DayLength - 1), d < e
    PROVE  WallClock(d, s) < WallClock(e, t)
  <1>1. DayLength \in Nat
    BY CalendarAssumption
  <1>2. PICK k \in Nat : e = d + 1 + k
    <2>1. e - d - 1 \in Nat /\ e = d + 1 + (e - d - 1)
      OBVIOUS
    <2> QED
      BY <2>1
  <1>3. e * DayLength = d * DayLength + DayLength + k * DayLength
    BY <1>1, <1>2
  <1>4. k * DayLength >= 0
    BY <1>1
  <1> QED
    BY <1>1, <1>3, <1>4 DEF WallClock

\* Wall-clock points are ordered by date, then by time.
LEMMA DateOrder ==
    ASSUME NEW x \in Int, NEW y \in Int, x <= y
    PROVE  DateOf(x) <= DateOf(y)
  <1>1. SUFFICES ASSUME DateOf(y) < DateOf(x) PROVE FALSE
    BY DateAndTime
  <1>2. WallClock(DateOf(y), TimeOf(y)) < WallClock(DateOf(x), TimeOf(x))
    BY <1>1, DateAndTime, WallClockOrder
  <1> QED
    BY <1>2, DateAndTime

\* A point lies in a window of a date if it has that date and a time within.
LEMMA WindowOfDate ==
    ASSUME NEW x \in Int, NEW d \in Int,
           NEW s \in 0 .. (DayLength - 1), NEW t \in 0 .. (DayLength - 1)
    PROVE  WallClock(d, s) <= x /\ x < WallClock(d, t)
             <=> DateOf(x) = d /\ s <= TimeOf(x) /\ TimeOf(x) < t
  <1>1. DateOf(x) \in Int /\ TimeOf(x) \in 0 .. (DayLength - 1)
    BY DateAndTime
  <1>2. x = WallClock(DateOf(x), TimeOf(x))
    BY DateAndTime
  <1>3. CASE DateOf(x) = d
    BY <1>1, <1>2, <1>3, CalendarAssumption DEF WallClock
  <1>4. CASE DateOf(x) < d
    <2>1. x < WallClock(d, s)
      BY <1>1, <1>2, <1>4, WallClockOrder
    <2> QED
      BY <1>1, <1>4, <2>1, CalendarAssumption DEF WallClock
  <1>5. CASE d < DateOf(x)
    <2>1. WallClock(d, t) < x
      BY <1>1, <1>2, <1>5, WallClockOrder
    <2> QED
      BY <1>1, <1>5, <2>1, CalendarAssumption DEF WallClock
  <1> QED
    BY <1>1, <1>3, <1>4, <1>5

-----------------------------------------------------------------------------
\* _local_to_utc: a skipped point maps to the transition, any other one to the
\* instant zoneinfo gives its first showing.
LEMMA ToUtcForm ==
    ASSUME NEW z \in Zone, NEW x \in Int
    PROVE  LocalToUtc(z, x) =
             IF z.at + z.before <= x /\ x < z.at + z.after THEN z.at
             ELSE IF x < z.at + z.before THEN x - z.before ELSE x - z.after
  <1>1. z.before \in Int /\ z.after \in Int /\ z.at \in Int
    BY DEF Zone
  <1> DEFINE utc == FromLocal(z, x, 0)
  <1>2. CASE z.at + z.before <= x /\ x < z.at + z.after
    <2>1. utc = x - z.before /\ FromLocal(z, x, 1) = x - z.after
      BY <1>1, <1>2 DEF FromLocal, Later, Earlier
    <2>2. Local(z, utc) # x
      BY <1>1, <1>2, <2>1 DEF Local, Offset
    <2>3. Transition(z, FromLocal(z, x, 1), utc) = z.at
      BY <1>1, <1>2, <2>1, TransitionFound
    <2> QED
      BY <1>2, <2>2, <2>3 DEF LocalToUtc
  <1>3. CASE ~ (z.at + z.before <= x /\ x < z.at + z.after)
    <2>1. utc = IF x < z.at + z.before THEN x - z.before ELSE x - z.after
      BY <1>1, <1>3 DEF FromLocal, Later
    <2>2. Local(z, utc) = x
      BY <1>1, <1>3, <2>1 DEF Local, Offset
    <2> QED
      BY <1>3, <2>1, <2>2 DEF LocalToUtc
  <1> QED
    BY <1>2, <1>3

\* _local_to_utc gives the first instant at which the wall clock has reached a
\* point, for any change of offset and for any point, skipped or repeated.
THEOREM ToUtcIsFirst ==
    ASSUME NEW z \in Zone, NEW x \in Int
    PROVE  /\ LocalToUtc(z, x) \in Int
           /\ \A u \in Int : LocalToUtc(z, x) <= u <=> x <= Reached(z, u)
  <1>1. z.before \in Int /\ z.after \in Int /\ z.at \in Int
    BY DEF Zone
  <1> QED
    BY <1>1, ToUtcForm DEF Reached, Local, Offset, Later

\* A window that crosses a spring-forward shrinks by what is skipped, one inside
\* the gap disappears, one that crosses a fall-back grows by what is repeated, and
\* any other keeps its length (expand_availability's docstring,
\* bookings/services.py:85-90).
THEOREM WindowAcrossChange ==
    ASSUME NEW z \in Zone, NEW x \in Int, NEW y \in Int, x < y
    PROVE  LET length == LocalToUtc(z, y) - LocalToUtc(z, x)
               change == z.at + z.before
               resume == z.at + z.after
           IN  /\ y < change \/ (resume <= x /\ change <= x) => length = y - x
               /\ x < change /\ resume <= y /\ change <= y =>
                      length = (y - x) + (z.before - z.after)
               /\ change <= x /\ y <= resume => length = 0
  <1>1. z.before \in Int /\ z.after \in Int /\ z.at \in Int
    BY DEF Zone
  <1> DEFINE form(p) == IF z.at + z.before <= p /\ p < z.at + z.after THEN z.at
                        ELSE IF p < z.at + z.before THEN p - z.before ELSE p - z.after
  <1>2. LocalToUtc(z, x) = form(x) /\ LocalToUtc(z, y) = form(y)
    BY ToUtcForm
  <1> QED
    BY <1>1, <1>2

-----------------------------------------------------------------------------
\* expand_availability.

LEMMA ReachedType ==
    ASSUME NEW z \in Zone, NEW u \in Int
    PROVE  Reached(z, u) \in Int /\ Local(z, u) \in Int
  BY DEF Zone, Reached, Local, Offset, Later

\* A window of a date holds, in UTC, the instants at which the wall clock has
\* reached that window on that date.
LEMMA UtcWindowExact ==
    ASSUME NEW z \in Zone, timezone = z, NEW d \in Int, NEW w \in Windows
    PROVE  /\ UtcWindow(d, w)[1] \in Int /\ UtcWindow(d, w)[2] \in Int
           /\ \A u \in Int : UtcWindow(d, w)[1] <= u /\ u < UtcWindow(d, w)[2]
                              <=> DateOf(Reached(z, u)) = d /\ Within(Reached(z, u), w)
  <1>1. w[1] \in 0 .. (DayLength - 1) /\ w[2] \in 0 .. (DayLength - 1)
    BY CalendarAssumption DEF Windows
  <1>2. WallClock(d, w[1]) \in Int /\ WallClock(d, w[2]) \in Int
    BY <1>1, CalendarAssumption DEF WallClock
  <1>3. /\ UtcWindow(d, w)[1] = LocalToUtc(z, WallClock(d, w[1]))
        /\ UtcWindow(d, w)[2] = LocalToUtc(z, WallClock(d, w[2]))
    BY DEF UtcWindow
  <1>4. UtcWindow(d, w)[1] \in Int /\ UtcWindow(d, w)[2] \in Int
    BY <1>2, <1>3, ToUtcIsFirst
  <1>5. ASSUME NEW u \in Int
        PROVE  UtcWindow(d, w)[1] <= u /\ u < UtcWindow(d, w)[2]
                 <=> DateOf(Reached(z, u)) = d /\ Within(Reached(z, u), w)
    <2>1. UtcWindow(d, w)[1] <= u <=> WallClock(d, w[1]) <= Reached(z, u)
      BY <1>2, <1>3, ToUtcIsFirst
    <2>2. UtcWindow(d, w)[2] <= u <=> WallClock(d, w[2]) <= Reached(z, u)
      BY <1>2, <1>3, ToUtcIsFirst
    <2>3. u < UtcWindow(d, w)[2] <=> Reached(z, u) < WallClock(d, w[2])
      BY <1>2, <1>4, <2>2, ReachedType
    <2>4. Reached(z, u) \in Int
      BY ReachedType
    <2>5. WallClock(d, w[1]) <= Reached(z, u) /\ Reached(z, u) < WallClock(d, w[2])
            <=> DateOf(Reached(z, u)) = d /\ w[1] <= TimeOf(Reached(z, u))
                                          /\ TimeOf(Reached(z, u)) < w[2]
      BY <1>1, <2>4, WindowOfDate
    <2> QED
      BY <2>1, <2>3, <2>5 DEF Within
  <1> QED
    BY <1>4, <1>5

\* The dates between those of the two ends are enough: no window of another date
\* holds an instant of the query.
LEMMA DatesSuffice ==
    ASSUME NEW z \in Zones, timezone = z,
           NEW start \in Int, NEW end \in Int, NEW u \in start .. end
    PROVE  DateOf(Reached(z, u)) \in DatesBetween(start, end)
  <1>1. z \in Zone /\ DateOf(z.at - 1 + z.before) <= DateOf(z.at + z.after)
    BY ZonesAssumption
  <1>2. z.before \in Int /\ z.after \in Int /\ z.at \in Int
    BY <1>1 DEF Zone
  <1>3. u \in Int /\ start <= u /\ u <= end
    OBVIOUS
  <1>4. Local(z, start) \in Int /\ Local(z, end) \in Int /\ Reached(z, u) \in Int
    BY <1>1, <1>3, ReachedType
  <1>5. DateOf(Local(z, start)) <= DateOf(Reached(z, u))
    <2>1. CASE Local(z, start) <= Reached(z, u)
      BY <1>4, <2>1, DateOrder
    <2>2. CASE ~ (Local(z, start) <= Reached(z, u))
      <3>1. FALSE
        BY <1>2, <1>3, <2>2 DEF Local, Reached, Offset, Later
      <3> QED
        BY <3>1
    <2> QED
      BY <2>1, <2>2
  <1>6. DateOf(Reached(z, u)) <= DateOf(Local(z, end))
    <2>1. CASE Reached(z, u) <= Local(z, end)
      BY <1>4, <2>1, DateOrder
    <2>2. CASE ~ (Reached(z, u) <= Local(z, end))
      <3>1. Reached(z, u) <= z.at - 1 + z.before /\ z.at + z.after <= Local(z, end)
        BY <1>2, <1>3, <2>2 DEF Local, Reached, Offset, Later
      <3>2. /\ DateOf(Reached(z, u)) <= DateOf(z.at - 1 + z.before)
            /\ DateOf(z.at + z.after) <= DateOf(Local(z, end))
        BY <1>2, <1>4, <3>1, DateOrder
      <3>3. /\ DateOf(z.at - 1 + z.before) \in Int /\ DateOf(z.at + z.after) \in Int
            /\ DateOf(Reached(z, u)) \in Int /\ DateOf(Local(z, end)) \in Int
        BY <1>2, <1>4, DateAndTime
      <3> QED
        BY <1>1, <3>2, <3>3
    <2> QED
      BY <2>1, <2>2
  <1> QED
    BY <1>4, <1>5, <1>6, DateAndTime DEF DatesBetween

\* What is in force on a date, as windows and as the instants offered.
LEMMA WindowsInForce ==
    ASSUME TypeOK, NEW d \in Dates
    PROVE  /\ WindowsOn(d) \subseteq Windows
           /\ \A u : DateOf(Reached(timezone, u)) = d =>
                 (Offered(u) <=> \E w \in WindowsOn(d) : Within(Reached(timezone, u), w))
  <1>1. exceptions[d] \in Windows \cup {DayOff, NoException}
    BY DEF TypeOK
  <1>2. CASE exceptions[d] = NoException
    <2>1. WindowsOn(d) = {r.window : r \in {q \in rules : q.weekday = Weekday(d)}}
      BY <1>2, MarkersAssumption DEF WindowsOn
    <2> QED
      BY <1>2, <2>1 DEF TypeOK, Offered
  <1>3. CASE exceptions[d] = DayOff
    BY <1>3, MarkersAssumption DEF WindowsOn, Offered
  <1>4. CASE exceptions[d] \in Windows
    <2>1. WindowsOn(d) = {exceptions[d]}
      BY <1>4, MarkersAssumption DEF WindowsOn
    <2> QED
      BY <1>4, <2>1, MarkersAssumption DEF Offered
  <1> QED
    BY <1>1, <1>2, <1>3, <1>4

\* A clipped interval: where it comes from, its type, its instants.
LEMMA AvailableFrom ==
    ASSUME TypeOK, NEW start \in Points, NEW end \in Points, NEW v \in Available(start, end)
    PROVE  /\ \E d \in DatesBetween(start, end) : \E w \in WindowsOn(d) :
                 v = Clip(UtcWindow(d, w), start, end)
           /\ v[1] < v[2]
  BY DEF Available

LEMMA ClipExact ==
    ASSUME NEW start \in Int, NEW end \in Int, NEW s \in Int, NEW t \in Int, NEW w, w = <<s, t>>
    PROVE  /\ Clip(w, start, end) \in Int \X Int
           /\ Clip(w, start, end)[1] >= start /\ Clip(w, start, end)[2] <= end
           /\ \A u \in Int : Clip(w, start, end)[1] <= u /\ u < Clip(w, start, end)[2]
                              <=> start <= u /\ u < end /\ s <= u /\ u < t
  BY DEF Clip, Later, Earlier

LEMMA DatesInReach ==
    ASSUME TypeOK, NEW start \in Points, NEW end \in Points
    PROVE  DatesBetween(start, end) \subseteq Dates
  BY DatesAssumption DEF DatesBetween, TypeOK

\* Every available interval lies in the query and holds only offered instants.
LEMMA AvailableIsOffered ==
    ASSUME TypeOK, NEW start \in Points, NEW end \in Points, NEW v \in Available(start, end)
    PROVE  /\ v \in Int \X Int /\ start <= v[1] /\ v[1] < v[2] /\ v[2] <= end
           /\ \A u \in Int : v[1] <= u /\ u < v[2] => Offered(u)
  <1>1. timezone \in Zones /\ timezone \in Zone /\ start \in Int /\ end \in Int
    BY CalendarAssumption, ZonesAssumption DEF TypeOK
  <1>0. PICK d \in DatesBetween(start, end) :
            \E w \in WindowsOn(d) : v = Clip(UtcWindow(d, w), start, end)
    BY AvailableFrom
  <1>2. PICK w \in WindowsOn(d) : v = Clip(UtcWindow(d, w), start, end)
    BY <1>0
  <1>3. d \in Dates /\ d \in Int /\ w \in Windows
    BY DatesInReach, WindowsInForce, CalendarAssumption
  <1>4. /\ UtcWindow(d, w)[1] \in Int /\ UtcWindow(d, w)[2] \in Int
        /\ UtcWindow(d, w) = <<UtcWindow(d, w)[1], UtcWindow(d, w)[2]>>
    BY <1>1, <1>3, UtcWindowExact DEF UtcWindow
  <1>5. /\ v \in Int \X Int /\ start <= v[1] /\ v[2] <= end
        /\ \A u \in Int : v[1] <= u /\ u < v[2] =>
               UtcWindow(d, w)[1] <= u /\ u < UtcWindow(d, w)[2]
    BY <1>1, <1>2, <1>4, ClipExact
  <1>6. ASSUME NEW u \in Int, v[1] <= u, u < v[2]
        PROVE  Offered(u)
    <2>1. DateOf(Reached(timezone, u)) = d /\ Within(Reached(timezone, u), w)
      BY <1>1, <1>3, <1>5, <1>6, UtcWindowExact
    <2> QED
      BY <1>2, <1>3, <2>1, WindowsInForce
  <1> QED
    BY <1>5, <1>6, AvailableFrom

\* Every offered instant of the query lies in an available interval.
LEMMA OfferedIsAvailable ==
    ASSUME TypeOK, NEW start \in Points, NEW end \in Points,
           NEW u \in start .. (end - 1), Offered(u)
    PROVE  \E v \in Available(start, end) : v[1] <= u /\ u < v[2]
  <1>1. timezone \in Zones /\ timezone \in Zone /\ start \in Int /\ end \in Int
    BY CalendarAssumption, ZonesAssumption DEF TypeOK
  <1>2. u \in Int /\ u \in start .. end /\ start <= u /\ u < end
    BY <1>1
  <1> DEFINE d == DateOf(Reached(timezone, u))
  <1>3. d \in DatesBetween(start, end) /\ d \in Dates /\ d \in Int
    BY <1>1, <1>2, DatesSuffice, DatesInReach, CalendarAssumption
  <1>4. PICK w \in WindowsOn(d) : Within(Reached(timezone, u), w)
    BY <1>3, WindowsInForce
  <1>5. w \in Windows
    BY <1>3, WindowsInForce
  <1> DEFINE x == UtcWindow(d, w)
  <1>6. x[1] \in Int /\ x[2] \in Int /\ x[1] <= u /\ u < x[2] /\ x = <<x[1], x[2]>>
    BY <1>1, <1>2, <1>3, <1>4, <1>5, UtcWindowExact DEF UtcWindow
  <1> DEFINE v == Clip(x, start, end)
  <1>7. v[1] <= u /\ u < v[2] /\ v \in Int \X Int
    BY <1>1, <1>2, <1>6, ClipExact
  <1>8. v \in Available(start, end)
    <2>1. v[1] < v[2] /\ x[1] < x[2]
      BY <1>2, <1>6, <1>7
    <2> QED
      BY <1>3, <2>1 DEF Available
  <1> QED
    BY <1>7, <1>8

LEMMA AvailableIsExact ==
    ASSUME TypeOK, NEW start \in Points, NEW end \in Points
    PROVE  Moments(Available(start, end)) = {u \in start .. (end - 1) : Offered(u)}
  <1>1. start \in Int /\ end \in Int
    BY CalendarAssumption
  <1>2. ASSUME NEW u \in Moments(Available(start, end))
        PROVE  u \in start .. (end - 1) /\ Offered(u)
    <2>1. PICK v \in Available(start, end) : u \in v[1] .. (v[2] - 1)
      BY DEF Moments
    <2>2. /\ v[1] \in Int /\ v[2] \in Int /\ start <= v[1] /\ v[2] <= end
          /\ \A t \in Int : v[1] <= t /\ t < v[2] => Offered(t)
      BY AvailableIsOffered
    <2> QED
      BY <1>1, <2>1, <2>2
  <1>3. ASSUME NEW u \in start .. (end - 1), Offered(u)
        PROVE  u \in Moments(Available(start, end))
    <2>1. PICK v \in Available(start, end) : v[1] <= u /\ u < v[2]
      BY <1>3, OfferedIsAvailable
    <2>2. v[1] \in Int /\ v[2] \in Int
      BY AvailableIsOffered
    <2>3. u \in v[1] .. (v[2] - 1)
      BY <1>1, <2>1, <2>2
    <2> QED
      BY <2>3 DEF Moments
  <1> QED
    BY <1>2, <1>3

-----------------------------------------------------------------------------
\* The rows stay well-formed.

\* Rules of one weekday do not overlap (_reject_overlap), and a tutor has finitely
\* many bookings.
RowsInv == TypeOK /\ RulesApart /\ IsFiniteSet(bookings)

LEMMA InitRows == Init => RowsInv
  BY FS_EmptySet DEF Init, RowsInv, TypeOK, RulesApart

\* A rule that clashes with none of the others keeps them apart.
LEMMA RuleAdded ==
    ASSUME TypeOK, RulesApart, NEW r \in Rules, NEW others \in SUBSET rules,
           WellFormed(r.window), ~ Clash(others, r), rules' = others \cup {r}
    PROVE  /\ rules' \subseteq [weekday : 0 .. (WeekLength - 1), window : Windows]
           /\ RulesApart'
  <1>1. r \in [weekday : 0 .. (WeekLength - 1), window : Windows]
    BY DEF Rules, WellFormed, Windows
  <1>2. ASSUME NEW o \in others, o.weekday = r.weekday
        PROVE  ~ Overlap(o.window, r.window) /\ ~ Overlap(r.window, o.window)
    BY <1>2 DEF Clash, Overlap
  <1> QED
    BY <1>1, <1>2 DEF TypeOK, RulesApart

LEMMA ExceptionReplaced ==
    ASSUME TypeOK, NEW old \in Dates, NEW d \in Dates,
           NEW e \in (Times \X Times) \cup {DayOff}, e # DayOff => WellFormed(e),
           exceptions' = [exceptions EXCEPT ![old] = NoException, ![d] = e]
    PROVE  exceptions' \in [Dates -> Windows \cup {DayOff, NoException}]
  <1>1. e \in Windows \cup {DayOff}
    BY DEF WellFormed, Windows
  <1> QED
    BY <1>1 DEF TypeOK

LEMMA StepRows == RowsInv /\ [Next]_vars => RowsInv'
  <1> SUFFICES ASSUME RowsInv, [Next]_vars PROVE RowsInv'
    OBVIOUS
  <1> USE DEF RowsInv
  <1>1. ASSUME NEW r \in Rules, CreateRule(r) PROVE RowsInv'
    <2>1. /\ rules' \subseteq [weekday : 0 .. (WeekLength - 1), window : Windows]
          /\ RulesApart'
      BY <1>1, RuleAdded DEF CreateRule
    <2> QED
      BY <1>1, <2>1 DEF CreateRule, TypeOK
  <1>2. ASSUME NEW old \in rules, NEW r \in Rules, UpdateRule(old, r) PROVE RowsInv'
    <2>1. /\ rules' \subseteq [weekday : 0 .. (WeekLength - 1), window : Windows]
          /\ RulesApart'
      BY <1>2, RuleAdded DEF UpdateRule
    <2> QED
      BY <1>2, <2>1 DEF UpdateRule, TypeOK
  <1>3. ASSUME NEW r \in rules, DestroyRule(r) PROVE RowsInv'
    BY <1>3 DEF DestroyRule, TypeOK, RulesApart
  <1>4. ASSUME NEW d \in Dates, NEW e \in (Times \X Times) \cup {DayOff}, CreateException(d, e)
        PROVE  RowsInv'
    <2>1. e \in Windows \cup {DayOff}
      BY <1>4 DEF CreateException, WellFormed, Windows
    <2> QED
      BY <1>4, <2>1 DEF CreateException, TypeOK, RulesApart
  <1>5. ASSUME NEW old \in ExceptionDates, NEW d \in Dates,
               NEW e \in (Times \X Times) \cup {DayOff}, UpdateException(old, d, e)
        PROVE  RowsInv'
    <2>1. exceptions' \in [Dates -> Windows \cup {DayOff, NoException}]
      BY <1>5, ExceptionReplaced DEF UpdateException, ExceptionDates
    <2> QED
      BY <1>5, <2>1 DEF UpdateException, TypeOK, RulesApart
  <1>6. ASSUME NEW d \in ExceptionDates, DestroyException(d) PROVE RowsInv'
    BY <1>6 DEF DestroyException, ExceptionDates, TypeOK, RulesApart
  <1>7. ASSUME NEW z \in Zones, ChangeTimezone(z) PROVE RowsInv'
    BY <1>7 DEF ChangeTimezone, TypeOK, RulesApart
  <1>8. ASSUME NEW s \in Intervals, CreateBooking(s) PROVE RowsInv'
    BY <1>8, FS_AddElement DEF CreateBooking, TypeOK, RulesApart
  <1>9. ASSUME NEW b \in bookings, EndBooking(b) PROVE RowsInv'
    BY <1>9, FS_RemoveElement DEF EndBooking, TypeOK, RulesApart
  <1>10. CASE UNCHANGED vars
    BY <1>10 DEF vars, TypeOK, RulesApart
  <1> QED
    BY <1>1, <1>2, <1>3, <1>4, <1>5, <1>6, <1>7, <1>8, <1>9, <1>10 DEF Next

\* The rows are well-formed and rules stay apart.
THEOREM RowsHold == Spec => []RowsInv
  BY InitRows, StepRows, PTL DEF Spec

\* Every reachable state is well typed.
THEOREM FreeSlotsTypeCorrect == Spec => []TypeOK
  <1>1. RowsInv => TypeOK
    BY DEF RowsInv
  <1> QED
    BY <1>1, RowsHold, PTL

\* Across a change of offset the wall clock wins.
THEOREM AvailabilityIsExactHolds == Spec => []AvailabilityIsExact
  <1>1. TypeOK => AvailabilityIsExact
    BY AvailableIsExact DEF AvailabilityIsExact, Queries, Intervals
  <1> QED
    BY <1>1, FreeSlotsTypeCorrect, PTL
=============================================================================
