------------------------------- MODULE Diary -------------------------------
(***************************************************************************)
(* What a tutor's calendar promises about the lessons in it and their      *)
(* price, with nothing of how it is done: no requests, no locks, nothing   *)
(* read before it is used.  Each entry is made in one step, on the diary   *)
(* as it is then.  Whether a lesson lies within the tutor's hours is left  *)
(* open: the hours may change while a lesson is being written down.        *)
(***************************************************************************)
EXTENDS Integers

CONSTANTS Times, PointLength, TicksPerSecond,
          Bookings, Rules, Override, Rates, NoRow, DayOff

VARIABLES rows,   \* the weekly windows, and the exception of the date
          slot,   \* when each lesson is
          price,  \* what it costs
          rate    \* what an hour costs

diaryVars == <<rows, slot, price, rate>>

Windows == {w \in Times \X Times : w[1] < w[2]}
\* The price of some ticks of a lesson: rounded to the kopeck, a part of a second
\* that is not a whole one being free.
Rounded(kopecks, hourly, ticks) ==
    LET kopeck == 3600 * TicksPerSecond
        free == hourly * (TicksPerSecond - 1)
        excess == kopeck * kopecks - hourly * ticks
    IN  2 * excess <= kopeck /\ -2 * (excess + free) <= kopeck
Disjoint(v, w) == v[2] <= w[1] \/ w[2] <= v[1]

Init ==
    /\ rows = [r \in Rules \cup {Override} |-> NoRow]
    /\ slot = [b \in Bookings |-> NoRow]
    /\ price = [b \in Bookings |-> 0]
    /\ rate \in Rates

\* An hour costs something else, or what it did.
Charge(hourly) ==
    /\ rate' = hourly
    /\ UNCHANGED <<rows, slot, price>>

\* A lesson is taken at a time when no other lesson is, and costs what an hour
\* costs now times its length.
Book(b, s) ==
    /\ slot[b] = NoRow
    /\ \A a \in Bookings : slot[a] # NoRow => Disjoint(slot[a], s)
    /\ slot' = [slot EXCEPT ![b] = s]
    /\ price'[b] \in Nat /\ price' = [price EXCEPT ![b] = price'[b]]
    /\ Rounded(price'[b], rate, (s[2] - s[1]) * PointLength)
    /\ UNCHANGED <<rows, rate>>

\* A lesson is over, or will not be.
Free(b) ==
    /\ slot[b] # NoRow
    /\ slot' = [slot EXCEPT ![b] = NoRow]
    /\ price' = [price EXCEPT ![b] = 0]
    /\ UNCHANGED <<rows, rate>>

\* A weekly window is written down next to the others, none of which it touches.
Offer(r, w) ==
    /\ \A q \in Rules \ {r} : rows[q] # NoRow => Disjoint(rows[q], w)
    /\ rows' = [rows EXCEPT ![r] = w]
    /\ UNCHANGED <<slot, price, rate>>

\* The date has hours of its own, or none.
Except(value) ==
    /\ rows' = [rows EXCEPT ![Override] = value]
    /\ UNCHANGED <<slot, price, rate>>

Remove(row) ==
    /\ rows[row] # NoRow
    /\ rows' = [rows EXCEPT ![row] = NoRow]
    /\ UNCHANGED <<slot, price, rate>>

Next ==
    \/ \E hourly \in Rates : Charge(hourly)
    \/ \E row \in Rules \cup {Override} : Remove(row)
    \/ \E b \in Bookings : Free(b)
    \/ \E b \in Bookings, s \in Windows : Book(b, s)
    \/ \E r \in Rules, w \in Windows : Offer(r, w)
    \/ \E value \in Windows \cup {DayOff} : Except(value)

Spec == Init /\ [][Next]_diaryVars
=============================================================================
