\* Two requests at a time on one tutor's calendar, and the diary they keep.
SPECIFICATION Spec
CONSTANTS
    w1 = w1  w2 = w2  b1 = b1  b2 = b2  r1 = r1  r2 = r2
    NoRow = NoRow  DayOff = DayOff  Idle = Idle  Nobody = Nobody
    Override = Override
    Times <- ThreePoints
    PointLength = 302
    TicksPerSecond = 5
    Zones = {0, 1}
    Bookings = {b1, b2}
    Rules = {r1, r2}
    Rates = {0, 225}
    Workers = {w1, w2}
SYMMETRY Symmetric
INVARIANTS
    TypeOK
    NoDoubleBooking
    RulesDisjoint
    CalendarInv
    AcceptedIsOffered
PROPERTIES
    PricedAtCommittedRate
    ImplementsDiary
