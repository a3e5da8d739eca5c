\* Every transaction on one lesson with two attempts to pay, three at a time, fair locks.
SPECIFICATION FairSpec
CONSTANTS
    s1 = s1  s2 = s2  s3 = s3  b1 = b1  p1 = p1  p2 = p2  t1 = t1
    e1 = e1  e2 = e2
    Nobody = Nobody  Idle = Idle  Done = Done
    Sessions = {s1, s2, s3}
    Bookings = {b1}
    Payments = {p1, p2}
    Tutors = {t1}
    Events = {e1, e2}
    BookingOf <- BothOfB1
    TutorOf <- TutorOfB1
    PaymentOf <- OneAboutEach
    EventType <- TwoTypes
INVARIANTS
    NoDeadlock
    RowLocksInv
PROPERTIES
    EveryTransactionEnds
