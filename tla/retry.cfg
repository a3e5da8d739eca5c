\* One lesson, two payment attempts, two workers, no fault.
SPECIFICATION Spec
CONSTANTS
    b1 = b1  p1 = p1  p2 = p2  t1 = t1  w1 = w1  w2 = w2
    NoJob = NoJob
    Bookings <- OneBooking
    Payments <- TwoPayments
    BookingOf <- BothOfB1
    Tutors <- OneTutor
    TutorOf <- T1OfB1
    Price <- PriceB1
    Percents <- PercentRange
    NoShows <- OneBooking
    FormUsers <- OneTutor
    Workers = {w1, w2}
    EventTypes <- HoldEvents
    MaxEvents = 1
    MaxRetries = 1
    Faults = {}
    MaxFaults = 0
SYMMETRY SlotsAndPayments
INVARIANTS
    TypeOK
    NoDoublePayment
    ConfirmedIsBacked
    IInv
PROPERTIES
    SweepsRecheck
    EarnedIsKept
    ImplementsEscrow
CHECK_DEADLOCK FALSE
