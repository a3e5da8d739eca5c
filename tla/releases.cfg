\* One lesson and one payment, fair: every dead hold is released.
SPECIFICATION FairSpec
CONSTANTS
    b1 = b1  p1 = p1  p2 = p2  t1 = t1  w1 = w1  w2 = w2
    NoJob = NoJob
    Bookings <- OneBooking
    Payments <- OnePayment
    BookingOf <- P1OfB1
    Tutors <- OneTutor
    TutorOf <- T1OfB1
    Price <- PriceB1
    Percents <- PercentRange
    NoShows <- OneBooking
    FormUsers = {}
    Workers = {w1, w2}
    EventTypes = {"hold_succeeded"}
    MaxEvents = 1
    MaxRetries = 1
    Faults = {"duplicate", "psp_error", "redelivery"}
    MaxFaults = 1
INVARIANTS
    DeadHoldIsUnderway
PROPERTIES
    DeadHoldIsReleased
CHECK_DEADLOCK FALSE
