\* One lesson and one payment, fair, under the faults that retries absorb.
SPECIFICATION FairSpec
CONSTANTS
    b1 = b1  p1 = p1  p2 = p2  t1 = t1  w1 = w1  w2 = w2
    NoJob = NoJob
    Bookings <- OneBooking
    Payments <- OnePayment
    BookingOf <- P1OfB1
    Tutors <- OneTutor
    TutorOf <- T1OfB1
    Price <- PriceB1
    Percents <- PercentRange
    NoShows <- OneBooking
    FormUsers = {}
    Workers = {w1, w2}
    EventTypes = {"hold_succeeded", "hold_failed"}
    MaxEvents = 1
    MaxRetries = 1
    Faults = {"crash", "duplicate", "psp_error", "lost_reply", "redelivery"}
    MaxFaults = 1
INVARIANTS
    EarnedIsUnderway
    UnderwayInv
PROPERTIES
    EveryBookingEnds
    EarnedIsPaid
CHECK_DEADLOCK FALSE
