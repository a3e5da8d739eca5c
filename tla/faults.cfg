\* One lesson and one payment under every kind of fault, two at a time.
SPECIFICATION Spec
CONSTANTS
    b1 = b1  p1 = p1  p2 = p2  t1 = t1  w1 = w1  w2 = w2
    NoJob = NoJob
    Bookings <- OneBooking
    Payments <- OnePayment
    BookingOf <- P1OfB1
    Tutors <- OneTutor
    TutorOf <- T1OfB1
    Price <- PriceB1
    Percents <- PercentRange
    NoShows <- OneBooking
    FormUsers <- OneTutor
    Workers = {w1, w2}
    EventTypes = {"hold_succeeded", "capture_succeeded"}
    MaxEvents = 2
    MaxRetries = 1
    Faults <- AllFaults
    MaxFaults = 2
SYMMETRY Slots
INVARIANTS
    CoherentPair
    NeverCapturedAndReleased
    ChargedWhatIsOwed
    CapturedIsTaken
    LedgerBalances
    BalanceWithinCredits
    IInv
PROPERTIES
    EarnedIsKept
    CreditedOnCapture
CHECK_DEADLOCK FALSE
