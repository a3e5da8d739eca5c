\* Availability of three dates in zones that spring forward and fall back.
SPECIFICATION Spec
CONSTANTS
    DayLength = 6
    WeekLength = 2
    Times <- ThreeTimes
    Dates <- ThreeDates
    Zones <- ThreeZones
    Points <- FivePoints
    MaxSlotsRange = 7
    MaxRules = 2
    MaxExceptions = 2
    MaxBookings = 2
    NoException = NoException
    DayOff = DayOff
INVARIANTS
    TypeOK
    AvailabilityIsExact
    FreeIsExact
    FreeIsOrdered
    OfferIsBookable
