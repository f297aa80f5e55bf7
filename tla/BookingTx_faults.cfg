SPECIFICATION FairSpec
CONSTANTS
    Requests = {r1, r2}
    Listings = {l1, l2}
    MaxDay = 2
    MaxTxRetries = 2
    HasReplica = TRUE
    Faults <- AllFaults
INVARIANTS NoDoubleBooking CheckedDatesStayFree BookingIffBlock OneBookingPerRequest AnswerAgreesWithTables EffectsFollowCommit
PROPERTIES ImplementsAtomicBooking EveryRequestEnds
