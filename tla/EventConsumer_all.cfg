SPECIFICATION FairSpec
CONSTANTS
    Workers = {w1, w2}
    QueueDepth = 1
    MaxMessages = 4
    MaxErrors = 2
    MaxResumes = 1
    Faults <- AllFaults
INVARIANTS LossIsBounded FetchErrorDrains
PROPERTIES EveryMessageHandled CancelledRunReturns
