SPECIFICATION FairSpec
CONSTANTS
    Procs = {a1}
    Clients = {c1}
    APILimit = 2
    AuthLimit = 1
    Window = 2
    ShutdownTimeout = 2
    TokenTTL = 3
    Faults <- AllFaults
    NoProc = NoProc
    HasReplica = TRUE
    WriteTimeout = 1
    PollTimeout = 3
    MaxWrites = 1
    MaxClock = 4
INVARIANTS EachReportIsNews OverlooksNothingLater ShutdownCostsNoAnswer
PROPERTIES ChangeIsReported ShutdownEndsAfterCalls
