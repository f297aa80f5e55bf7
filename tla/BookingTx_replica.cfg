SPECIFICATION Spec
CONSTANTS
    Requests = {r1}
    Listings = {l1}
    MaxDay = 1
    MaxTxRetries = 3
    HasReplica = TRUE
    Faults <- NoFaults
INVARIANTS CommittedIsAnswered201
