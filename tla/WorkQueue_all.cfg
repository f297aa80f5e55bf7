SPECIFICATION FairSpec
CONSTANTS
    Jobs = {j1, j2}
    Consumers = {c1, c2}
    Prefetch = 2
    MaxLosses = 2
    Faults <- AllFaults
    NoJob = NoJob
INVARIANTS JobsConserved SettledForAReason DuplicatesCostALoss
PROPERTIES ImplementsJobPool QueueDrains
