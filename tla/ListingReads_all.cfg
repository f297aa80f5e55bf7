SPECIFICATION FairSpec
CONSTANTS
    Readers = {r1, r2}
    Partners = {r2}
    TTL = 2
    Timeout = 1
    MaxVersion = 2
    Faults <- AllFaults
INVARIANTS BoundedStaleness
PROPERTIES EventuallyFresh
