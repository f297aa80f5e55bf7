SPECIFICATION FairSpec
CONSTANTS
    Workers = {w1, w2}
    QueueDepth = 1
    MaxMessages = 2
    MaxErrors = 0
    MaxResumes = 1
    Faults <- NoFaults
PROPERTIES AtLeastOnce
