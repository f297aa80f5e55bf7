SPECIFICATION Spec
CONSTANTS
    Callers = {c1, c2}
    HasReplica = FALSE
    Faults <- NoFaults
PROPERTIES OnlyValidTransitions
