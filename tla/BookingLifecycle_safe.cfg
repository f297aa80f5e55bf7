SPECIFICATION Spec
CONSTANTS
    Callers = {c1, c2}
    HasReplica = TRUE
    Faults <- AllFaults
INVARIANTS EveryStatusWasEarned EffectsFollowWrite
PROPERTIES SettledIsFinal
