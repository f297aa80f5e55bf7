SPECIFICATION FairSpec
CONSTANTS
    Requests = {q1, q2, q3}
    Emails = {e1, e2}
    Passwords = {p1}
    Subjects = {s1}
    MaxTxRetries = 2
    Faults <- AllFaults
    NoUser = NoUser
INVARIANTS NoHalfAccount OneUserPerSubject
PROPERTIES ImplementsAtomicAccounts EveryRequestEnds
