SPECIFICATION FairSubmissionSpec
CONSTANTS
    Requests = {q1, q2, q3}
    NoRequest = NoRequest
    MaxFaults = 1
CHECK_DEADLOCK FALSE
INVARIANTS
    SubmissionInv
    OneOwner
    CompletedHoldsComplete
    NobodyThrows
PROPERTIES
    ImplementsRecord
    EveryRequestEnds
