SPECIFICATION FairSpec
CONSTANTS
    Rows = {r1}
    Workers = {w1, w2}
    NoRow = NoRow
    MaxAttempts = 3
    Stale = 2
    BackoffCap = 2
    Delays <- MCDelays
    MaxLag = 1
    MaxFaults = 2
INVARIANTS
    OutboxInv
    DoneMeansLanded
    AtMostMaxAttempts
    OneLiveLease
    FailedMeansExhausted
PROPERTIES
    TerminalIsFinal
    AttemptsNeverDrop
    ImplementsPromise
    EveryRowSettles
