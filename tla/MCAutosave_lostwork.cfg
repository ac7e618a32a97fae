CONSTANTS
    MaxEdits = 2
    MaxTroubles = 1
    MaxOfAKind = 1
    Theirs = Theirs
    None = None
SPECIFICATION Spec
CHECK_DEADLOCK FALSE
INVARIANT RecoveryOffersLostWork
