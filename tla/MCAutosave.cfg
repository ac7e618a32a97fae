CONSTANTS
    MaxEdits = 2
    MaxTroubles = 2
    MaxOfAKind = 1
    Theirs = Theirs
    None = None
SPECIFICATION Spec
CHECK_DEADLOCK FALSE
INVARIANTS AutosaveInv LeavingSaves
PROPERTIES NeverBackwards EditsSettle FlushAnswers
