CONSTANTS
    ScoreField = ScoreField
    Tokens = {1, 2}
    Personal = {2}
    Forms <- MCForms
    SeededAt = {0, 1, 2, 3}

INVARIANTS
    WalkInv
    ServerAccepts
    WholeScreens
    NeverResubmitsAlone
    StaticChecksTrue

SPECIFICATION Spec
CHECK_DEADLOCK FALSE
