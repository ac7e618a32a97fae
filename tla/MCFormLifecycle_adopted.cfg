\* As MCFormLifecycle.cfg, going on after an answer handed over a stamp for
\* content its client does not show.
CONSTANTS
    Clients = {a, b}
    Edits = {e1}
    Stamps = {t1, t2, t3, t4}
    Dests = {d1, d2}
    NoStamp = NoStamp
    NoDraft = NoDraft
    NoVersion = NoVersion
    NoForm = NoForm
    RevertAttempts = 2
SPECIFICATION Spec
CONSTRAINT OnlyAdopted
SYMMETRY Symmetry
CHECK_DEADLOCK FALSE
INVARIANT StampedSavesKeepEdits
