\* Two editors, two contents, three writes: enough for a save by each after a
\* revert, and for a change of destinations inside any other write.
CONSTANTS
    Clients = {a, b}
    Edits = {e1}
    Stamps = {t1, t2, t3, t4}
    Dests = {d1, d2}
    NoStamp = NoStamp
    NoDraft = NoDraft
    NoVersion = NoVersion
    NoForm = NoForm
    RevertAttempts = 2
SPECIFICATION Spec
CONSTRAINT NoSlip
SYMMETRY Symmetry
CHECK_DEADLOCK FALSE
INVARIANTS LifecycleInv NothingLost DestinationsKept
PROPERTY PublishesWhatWasSeen
