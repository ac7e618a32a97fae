SPECIFICATION Spec
CONSTANTS
    Forms = {f1, f2}
    Slugs = {s1, s2, s3}
    Calls = {c1, c2}
    NoForm = NoForm
    NoSlug = NoSlug
    Deleted = Deleted
    MaxFaults = 0
SYMMETRY Symmetry
CHECK_DEADLOCK FALSE
INVARIANT
    LinksKeptThroughReclaim
