CONSTANTS
    a1 = a1
    a2 = a2
    f = f
    Asset = {a1, a2}
    Base = {f}
    BaseOf <- MCBaseOf
    Derived = {a1}
    Rank <- MCRank
    Limit = 1
    Worker = {w1}
    NULL = NULL
    MaxTags = 1
    MaxNest = 1
    MaxAttempt = 1
    MaxEvents = 2
SPECIFICATION Spec
CHECK_DEADLOCK FALSE
INVARIANTS
    PathLeadsHome
PROPERTIES
    MovesOverwriteNothing
    FilesArrive
