CONSTANTS
    k1 = k1
    k2 = k2
    t = t
    Key = {k1, k2}
    Target = {t}
    TargetOf <- MCTargetOf
    TooLong = {k2}
    Body = {b1, b2}
    First = b1
    Slot = {s1, s2}
    NULL = NULL
    MaxTime = 2
    MaxVersion = 2
    MaxEvents = 1
SPECIFICATION Spec
CHECK_DEADLOCK FALSE
INVARIANTS
    OneAnswer
    OnceAndTruthful
    TagsGuard
PROPERTIES
    ReportsAreWork
    RetriesAreAnswered
