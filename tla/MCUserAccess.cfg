CONSTANTS
    x1 = x1
    x2 = x2
    s1 = s1
    s2 = s2
    c1 = c1
    c2 = c2
    Session = {x1, x2}
    Slot = {s1, s2}
    Place = {c1, c2}
    NULL = NULL
    MaxDraw = 2
    MaxPair = 3
    MaxEvents = 1
SPECIFICATION Spec
SYMMETRY Symmetry
CHECK_DEADLOCK FALSE
INVARIANTS
    TypeOK
    OneShotCodes
    OldCodesAreOver
    RevokedIsOver
    OneRefreshPerToken
PROPERTIES
    SwitchedOnPurpose
