CONSTANTS
    s1 = s1
    s2 = s2
    c1 = c1
    c2 = c2
    Slot = {s1, s2}
    Client = {c1, c2}
    Interval = 2
    NULL = NULL
    MaxEvents = 1
SPECIFICATION Spec
CHECK_DEADLOCK FALSE
INVARIANTS
    TypeOK
    OneShotSecret
    NoOrphanClients
PROPERTIES
    DenialHolds
    ApprovedIsDelivered
