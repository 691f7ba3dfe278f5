CONSTANTS
    x1 = x1
    r1 = r1
    r2 = r2
    Asset = {x1}
    Request = {r1, r2}
    Kind = {"extract_facts"}
    NULL = NULL
    Orphan = Orphan
    InitState = {"PROCESSING_REVIEW"}
    InitDone = {"proxy", "thumbs"}
    MaxVersion = 2
SPECIFICATION Spec
SYMMETRY Symmetry
CHECK_DEADLOCK FALSE
INVARIANTS
    LockOwnership
    ReviewedBeforeDecision
    ResultsAreKept
PROPERTIES
    FinalStatesUnderLock
    PurgeIsFinal
