CONSTANTS
    x1 = x1
    r1 = r1
    r2 = r2
    Asset = {x1}
    Request = {r1, r2}
    Kind = {"extract_facts"}
    NULL = NULL
    Orphan = Orphan
    InitState = {"PROCESSING_REVIEW"}
    InitDone = {"proxy", "thumbs"}
    MaxVersion = 1
SPECIFICATION Spec
CHECK_DEADLOCK FALSE
INVARIANTS
    ResultsReachTheAsset
