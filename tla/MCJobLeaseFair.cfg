CONSTANTS
    a1 = a1
    a2 = a2
    j1 = j1
    j2 = j2
    x1 = x1
    x2 = x2
    Job = {j1}
    Asset = {x1}
    AssetOf <- OneAsset
    Agent = {a1, a2}
    NULL = NULL
    Ttl = 1
    MaxTime = 12
    MaxTokens = 3
    MaxFencing = 2
    MaxDisruptions = 2
SPECIFICATION FairSpec
CHECK_DEADLOCK FALSE
PROPERTIES
    EveryJobSettles
