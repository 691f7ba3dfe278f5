CONSTANTS
    a1 = a1
    Asset = {a1}
    File <- MCFile
    Rank <- MCRank
    PollLimit = 2
    NULL = NULL
    LastStamp <- MCLastStamp
    MaxVersion = 2
    MaxEvents = 1
SPECIFICATION Spec
CHECK_DEADLOCK FALSE
INVARIANTS
    NothingIsStranded
    JobsHaveAnAsset
PROPERTIES
    StaleSavesAreMadeGood
    OriginalsAreReviewed
