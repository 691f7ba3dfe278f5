CONSTANTS
    a1 = a1
    Asset = {a1}
    File <- MCFile
    Rank <- MCRank
    PollLimit = 3
    NULL = NULL
    LastStamp <- MCLastStamp
    MaxVersion = 1
    MaxEvents = 0
SPECIFICATION Spec
CHECK_DEADLOCK FALSE
PROPERTIES
    SidecarsAreAttached
