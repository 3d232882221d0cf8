SPECIFICATION FairSpec
CONSTANTS
    MaxInt = 31
    GiB = 4
    MaxDepth = 2
    OutChunk = 2
    Lengths <- Long
    Options <- Failing
PROPERTY AlwaysEnds
CHECK_DEADLOCK FALSE
