SPECIFICATION FairSpec
CONSTANTS
    MaxInt = 31
    GiB = 4
    MaxDepth = 2
    OutChunk = 2
    Lengths <- UpTo5
    Options <- Copies
INVARIANTS BuffersHaveOneOwner OutputIsPrefix NilMeansCopied FinalValueIsAccurate
PROPERTY CopyEnds
CHECK_DEADLOCK FALSE
