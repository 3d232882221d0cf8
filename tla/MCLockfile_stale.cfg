SPECIFICATION FairSpec
CONSTANTS
    p1 = p1
    p2 = p2
    p3 = p3
    NoLink = NoLink
    Foreign = Foreign
    Procs <- TwoProcs
    Slots <- TwoSlots
    SysErrors <- NoErrors
    CrashPoints <- NotBetweenRemoves
    MaxCrashes = 1
INVARIANT MutualExclusion
PROPERTY CallsReturn
