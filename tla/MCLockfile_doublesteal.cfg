SPECIFICATION Spec
CONSTANTS
    p1 = p1
    p2 = p2
    p3 = p3
    NoLink = NoLink
    Foreign = Foreign
    Procs <- ThreeProcs
    Slots <- OneSlot
    SysErrors <- NoErrors
    CrashPoints <- Anywhere
    MaxCrashes = 1
INVARIANT MutualExclusion
CHECK_DEADLOCK FALSE
