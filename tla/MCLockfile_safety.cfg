SPECIFICATION Spec
CONSTANTS
    p1 = p1
    p2 = p2
    p3 = p3
    NoLink = NoLink
    Foreign = Foreign
    Procs <- TwoProcs
    Slots <- TwoSlots
    SysErrors <- AllErrors
    CrashPoints <- Anywhere
    MaxCrashes = 1
INVARIANTS TypeOK RogueMeansNotHeld PidfileStaysUntilLinked MutexUntilCrash
PROPERTIES ImplementsLock
CHECK_DEADLOCK FALSE
