SPECIFICATION FairSpec
CONSTANTS
    g1 = g1
    g2 = g2
    g3 = g3
    Petters <- ThreePetters
    MaxOps = 5
    NoWayOut = FALSE
    OpenMayFail = TRUE
    IoctlMayFail = TRUE
    WriteMayFail = TRUE
    MonitorMayFail = FALSE
INVARIANTS TypeOK PettingOnHasPetter DisarmedUnlessPetted
PROPERTIES RequestsAnswered KeepsMachineAlive
CHECK_DEADLOCK FALSE
