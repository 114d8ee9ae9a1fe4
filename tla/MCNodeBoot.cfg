SPECIFICATION Spec
CONSTANT MaxReboots <- Reboots
INVARIANTS
    NodeBootTypeOK
    UnitIsBacked
    RunsOnVolume
    EndedMeansStarted
PROPERTY ComesBack
CHECK_DEADLOCK FALSE
