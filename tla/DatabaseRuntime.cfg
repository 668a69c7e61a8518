SPECIFICATION FairSpec
CONSTANTS
    Callers = {startup, retry}
    None = none
    EditDuringOpen = FALSE
    MaxEdits = 2
    MaxTransients = 1
    MaxPanics = 1
INVARIANTS
    BackupsAreBounded
PROPERTIES
    ReadyIsFinal
    AttemptEnds
    RepairIsNoticed
CHECK_DEADLOCK FALSE
