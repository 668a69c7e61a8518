SPECIFICATION FairSpec
CONSTANTS
    Callers = {startup, retry}
    None = none
    EditDuringOpen = TRUE
    MaxEdits = 2
    MaxTransients = 1
    MaxPanics = 1
PROPERTIES
    RepairIsNoticed
CHECK_DEADLOCK FALSE
