SPECIFICATION Spec
CONSTANTS
    Openers = {o1, o2}
    None = none
    Newest = 2
    MaxFiles = 3
    MaxCrashes = 2
INVARIANTS
    ReadyIsCurrent
    BackupsAreWhole
    NewerIsUntouched
PROPERTIES
    MigratedIsBackedUp
SYMMETRY Symmetry
CHECK_DEADLOCK FALSE
