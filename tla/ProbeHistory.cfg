SPECIFICATION FairSpec
CONSTANTS
    Operations = {o1, o2}
    None = none
    Outcomes = {"failed"}
    MaxRetained = 1
    MaxCrashes = 1
    MaxFailures = 1
INVARIANTS
    TypeOK
    SavedIsTrue
PROPERTIES
    HistoryOnlyAdvances
    ActiveEnds
    FinishedIsSaved
    StaleIsReconciled
CHECK_DEADLOCK FALSE
