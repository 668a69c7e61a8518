SPECIFICATION Spec
CONSTANTS
    Runs = {r1, r2, r3, r4}
    None = none
    MaxRuns = 2
    Times = {1, 2}
INVARIANTS
    ChildrenAreTracked
PROPERTIES
    EventAfterEntry
    RunsHaveLifecycle
CHECK_DEADLOCK FALSE
