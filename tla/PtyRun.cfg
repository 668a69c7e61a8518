SPECIFICATION FairSpec
CONSTANTS
    Callers = {c1}
    MaxInput = 2
    Sizes = {s0, s1}
    InitialSize = s0
    PidReuse = TRUE
INVARIANTS
    EventsTellTheStatus
    FinalIsSealed
PROPERTIES
    ImplementsLifecycle
    CallsReturn
    ExitIsPublished
    ExitedBecomesClosable
    ForceEndsTheRun
CHECK_DEADLOCK FALSE
