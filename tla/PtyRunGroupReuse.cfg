SPECIFICATION Spec
CONSTANTS
    Callers = {c1}
    MaxInput = 1
    Sizes = {s0}
    InitialSize = s0
    PidReuse = TRUE
PROPERTIES
    ForceHitsOwnGroup
CHECK_DEADLOCK FALSE
