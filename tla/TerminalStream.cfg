SPECIFICATION StreamFairSpec
CONSTANTS
    Sizes = {1, 2}
    MaxBytes = 2
    MaxFrames = 2
    MaxBatch = 1
    MaxPages = 2
    MaxPending = 1
    MaxOutput = 3
PROPERTIES
    OnlyLostIsSkipped
    CatchesUp
INVARIANTS
    StopsWithAll
CHECK_DEADLOCK FALSE
