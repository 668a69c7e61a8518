SPECIFICATION OmpFairSpec
CONSTANTS
    Candidates = {p, q}
    Helps = {"help"}
    NoPath = none
    Limit = 1
    MaxOutput = 2
    MaxChanges = 2
INVARIANTS
    AnswersAreTheirs
    NothingLeftBehind
PROPERTIES
    TaskEnds
