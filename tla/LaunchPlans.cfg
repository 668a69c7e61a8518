SPECIFICATION FairSpec
CONSTANTS
    Requests = {c1, c2}
    PlanIds = {p1}
    None = none
    Profiles = {a}
    MaxPlans = 1
    MaxRevision = 2
    MaxChanges = 1
INVARIANTS
    StartsOnce
PROPERTIES
    StartsAsShown
    LeasesComeBack
CHECK_DEADLOCK FALSE
