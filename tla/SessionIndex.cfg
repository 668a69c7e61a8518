SPECIFICATION Spec
CONSTANTS
    Calls = {c1, c2}
    Profiles = {a, b}
    None = None
    outer = outer
    inner = inner
    x = x
    y = y
    f = f
    g = g
    Projects <- MCProjects
    Roots <- MCRoots
    Files <- MCFiles
    First = outer
    Depth <- MCDepth
    Holds <- MCHolds
    Under <- MCUnder
    Reach <- MCReach
    Below <- MCBelow
    MaxChanges = 2
SYMMETRY MCSymmetry
INVARIANTS FreshIsAuthorized OneProfileShowsIt PreviewIsAuthorized
PROPERTIES MissingIsMissed
