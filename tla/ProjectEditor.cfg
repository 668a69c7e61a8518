SPECIFICATION Spec
CONSTANTS
    Calls = {c1, c2}
    Projects = {p}
    Profiles = {a, b}
    GitIdentities = {g}
    Candidates = {cursor}
    None = none
    Directories = {1, 2}
    Executables = {1, 2, 3}
    Speaks <- Help
    MaxChanges = 2
    MaxRevision = 3
INVARIANTS
    EditorIsAsProved
    StatusIsSeen
PROPERTIES
    BindingIsSeen
SYMMETRY Symmetry
