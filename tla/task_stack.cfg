\* A table that finds no room in the workspace.
CONSTANTS
    a1 = a1  a2 = a2
    Args = {a1, a2}
    Null = Null
    MaxArgs = 2
    MaxValues = 2
    MaxRuns = 2
    k1 = k1  v1 = v1
    Keys = {k1}
    Values = {v1}
    Unset = Unset
SPECIFICATION TaskSpec
SYMMETRY AnyArg
INVARIANTS
    StackAsSaid
