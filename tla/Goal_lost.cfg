CONSTANTS
    Procs = {p1, p2}
    Objectives = {o1, o2}
    Times = {1}
    None = None
    Faults = {}
    MaxGoals = 2
    Attempts = 2
    MaxOrdinal = 2
    MaxRevision = 2
SPECIFICATION Spec
INVARIANT AlwaysHasGoal
SYMMETRY Symmetry
CHECK_DEADLOCK FALSE
