SPECIFICATION FairSpec
CONSTANTS
    e1 = e1  e2 = e2  e3 = e3  r1 = r1  None = None
    Executions <- ThreeExecutions
    Resets <- OneReset
    Inputs = {}
    MaxTurn = 1
    MaxRevision = 3
    MaxRounds = 1
    MaxCrashes = 0
SYMMETRY ExecutionSymmetry
PROPERTY StoredHistoryIsLegal
CHECK_DEADLOCK FALSE
