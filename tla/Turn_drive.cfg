SPECIFICATION FairSpec
CONSTANTS
    e1 = e1  e2 = e2  e3 = e3  r1 = r1  None = None
    Executions <- OneExecution
    Resets <- OneReset
    Inputs = {"direct", "goal", "top"}
    MaxTurn = 1
    MaxRevision = 8
    MaxRounds = 2
    MaxCrashes = 1
INVARIANTS
    SnapshotRestorable
PROPERTY CancelledTurnEnds
CHECK_DEADLOCK FALSE
