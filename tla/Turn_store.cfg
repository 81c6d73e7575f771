SPECIFICATION Spec
CONSTANTS
    e1 = e1  e2 = e2  e3 = e3  r1 = r1  None = None
    Executions <- TwoExecutions
    Resets <- OneReset
    Inputs = {"top"}
    MaxTurn = 1
    MaxRevision = 3
    MaxRounds = 1
    MaxCrashes = 1
SYMMETRY ExecutionSymmetry
INVARIANTS
    OneOwnerPerTurn
    CallsAreJournalled
    RecordMatchesJournal
PROPERTY HistoryUnlessReset
CHECK_DEADLOCK FALSE
