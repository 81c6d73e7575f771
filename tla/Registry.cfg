SPECIFICATION Spec
CONSTANTS
    s1 = s1  s2 = s2  u1 = u1  u2 = u2  r1 = r1  None = None
    Sessions <- TwoSessions
    Submits <- TwoSubmits
    Retirers <- OneRetirer
    Capacity = 1
    Ttl = 0
    MaxTime = 1
    WithShutdown = TRUE
SYMMETRY RegistrySymmetry
INVARIANTS
    LiveExactlyWhileRunning
    FinishedMeansReleased
    ReloadFencesOldTurns
    VictimIsAborted
    LeftoversAreForgotten
CHECK_DEADLOCK FALSE
