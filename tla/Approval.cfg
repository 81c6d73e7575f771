SPECIFICATION Spec
CONSTANTS
    c1 = c1  c2 = c2  s1 = s1  s2 = s2  None = None
    Calls <- TwoCalls
    Sessions <- TwoSessions
    Tools = {"t1"}
    Verdicts = {"approve"}
    Authorities = {"none", "bound"}
    MaxId = 2
    Timeout = 1
    MaxTime = 1
    PortYields = {"request", "withdraw_all"}
SYMMETRY Symmetry
INVARIANTS
    NoOrphanEntry
    MemoryComesFromOperators
    WaiterStaysAnswerable
    AcceptedIsHonoured
