CONSTANTS
    c1 = c1
    Publishers = {q1, q2}
    Conns = {c1}
    Grants <- MCGrants
    Drafts <- MCDrafts
    Broadcast = Broadcast
    Anyone = Anyone
    None = None
    Capacity = 2
    QueueBytes = 3
    MaxOrdinal = 3
    MaxGeneration = 2
SPECIFICATION Spec
INVARIANTS PrefixThenGap BytesReadAreSane GrantIsFresh ShutdownIsFlushed
SYMMETRY Symmetry
CHECK_DEADLOCK FALSE
