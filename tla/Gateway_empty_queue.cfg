CONSTANTS
    c1 = c1
    Publishers = {q1}
    Conns = {c1}
    Grants <- MCGrants
    Drafts <- MCDrafts
    Broadcast = Broadcast
    Anyone = Anyone
    None = None
    Capacity = 2
    QueueBytes = 3
    MaxOrdinal = 2
    MaxGeneration = 1
SPECIFICATION Spec
INVARIANT EmptyQueueAdmits
CHECK_DEADLOCK FALSE
