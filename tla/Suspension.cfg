SPECIFICATION WakeSpec
CONSTANTS
    w1 = w1  w2 = w2  h1 = h1  h2 = h2  l1 = l1  l2 = l2
    Workers <- MCWorkers
    Hosts <- MCHosts
    LeaseIds <- MCLeaseIds
    Durations = {1, 2}
    MaxTimestamp = 3
INVARIANTS
    SuspendedIsQuiescent
    DrainIsOwned
    NoMissedWakeup
PROPERTIES
    DrainEnds
    DrainedRuntimeSuspends
