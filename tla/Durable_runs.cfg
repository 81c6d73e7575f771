SPECIFICATION Spec
CONSTANTS
    m1 = m1  g1 = g1  h1 = h1  h2 = h2  c1 = c1  None = None
    ChannelRuns <- OneMessage
    GatewayRuns <- OneRequest
    Hosts <- TwoHosts
    Clients <- OneClient
    MaxRetainedRuns = 1
    MaxSegments = 2
    MaxCrashes = 1
SYMMETRY HostSymmetry
INVARIANTS
    SegmentsSentOnce
    ResultStaysPending
    ReopenSucceeds
    IndexesAgree
    CancelReachesTurn
PROPERTIES
    ExecutedOnce
    TerminalIsFinal
CHECK_DEADLOCK FALSE
