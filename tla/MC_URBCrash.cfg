\* Two nodes, n1 broadcasts twice through a window of one; one node may
\* crash; every HBFD heartbeat of a live node arrives promptly.
CONSTANTS
    n1 = n1
    n2 = n2
    n3 = n3
    Node <- MCNode2
    Broadcasters <- MCBroadcasters
    MaxSeq = 2
    WindowSize = 1
    Delta = 1
    MaxRecv = 1
    MaxCrashes = 1
    SuspectLive = FALSE
    Duplication = FALSE
    PromptHeartbeats = TRUE
    FailingNodes = {}
    Eager = FALSE
SPECIFICATION Spec
INVARIANT TypeOK WindowBound NoIllegalRecovery NoPrematureRemoval
PROPERTY ImplementsURBAbstract
