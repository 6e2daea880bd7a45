\* Two nodes, n1 broadcasts twice through a window of one, over a lossy
\* network; one node may crash.
CONSTANTS
    n1 = n1
    n2 = n2
    n3 = n3
    Node <- MCNode2
    Broadcasters <- MCBroadcasters
    MaxSeq = 2
    WindowSize = 1
    Delta = 1
    MaxCrashes = 1
    MaxRecv = 1
    SuspectLive = FALSE
    Lossy = TRUE
    PromptHeartbeats = TRUE
SPECIFICATION Spec
INVARIANT TypeOK WindowBound NoPrematureRemoval
PROPERTY ImplementsURBAbstract
