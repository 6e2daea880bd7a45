\* Two nodes, n1 broadcasts twice; the failure detector may drop a live node.
CONSTANTS
    n1 = n1
    n2 = n2
    n3 = n3
    Node <- MCNode2
    Broadcasters <- MCBroadcasters
    MaxSeq = 2
    WindowSize = 1
    Delta = 1
    MaxRecv = 1
    MaxCrashes = 0
    SuspectLive = TRUE
    Duplication = FALSE
    PromptHeartbeats = FALSE
    FailingNodes = {}
    Eager = FALSE
SPECIFICATION Spec
INVARIANT DeliveryFifo
