\* Two nodes, n1 broadcasts up to three times and corrupts its seq once; a prompt network.
CONSTANTS
    n1 = n1
    n2 = n2
    n3 = n3
    Node <- MCNode2
    Broadcasters <- MCBroadcasters
    MaxSeq = 3
    WindowSize = 1
    Delta = 1
    MaxRecv = 1
    MaxCrashes = 0
    SuspectLive = FALSE
    Duplication = FALSE
    PromptHeartbeats = FALSE
    FailingNodes = {n1}
    Eager = TRUE
SPECIFICATION FairSpec
PROPERTY Convergence DeliveryResumes
