\* Three nodes, n1 broadcasts once, one node may crash; a prompt network and detector.
CONSTANTS
    n1 = n1
    n2 = n2
    n3 = n3
    Node <- MCNode
    Broadcasters <- MCBroadcasters
    MaxSeq = 1
    WindowSize = 1
    Delta = 1
    MaxRecv = 3
    MaxCrashes = 1
    SuspectLive = FALSE
    Duplication = FALSE
    PromptHeartbeats = FALSE
    FailingNodes = {}
    Eager = TRUE
SPECIFICATION FairSpec
PROPERTY UniformAgreement
