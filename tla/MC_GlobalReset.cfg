CONSTANTS
    n1 = n1
    n2 = n2
    Node <- MCNode
    MaxOverflows = 2
    MaxQueue = 2
    Lag = 0
SPECIFICATION FairSpec
INVARIANT TypeOK
PROPERTY LeavesReset
