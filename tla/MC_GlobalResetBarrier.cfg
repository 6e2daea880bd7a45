CONSTANTS
    n1 = n1
    n2 = n2
    Node <- MCNode
    MaxOverflows = 1
    MaxQueue = 2
    Lag = 0
SPECIFICATION Spec
PROPERTY PhaseBarrier
