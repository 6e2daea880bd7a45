\* One broadcaster, n1, SCD-broadcasts twice; three nodes, window 1,
\* recovery every tick (the default delta of 1).
CONSTANTS
    n1 = n1
    n2 = n2
    n3 = n3
    Node <- MCNode
    Inf <- MCInf
    None = None
    Broadcasters = {n1}
    MaxBcast = 2
    MaxUrb = 2
    MaxSn = 4
    WindowSize = 1
    Delta = 1
    MaxRecv = 1
INIT Init
NEXT Next
CONSTRAINT StateBound
INVARIANT TypeOK
INVARIANT NoDuplicateDelivery
INVARIANT NoIllegalScdRecovery
