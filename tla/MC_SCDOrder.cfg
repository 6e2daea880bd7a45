\* Nodes n1 and n2 each SCD-broadcast once: two nodes deliver the two
\* messages in opposite orders.
CONSTANTS
    n1 = n1
    n2 = n2
    n3 = n3
    Node <- MCNode
    Inf <- MCInf
    None = None
    Broadcasters = {n1, n2}
    MaxBcast = 1
    MaxUrb = 1
    MaxSn = 3
    WindowSize = 1
    Delta = 1
    MaxRecv = 1
INIT Init
NEXT Next
CONSTRAINT StateBound
INVARIANT ScdOrder
