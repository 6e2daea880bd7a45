\* Two nodes, each TO-broadcasting one tuple; three SYNC rounds per node
\* and two MVC instances, so a delivery can follow one of an earlier instance.
CONSTANTS
    N = 2
    MaxTo = 1
    MaxSn = 3
    MaxInst = 2
INIT Init
NEXT Next
CONSTRAINT StateBound
INVARIANT TypeOK
INVARIANT GapFree
