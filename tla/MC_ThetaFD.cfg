\* ThetaFD alone: 2 nodes, threshold 3, at most one crash.
CONSTANTS
    Node = {1, 2}
    ThetaW = 3
    MaxCrashes = 1
SPECIFICATION ThetaSpec
 
PROPERTY ThetaImplementsTrustedFD
