--------------------------- MODULE MC_GlobalReset ---------------------------
EXTENDS GlobalReset, TLC

CONSTANTS n1, n2

\* Two nodes: with three, the liveness run does not finish in five minutes.
MCNode == {n1, n2}
=============================================================================
