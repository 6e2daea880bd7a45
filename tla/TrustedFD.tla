----------------------------- MODULE TrustedFD -----------------------------
(***************************************************************************)
(* What the merged node's failure detector promises to its user: the       *)
(* trusted set trusted() returns at a node only ever shrinks, never loses  *)
(* the node itself, and eventually loses every crashed node.  Nothing more:*)
(* over a network that may delay any heartbeat, a live node may be dropped *)
(* at any time, and is never trusted again.                                *)
(*                                                                         *)
(* ThetaFD implements this specification (MC_ThetaFD checks it).  URB uses *)
(* it in place of ThetaFD, so that its runs cover every trusted set the    *)
(* detector can produce without the detector's counters and heartbeats.   *)
(***************************************************************************)
EXTENDS Naturals, FiniteSets

CONSTANTS Node, MaxCrashes

VARIABLES
    current_trusted,  \* current_trusted[n]: the set trusted() returns at n
    crashed           \* nodes that stopped for good

trustVars == <<current_trusted, crashed>>

TrustTypeOK ==
    /\ current_trusted \in [Node -> SUBSET Node]
    /\ crashed \subseteq Node

TrustInit ==
    /\ current_trusted = [n \in Node |-> Node]
    /\ crashed = {}

\* n stops trusting the nodes of S, itself excepted, for good.
Suspect(n, S) ==
    /\ n \notin crashed
    /\ S # {}
    /\ S \subseteq current_trusted[n] \ {n}
    /\ current_trusted' = [current_trusted EXCEPT ![n] = @ \ S]
    /\ UNCHANGED crashed

\* A node stops for good.
Crash(n) ==
    /\ n \notin crashed
    /\ Cardinality(crashed) < MaxCrashes
    /\ crashed' = crashed \cup {n}
    /\ UNCHANGED current_trusted

TrustNext ==
    \/ \E n \in Node, S \in SUBSET Node : Suspect(n, S)
    \/ \E n \in Node : Crash(n)

\* A crashed node trusted by a live one is eventually suspected by it.
TrustFairness ==
    \A n, c \in Node :
        WF_trustVars(c \in crashed /\ \E S \in SUBSET Node : c \in S /\ Suspect(n, S))

TrustSpec == TrustInit /\ [][TrustNext]_trustVars /\ TrustFairness
=============================================================================
