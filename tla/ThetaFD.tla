------------------------------ MODULE ThetaFD ------------------------------
(***************************************************************************)
(* The Theta failure detector of the merged node (merge/thetafd.rs).       *)
(*                                                                         *)
(* Every node keeps one counter per node (theta_vector).  A heartbeat from *)
(* s resets the counters of s and of the receiver itself and increments    *)
(* every other counter.  trusted() permanently removes from current_trusted *)
(* every node whose counter reached THETAFD_W.  theta_iter sends one       *)
(* heartbeat to every node, the sender itself included.                    *)
(*                                                                         *)
(* Counters are kept capped at ThetaW: trusted() only tests x >= W, and a  *)
(* counter is only ever reset to 0 or incremented, so the cap is exact.    *)
(* The heartbeat channel is a set of <<from, to>> pairs: UDP may lose,     *)
(* delay and reorder a heartbeat; two identical pending heartbeats merge,  *)
(* which is one more loss.  The module is a component of URB and also a    *)
(* specification of its own (ThetaSpec), with crashes of nodes.            *)
(***************************************************************************)
EXTENDS Naturals, FiniteSets

CONSTANTS
    Node,        \* the node ids 1..N
    ThetaW,      \* constants::THETAFD_W
    MaxCrashes   \* how many nodes may crash in a behaviour

ASSUME ThetaW \in Nat \ {0} /\ MaxCrashes \in Nat

VARIABLES
    theta_vector,     \* theta_vector[n][k]: n's counter for k, capped at ThetaW
    current_trusted,  \* current_trusted[n]: the set n still trusts
    theta_chan,       \* theta heartbeats in transit, as <<sender, receiver>>
    crashed           \* nodes that stopped for good

thetaVars == <<theta_vector, current_trusted, theta_chan, crashed>>

ThetaInit ==
    /\ theta_vector = [n \in Node |-> [k \in Node |-> 0]]
    /\ current_trusted = [n \in Node |-> Node]
    /\ theta_chan = {}
    /\ crashed = {}

\* The value trusted() returns: current_trusted without the nodes whose
\* counter reached THETAFD_W.
Trusted(n) == {k \in current_trusted[n] : theta_vector[n][k] < ThetaW}

\* The write trusted() makes: removal from current_trusted is for good.
RefreshTrusted(n) ==
    current_trusted' = [current_trusted EXCEPT ![n] = Trusted(n)]

\* theta_iter: a heartbeat to every node, n itself included.
ThetaIter(n) == theta_chan' = theta_chan \cup {<<n, k>> : k \in Node}

OnThetaHbVectorNoSelfReset(n, s) ==
    [k \in Node |-> IF k = s THEN 0
                    ELSE IF theta_vector[n][k] + 1 >= ThetaW THEN ThetaW
                    ELSE theta_vector[n][k] + 1]

\* on_theta_hb at n for a heartbeat of s.
OnThetaHbVector(n, s) ==
    [k \in Node |-> IF k \in {s, n} THEN 0
                    ELSE IF theta_vector[n][k] + 1 >= ThetaW THEN ThetaW
                    ELSE theta_vector[n][k] + 1]

\* recv_messages -> json_received -> on_theta_hb: a heartbeat of s taken
\* off the socket by n.
OnThetaHb(n, s) ==
    /\ n \notin crashed
    /\ <<s, n>> \in theta_chan
    /\ theta_chan' = theta_chan \ {<<s, n>>}
    /\ theta_vector' = [theta_vector EXCEPT ![n] = OnThetaHbVector(n, s)]
    /\ UNCHANGED <<current_trusted, crashed>>

\* A node stops for good; its heartbeats in transit may still arrive.
Crash(n) ==
    /\ n \notin crashed
    /\ Cardinality(crashed) < MaxCrashes
    /\ crashed' = crashed \cup {n}

(***************************************************************************)
(* The detector on its own: each tick of the driver loop of a live node    *)
(* calls fd_iter (theta_iter) and trusted().                               *)
(***************************************************************************)
ThetaTick(n) ==
    /\ n \notin crashed
    /\ ThetaIter(n)
    /\ RefreshTrusted(n)
    /\ UNCHANGED <<theta_vector, crashed>>

ThetaNext ==
    \/ \E n \in Node : ThetaTick(n)
    \/ \E n, s \in Node : OnThetaHb(n, s)
    \/ \E n \in Node : Crash(n) /\ UNCHANGED <<theta_vector, current_trusted, theta_chan>>

\* The driver loop of a live node runs for ever, and a heartbeat that stays
\* in the socket is eventually read by a live receiver.
ThetaFairness ==
    \A n \in Node : WF_thetaVars(ThetaTick(n)) /\ \A s \in Node : WF_thetaVars(OnThetaHb(n, s))

ThetaSpec == ThetaInit /\ [][ThetaNext]_thetaVars /\ ThetaFairness

(***************************************************************************)
(* Properties                                                              *)
(***************************************************************************)

\* ThetaFD implements TrustedFD: the set trusted() returns only shrinks,
\* never loses the node itself (on_theta_hb resets the receiver's own
\* counter on every heartbeat), and every crashed node is eventually dropped
\* by every live node, whatever order heartbeats in flight arrive in.
TFD == INSTANCE TrustedFD

ThetaImplementsTrustedFD == TFD!TrustSpec
=============================================================================
