---------------------------- MODULE GlobalReset ----------------------------
(***************************************************************************)
(* The self-stabilizing global reset of the state-machine-replication      *)
(* emulation (self-stabilizing-emulation-of-state-machine-replication,     *)
(* application/src/main.rs, client_to_urb).  When a node's round number r  *)
(* or its sync number sn reaches i32::MAX (max_int), the nodes go through  *)
(* the phases prp 0 -> 1 -> 2 -> 0 together, exchanging ECHO messages, and *)
(* every node sets sn back to 0 when it leaves phase 2.                    *)
(*                                                                         *)
(* Each node keeps its view of every node's phase prp[k] and flag all[k],  *)
(* all_seen[k], and echo_vec[k]: the (prp, all) pair k last echoed back    *)
(* about this node.  The degree of a node is 2 * prp + (1 if all), a value *)
(* of 0..5 read cyclically.                                                *)
(*                                                                         *)
(* One iteration of the loop's global-reset section is one step.  The      *)
(* counters r and sn are abstracted: r is at i32::MAX for one iteration,  *)
(* sn is below i32::MAX, at it, or wrapped past it by the sync's sn += 1.  *)
(* ECHOs travel over UDP into the receiver's echo VecDeque, modelled as a  *)
(* FIFO queue per (sender, receiver) in the order they were sent.  An      *)
(* iteration's read loop takes, from each sender's queue, the ECHOs that   *)
(* arrived; UDP may reorder them, and the seq_res test (an ECHO is taken   *)
(* only if its seq_res exceeds the last one taken from its sender) drops   *)
(* every one older than one already taken.  Whatever the arrival order,    *)
(* what is taken is an increasing sub-sequence of the queue, and what is   *)
(* left is the part after the last ECHO taken: an ECHO skipped before it   *)
(* is either lost or dropped by seq_res on arrival.  So one read takes any *)
(* set of indices I of the queue and keeps the suffix after Max(I).  A     *)
(* read leaves at most Lag ECHOs of a sender behind the last one it takes.*)
(***************************************************************************)
EXTENDS Integers, Sequences, FiniteSets, FiniteSetsExt, Functions, SequencesExt

CONSTANTS
    Node,          \* the node ids
    MaxOverflows,  \* bound on the iterations in which r or sn reaches i32::MAX
    MaxQueue,      \* bound on the ECHOs from one node to another in transit:
                   \* a node runs at most MaxQueue iterations ahead of a
                   \* receiver
    Lag            \* bound on the ECHOs a read leaves in transit behind the
                   \* last one it takes from a sender

ASSUME MaxOverflows \in Nat /\ MaxQueue \in Nat \ {0} /\ Lag \in 0..(MaxQueue - 1)

VARIABLES
    prp,        \* prp[n][k]: n's view of k's phase
    all,        \* all[n][k]
    all_seen,   \* all_seen[n][k]
    echo_vec,   \* echo_vec[n][k]: <<prp, all>> k echoed about n
    new_max_prp,\* new_max_prp at n (kept across iterations)
    reset,      \* reset at n: no new TO-URB broadcasts or syncs
    sn,         \* sn at n: SnBelow, SnMax or SnWrapped
    net,        \* net[j][i]: the ECHOs from j to i in transit, in order
    overflows   \* iterations so far in which r or sn reached i32::MAX

vars == <<prp, all, all_seen, echo_vec, new_max_prp, reset, sn, net,
          overflows>>

Phases == 0..2

\* The abstract values of sn: below i32::MAX, at it, and past it, which
\* i32 addition without overflow checks wraps to i32::MIN.
SnValues == {"SnBelow", "SnMax", "SnWrapped"}

Echoes == [prpJ : Phases, allJ : BOOLEAN, prpI : Phases, allI : BOOLEAN]

(***************************************************************************)
(* The macros of main.rs, on the local state st of node n: a record with   *)
(* fields prp, all, seen, echo, nmp, reset and sn.                         *)
(***************************************************************************)

\* my_all(k): all[k], or, for n itself, some node seen with all that is
\* already one phase ahead.
MyAll(n, st, k) ==
    \/ st.all[k]
    \/ /\ k = n
       /\ \E i \in Node : st.seen[i] /\ st.prp[i] = (st.prp[n] + 1) % 3

\* degree(k)
Degree(n, st, k) == 2 * st.prp[k] + (IF MyAll(n, st, k) THEN 1 ELSE 0)

\* greater_equal(k, i): k's degree is i's or one more, modulo 6
\* (wrapping_rem_euclid is TLA+'s %).
GreaterEqual(n, st, k, i) == (Degree(n, st, k) - Degree(n, st, i)) % 6 \in {0, 1}

\* corr_deg(k, i): the degrees of k and i are equal or adjacent.
CorrDeg(n, st, k, i) ==
    LET xi == Degree(n, st, i)
        xk == Degree(n, st, k)
    IN xi = xk \/ xi = (xk + 1) % 6 \/ xk = (xi + 1) % 6

\* all_seen_fn: every node seen with all, and n itself with all.
AllSeenFn(n, st) == (\A i \in Node : st.seen[i]) /\ st.all[n]

\* The echo test of the loop: k echoed n's phase and my_all back, and k's
\* degree is n's or one more.
Echoed(n, st, k) ==
    /\ st.echo[k] = <<st.prp[n], MyAll(n, st, n)>>
    /\ GreaterEqual(n, st, k, n)

NoneSeen == [k \in Node |-> FALSE]

\* mod_max: when some node is in phase 1, none in 2, and n is behind, n
\* forgets all_seen and takes the greatest phase.  max_prp returns
\* mod_max whenever some k is greater_equal n, which k = n always is.
MaxPrp(n, st) ==
    LET mx == Max(Range(st.prp))
    IN IF 1 \in Range(st.prp) /\ 2 \notin Range(st.prp) /\ st.prp[n] # mx
       THEN [st EXCEPT !.seen = NoneSeen, !.prp[n] = mx]
       ELSE st

(***************************************************************************)
(* The steps of the global-reset section, in the order of the code.        *)
(***************************************************************************)

\* max_int(r, sn) and no reset yet: a node that has seen every node with
\* all, got every echo back and sees every node in (0, true) starts phase 1.
StartReset(n, trig, st) ==
    IF trig /\ ~st.reset
    THEN IF /\ AllSeenFn(n, st)
            /\ \A i \in Node : Echoed(n, st, i)
            /\ \A i \in Node : st.prp[i] = 0 /\ st.all[i]
         THEN [st EXCEPT !.reset = TRUE, !.seen = NoneSeen, !.prp[n] = 1,
                         !.all[n] = FALSE]
         ELSE [st EXCEPT !.reset = TRUE]
    ELSE st

\* reset holds while some node is seen in phase 1 or 2; then max_prp.
AdoptPhase(n, st) ==
    LET st1 == MaxPrp(n, [st EXCEPT !.reset = 1 \in Range(st.prp) \/ 2 \in Range(st.prp)])
    IN [st1 EXCEPT !.nmp = @ \/ st1.prp[n] # st.prp[n]]

\* all[n] is set when every node echoed n's phase; otherwise cleared,
\* unless n is in phase 1 or 2 with all already set and did not just
\* change phase.
UpdateAll(n, st) ==
    IF \A i \in Node : st.prp[n] = st.echo[i][1] /\ GreaterEqual(n, st, i, n)
    THEN [st EXCEPT !.all[n] = TRUE]
    ELSE IF (~(st.all[n] /\ st.prp[n] = 1) /\ ~(st.all[n] /\ st.prp[n] = 2)) \/ st.nmp
         THEN [st EXCEPT !.all[n] = FALSE, !.nmp = FALSE]
         ELSE st

MarkSeen(st) == [st EXCEPT !.seen = [k \in Node |-> @[k] \/ st.all[k]]]

\* The consistency check: some node's degree is not n's or adjacent, or
\* some node is one phase ahead of n and not seen with all: every phase
\* and all flag n holds is cleared.
PhaseInconsistent(n, st) ==
    \/ \E k \in Node : ~CorrDeg(n, st, k, n)
    \/ \E k \in Node : (st.prp[n] + 1) % 3 = st.prp[k] /\ ~st.seen[k]

CheckPhases(n, st) ==
    IF PhaseInconsistent(n, st)
    THEN [st EXCEPT !.prp = [k \in Node |-> 0], !.all = [k \in Node |-> FALSE]]
    ELSE st

\* Mutant of Advance: phase 2 is never left.
AdvanceNoExit(n, st) ==
    IF /\ AllSeenFn(n, st) /\ \A i \in Node : Echoed(n, st, i)
       /\ st.prp[n] = 1
    THEN [st EXCEPT !.seen = NoneSeen, !.prp[n] = 2, !.all[n] = FALSE]
    ELSE st

\* Mutant of Advance: phase 2 moves on to prp + 1 instead of back to 0.
AdvancePastTwo(n, st) ==
    IF AllSeenFn(n, st) /\ \A i \in Node : Echoed(n, st, i)
    THEN CASE st.prp[n] = 1 ->
                [st EXCEPT !.seen = NoneSeen, !.prp[n] = 2, !.all[n] = FALSE]
           [] st.prp[n] = 2 ->
                [st EXCEPT !.seen = NoneSeen, !.prp[n] = 3, !.all[n] = FALSE,
                           !.reset = FALSE, !.sn = "SnBelow"]
           [] OTHER -> st
    ELSE st

\* Every node seen with all and every echo back: phase 1 moves to 2, and
\* phase 2 to 0, which ends the reset and sets sn to 0.
Advance(n, st) ==
    IF AllSeenFn(n, st) /\ \A i \in Node : Echoed(n, st, i)
    THEN CASE st.prp[n] = 1 ->
                [st EXCEPT !.seen = NoneSeen, !.prp[n] = 2, !.all[n] = FALSE]
           [] st.prp[n] = 2 ->
                [st EXCEPT !.seen = NoneSeen, !.prp[n] = 0, !.all[n] = FALSE,
                           !.reset = FALSE, !.sn = "SnBelow"]
           [] OTHER -> st
    ELSE st

\* The ECHO n sends to x: its phase and my_all, and its view of x.
EchoTo(n, st, x) ==
    [prpJ |-> st.prp[n], allJ |-> MyAll(n, st, n), prpI |-> st.prp[x], allI |-> st.all[x]]

\* An ECHO m from j: j's phase and all are taken unless it would clear an
\* all already seen for j in the same phase 1 or 2; echo_vec[j] always.
ReceiveEcho(n, j, st, m) ==
    IF /\ j # n
       /\ ~(m.prpJ = 1 /\ ~m.allJ /\ st.prp[j] = 1 /\ st.all[j])
       /\ ~(m.prpJ = 2 /\ ~m.allJ /\ st.prp[j] = 2 /\ st.all[j])
    THEN [st EXCEPT !.prp[j] = m.prpJ, !.all[j] = m.allJ, !.echo[j] = <<m.prpI, m.allI>>]
    ELSE [st EXCEPT !.echo[j] = <<m.prpI, m.allI>>]

\* The loop that reads the echo queue: rd[j] is the sequence of ECHOs read
\* from j, in order.  ECHOs of different senders touch different entries.
Receive(n, st, rd) ==
    FoldSet(LAMBDA j, acc : FoldLeft(LAMBDA a, m : ReceiveEcho(n, j, a, m), acc, rd[j]),
            st, Node)

\* The index sets one iteration may read from a queue q: the whole queue
\* when the network is timely, otherwise any set that leaves at most Lag
\* ECHOs behind its last index.
ReadSets(q, timely) ==
    IF timely THEN {DOMAIN q}
    ELSE {I \in SUBSET DOMAIN q : Len(q) - Max(I \cup {0}) <= Lag}

\* The ECHOs taken from q at the indices I, in the order they were sent:
\* the ones whose seq_res passes the seq_res_rec test.
Taken(q, I) == [i \in 1..Cardinality(I) |-> q[SetToSortSeq(I, <)[i]]]

\* What is still in transit after the read: the ECHOs sent after the last
\* one taken (seq_res_rec[j] is now its seq_res).
Untaken(q, I) == SubSeq(q, Max(I \cup {0}) + 1, Len(q))

LocalState(n) ==
    [prp |-> prp[n], all |-> all[n], seen |-> all_seen[n], echo |-> echo_vec[n],
     nmp |-> new_max_prp[n], reset |-> reset[n], sn |-> sn[n]]

TypeOK ==
    /\ prp \in [Node -> [Node -> Phases]]
    /\ all \in [Node -> [Node -> BOOLEAN]]
    /\ all_seen \in [Node -> [Node -> BOOLEAN]]
    /\ echo_vec \in [Node -> [Node -> Phases \X BOOLEAN]]
    /\ new_max_prp \in [Node -> BOOLEAN]
    /\ reset \in [Node -> BOOLEAN]
    /\ sn \in [Node -> SnValues]
    /\ net \in [Node -> [Node -> Seq(Echoes)]]
    /\ overflows \in 0..MaxOverflows

\* The initial values of client_to_urb's global-reset variables.
Init ==
    /\ prp = [n \in Node |-> [k \in Node |-> 0]]
    /\ all = [n \in Node |-> [k \in Node |-> FALSE]]
    /\ all_seen = [n \in Node |-> [k \in Node |-> FALSE]]
    /\ echo_vec = [n \in Node |-> [k \in Node |-> <<0, FALSE>>]]
    /\ new_max_prp = [n \in Node |-> FALSE]
    /\ reset = [n \in Node |-> FALSE]
    /\ sn = [n \in Node |-> "SnBelow"]
    /\ net = [j \in Node |-> [i \in Node |-> <<>>]]
    /\ overflows = 0

\* The TO-URB sync of an iteration runs while reset is false; when every
\* trusted node acknowledged sn, it does sn += 1, which from below i32::MAX
\* may reach it, and from i32::MAX passes it.
SyncSteps ==
    {<<"SnBelow", "SnBelow">>, <<"SnBelow", "SnMax">>, <<"SnMax", "SnMax">>,
     <<"SnMax", "SnWrapped">>, <<"SnWrapped", "SnWrapped">>}

\* One iteration at n.  snNext: sn after the iteration's sync; rHit: r is
\* at i32::MAX.  Then the global-reset section, its ECHOs to every node
\* (n included, seq_res += 1), and the read loop: from each sender j the
\* ECHOs at the indices rd[j] of its queue to n.
TickWith(n, snNext, rHit, timely) ==
    \E st0 \in {[LocalState(n) EXCEPT !.sn = snNext]} :
    \E st1 \in {UpdateAll(n, AdoptPhase(n, StartReset(n, snNext = "SnMax" \/ rHit, st0)))} :
    \E st2 \in {MarkSeen(st1)} :
    \E st3 \in {Advance(n, CheckPhases(n, st2))} :
    \E net1 \in {[net EXCEPT ![n] = [x \in Node |-> Append(@[x], EchoTo(n, st3, x))]]} :
    \E rd \in {f \in [Node -> SUBSET (1..MaxQueue)] :
                 \A j \in Node : f[j] \in ReadSets(net1[j][n], timely)} :
    \E st \in {Receive(n, st3, [j \in Node |-> Taken(net1[j][n], rd[j])])} :
       /\ prp' = [prp EXCEPT ![n] = st.prp]
       /\ all' = [all EXCEPT ![n] = st.all]
       /\ all_seen' = [all_seen EXCEPT ![n] = st.seen]
       /\ echo_vec' = [echo_vec EXCEPT ![n] = st.echo]
       /\ new_max_prp' = [new_max_prp EXCEPT ![n] = st.nmp]
       /\ reset' = [reset EXCEPT ![n] = st.reset]
       /\ sn' = [sn EXCEPT ![n] = st.sn]
       /\ net' = [j \in Node |-> [net1[j] EXCEPT ![n] = Untaken(@, rd[j])]]
       /\ overflows' = overflows + (IF rHit \/ (snNext = "SnMax" /\ sn[n] # "SnMax") THEN 1 ELSE 0)

TickRead(n, timely) ==
    \E snNext \in SnValues, rHit \in BOOLEAN :
        /\ <<sn[n], snNext>> \in SyncSteps
        /\ reset[n] => snNext = sn[n]
        /\ rHit \/ (snNext = "SnMax" /\ sn[n] # "SnMax") => overflows < MaxOverflows
        /\ \A x \in Node : Len(net[n][x]) < MaxQueue
        /\ TickWith(n, snNext, rHit, timely)

\* An iteration with late, lost or reordered ECHOs.
Tick(n) == TickRead(n, FALSE)

\* An iteration that reads every ECHO sent to it so far.
TimelyTick(n) == TickRead(n, TRUE)

Next == \E n \in Node : Tick(n)

Spec == Init /\ [][Next]_vars

\* client_to_urb loops forever without blocking, and the network is
\* eventually timely: a node that keeps iterating keeps having iterations
\* in which every ECHO sent to it has arrived.
FairSpec == Spec /\ \A n \in Node : WF_vars(TimelyTick(n))

(***************************************************************************)
(* Properties                                                              *)
(***************************************************************************)

\* A node that is in phase 1 or 2 eventually returns to phase 0: the
\* reset never waits forever on an echo or an all flag.
LeavesReset == \A n \in Node : prp[n][n] # 0 ~> prp[n][n] = 0

\* A node moves from phase 1 to phase 2 only when every node is in
\* phase 1 or 2: the phase barrier of the global reset.
PhaseBarrier ==
    [][\A n \in Node : prp[n][n] = 1 /\ prp'[n][n] = 2 =>
                        \A k \in Node : prp[k][k] \in {1, 2}]_vars

=============================================================================
