------------------------------- MODULE TOURB -------------------------------
(***************************************************************************)
(* Total-order URB of the state-machine-replication emulation              *)
(* (self-stabilizing-emulation-of-state-machine-replication, main.rs):     *)
(* the TO-URB section of client_to_urb, the multivalued consensus (MVC) it *)
(* proposes to, and the helpers they call.                                 *)
(*                                                                         *)
(* Node i broadcasts the tuples <<i, 1>>, <<i, 2>>, ... over URB; every    *)
(* node keeps the tuples it has not delivered in undelivered_bag (U),      *)
(* sorted by (seq, sender), and the delivered ones in delivered_bag (D).   *)
(* A SYNC / S_ACK round collects from every node its readiness ready_max   *)
(* (the end of the gap-free prefix it holds) and its consensus sequence    *)
(* numbers; a node then proposes min ready_max to the MVC instance         *)
(* max_seq + 1 and, once instance obs_s + 1 has a result R, delivers its   *)
(* undelivered tuples up to R (bulk_read_and_deliver).                     *)
(*                                                                         *)
(* The MVC of a node has m = 3 slots CS[s % 3]; instance s runs binary     *)
(* consensus objects BC[0..n-1], BC[k] deciding whether the proposal of    *)
(* node k+1 is taken.  Binary consensus itself (its phase-0 / phase-1      *)
(* rounds and Omega) is abstracted: a node whose BC object is active URB-  *)
(* broadcasts DECIDE with the value bcDec fixes for (s, k), chosen once    *)
(* among the estimates est[0] of the nodes' objects for (s, k) (agreement  *)
(* and validity of binary consensus).                                      *)
(*                                                                         *)
(* URB is reliable and nobody crashes.  A URB message is readable by every *)
(* node as soon as it is broadcast and stays readable: PROPOSAL and DECIDE *)
(* are re-broadcast by their sender in every iteration, so reading one     *)
(* again is what the code does; a TOURB tuple read twice is ignored.       *)
(* URB delivers a message to every node within the iteration that sends   *)
(* it, so its sender reads its own PROPOSAL in that iteration's read loop  *)
(* and has_terminated(tx_des) holds from the next iteration.  A SYNC round *)
(* (SYNC to all, an S_ACK from each, the !sync_bool block) is one step.    *)
(***************************************************************************)
EXTENDS Integers, Sequences, FiniteSets, FiniteSetsExt, SequencesExt

CONSTANTS
    N,        \* number_of_nodes; nodes are 1..N
    MaxTo,    \* tuples a node TO-broadcasts (to_broadcast_number bound)
    MaxSn,    \* bound on the SYNC round number sn
    MaxInst   \* bound on MVC instance numbers (obs_s, CS seq)

Node == 1..N
None == -1
Slots == 0..2                 \* m = 3 multivalued objects
BCIdx == 0..N-1               \* BC objects of an instance; node k+1 <-> k

VARIABLES
    obs,        \* obs_s: highest obsolete (delivered) MVC instance
    sn,         \* SYNC round number (rounds completed)
    tbn,        \* to_broadcast_number
    maxSeq,     \* max_seq: greatest getSeq acked (never reset)
    U,          \* undelivered_bag, as a set (it is kept sorted)
    D,          \* delivered_bag
    cs,         \* CS: the three multivalued objects
    bcDec,      \* binary-consensus decision of (instance, k), or None
    tourbMsgs,  \* TOURB tuples URB-broadcast
    propMsgs,   \* PROPOSAL(s, v, node) URB-broadcast
    decMsgs     \* DECIDE(v, s, k) URB-broadcast

vars == <<obs, sn, tbn, maxSeq, U, D, cs, bcDec, tourbMsgs, propMsgs, decMsgs>>

-----------------------------------------------------------------------------
(* Tuples and their ranks.                                                 *)

\* tuple_to_int: the rank of (a, b) in the order (1,1) (2,1) .. (n,1) (1,2)
\* ..; the code counts up to it and never returns for a tuple with no rank.
TupleToInt(t) == (t[2] - 1) * N + t[1]

\* int_to_tuple: the tuple of rank x >= 1.
IntToTuple(x) == <<((x - 1) % N) + 1, ((x - 1) \div N) + 1>>

\* The sort of undelivered_bag: by seq, then by sender.
Before(t1, t2) == TupleToInt(t1) < TupleToInt(t2)

Holds(i, x) == IntToTuple(x) \in U[i] \cup Range(D[i])

\* ReadyMax reporting the greatest tuple held, gaps or not.
ReadyMaxNoGap(i) ==
    LET held == {x \in 1..N * MaxTo : Holds(i, x)}
    IN IF held = {} THEN <<1, 1>> ELSE IntToTuple(Max(held))

\* ready_max: scanning the rows seq = 1 .. max(|U|, |D|) - 1 (an exclusive
\* bound) node by node, the last tuple held before the first one missing;
\* (1,1) when no tuple is scanned or (1,1) is the first missing one.
ReadyMax(i) ==
    LET len == Max({Cardinality(U[i]), Len(D[i])})
        scanned == IF len <= 1 THEN 0 ELSE (len - 1) * N
        r == Max({x \in 0..scanned : \A y \in 1..x : Holds(i, y)})
    IN IF r = 0 THEN <<1, 1>> ELSE IntToTuple(r)

\* ready_min: the successor of the last delivered tuple, (1,1) if none.
ReadyMin(i) ==
    IF D[i] = <<>> THEN <<1, 1>> ELSE IntToTuple(TupleToInt(Last(D[i])) + 1)

\* bulk_read_and_deliver(result): nothing if the tuple of rank result is
\* delivered or not held; else move the head of undelivered_bag to
\* delivered_bag until that tuple has moved.  Returns <<U', D'>>.
BulkReadAndDeliver(result, u, d) ==
    LET t == IntToTuple(result)
        moved == {x \in u : ~Before(t, x)}
    IN IF t \in Range(d) \/ t \notin u THEN <<u, d>>
       ELSE <<u \ moved, d \o SetToSortSeq(moved, Before)>>

-----------------------------------------------------------------------------
(* The multivalued objects.                                                *)

IdleBC == [seq |-> None, k |-> None, est0 |-> None, est2 |-> None]

\* A cleared slot (the reset in the TO-URB section, the initial value).
EmptySlot == [seq |-> None, v |-> None, props |-> [b \in BCIdx |-> None],
              bc |-> [b \in BCIdx |-> IdleBC], txd |-> FALSE,
              oneTerm |-> FALSE]

\* getSeq: the greatest instance of a slot or obs_s.
GetSeq(o, c) == Max({c[x].seq : x \in Slots} \cup {o})

\* test(s): s is the instance of a slot or the next one.
Test(s, c, o) == s \in {c[x].seq : x \in Slots} \/ s = GetSeq(o, c) + 1

\* k(s): the highest index of consecutive BC objects from 0 decided 0.
K(s, c) ==
    LET zeros == {b \in BCIdx : \A j \in 0..b : c[s % 3].bc[j].est2 = 0}
    IN IF zeros = {} THEN -1 ELSE Max(zeros)

\* multi_result(s): -1 while there is no result, -2 on an inconsistency,
\* else the proposal of the node whose BC object decided 1.
MultiResult(s, c, o) ==
    LET sl == c[s % 3]
        k == K(s, c)
    IN IF sl.seq = None \/ ~Test(s, c, o) THEN -1
       ELSE IF k >= N - 1 \/ ~Test(sl.seq, c, o) \/ sl.seq # s \/ sl.v = None
            THEN -2
       ELSE IF sl.bc[k+1].seq = None \/ sl.bc[k+1].est2 = None THEN -1
       ELSE IF sl.props[k+1] = None THEN -2
       ELSE sl.props[k+1]

\* multi_propose(s, v): start instance s in its free slot.
MultiPropose(s, v, c, o) ==
    IF Test(s, c, o) /\ v # None /\ c[s % 3].seq = None
    THEN [c EXCEPT ![s % 3] = [EmptySlot EXCEPT !.seq = s, !.v = v,
                                                !.oneTerm = c[s % 3].oneTerm]]
    ELSE c

\* bin_propose(s, k, v): activate BC object k of instance s with est[0] = v.
BinPropose(s, k, v, c, o) ==
    IF Test(s, c, o) /\ c[s % 3].seq # None /\ c[s % 3].bc[k % N].seq = None
    THEN [c EXCEPT ![s % 3].bc[k % N] =
                     [seq |-> s, k |-> k, est0 |-> v, est2 |-> None]]
    ELSE c

\* big_delta: l sums ready_max - ready_min over the nodes 1 .. n-1 (the
\* loop stops before the last node); small_delta is 0.
SmallDelta == 0

BigDelta(mx, mn, c) ==
    LET l == MapThenSumSet(LAMBDA j : TupleToInt(mx[j]) - TupleToInt(mn[j]),
                           1..N-1)
        allTerminated == \A x \in Slots : c[x].txd
    IN (allTerminated /\ 0 < l) \/ SmallDelta <= l

-----------------------------------------------------------------------------
Init ==
    /\ obs = [i \in Node |-> 0]
    /\ sn = [i \in Node |-> 0]
    /\ tbn = [i \in Node |-> 0]
    /\ maxSeq = [i \in Node |-> 0]
    /\ U = [i \in Node |-> {}]
    /\ D = [i \in Node |-> <<>>]
    /\ cs = [i \in Node |-> [x \in Slots |-> EmptySlot]]
    /\ bcDec = [x \in (1..MaxInst) \X BCIdx |-> None]
    /\ tourbMsgs = {} /\ propMsgs = {} /\ decMsgs = {}

-----------------------------------------------------------------------------
(* Binary consensus, abstracted, and the messages of the MVC.  c is the   *)
(* CS of the node, o its obs_s.                                            *)

\* The BC loop runs the rounds of object k of slot x: it is active (seq,
\* k and est[0] set) and undecided (a decided one only re-broadcasts its
\* DECIDE).
Running(c, x, k) ==
    /\ c[x].seq # None
    /\ c[x].bc[k].seq # None /\ c[x].bc[k].k # None
    /\ c[x].bc[k].est0 # None /\ c[x].bc[k].est2 = None

\* phase(): a PHASE message for object (s, k) carrying vJ activates the
\* idle object k of slot s % 3 with est[0] = vJ, when s passes test and the
\* slot is in use (whatever instance it holds).
Phase(m, c, o) ==
    IF Test(m.s, c, o) /\ c[m.s % 3].seq # None /\ c[m.s % 3].bc[m.k].seq = None
    THEN [c EXCEPT ![m.s % 3].bc[m.k] =
                     [seq |-> m.s, k |-> m.k, est0 |-> m.v, est2 |-> None]]
    ELSE c

\* decide(): a DECIDE for an instance that passes test and whose slot is in
\* use (whatever instance it holds) activates BC object k with est = [v,v]
\* if idle, and sets est[2] = v if undecided.
Decide(m, c, o) ==
    LET b == c[m.s % 3].bc[m.k % N]
        b1 == IF b.seq = None THEN [b EXCEPT !.seq = m.s, !.est0 = m.v] ELSE b
    IN IF Test(m.s, c, o) /\ c[m.s % 3].seq # None
       THEN [c EXCEPT ![m.s % 3].bc[m.k % N] =
                        IF b1.est2 = None THEN [b1 EXCEPT !.est2 = m.v] ELSE b1]
       ELSE c

\* proposal(): a PROPOSAL(s, v, node) that passes test fills the node's
\* entry of slot s % 3 if that slot is in use and the entry empty (whatever
\* instance the slot holds); an idle slot adopts instance s with value v.
Proposal(p, c, o) ==
    LET x == p.s % 3 IN
    IF ~Test(p.s, c, o) \/ p.v = None THEN c
    ELSE IF c[x].seq # None /\ c[x].props[p.node - 1] = None
         THEN [c EXCEPT ![x].props[p.node - 1] = p.v]
    ELSE IF c[x].seq = None
         THEN [c EXCEPT ![x] = [EmptySlot EXCEPT !.seq = p.s, !.v = p.v,
                                                 !.props[p.node - 1] = p.v]]
    ELSE c

\* MvcSlot proposing to BC the proposal itself rather than whether it
\* arrived.
MvcSlotValue(x, c, o) ==
    LET sl1 == IF c[x].v # None
               THEN [c[x] EXCEPT !.oneTerm = @ \/ c[x].txd, !.txd = TRUE]
               ELSE c[x]
        c1 == [c EXCEPT ![x] = sl1]
        k == K(sl1.seq, c1)
        start == /\ sl1.oneTerm /\ k < N - 1 /\ sl1.bc[k+1].seq = None
                 /\ (k = -1 \/ (sl1.bc[k].est2 # None /\ Test(sl1.seq, c1, o)))
    IN IF start
       THEN BinPropose(sl1.seq, k + 1, IF sl1.props[k+1] # None THEN sl1.props[k+1] ELSE 0, c1, o)
       ELSE c1

\* The MVC loop body for slot x: a slot with a value re-broadcasts
\* PROPOSAL (one_term once an earlier one terminated); then, if one_term,
\* bin_propose to the next BC object whether its node's proposal arrived.
MvcSlot(x, c, o) ==
    LET sl1 == IF c[x].v # None
               THEN [c[x] EXCEPT !.oneTerm = @ \/ c[x].txd, !.txd = TRUE]
               ELSE c[x]
        c1 == [c EXCEPT ![x] = sl1]
        k == K(sl1.seq, c1)
        start == /\ sl1.oneTerm /\ k < N - 1 /\ sl1.bc[k+1].seq = None
                 /\ (k = -1 \/ (sl1.bc[k].est2 # None /\ Test(sl1.seq, c1, o)))
    IN IF start
       THEN BinPropose(sl1.seq, k + 1, IF sl1.props[k+1] # None THEN 1 ELSE 0, c1, o)
       ELSE c1

\* Messages are handled in the order (instance, node or k).
MsgBefore(a, b) == <<a.s, a.k>> # <<b.s, b.k>> /\
                   (a.s < b.s \/ (a.s = b.s /\ a.k < b.k))

\* The loops that read the queued PHASE, DECIDE and PROPOSAL messages.
ReadPhases(msgs, c, o) ==
    FoldLeft(LAMBDA acc, m : Phase(m, acc, o), c, SetToSortSeq(msgs, MsgBefore))
ReadDecides(msgs, c, o) ==
    FoldLeft(LAMBDA acc, m : Decide(m, acc, o), c, SetToSortSeq(msgs, MsgBefore))
ReadProposals(msgs, c, o) ==
    FoldLeft(LAMBDA acc, m : Proposal(m, acc, o), c, SetToSortSeq(msgs, MsgBefore))

\* The consensus part of an iteration of node i's loop.  The BC loop runs
\* the rounds of each running object: in them the node answers PHASE
\* messages (joining the objects other nodes run), and the rounds of the
\* objects in dec end with a decision, URB-broadcast as DECIDE(v, s, k), v
\* the value every node decides for (s, k): one of the est[0] of the
\* nodes' objects for (s, k).  Then the DECIDE messages, the MVC loop over
\* the slots 0, 1, 2 (re-broadcasting PROPOSALs) and the PROPOSAL messages.
\* A message of another node is read in the first iteration after it was
\* sent; the node's own PROPOSALs are delivered to it within the iteration.
MvcIteration(i) ==
    LET o == obs[i]
        run == {xk \in Slots \X BCIdx : Running(cs[i], xk[1], xk[2])}
        others == UNION {{[s |-> cs[j][xk[1]].bc[xk[2]].seq, k |-> xk[2],
                           v |-> cs[j][xk[1]].bc[xk[2]].est0] :
                            xk \in {xk \in Slots \X BCIdx : Running(cs[j], xk[1], xk[2])}} :
                          j \in Node \ {i}}
        c1 == IF run = {} THEN cs[i] ELSE ReadPhases(others, cs[i], o)
        c2 == ReadDecides(decMsgs, c1, o)
        c3 == MvcSlot(2, MvcSlot(1, MvcSlot(0, c2, o), o), o)
        sent == {[s |-> cs[i][x].seq, v |-> cs[i][x].v, node |-> i] :
                  x \in {y \in Slots : cs[i][y].v # None}}
        c4 == ReadProposals({[s |-> p.s, k |-> p.node, v |-> p.v, node |-> p.node] :
                                   p \in propMsgs \cup sent}, c3, o)
        key(xk) == <<cs[i][xk[1]].bc[xk[2]].seq, xk[2]>>
        cands(xk) == IF bcDec[key(xk)] # None THEN {bcDec[key(xk)]}
                     ELSE {cs[j][xk[1]].bc[xk[2]].est0 :
                            j \in {j \in Node : cs[j][xk[1]].bc[xk[2]].seq = key(xk)[1]
                                                /\ cs[j][xk[1]].bc[xk[2]].est0 # None}}
    IN \E dec \in SUBSET {xk \in run : key(xk)[1] <= MaxInst} :
       \E val \in [dec -> {0, 1}] :
          /\ \A xk \in dec : val[xk] \in cands(xk)
          /\ bcDec' = [kk \in DOMAIN bcDec |->
                         IF \E xk \in dec : key(xk) = kk
                         THEN val[CHOOSE xk \in dec : key(xk) = kk] ELSE bcDec[kk]]
          /\ decMsgs' = decMsgs \cup {[v |-> val[xk], s |-> key(xk)[1], k |-> xk[2]] :
                                       xk \in dec}
          /\ cs' = [cs EXCEPT ![i] = c4]
          /\ propMsgs' = propMsgs \cup sent
          /\ <<cs', propMsgs', decMsgs'>> # <<cs, propMsgs, decMsgs>>

-----------------------------------------------------------------------------
(* TO-URB.                                                                 *)

\* Every 50 iterations, unless a global reset is on: URB-broadcast the
\* next tuple.
ToBroadcast(i) ==
    /\ tbn[i] < MaxTo
    /\ tbn' = [tbn EXCEPT ![i] = @ + 1]
    /\ tourbMsgs' = tourbMsgs \cup {<<i, tbn[i] + 1>>}
    /\ UNCHANGED <<obs, sn, maxSeq, U, D, cs, bcDec, propMsgs, decMsgs>>

\* A TOURB tuple neither undelivered nor delivered joins undelivered_bag.
ReadTourb(i) ==
    \E t \in tourbMsgs :
        /\ t \notin U[i] \cup Range(D[i])
        /\ U' = [U EXCEPT ![i] = @ \cup {t}]
        /\ UNCHANGED <<obs, sn, tbn, maxSeq, D, cs, bcDec, tourbMsgs,
                       propMsgs, decMsgs>>

\* A SYNC round of node i, from the SYNC(sn, i) it sends every node to the
\* step after the round ended (sync_bool false).  Every node p answers
\* with S_ACK(sn, getSeq, obs_s, ready_max, ready_min, p) (nobody is
\* suspected, so the round ends when all have); the S_ACKs fill
\* max_ready_vec and min_ready_vec, all_ready_converted (min ready_max),
\* max_seq and all_seq.  Then obs_s catches up with getSeq and max_seq
\* unless they agree; the slots of x, y and (if one (getSeq, obs_s) pair
\* was acked) z + 1 are kept, the others cleared; if one pair was acked and
\* big_delta, all_ready_converted is proposed to instance max_seq + 1; if
\* instance obs_s + 1 has a result, the node delivers up to it (not on -2)
\* and makes it obsolete.  SyncResult is the round's outcome: obs_s before
\* the delivery check, max_seq, the CS, whether an instance is made
\* obsolete and its multi_result.
SyncResult(i) ==
    LET mx == [p \in Node |-> ReadyMax(p)]
        mn == [p \in Node |-> ReadyMin(p)]
        arc == Min({TupleToInt(mx[p]) : p \in Node})
        allSeq == {<<GetSeq(obs[p], cs[p]), obs[p]>> : p \in Node}
        x == obs[i]
        y == GetSeq(obs[i], cs[i])
        z == Max({maxSeq[i]} \cup {GetSeq(obs[p], cs[p]) : p \in Node})
        o1 == IF (x + 1 = y /\ y = z) \/ (x = y /\ y = z) \/ (x = y /\ y = z - 1)
              THEN x ELSE Max({x, y, z})
        keep == {y % 3} \cup (IF x < y THEN {x % 3} ELSE {})
                        \cup (IF Cardinality(allSeq) = 1 THEN {(z + 1) % 3} ELSE {})
        c1 == [sl \in Slots |-> IF sl \in keep THEN cs[i][sl] ELSE EmptySlot]
        c2 == IF Cardinality(allSeq) = 1 /\ o1 = GetSeq(o1, c1) /\ BigDelta(mx, mn, c1)
              THEN MultiPropose(z + 1, arc, c1, o1) ELSE c1
        r == MultiResult(o1 + 1, c2, o1)
        fire == o1 + 1 = GetSeq(o1, c2) /\ c2[(o1 + 1) % 3].seq # None /\ r # -1
    IN [o |-> o1, z |-> z, c |-> c2, fire |-> fire, r |-> r]

SyncRound(i) ==
    LET sr == SyncResult(i)
        ud == IF sr.fire /\ sr.r # -2 THEN BulkReadAndDeliver(sr.r, U[i], D[i])
              ELSE <<U[i], D[i]>>
    IN /\ sn' = [sn EXCEPT ![i] = @ + 1]
       /\ maxSeq' = [maxSeq EXCEPT ![i] = sr.z]
       /\ cs' = [cs EXCEPT ![i] = sr.c]
       /\ obs' = [obs EXCEPT ![i] = IF sr.fire THEN sr.o + 1 ELSE sr.o]
       /\ U' = [U EXCEPT ![i] = ud[1]]
       /\ D' = [D EXCEPT ![i] = ud[2]]
       /\ UNCHANGED <<tbn, bcDec, tourbMsgs, propMsgs, decMsgs>>

-----------------------------------------------------------------------------
\* The MVC and BC steps leave the TO-URB state alone.
MvcStep(i) ==
    /\ MvcIteration(i)
    /\ UNCHANGED <<obs, sn, tbn, maxSeq, U, D, tourbMsgs>>

Next ==
    \E i \in Node :
        MvcStep(i) \/ ToBroadcast(i) \/ ReadTourb(i) \/ SyncRound(i)

Spec == Init /\ [][Next]_vars

-----------------------------------------------------------------------------
TypeOK ==
    /\ obs \in [Node -> 0..MaxInst + 1]
    /\ \A i \in Node : U[i] \subseteq tourbMsgs /\ IsInjective(D[i])
    /\ cs \in [Node -> [Slots -> [seq : {None} \cup 1..MaxInst + 1,
                                  v : Int, props : [BCIdx -> Int],
                                  bc : [BCIdx -> [seq : Int, k : {None} \cup BCIdx,
                                                  est0 : {None, 0, 1},
                                                  est2 : {None, 0, 1}]],
                                  txd : BOOLEAN, oneTerm : BOOLEAN]]]

\* Total order: every node delivers the tuples in the one order (1,1) (2,1)
\* .. (n,1) (1,2) ..., without a gap: its delivered_bag is a prefix of that
\* order.  Each delivery goes up to a result proposed from the ready_max of
\* every node at its S_ACK, so a node must already hold every tuple below
\* it; a wrong ready_max, a result taken from the wrong slot, or delivery
\* past a missing tuple, breaks it.
GapFree ==
    \A i \in Node : \A x \in 1..Len(D[i]) : D[i][x] = IntToTuple(x)
=============================================================================
