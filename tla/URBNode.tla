------------------------------ MODULE URBNode ------------------------------
(***************************************************************************)
(* The URB node of the state-machine-replication application              *)
(* (application/src/urb/urb_node.rs, hbfd.rs, thetafd.rs), which the      *)
(* consensus layers modelled by TOURB broadcast through.                   *)
(*                                                                         *)
(* Unlike the merged node (module URB), a node runs several threads that   *)
(* share its state under locks:                                            *)
(*   - the client thread calls urbBroadcast, blocking on the condition     *)
(*     variable txObsS_changed while the window is full: UrbBroadcast(n);  *)
(*   - the communicator thread calls json_received for every datagram,     *)
(*     pushing MSG, MSGAck and GOSSIP into per-sender ring channels that   *)
(*     overwrite their oldest entry when full;                             *)
(*   - do_forever_loop runs the protocol, one iteration per step:          *)
(*     LoopIter(n);                                                        *)
(*   - the ThetaFD thread's heartbeats shrink trusted() (TrustedFD's       *)
(*     Suspect), and the HBFD thread's heartbeats advance hb, which only   *)
(*     the retransmission test reads (module HBFD's hbAdvanced).           *)
(* The buffer is a HashMap keyed by tag: a set of records with distinct    *)
(* tags, iterated in an order nobody controls.  Payloads are left out.     *)
(*                                                                         *)
(* One iteration is one step: the client thread's urbBroadcast            *)
(* interleaves between iterations, and the iteration reads trusted() once. *)
(* The rings are not state of their own: what an iteration drains from    *)
(* them is a set of the datagrams in transit, at most a ring's capacity of *)
(* each kind and sender, in the order they arrived, which the network      *)
(* does not fix.  A datagram a full ring overwrites is one the network     *)
(* lost, and one that arrives after the drain is still in transit.  *)
(***************************************************************************)
EXTENDS Integers, Sequences, FiniteSets, FiniteSetsExt, SequencesExt

CONSTANTS
    Node,          \* node ids (SETTINGS node_ids)
    Broadcasters,  \* nodes whose client thread calls urbBroadcast
    MaxSeq,        \* bound on the broadcasts of one node
    WindowSize,    \* commons::constants::WINDOW_SIZE
    Delta,         \* recovery every Delta-th iteration (100 in the code)
    MaxCrashes,    \* bound on crashed nodes
    MaxRecv,       \* bound on the datagrams one iteration drains from the rings
    SuspectLive,   \* may ThetaFD drop a node that has not crashed
    Lossy,         \* may the network lose a datagram
    PromptHeartbeats \* every iteration follows an HBFD heartbeat of every live node

ASSUME /\ Broadcasters \subseteq Node
       /\ MaxSeq \in Nat /\ WindowSize \in Nat \ {0} /\ Delta \in Nat \ {0} /\ MaxRecv \in Nat \ {0}
       /\ SuspectLive \in BOOLEAN /\ Lossy \in BOOLEAN /\ PromptHeartbeats \in BOOLEAN

VARIABLES
    seq,              \* UrbNode.seq
    buffer,           \* UrbNode.buffer: a set of records, one per tag
    rxObsS,           \* rxObsS[n][k]
    txObsS,           \* txObsS[n][k]
    next_to_deliver,  \* next_to_deliver[n][k]
    current_trusted,  \* the trusted sets (TrustedFD)
    crashed,          \* nodes that stopped for good
    net,              \* datagrams in transit
    iterations,       \* do_forever_loop's iteration counter, modulo Delta
    delivered_tags    \* urbDeliver's log, in delivery order (history)

fd == INSTANCE TrustedFD
hbfd == INSTANCE HBFD

nodeVars == <<seq, buffer, rxObsS, txObsS, next_to_deliver>>
fdVars == <<current_trusted, crashed>>
vars == <<nodeVars, fdVars, net, iterations, delivered_tags>>

(***************************************************************************)
(* Data                                                                    *)
(***************************************************************************)
Seqs == 0..MaxSeq
Tags == [id : Node, seq : 1..MaxSeq]
Kinds == {"MSG", "MSGAck", "GOSSIP"}

\* BufferRecord (urb/types.rs) without msg; prevHB is hbAdvanced.
Records == [tag : Tags, delivered : BOOLEAN, recBy : SUBSET Node, hbAdvanced : SUBSET Node]

Messages ==
    [type : {"MSG", "MSGAck"}, sender : Node, dest : Node, tag : Tags]
    \cup [type : {"GOSSIP"}, sender : Node, dest : Node,
          maxSeq : Seqs, rxObsS : Seqs, txObsS : Seqs]

\* The capacity of the ring channels of a kind (start_the_do_forever_loop).
RingSize(kind) == IF kind = "GOSSIP" THEN 1 ELSE 2 * WindowSize

Alive(n) == n \notin crashed

(***************************************************************************)
(* Helpers of UrbNode                                                      *)
(***************************************************************************)

\* The record of tag in buffer b, as a set of at most one record.
RecordOf(b, tag) == {r \in b : r.tag = tag}

\* maxSeq(k): the largest seq of k in the buffer, or next_to_deliver[k] - 1.
MaxSeqOf(b, ntd, k) == Max({r.tag.seq : r \in {x \in b : x.tag.id = k}} \cup {0, ntd[k] - 1})

\* minTxObsS(): the trusted set always holds the node itself.
MinTxObsS(T, tx) == Min({tx[k] : k \in T})

\* obsolete(record, rxObsS)
Obsolete(r, T, rx) ==
    /\ rx[r.tag.id] + 1 = r.tag.seq
    /\ r.delivered
    /\ T \subseteq r.recBy

\* update(msg, tag, forwarder) at n: a record is created, acknowledged by n
\* and the tag's sender only, when unseen and msg is Some; otherwise the
\* tag's sender and the forwarder join the recBy of an existing record.
Update(n, b, hasMsg, tag, fwd, rx) ==
    IF tag.seq <= rx[tag.id] THEN b
    ELSE IF RecordOf(b, tag) = {}
         THEN IF hasMsg
              THEN b \cup {[tag |-> tag, delivered |-> FALSE, recBy |-> {n, tag.id},
                            hbAdvanced |-> hbfd!FreshHb]}
              ELSE b
         ELSE {IF r.tag = tag THEN [r EXCEPT !.recBy = @ \cup {tag.id, fwd}] ELSE r : r \in b}

(***************************************************************************)
(* self_stabilizing_recovery, every Delta-th iteration                     *)
(***************************************************************************)

\* reset_txObsS_if_corrupted: seq out of [ms, ms + window], or one of the
\* node's own tags ms+1..seq without a record, makes txObsS uniformly seq.
TxObsSCorrupted(n, T, st) ==
    LET ms == MinTxObsS(T, st.tx) IN
    \/ ~(st.seq >= ms /\ st.seq <= ms + WindowSize)
    \/ \E q \in (ms + 1)..st.seq : RecordOf(st.buf, [id |-> n, seq |-> q]) = {}

ResetTxObsS(n, T, st) ==
    IF TxObsSCorrupted(n, T, st) THEN [st EXCEPT !.tx = [k \in Node |-> st.seq]] ELSE st

\* Mutation variant of AdjustRxObsS: the window added to maxSeq instead of
\* subtracted.
AdjustRxObsSPlus(st) ==
    LET rx1 == [k \in Node |-> Max({MaxSeqOf(st.buf, st.ntd, k) + WindowSize, st.rx[k]})]
    IN [st EXCEPT !.rx = rx1, !.ntd = [k \in Node |-> Max({@[k], rx1[k]})]]

\* adjust_rxObsS_and_next_to_deliver_if_corrupted: rxObsS[k] is raised to
\* maxSeq(k) - window, and next_to_deliver[k] to rxObsS[k].
AdjustRxObsS(st) ==
    LET rx1 == [k \in Node |-> Max({MaxSeqOf(st.buf, st.ntd, k) - WindowSize, st.rx[k]})]
    IN [st EXCEPT !.rx = rx1, !.ntd = [k \in Node |-> Max({@[k], rx1[k]})]]

\* clean_buffer_if_corrupted has nothing to find: the buffer is a map from
\* tag to record, and update() never inserts a record whose msg is None.
SelfStabilizingRecovery(n, T, st) == AdjustRxObsS(ResetTxObsS(n, T, st))

(***************************************************************************)
(* The steps of do_forever_loop                                            *)
(***************************************************************************)

\* advance_rxObsS_based_on_obs_record: advance to the fixpoint.
RECURSIVE AdvanceRxObsS(_, _, _)
AdvanceRxObsS(b, T, rx) ==
    LET obs == {r \in b : Obsolete(r, T, rx)} IN
    IF obs = {} THEN rx
    ELSE AdvanceRxObsS(b, T, [rx EXCEPT ![(CHOOSE r \in obs : TRUE).tag.id] = @ + 1])

\* Mutation variant of RemoveUnreasonable: an own record is dropped one
\* step early.
RemoveUnreasonableEarly(n, T, st) ==
    LET maxSeqs == [k \in Node |-> MaxSeqOf(st.buf, st.ntd, k)]
        recordOk(r) ==
            IF r.tag.id = n THEN MinTxObsS(T, st.tx) + 1 < r.tag.seq
            ELSE /\ st.rx[r.tag.id] < r.tag.seq
                 /\ maxSeqs[r.tag.id] - WindowSize <= r.tag.seq
    IN [st EXCEPT !.buf = {r \in @ : recordOk(r)}]

\* remove_unreasonable_records_from_buffer: an own record is kept while
\* minTxObsS is below its seq, another's while rxObsS is below it and it
\* is within the window below maxSeq.
RemoveUnreasonable(n, T, st) ==
    LET maxSeqs == [k \in Node |-> MaxSeqOf(st.buf, st.ntd, k)]
        recordOk(r) ==
            IF r.tag.id = n THEN MinTxObsS(T, st.tx) < r.tag.seq
            ELSE /\ st.rx[r.tag.id] < r.tag.seq
                 /\ maxSeqs[r.tag.id] - WindowSize <= r.tag.seq
    IN [st EXCEPT !.buf = {r \in @ : recordOk(r)}]

\* The test on node_id = k in handle_records_in_buffer.
Retransmit(n, tx, r, k) ==
    /\ \/ k \notin r.recBy
       \/ r.tag.id = n /\ r.tag.seq = tx[k] + 1
    /\ k \in r.hbAdvanced

\* The delivery test: acknowledged by every trusted node, not delivered,
\* next in FIFO order.
Deliverable(T, r, ntd) ==
    /\ T \subseteq r.recBy
    /\ ~r.delivered
    /\ r.tag.seq = ntd[r.tag.id]

\* One record of handle_records_in_buffer's pass: delivered if deliverable,
\* sent as MSG to every k passing the test, then prevHB = hb for every k.
HandleRecord(n, T, tag, st) ==
    LET r == CHOOSE x \in RecordOf(st.buf, tag) : TRUE
        deliver == Deliverable(T, r, st.ntd)
        dests == {k \in Node : Retransmit(n, st.tx, r, k)}
    IN [st EXCEPT !.buf = (@ \ {r}) \cup
                         {[r EXCEPT !.delivered = @ \/ deliver, !.hbAdvanced = {}]},
                  !.ntd = IF deliver THEN [@ EXCEPT ![tag.id] = @ + 1] ELSE @,
                  !.dlv = IF deliver THEN Append(@, tag) ELSE @,
                  !.out = @ \cup {[type |-> "MSG", sender |-> n, dest |-> k, tag |-> tag] :
                                   k \in dests}]

\* handle_records_in_buffer: the records in the HashMap's order, a
\* sequence of the buffer's tags.
HandleRecordsInBuffer(n, T, order, st) ==
    FoldLeft(LAMBDA acc, tag : HandleRecord(n, T, tag, acc), st, order)

\* gossip: GOSSIP{self, maxSeq(k), rxObsS[k], txObsS[k]} to every node k,
\* the node itself included.
Gossip(n, st) ==
    [st EXCEPT !.out = @ \cup
        {[type |-> "GOSSIP", sender |-> n, dest |-> k, maxSeq |-> MaxSeqOf(st.buf, st.ntd, k),
          rxObsS |-> st.rx[k], txObsS |-> st.tx[k]] : k \in Node}]

\* MSG_received: update(msg, tag, sender) and an MSGAck to the sender.
MsgReceived(n, m, st) ==
    [st EXCEPT !.buf = Update(n, @, TRUE, m.tag, m.sender, st.rx),
               !.out = @ \cup {[type |-> "MSGAck", sender |-> n, dest |-> m.sender, tag |-> m.tag]}]

\* MSGAck_received: update(None, tag, sender).
MsgAckReceived(n, m, st) ==
    [st EXCEPT !.buf = Update(n, @, FALSE, m.tag, m.sender, st.rx)]

\* Mutation variant of GossipReceived: seq takes the gossiped maxSeq
\* without the maximum.
GossipReceivedNoMax(m, st) ==
    [st EXCEPT !.seq = m.maxSeq,
               !.rx = [@ EXCEPT ![m.sender] = Max({@, m.txObsS})],
               !.tx = [@ EXCEPT ![m.sender] = Max({@, m.rxObsS})]]

\* GOSSIP_received
GossipReceived(m, st) ==
    [st EXCEPT !.seq = Max({@, m.maxSeq}),
               !.rx = [@ EXCEPT ![m.sender] = Max({@, m.txObsS})],
               !.tx = [@ EXCEPT ![m.sender] = Max({@, m.rxObsS})]]

Received(n, m, st) ==
    CASE m.type = "MSG" -> MsgReceived(n, m, st)
      [] m.type = "MSGAck" -> MsgAckReceived(n, m, st)
      [] m.type = "GOSSIP" -> GossipReceived(m, st)

\* handle_received_msgs: every ring channel drained, the datagrams in the
\* order ms.
HandleReceivedMsgs(n, ms, st) ==
    FoldLeft(LAMBDA acc, m : Received(n, m, acc), st, ms)

\* The datagrams in transit to n.
ToNode(n) == {m \in net : m.dest = n}

\* The sets of datagrams the rings of n may hold at an iteration: at most
\* RingSize of each kind and sender, and at most MaxRecv in all.
Reads(n) ==
    {R \in UNION {kSubset(k, ToNode(n)) : k \in 0..MaxRecv} :
        \A kd \in Kinds, s \in Node :
            Cardinality({m \in R : m.type = kd /\ m.sender = s}) <= RingSize(kd)}

\* The orders handle_received_msgs may read the datagrams R in: one kind
\* after the other (msgs_buffer_rxs), within a kind one sender's ring after
\* the other (rxs); both maps are HashMaps.  Only two choices change the
\* outcome: the order of the kinds, and the order of the senders of MSGs
\* (the first MSG of an unseen tag creates the record without adding its
\* forwarder).  Updates of distinct tags commute, MSGAck only adds to recBy
\* and GOSSIP only takes maxima, so the other orders are fixed here.
ReadOrders(R) ==
    LET ofKind(kd) == {m \in R : m.type = kd}
        senders == {m.sender : m \in ofKind("MSG")}
        msgSeq(so) == FoldLeft(LAMBDA acc, x : acc \o SetToSeq({m \in ofKind("MSG") : m.sender = x}),
                               <<>>, so)
        kindSeq(kd, so) == IF kd = "MSG" THEN msgSeq(so) ELSE SetToSeq(ofKind(kd))
    IN {FoldLeft(LAMBDA acc, kd : acc \o kindSeq(kd, so), <<>>, ko) :
          ko \in SetToSeqs({kd \in Kinds : ofKind(kd) # {}}), so \in SetToSeqs(senders)}

(***************************************************************************)
(* The specification                                                       *)
(***************************************************************************)

TypeOK ==
    /\ seq \in [Node -> Seqs]
    /\ buffer \in [Node -> SUBSET Records]
    /\ rxObsS \in [Node -> [Node -> Seqs]]
    /\ txObsS \in [Node -> [Node -> Seqs]]
    /\ next_to_deliver \in [Node -> [Node -> 1..(MaxSeq + 1)]]
    /\ fd!TrustTypeOK
    /\ net \subseteq Messages
    /\ iterations \in [Node -> 0..(Delta - 1)]
    /\ delivered_tags \in [Node -> Seq(Tags)]

\* UrbNode::new
Init ==
    /\ seq = [n \in Node |-> 0]
    /\ buffer = [n \in Node |-> {}]
    /\ rxObsS = [n \in Node |-> [k \in Node |-> 0]]
    /\ txObsS = [n \in Node |-> [k \in Node |-> 0]]
    /\ next_to_deliver = [n \in Node |-> [k \in Node |-> 1]]
    /\ fd!TrustInit
    /\ net = {}
    /\ iterations = [n \in Node |-> 0]
    /\ delivered_tags = [n \in Node |-> <<>>]

\* The datagrams nt with the datagrams ms sent after them.  A GOSSIP
\* overwrites the one in transit from the same sender to the same node:
\* its values are the older one's or larger, and all GOSSIP_received does
\* is take maxima, so reading the older one first changes nothing.
WithSent(nt, ms) ==
    {m \in nt : ~(m.type = "GOSSIP" /\ \E m2 \in ms : m2.type = "GOSSIP" /\ m2.sender = m.sender
                                                         /\ m2.dest = m.dest)}
    \cup ms

\* Mutation variant of UrbBroadcast: the window test lets one more
\* message through.
UrbBroadcastLoose(n) ==
    /\ n \in Broadcasters /\ Alive(n)
    /\ seq[n] < MaxSeq
    /\ seq[n] <= MinTxObsS(current_trusted[n], txObsS[n]) + WindowSize
    /\ seq' = [seq EXCEPT ![n] = @ + 1]
    /\ buffer' = [buffer EXCEPT ![n] = Update(n, @, TRUE, [id |-> n, seq |-> seq[n] + 1], n,
                                              rxObsS[n])]
    /\ UNCHANGED <<rxObsS, txObsS, next_to_deliver, fdVars, net, iterations,
                   delivered_tags>>

\* urbBroadcast on the client thread of n: wait_until_receivers_have_enough_space
\* blocks while seq >= minTxObsS + window; then seq += 1 and update(Some(msg),
\* tag, self).
UrbBroadcast(n) ==
    /\ n \in Broadcasters /\ Alive(n)
    /\ seq[n] < MaxSeq
    /\ seq[n] < MinTxObsS(current_trusted[n], txObsS[n]) + WindowSize
    /\ seq' = [seq EXCEPT ![n] = @ + 1]
    /\ buffer' = [buffer EXCEPT ![n] = Update(n, @, TRUE, [id |-> n, seq |-> seq[n] + 1], n,
                                              rxObsS[n])]
    /\ UNCHANGED <<rxObsS, txObsS, next_to_deliver, fdVars, net, iterations,
                   delivered_tags>>

\* The sets of datagrams to n an iteration that reads R may find lost: at
\* most one, so that several are lost over several iterations.
Losses(n, R) == IF Lossy THEN {{}} \cup kSubset(1, ToNode(n) \ R) ELSE {{}}

\* The nodes whose HBFD heartbeat n has heard since its last iteration.
HbSets(n) == IF PromptHeartbeats THEN {Node \ crashed} ELSE SUBSET (Node \ crashed)

\* One iteration of do_forever_loop at n, reading trusted set T, after the
\* heartbeats of H: self_stabilizing_recovery when the counter reaches
\* Delta, advance_rxObsS_based_on_obs_record, remove_unreasonable_records,
\* handle_records_in_buffer in the order order, gossip, handle_received_msgs
\* of the datagrams R the rings hold, in the order ms.  Some datagrams L to
\* n are lost: the network dropped them, or a full ring overwrote them
\* (loss is taken when the receiver iterates, as the datagram has no
\* effect before).
LoopIterReading(n, R) ==
    LET T == current_trusted[n]
        ss == (iterations[n] + 1) % Delta = 0
    IN
    /\ Alive(n)
    /\ \E H \in HbSets(n) :
       LET st0 == [seq |-> seq[n], rx |-> rxObsS[n], tx |-> txObsS[n], ntd |-> next_to_deliver[n],
                   buf |-> {[r EXCEPT !.hbAdvanced = @ \cup H] : r \in buffer[n]},
                   dlv |-> <<>>, out |-> {}]
           st1 == IF ss THEN SelfStabilizingRecovery(n, T, st0) ELSE st0
           st2 == RemoveUnreasonable(n, T, [st1 EXCEPT !.rx = AdvanceRxObsS(st1.buf, T, st1.rx)])
       IN \E order \in SetToSeqs({r.tag : r \in st2.buf}), ms \in ReadOrders(R) :
          LET st == HandleReceivedMsgs(n, ms, Gossip(n, HandleRecordsInBuffer(n, T, order, st2)))
          IN /\ seq' = [seq EXCEPT ![n] = st.seq]
             /\ buffer' = [buffer EXCEPT ![n] = st.buf]
             /\ rxObsS' = [rxObsS EXCEPT ![n] = st.rx]
             /\ txObsS' = [txObsS EXCEPT ![n] = st.tx]
             /\ next_to_deliver' = [next_to_deliver EXCEPT ![n] = st.ntd]
             /\ delivered_tags' = [delivered_tags EXCEPT ![n] = @ \o st.dlv]
             /\ \E L \in Losses(n, R) : net' = WithSent(net \ (R \cup L), st.out)
    /\ iterations' = [iterations EXCEPT ![n] = (@ + 1) % Delta]
    /\ UNCHANGED fdVars

LoopIter(n) == \E R \in Reads(n) : LoopIterReading(n, R)

\* ThetaFD's trusted() at n drops the nodes S for good.
Suspect(n, S) ==
    /\ SuspectLive \/ S \subseteq crashed
    /\ fd!Suspect(n, S)
    /\ UNCHANGED <<nodeVars, net, iterations, delivered_tags>>

\* A node stops for good.
NodeCrash(n) ==
    /\ fd!Crash(n)
    /\ UNCHANGED <<nodeVars, net, iterations, delivered_tags>>

Next ==
    \/ \E n \in Node : UrbBroadcast(n) \/ LoopIter(n) \/ NodeCrash(n)
    \/ \E n \in Node, S \in SUBSET Node : Suspect(n, S)

Spec == Init /\ [][Next]_vars

(***************************************************************************)
(* Properties                                                              *)
(***************************************************************************)

\* The deliveries of urbDeliver implement URBAbstract: only broadcast tags,
\* each once, one sender's in the order 1, 2, 3, ... with no gap, whatever
\* order the HashMaps are iterated in, the rings overwrite or the network
\* loses and reorders datagrams, and although GOSSIP_received raises seq to
\* the maxSeq others report.
Abs == INSTANCE URBAbstract WITH bcast <- seq, delivered <- delivered_tags

ImplementsURBAbstract == Abs!AbsSpec

\* The window bound: no buffer holds more than WindowSize outstanding
\* records of one sender, records above rxObsS (an obsolete record may stay
\* until the next remove_unreasonable, while the client thread broadcasts).
\* The sender waits for txObsS, learnt from the receivers' gossip of their
\* rxObsS; receivers only advance rxObsS past delivered records.
WindowBound ==
    \A n, s \in Node :
        Cardinality({r \in buffer[n] : r.tag.id = s /\ r.tag.seq > rxObsS[n][s]}) <= WindowSize

\* Delivery can continue: next_to_deliver[k] stays above rxObsS[k] at every
\* node.  update() drops every tag up to rxObsS[k] and the delivery test
\* wants seq = next_to_deliver[k], so a node where next_to_deliver[k] <=
\* rxObsS[k] never delivers a tag of k again; the recovery's
\* adjust_rxObsS_and_next_to_deliver raises both.
DeliveryNotBlocked ==
    \A n, k \in Node : next_to_deliver[n][k] > rxObsS[n][k]

Delivered(k, t) == \E i \in DOMAIN delivered_tags[k] : delivered_tags[k][i] = t

\* A broadcaster drops the record of its own tag (remove_unreasonable, once
\* minTxObsS reached the tag) only after every node it still trusts has
\* delivered it: txObsS[k] only learns from k's GOSSIP the rxObsS of k,
\* which passes a tag only once k delivered it and every node k trusts
\* acknowledged it.
NoPrematureRemoval ==
    \A n \in Node, q \in 1..MaxSeq :
        (q <= seq[n] /\ RecordOf(buffer[n], [id |-> n, seq |-> q]) = {})
            => \A k \in current_trusted[n] : Delivered(k, [id |-> n, seq |-> q])
====
