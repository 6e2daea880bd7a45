-------------------------------- MODULE URB --------------------------------
(***************************************************************************)
(* The URB variant of the merged node (merge/mergednode.rs, merge/urb.rs,  *)
(* merge/utils.rs, merge/communicator.rs) with its failure detectors over  *)
(* a network that loses, delays, reorders and duplicates datagrams.        *)
(*                                                                         *)
(* The failure detector is TrustedFD, which ThetaFD implements (checked by *)
(* MC_ThetaFD): every trusted set ThetaFD can produce is one TrustedFD     *)
(* can.  HBFD's counters are represented in the records (module HBFD).     *)
(*                                                                         *)
(* A node's driver loop owns all its state, and nodes only interact        *)
(* through datagrams.  One iteration of do_forever_loop is one step,       *)
(* Tick(n): recv_messages reads a set R of the datagrams in transit to n   *)
(* (the others stay in transit, arriving in a later tick), then the tick   *)
(* runs the handlers in the order of bare_bone_loop_iter.  Each handler is *)
(* an operator on the tick's local state st, a record of seq, buf (the     *)
(* buffer), rx, tx, ntd (urb_rxObsS, urb_txObsS, next_to_deliver), T (the  *)
(* trusted set), dlv (records delivered this tick), out (datagrams sent)   *)
(* and illegal (run_result.illegally_triggered_ss).  Sending during the    *)
(* tick or at its end cannot be told apart by any other node.              *)
(*                                                                         *)
(* Payloads are left out: a record is its tag, flags and bitmaps.  A bit   *)
(* vector over node ids is a set of node ids.  An absent bitmap (None) is  *)
(* the empty set: or-ing it changes nothing and, the trusted set never     *)
(* being empty, is_subset(trusted, {}) is false.                           *)
(***************************************************************************)
EXTENDS Integers, Sequences, FiniteSets, FiniteSetsExt, SequencesExt

CONSTANTS
    Node,          \* node ids 1..N (SETTINGS node_ids)
    Broadcasters,  \* nodes whose application submits URB_BROADCAST
    MaxSeq,        \* bound on the broadcasts of one node
    WindowSize,    \* SETTINGS.window_size(): urb_buffer_unit_size in URB
    Delta,         \* SETTINGS.delta(): recovery every Delta-th tick
    MaxCrashes,    \* bound on crashed nodes
    MaxRecv,       \* bound on the datagrams one tick reads
    SuspectLive,   \* may the detector drop a node that has not crashed
    Duplication,   \* may the network deliver a datagram more than once
    Eager,         \* every tick reads all datagrams, hears all live nodes
                   \* and suspects all crashed ones (a prompt environment)
    PromptHeartbeats, \* every tick hears the HBFD heartbeat of every live node
    FailingNodes   \* SETTINGS.is_failing_node(): nodes that corrupt their state once

ASSUME /\ Broadcasters \subseteq Node
       /\ MaxSeq \in Nat /\ WindowSize \in Nat \ {0} /\ Delta \in Nat \ {0}
       /\ MaxRecv \in Nat \ {0} /\ SuspectLive \in BOOLEAN /\ Duplication \in BOOLEAN /\ Eager \in BOOLEAN
       /\ PromptHeartbeats \in BOOLEAN /\ FailingNodes \subseteq Node

VARIABLES
    seq,              \* MergedNode.seq
    buffer,           \* MergedNode.buffer (a Vec: its order matters)
    urb_rxObsS,       \* urb_rxObsS[n][k]
    urb_txObsS,       \* urb_txObsS[n][k]
    next_to_deliver,  \* next_to_deliver[n][k]
    current_trusted,  \* the trusted sets (TrustedFD)
    crashed,          \* nodes that stopped for good
    net,              \* MSG, MSGAck and GOSSIP datagrams in transit
    iterations,       \* do_forever_loop's iterations, modulo Delta
    delivered_tags,   \* urb_deliver's log, in delivery order (history)
    illegally_triggered_ss, \* run_result.illegally_triggered_ss
    has_failed,       \* MergedNode.has_failed: corrupt_variables has run
    sent_after_fault  \* the tags urb_broadcast gave out after it (history)

fd == INSTANCE TrustedFD
hbfd == INSTANCE HBFD

urbVars == <<seq, buffer, urb_rxObsS, urb_txObsS, next_to_deliver>>
fdVars == <<current_trusted, crashed>>
vars == <<urbVars, fdVars, net, iterations, delivered_tags, illegally_triggered_ss, has_failed,
          sent_after_fault>>

(***************************************************************************)
(* Data                                                                    *)
(***************************************************************************)
Seqs == 0..MaxSeq
Tags == [id : Node, seq : 1..MaxSeq]

\* BufferRecord (urb/types.rs) in the URB variant; prevHB is hbAdvanced.
Records == [urb_tag : Tags, delivered : BOOLEAN, recBy : SUBSET Node,
            recBy_trusted : SUBSET Node, hbAdvanced : SUBSET Node]

\* The GOSSIP triple sent to one node.
Gossips == [urb_maxSeq : Seqs, urb_rxObsS : Seqs, urb_txObsS : Seqs]

Messages ==
    [type : {"MSG"}, sender : Node, dest : Node, tag : Tags,
     recv_by : SUBSET Node, recv_by_trusted : SUBSET Node, gossip : Gossips]
    \cup [type : {"MSGAck"}, sender : Node, dest : Node, tag : Tags,
          recv_by : SUBSET Node]
    \cup [type : {"GOSSIP"}, sender : Node, dest : Node, gossip : Gossips]

(***************************************************************************)
(* Helpers (urb.rs, utils.rs)                                              *)
(***************************************************************************)

\* is_subset(a, b): a \ b is empty.
IsSubset(a, b) == a \subseteq b

\* Mutation variant of UrbIsAckByMajority: the quorum is counted over
\* every node rather than the trusted ones.
UrbIsAckByMajorityAllNodes(T, recBy) ==
    Cardinality(Node \ recBy) < Max({Cardinality(Node) \div 2, 1})

\* urb_is_ack_by_majority
UrbIsAckByMajority(T, recBy) ==
    Cardinality(T \ recBy) < Max({Cardinality(T) \div 2, 1})

\* get_index_by_urb_tag: the first index of tag in b, 0 for None.
IndexOf(b, tag) ==
    IF \E i \in DOMAIN b : b[i].urb_tag = tag
    THEN Min({i \in DOMAIN b : b[i].urb_tag = tag})
    ELSE 0

\* Mutation variant of UrbMaxSeq: next_to_deliver[k] taken for the last
\* delivered sequence number (off by one).
UrbMaxSeqNtd(b, ntd, k) ==
    Max({b[i].urb_tag.seq : i \in {j \in DOMAIN b : b[j].urb_tag.id = k}}
        \cup {0, ntd[k]})

\* urb_maxSeq(k) over buffer b and next_to_deliver ntd.
UrbMaxSeq(b, ntd, k) ==
    Max({b[i].urb_tag.seq : i \in {j \in DOMAIN b : b[j].urb_tag.id = k}}
        \cup {0, ntd[k] - 1})

\* min_urb_TxObsS: the trusted set always holds the node itself.
MinUrbTxObsS(T, tx) == Min({tx[k] : k \in T})

\* Mutation variant of UrbAvailableSpaceFor: one slot too many.
UrbAvailableSpaceForLoose(s, T, tx, m) == s + m <= MinUrbTxObsS(T, tx) + WindowSize + 1

\* urb_available_space_for(m)
UrbAvailableSpaceFor(s, T, tx, m) == s + m <= MinUrbTxObsS(T, tx) + WindowSize

NewRecord(tag, recBy) ==
    [urb_tag |-> tag, delivered |-> FALSE, recBy |-> recBy,
     recBy_trusted |-> {}, hbAdvanced |-> hbfd!FreshHb]

\* update(msg, tag, forwarder, recv_by, recv_by_trusted) at n with trusted
\* set T and rxObsS rx: the new buffer and the returned boolean.
Update(n, b, hasMsg, tag, fwd, rb, rbt, T, rx) ==
    LET i == IndexOf(b, tag)
        merged(r) ==
            LET rb1 == r.recBy \cup {tag.id, fwd} \cup rb
                rbt1 == r.recBy_trusted
                        \cup (IF IsSubset(T, rb) THEN {tag.id, fwd, n} ELSE {})
                        \cup rbt
            IN [r EXCEPT !.recBy = rb1,
                         !.recBy_trusted = rbt1 \cup (IF IsSubset(T, rb1) THEN {n} ELSE {})]
    IN  IF tag.seq <= rx[tag.id] THEN [ret |-> TRUE, buf |-> b]
        ELSE IF i = 0 /\ hasMsg
             THEN [ret |-> FALSE, buf |-> Append(b, NewRecord(tag, {n, tag.id} \cup rb))]
        ELSE IF i # 0 THEN [ret |-> TRUE, buf |-> [b EXCEPT ![i] = merged(@)]]
        ELSE [ret |-> FALSE, buf |-> b]

\* GOSSIP_received at n from s: [seq, rx, tx] after it.
GossipReceived(s, g, sq, rx, tx) ==
    [seq |-> Max({sq, g.urb_maxSeq}),
     rx  |-> [rx EXCEPT ![s] = Max({@, g.urb_txObsS})],
     tx  |-> [tx EXCEPT ![s] = Max({@, g.urb_rxObsS})]]

\* The GOSSIP triple n prepares for k.
GossipFor(b, ntd, rx, tx, k) ==
    [urb_maxSeq |-> UrbMaxSeq(b, ntd, k), urb_rxObsS |-> rx[k], urb_txObsS |-> tx[k]]

MsgFor(n, k, r, g) ==
    [type |-> "MSG", sender |-> n, dest |-> k, tag |-> r.urb_tag,
     recv_by |-> r.recBy, recv_by_trusted |-> r.recBy_trusted, gossip |-> g]

\* Two datagrams that take the same slot of the network: same kind, sender,
\* receiver and (for MSG and MSGAck) tag.
SameSlot(m1, m2) ==
    /\ m1.type = m2.type /\ m1.sender = m2.sender /\ m1.dest = m2.dest
    /\ m1.type = "GOSSIP" \/ m1.tag = m2.tag

\* The datagrams nt with the datagrams ms sent after them: a datagram
\* overwrites the one in transit in its slot, which is then lost, as in the
\* receiver's single-slot GOSSIP relay queue.
With(nt, ms) == {m \in nt : \A m2 \in ms : ~SameSlot(m, m2)} \cup ms

\* send_json_to during a tick: st.out with the datagrams ms sent.
SendSt(st, ms) == [st EXCEPT !.out = With(@, ms)]

Alive(n) == n \notin crashed

(***************************************************************************)
(* The handlers of one tick                                                *)
(***************************************************************************)

\* urb_broadcast, once admitted: seq += 1, update(Some(msg), tag, self).
UrbBroadcastSt(n, st) ==
    LET tag == [id |-> n, seq |-> st.seq + 1]
    IN [st EXCEPT !.seq = @ + 1,
                  !.buf = Update(n, @, TRUE, tag, n, {}, {}, st.T, st.rx).buf]

\* recv_operations: nb URB_BROADCAST requests, admitted while
\* urb_available_space_for(num_of_msgs) holds, each then broadcast.
RecvOperationsOk(n, nb, st) ==
    /\ n \in Broadcasters \/ nb = 0
    /\ st.seq + nb <= MaxSeq
    /\ nb = 0 \/ UrbAvailableSpaceFor(st.seq, st.T, st.tx, nb)

RecvOperations(n, nb, st) ==
    FoldLeft(LAMBDA acc, i : UrbBroadcastSt(n, acc), st, [i \in 1..nb |-> i])

\* recv_messages: theta heartbeats make trusted() drop S (on_theta_hb);
\* HBFD heartbeats of the nodes H advance hb (on_hb_hb); then fd_iter
\* advances the node's own hb (send_hb_hb to itself).
RecvHeartbeats(n, S, H, st) ==
    [st EXCEPT !.T = @ \ S,
               !.buf = hbfd!HbAdvance(@, H \cup {n})]

\* GOSSIP_received
GossipReceivedSt(s, g, st) ==
    LET r == GossipReceived(s, g, st.seq, st.rx, st.tx)
    IN [st EXCEPT !.seq = r.seq, !.rx = r.rx, !.tx = r.tx]

\* handle_gossip_messages: every GOSSIP read.
HandleGossipMessages(G, st) ==
    FoldSet(LAMBDA m, acc : GossipReceivedSt(m.sender, m.gossip, acc), st, G)

\* MSG_received: update_gossip, update, and an MSGAck to the sender.
MsgReceived(n, m, st) ==
    LET st1 == GossipReceivedSt(m.sender, m.gossip, st)
        u == Update(n, st1.buf, TRUE, m.tag, m.sender, m.recv_by,
                    m.recv_by_trusted, st1.T, st1.rx)
        i == IndexOf(u.buf, m.tag)
        ackRecv == IF u.ret THEN (IF i = 0 THEN Node ELSE {})
                   ELSE IF i # 0 THEN u.buf[i].recBy ELSE {}
    IN SendSt([st1 EXCEPT !.buf = u.buf],
              {[type |-> "MSGAck", sender |-> n, dest |-> m.sender,
                tag |-> m.tag, recv_by |-> ackRecv]})

\* MSGAck_received: update(None, tag, sender, Some(recv_by), None).
MsgAckReceived(n, m, st) ==
    [st EXCEPT !.buf = Update(n, @, FALSE, m.tag, m.sender, m.recv_by, {},
                              st.T, st.rx).buf]

\* handle_received_msgs: the MSGs read, in the order ms, then the MSGAcks A.
HandleReceivedMsgs(n, ms, A, st) ==
    FoldSet(LAMBDA m, acc : MsgAckReceived(n, m, acc),
            FoldLeft(LAMBDA acc, m : MsgReceived(n, m, acc), st, ms), A)

(***************************************************************************)
(* self_stabilizing_recovery (urb.rs)                                      *)
(***************************************************************************)

\* clean_buffer_if_corrupted: some tag is held twice.  (A record without
\* payload, its other trigger, has no counterpart: payloads are left out.)
BufferCorrupted(b) ==
    \E i, j \in DOMAIN b : i < j /\ b[i].urb_tag = b[j].urb_tag

\* reset_urb_txObsS_if_corrupted: seq out of [ms, ms + unit * N], or one of
\* n's own tags ms+1..seq without a record.
TxObsSCorrupted(n, b, s, T, tx) ==
    LET ms == MinUrbTxObsS(T, tx) IN
    \/ ~(s >= ms /\ s <= ms + WindowSize * Cardinality(Node))
    \/ \E q \in (ms + 1)..s : IndexOf(b, [id |-> n, seq |-> q]) = 0

\* Mutation variant of AtLeast: the window counted one short.
AtLeastTight(b, ntd, k) == UrbMaxSeq(b, ntd, k) - WindowSize + 1

\* adjust_urb_rxObsS_and_next_to_deliver_if_corrupted: rxObsS[k] must be at
\* least urb_maxSeq(k) - unit.
AtLeast(b, ntd, k) == UrbMaxSeq(b, ntd, k) - WindowSize

\* Mutation variant of SelfStabilizingRecovery: uniform_urb_txObsS is
\* left out, so txObsS is never reset.
SelfStabilizingRecoveryNoUniform(n, T, st) ==
    LET b1 == IF BufferCorrupted(st.buf) THEN <<>> ELSE st.buf
        txBad == TxObsSCorrupted(n, b1, st.seq, T, st.tx)
        rxBad == \E k \in Node : st.rx[k] < AtLeast(b1, st.ntd, k)
        rx1 == [k \in Node |-> Max({AtLeast(b1, st.ntd, k), st.rx[k]})]
    IN [st EXCEPT !.buf = b1,
                  !.rx = rx1,
                  !.ntd = [k \in Node |-> Max({@[k], rx1[k] + 1})],
                  !.illegal = IF BufferCorrupted(st.buf) \/ txBad \/ rxBad
                              THEN n \notin FailingNodes ELSE @]

\* Mutation variant of SelfStabilizingRecovery: next_to_deliver is not
\* moved past the raised rxObsS.
SelfStabilizingRecoveryKeepNtd(n, T, st) ==
    LET b1 == IF BufferCorrupted(st.buf) THEN <<>> ELSE st.buf
        txBad == TxObsSCorrupted(n, b1, st.seq, T, st.tx)
        rxBad == \E k \in Node : st.rx[k] < AtLeast(b1, st.ntd, k)
        rx1 == [k \in Node |-> Max({AtLeast(b1, st.ntd, k), st.rx[k]})]
    IN [st EXCEPT !.buf = b1,
                  !.tx = IF txBad THEN [k \in Node |-> st.seq] ELSE @,
                  !.rx = rx1,
                  !.illegal = IF BufferCorrupted(st.buf) \/ txBad \/ rxBad
                              THEN n \notin FailingNodes ELSE @]

SelfStabilizingRecovery(n, T, st) ==
    LET b1 == IF BufferCorrupted(st.buf) THEN <<>> ELSE st.buf
        txBad == TxObsSCorrupted(n, b1, st.seq, T, st.tx)
        rxBad == \E k \in Node : st.rx[k] < AtLeast(b1, st.ntd, k)
        rx1 == [k \in Node |-> Max({AtLeast(b1, st.ntd, k), st.rx[k]})]
    IN [st EXCEPT !.buf = b1,
                  !.tx = IF txBad THEN [k \in Node |-> st.seq] ELSE @,
                  !.rx = rx1,
                  !.ntd = [k \in Node |-> Max({@[k], rx1[k] + 1})],
                  !.illegal = IF BufferCorrupted(st.buf) \/ txBad \/ rxBad
                              THEN n \notin FailingNodes ELSE @]

(***************************************************************************)
(* handle_records_in_buffer: one pass over the Vec in order.  A record is  *)
(* delivered when acknowledged by a majority of the trusted set and next   *)
(* in FIFO order, and sent to every k passing the retransmission test.     *)
(***************************************************************************)

\* The test on node_id = k in handle_records_in_buffer.  The last conjunct
\* reads trusted at the destination k.
Retransmit(n, T, ss, tx, r, k) ==
    /\ \/ k \notin r.recBy
       \/ k \notin r.recBy_trusted
       \/ r.urb_tag.id = n /\ r.urb_tag.seq = tx[k] + 1
       \/ ss
    /\ k \in r.hbAdvanced
    /\ r.urb_tag.id = n \/ k \notin T

\* The delivery test on a record: acknowledged by a majority of the
\* trusted set, not yet delivered, and next in FIFO order.
UrbDeliverable(T, r, ntd) ==
    /\ UrbIsAckByMajority(T, r.recBy)
    /\ ~r.delivered
    /\ r.urb_tag.seq = ntd[r.urb_tag.id]

RECURSIVE HandleFrom(_, _, _, _, _, _)
HandleFrom(n, T, ss, maxSeqs, i, st) ==
    IF i > Len(st.buf) THEN st
    ELSE LET r == st.buf[i]
             tg == r.urb_tag
             deliver == UrbDeliverable(T, r, st.ntd)
             r1 == [r EXCEPT !.delivered = @ \/ deliver]
             dests == {k \in Node : Retransmit(n, T, ss, st.tx, r1, k)}
             g(k) == [urb_maxSeq |-> maxSeqs[k], urb_rxObsS |-> st.rx[k],
                      urb_txObsS |-> st.tx[k]]
         IN HandleFrom(n, T, ss, maxSeqs, i + 1,
              [st EXCEPT !.buf[i] = hbfd!HbSent(r1, dests),
                         !.ntd = IF deliver THEN [@ EXCEPT ![tg.id] = @ + 1] ELSE @,
                         !.dlv = IF deliver THEN Append(@, r1) ELSE @,
                         !.out = With(@, {MsgFor(n, k, r1, g(k)) : k \in dests})])

\* victory_round for each record delivered in the pass, with the state the
\* pass left: a record not acknowledged by all trusted nodes goes to all.
VictoryRound(n, T, st) ==
    LET late == {i \in DOMAIN st.dlv : ~IsSubset(T, st.dlv[i].recBy)} IN
    [st EXCEPT !.out = With(@,
        {MsgFor(n, k, st.dlv[i], GossipFor(st.buf, st.ntd, st.rx, st.tx, k)) :
            i \in late, k \in Node})]

HandleRecordsInBuffer(n, T, ss, st) ==
    VictoryRound(n, T,
        HandleFrom(n, T, ss, [k \in Node |-> UrbMaxSeq(st.buf, st.ntd, k)], 1, st))

\* Mutation variants of RemoveUnreasonable: an own record dropped one
\* step early, and a record of another node kept after rxObsS passed it.
RemoveUnreasonableEarly(n, T, st) ==
    LET ms == MinUrbTxObsS(T, st.tx)
        maxSeqs == [k \in Node |-> UrbMaxSeq(st.buf, st.ntd, k)]
        urbNeeded(r) ==
            IF r.urb_tag.id = n THEN ms + 1 < r.urb_tag.seq
            ELSE /\ st.rx[r.urb_tag.id] < r.urb_tag.seq
                 /\ maxSeqs[r.urb_tag.id] - WindowSize <= r.urb_tag.seq
    IN [st EXCEPT !.buf = SelectSeq(@, urbNeeded)]

RemoveUnreasonableKeepObsolete(n, T, st) ==
    LET ms == MinUrbTxObsS(T, st.tx)
        maxSeqs == [k \in Node |-> UrbMaxSeq(st.buf, st.ntd, k)]
        urbNeeded(r) ==
            IF r.urb_tag.id = n THEN ms < r.urb_tag.seq
            ELSE maxSeqs[r.urb_tag.id] - WindowSize <= r.urb_tag.seq
    IN [st EXCEPT !.buf = SelectSeq(@, urbNeeded)]

\* remove_unreasonable_urb_records_from_buffer
RemoveUnreasonable(n, T, st) ==
    LET ms == MinUrbTxObsS(T, st.tx)
        maxSeqs == [k \in Node |-> UrbMaxSeq(st.buf, st.ntd, k)]
        urbNeeded(r) ==
            IF r.urb_tag.id = n THEN ms < r.urb_tag.seq
            ELSE /\ st.rx[r.urb_tag.id] < r.urb_tag.seq
                 /\ maxSeqs[r.urb_tag.id] - WindowSize <= r.urb_tag.seq
    IN [st EXCEPT !.buf = SelectSeq(@, urbNeeded)]

\* urb_obsolete
UrbObsolete(r, T, rx) ==
    /\ rx[r.urb_tag.id] + 1 = r.urb_tag.seq
    /\ r.delivered
    /\ IsSubset(T, r.recBy)

\* advance_urb_rxObsS_based_on_obs_record: advance to the fixpoint.
RECURSIVE AdvanceRxObsS(_, _, _)
AdvanceRxObsS(b, T, rx) ==
    LET obs == {i \in DOMAIN b : UrbObsolete(b[i], T, rx)} IN
    IF obs = {} THEN rx
    ELSE LET id == b[CHOOSE i \in obs : TRUE].urb_tag.id IN
         AdvanceRxObsS(b, T, [rx EXCEPT ![id] = @ + 1])

\* gossip: GOSSIP to every other node, then GOSSIP_received of its own.
UrbGossip(n, st) ==
    LET g(k) == GossipFor(st.buf, st.ntd, st.rx, st.tx, k)
        own == GossipReceived(n, g(n), st.seq, st.rx, st.tx)
    IN [st EXCEPT !.out = With(@, {[type |-> "GOSSIP", sender |-> n, dest |-> k,
                                     gossip |-> g(k)] : k \in Node \ {n}}),
                  !.seq = own.seq, !.rx = own.rx, !.tx = own.tx]
\* urb_loop_iter
UrbLoopIter(n, ss, st) ==
    LET st1 == IF ss THEN SelfStabilizingRecovery(n, st.T, st) ELSE st
        st2 == HandleRecordsInBuffer(n, st.T, ss, st1)
        st3 == RemoveUnreasonable(n, st.T, st2)
        st4 == [st3 EXCEPT !.rx = AdvanceRxObsS(st3.buf, st.T, st3.rx)]
    IN IF ss THEN UrbGossip(n, st4) ELSE st4

\* bare_bone_loop_iter after recv_messages read the datagrams R (MSGs in
\* the order ms): fd_iter, handle_gossip_messages, handle_received_msgs,
\* urb_loop_iter.
BareBoneLoopIter(n, ss, S, H, R, ms, st) ==
    UrbLoopIter(n, ss,
        HandleReceivedMsgs(n, ms, {m \in R : m.type = "MSGAck"},
            HandleGossipMessages({m \in R : m.type = "GOSSIP"},
                RecvHeartbeats(n, S, H, st))))

\* The order in which handle_received_msgs reads the MSGs of M: its relay
\* queues are read one sender after the other, each in arrival order.
MsgOrders(M) ==
    {ms \in SetToSeqs(M) :
        \A i, j, k \in DOMAIN ms :
            i < j /\ j < k /\ ms[i].sender = ms[k].sender => ms[j].sender = ms[i].sender}

(***************************************************************************)
(* The specification                                                       *)
(***************************************************************************)

TypeOK ==
    /\ seq \in [Node -> Seqs]
    /\ buffer \in [Node -> Seq(Records)]
    /\ urb_rxObsS \in [Node -> [Node -> Seqs]]
    /\ urb_txObsS \in [Node -> [Node -> Seqs]]
    /\ next_to_deliver \in [Node -> [Node -> 1..(MaxSeq + 1)]]
    /\ fd!TrustTypeOK
    /\ net \subseteq Messages
    /\ iterations \in [Node -> 0..(Delta - 1)]
    /\ delivered_tags \in [Node -> Seq(Tags)]
    /\ illegally_triggered_ss \in [Node -> BOOLEAN]
    /\ has_failed \in [Node -> BOOLEAN]
    /\ sent_after_fault \in [Node -> SUBSET Tags]

\* MergedNode::new
Init ==
    /\ seq = [n \in Node |-> 0]
    /\ buffer = [n \in Node |-> <<>>]
    /\ urb_rxObsS = [n \in Node |-> [k \in Node |-> 0]]
    /\ urb_txObsS = [n \in Node |-> [k \in Node |-> 0]]
    /\ next_to_deliver = [n \in Node |-> [k \in Node |-> 1]]
    /\ fd!TrustInit
    /\ net = {}
    /\ iterations = [n \in Node |-> 0]
    /\ delivered_tags = [n \in Node |-> <<>>]
    /\ illegally_triggered_ss = [n \in Node |-> FALSE]
    /\ has_failed = [n \in Node |-> FALSE]
    /\ sent_after_fault = [n \in Node |-> {}]

\* The nodes n may stop trusting in one tick.
Suspicions(n) ==
    IF Eager THEN {(current_trusted[n] \ {n}) \cap crashed}
    ELSE {S \in SUBSET (current_trusted[n] \ {n}) : SuspectLive \/ S \subseteq crashed}

\* The sets of at most MaxRecv datagrams a tick may read from nt.
Reads(nt) == IF Eager THEN {nt} ELSE UNION {kSubset(k, nt) : k \in 0..MaxRecv}

\* The live nodes whose HBFD heartbeats n may read in a tick.  A heartbeat
\* of k only changes the records of the buffer b that k is not fresh for:
\* reading the others stands for no heartbeat at all.
HbSets(n, b) ==
    LET heard == {k \in Node \ (crashed \cup {n}) : \E i \in DOMAIN b : k \notin b[i].hbAdvanced}
    IN IF Eager \/ PromptHeartbeats THEN {heard} ELSE SUBSET heard

\* The state of n that one tick starts from.
LocalState(n) ==
    [seq |-> seq[n], buf |-> buffer[n], rx |-> urb_rxObsS[n], tx |-> urb_txObsS[n],
     ntd |-> next_to_deliver[n], T |-> current_trusted[n], dlv |-> <<>>,
     out |-> {}, illegal |-> illegally_triggered_ss[n]]

\* One iteration of do_forever_loop at n: recv_operations (nb broadcasts),
\* then bare_bone_loop_iter: recv_messages (suspicions S, heartbeats of H,
\* datagrams R, of which K stay in transit as duplicates), fd_iter,
\* handle_gossip_messages, handle_received_msgs (MSGs in the order ms),
\* urb_loop_iter with ss = (iterations % delta == 0).
TickWith(n, nb, S, R, H) ==
    LET st1 == RecvOperations(n, nb, LocalState(n)) IN
    /\ Alive(n)
    /\ RecvOperationsOk(n, nb, LocalState(n))
    /\ H \in HbSets(n, st1.buf)
    /\ \E K \in IF Duplication THEN SUBSET R ELSE {{}},
          ms \in MsgOrders({m \in R : m.type = "MSG"}) :
         \E st \in {BareBoneLoopIter(n, iterations[n] = 0, S, H, R, ms, st1)} :
           /\ seq' = [seq EXCEPT ![n] = st.seq]
           /\ buffer' = [buffer EXCEPT ![n] = st.buf]
           /\ urb_rxObsS' = [urb_rxObsS EXCEPT ![n] = st.rx]
           /\ urb_txObsS' = [urb_txObsS EXCEPT ![n] = st.tx]
           /\ next_to_deliver' = [next_to_deliver EXCEPT ![n] = st.ntd]
           /\ current_trusted' = [current_trusted EXCEPT ![n] = st.T]
           /\ illegally_triggered_ss' = [illegally_triggered_ss EXCEPT ![n] = st.illegal]
           /\ delivered_tags' = [delivered_tags EXCEPT ![n] =
                                   @ \o [i \in DOMAIN st.dlv |-> st.dlv[i].urb_tag]]
           /\ net' = With(net \ (R \ K), st.out)
    /\ iterations' = [iterations EXCEPT ![n] = (@ + 1) % Delta]
    /\ sent_after_fault' = [sent_after_fault EXCEPT ![n] =
           IF has_failed[n] THEN @ \cup {[id |-> n, seq |-> q] : q \in (seq[n] + 1)..(seq[n] + nb)}
           ELSE @]
    /\ UNCHANGED <<crashed, has_failed>>

\* The datagrams in transit to n.
ToNode(n) == {m \in net : m.dest = n}

Tick(n) ==
    \E nb \in 0..MaxSeq, S \in Suspicions(n), R \in Reads(ToNode(n)) :
        \E H \in HbSets(n, RecvOperations(n, nb, LocalState(n)).buf) :
            TickWith(n, nb, S, R, H)

\* A node stops for good.
NodeCrash(n) ==
    /\ fd!Crash(n)
    /\ UNCHANGED <<urbVars, net, iterations, delivered_tags, illegally_triggered_ss, has_failed,
                   sent_after_fault>>

\* The transient fault of do_forever_loop: once, at some iteration of a
\* failing node, corrupt_variables sets seq to a random value other than
\* the current one (rng.gen_range(0, 10000), here a value of Seqs).  It
\* runs at the top of the iteration, before anything reads seq; the tick
\* that follows is Tick(n).
CorruptVariables(n) ==
    /\ n \in FailingNodes /\ Alive(n) /\ ~has_failed[n]
    /\ has_failed' = [has_failed EXCEPT ![n] = TRUE]
    /\ \E v \in Seqs \ {seq[n]} : seq' = [seq EXCEPT ![n] = v]
    /\ UNCHANGED <<buffer, urb_rxObsS, urb_txObsS, next_to_deliver, fdVars, net,
                   iterations, delivered_tags, illegally_triggered_ss, sent_after_fault>>

Next == \E n \in Node : Tick(n) \/ NodeCrash(n) \/ CorruptVariables(n)

Spec == Init /\ [][Next]_vars

(***************************************************************************)
(* Fairness: the driver loop of a live node never stops.  With Eager this  *)
(* is all a behaviour needs to be fair: every tick reads every datagram in *)
(* transit, hears every live node and suspects every crashed node.         *)
(***************************************************************************)
SentTags == [id : Broadcasters, seq : 1..MaxSeq]

\* ENABLED <<Tick(n)>>_vars as a state predicate: some tick of n changes
\* the state.
TickEnabled(n) ==
    /\ Alive(n)
    /\ \E nb \in 0..MaxSeq, S \in Suspicions(n), R \in Reads(ToNode(n)) :
         LET st1 == RecvOperations(n, nb, LocalState(n)) IN
         /\ RecvOperationsOk(n, nb, LocalState(n))
         /\ \E H \in HbSets(n, st1.buf), K \in IF Duplication THEN SUBSET R ELSE {{}},
               ms \in MsgOrders({m \in R : m.type = "MSG"}) :
              LET st == BareBoneLoopIter(n, iterations[n] = 0, S, H, R, ms, st1) IN
              \/ LocalState(n) # [st EXCEPT !.dlv = <<>>, !.out = {}]
              \/ st.dlv # <<>>
              \/ With(net \ (R \ K), st.out) # net
              \/ (iterations[n] + 1) % Delta # iterations[n]

\* Weak fairness of Tick(n), written with TickEnabled.
Fairness == \A n \in Node : <>[]TickEnabled(n) => []<><<Tick(n)>>_vars

FairSpec == Spec /\ Fairness

(***************************************************************************)
(* Properties                                                              *)
(***************************************************************************)

\* The deliveries of urb_deliver implement URBAbstract: a node delivers
\* only tags that were broadcast, each once, and one sender's tags in the
\* order 1, 2, 3, ... with no gap, whatever order MSGs, MSGAcks and GOSSIPs
\* arrive in and however handle_records_in_buffer, the recovery checks and
\* remove_unreasonable move next_to_deliver and the buffer.
Abs == INSTANCE URBAbstract WITH bcast <- seq, delivered <- delivered_tags

ImplementsURBAbstract == Abs!AbsSpec

\* Uniform agreement: once some node delivered a tag, every node that does
\* not crash eventually delivers it, through the retransmissions of
\* handle_records_in_buffer, victory_round and the relays of other nodes.
Delivered(k, t) == \E i \in DOMAIN delivered_tags[k] : delivered_tags[k][i] = t

UniformAgreement ==
    \A t \in SentTags, k, j \in Node :
        Delivered(k, t) ~> (j \in crashed \/ Delivered(j, t))

\* Validity: a tag broadcast by a node that never crashes is eventually
\* delivered by every node that never crashes.  Delivery needs the
\* acknowledgement of every trusted node but one (urb_is_ack_by_majority,
\* which with two or three trusted nodes means all of them), so it waits
\* for a crashed node to be suspected; the acknowledgements come from
\* retransmissions that wait for HBFD heartbeats.
Broadcast(t) == t.seq <= seq[t.id]

Validity ==
    \A t \in SentTags, j \in Node :
        Broadcast(t) ~> (t.id \in crashed \/ j \in crashed \/ Delivered(j, t))

\* Per-sender FIFO alone: at every node the tags of one sender are
\* delivered as 1, 2, 3, ... with no gap and no repetition.
DeliveryFifo ==
    \A n, s \in Node :
        LET d == SelectSeq(delivered_tags[n], LAMBDA t : t.id = s) IN
        \A i \in DOMAIN d : d[i].seq = i

\* No recovery check of self_stabilizing_recovery fires in a run without
\* transient faults (run_result.illegally_triggered_ss stays false): the
\* buffer never holds a tag twice, seq stays within the window of the
\* trusted txObsS and every own tag above it has a record, and no rxObsS
\* falls behind urb_maxSeq - window.
NoIllegalRecovery == \A n \in Node : ~illegally_triggered_ss[n]

\* The window bound: no buffer holds more than WindowSize records of one
\* sender (flow control at the sender through txObsS learnt by gossip,
\* garbage collection at the receivers through rxObsS).
WindowBound ==
    \A n, s \in Node :
        Cardinality({i \in DOMAIN buffer[n] : buffer[n][i].urb_tag.id = s}) <= WindowSize

\* A broadcaster drops the record of its own tag (remove_unreasonable, once
\* min_urb_TxObsS reached the tag) only after every node it still trusts
\* has delivered that tag: txObsS[k] only learns from k's gossip what k
\* made obsolete.
NoPrematureRemoval ==
    \A n \in Node, q \in 1..MaxSeq :
        (q <= seq[n] /\ IndexOf(buffer[n], [id |-> n, seq |-> q]) = 0)
            => \A k \in current_trusted[n] :
                   \E i \in DOMAIN delivered_tags[k] : delivered_tags[k][i] = [id |-> n, seq |-> q]

\* No recovery check of self_stabilizing_recovery would fire at n: the
\* state is legal for the checks of clean_buffer_if_corrupted,
\* reset_urb_txObsS_if_corrupted and adjust_urb_rxObsS_and_next_to_deliver.
Legal(n) ==
    /\ ~BufferCorrupted(buffer[n])
    /\ ~TxObsSCorrupted(n, buffer[n], seq[n], current_trusted[n], urb_txObsS[n])
    /\ \A k \in Node : urb_rxObsS[n][k] >= AtLeast(buffer[n], next_to_deliver[n], k)

\* Stabilisation convergence (spec.md 5): after corrupt_variables sets the
\* seq of a failing node to an arbitrary value, the recovery checks and
\* gossip bring every live node back to a state no check objects to, and
\* the system stays there.
Convergence == <>[](\A n \in Node : Alive(n) => Legal(n))

\* Delivery resumes after the fault: a tag the failing node's urb_broadcast
\* gives out after corrupt_variables, and that a node j has not delivered,
\* is eventually delivered by j unless one of them crashes.  The receivers
\* still expect the tags that follow seq's value before the fault, so this
\* takes a new delivery at j (adjust_urb_rxObsS_and_next_to_deliver moving
\* next_to_deliver past a skipped tag).  A tag that seq, when lowered,
\* gives out again and that j delivered before the fault is not delivered
\* twice, so this property does not constrain it.
DeliveryResumes ==
    \A t \in SentTags, j \in Node :
        (t \in sent_after_fault[t.id] /\ ~Delivered(j, t))
            ~> (t.id \in crashed \/ j \in crashed \/ Delivered(j, t))
=============================================================================
