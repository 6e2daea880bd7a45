-------------------------------- MODULE SCD --------------------------------
(***************************************************************************)
(* The SCD variant of the merged node (merge/scd.rs with the SCD hooks of  *)
(* merge/urb.rs, merge/utils.rs and merge/mergednode.rs): set-constrained  *)
(* delivery by vector clocks, above URB.                                   *)
(*                                                                         *)
(* An SCD record is a buffer record with SCD metadata: its tag (sender,    *)
(* sn), its clock threshold cl, the forward tag of its FORWARD payload     *)
(* (the node itself and fsn), delivered (sdlv), txDes, the transmission    *)
(* counter tc and the URB tag the record got when first URB-broadcast      *)
(* (utag).  A sender URB-broadcasts its record; every node that URB-       *)
(* delivers it creates its own record, giving it its own sn, and sends a   *)
(* FORWARD with its clock back to the sender, which merges it and URB-     *)
(* broadcasts the record again.                                            *)
(*                                                                         *)
(* URB is the abstract service of URBAbstract (which module URB is checked *)
(* to implement): urbSent[n] is the sequence of FORWARD payloads n         *)
(* URB-broadcast, its i-th with URB tag (n, i), and urbDelivered[n] the    *)
(* URB tags n delivered, each sender's in order.  urbMinTx[n] stands for   *)
(* min_urb_TxObsS, which only passes a tag of n once every node has        *)
(* delivered it.  The URB records without SCD metadata, the ones a re-     *)
(* broadcast creates, belong to that service.                              *)
(*                                                                         *)
(* One iteration of do_forever_loop is one step, as in module URB.  No     *)
(* node crashes and none is suspected, so trusted() is every node.         *)
(* Payloads are their tags; a record of the Vec buffer is a TLA+ record.   *)
(***************************************************************************)
EXTENDS Integers, Sequences, FiniteSets, FiniteSetsExt, SequencesExt, SCDDeliver

CONSTANTS
    Broadcasters,  \* nodes whose application submits SCD_BROADCAST
    MaxBcast,      \* bound on the SCD broadcasts of one node
    MaxUrb,        \* bound on the URB broadcasts of one node
    WindowSize,    \* SETTINGS.window_size(): scd_buffer_unit_size
    Delta,         \* SETTINGS.delta(): recovery every Delta-th tick
    MaxRecv,       \* bound on the datagrams one tick reads
    None           \* Option::None

ASSUME /\ Broadcasters \subseteq Node /\ MaxBcast \in Nat /\ MaxUrb \in Nat
       /\ WindowSize \in Nat \ {0} /\ Delta \in Nat \ {0} /\ MaxRecv \in Nat
       /\ Inf \in Nat

VARIABLES
    sn,             \* MergedNode.sn
    buffer,         \* the records with SCD metadata, in Vec order
    scd_rxObsS,     \* scd_rxObsS[n][k]
    scd_txObsS,     \* scd_txObsS[n][k]
    scd_txSpace,    \* scd_txSpace[n][k]: a number or None
    urbSent,        \* the FORWARD payloads n URB-broadcast, in URB seq order
    urbDelivered,   \* the URB tags n delivered, in order
    urbMinTx,       \* min_urb_TxObsS at n
    net,            \* FORWARD and SCDGOSSIP datagrams in transit
    iterations,     \* do_forever_loop's iterations, modulo Delta
    scdSent,        \* the tags n SCD-broadcast (history)
    scdDelivered,   \* the sets of tags scd_deliver handed up, in order (history)
    illegally_triggered_ss  \* run_result.illegally_triggered_ss

vars == <<sn, buffer, scd_rxObsS, scd_txObsS, scd_txSpace, urbSent, urbDelivered,
          urbMinTx, net, iterations, scdSent, scdDelivered, illegally_triggered_ss>>

Ua == INSTANCE URBAbstract WITH MaxSeq <- MaxUrb,
          bcast <- [k \in Node |-> Len(urbSent[k])], delivered <- urbDelivered

(***************************************************************************)
(* Data                                                                    *)
(***************************************************************************)
Tags == [id : Node, seq : Nat]
Clock == [Node -> Nat]
OptNat == Nat \cup {None}

Records == [tag : Tags, cl : Clock, fsn : Nat, sdlv : BOOLEAN,
            txDes : OptNat, tc : 0..2, utag : OptNat]

\* FORWARD {msg_tag, forward_tag, cl}; the payload is the tag.
Payloads == [tag : Tags, fwd : Tags, cl : Clock]

Messages ==
    [type : {"FORWARD"}, sender : Node, dest : Node, tag : Tags, fwd : Tags, cl : Clock]
    \cup [type : {"SCDGOSSIP"}, sender : Node, dest : Node, maxSeq : Nat,
          rxObsS : Nat, txObsS : Nat, rxSpace : OptNat, txSpace : OptNat]

(***************************************************************************)
(* Helpers (scd.rs, utils.rs)                                              *)
(***************************************************************************)

\* saved(k): the clock entries of k in k's own records.
Saved(b, k) == {b[i].cl[k] : i \in {j \in DOMAIN b : b[j].tag.id = k}}

\* get_urb_index(tag): the first record of tag, 0 for None.
UrbIndex(b, t) ==
    LET is == {i \in DOMAIN b : b[i].tag.id = t.id /\ b[i].cl[t.id] = t.seq}
    IN IF is = {} THEN 0 ELSE Min(is)

\* scd_maxSeq(k)
ScdMaxSeq(b, rx, k) ==
    Max({b[i].cl[k] : i \in {j \in DOMAIN b : b[j].cl[k] < Inf}} \cup {0, rx[k]})

\* min_scd_TxObsS and scd_ms(k) with every node trusted.
MinScdTxObsS(tx) == Min({tx[k] : k \in Node})

ScdMs(n, tx, rx, k) == IF k = n THEN MinScdTxObsS(tx) ELSE rx[k]

\* scd_msp: the least txSpace of another node, None if none is known.
ScdMsp(n, txSp) ==
    LET S == {txSp[k] : k \in {j \in Node \ {n} : txSp[j] # None}}
    IN IF S = {} THEN None ELSE Min(S)

\* urb_has_terminated(tag) for n's own URB tag (n, u): no record of the tag
\* is still undelivered.  A record of n's tag leaves n's buffer only after
\* n delivered it, so this is n's delivery of (n, u); dl is the sequence of
\* URB tags n has delivered, those of the current tick included.
UrbHasTerminated(dl, n, u) == Ua!CountOf(dl, n) >= u

(***************************************************************************)
(* forward (scd.rs)                                                        *)
(***************************************************************************)

\* The clock of a new record: Inf but at the forwarder, n and the sender.
Threshold(n, s, tag, fwd) ==
    [k \in Node |-> IF k = tag.id THEN tag.seq
                    ELSE IF k = n THEN s
                    ELSE IF k = fwd.id THEN fwd.seq ELSE Inf]

\* The record at i learns the forwarder's entry and every entry of cl it
\* does not know yet.
Merge(r, fwd, cl) ==
    LET c1 == [r.cl EXCEPT ![fwd.id] = fwd.seq] IN
    [r EXCEPT !.cl = IF cl = None THEN c1
                     ELSE [k \in Node |-> IF cl[k] # Inf /\ c1[k] = Inf
                                          THEN cl[k] ELSE c1[k]]]

\* Mutation variant of Forward: a tag not in the buffer always gets a new
\* record, whether or not rxObsS already passed it.
ForwardNoRxCheck(n, tag, fwd, cl, st) ==
    LET i == UrbIndex(st.buf, tag) IN
    IF i # 0 THEN [st EXCEPT !.buf[i] = Merge(@, fwd, cl)]
    ELSE [st EXCEPT !.buf = Append(@, [tag |-> tag,
                                        cl |-> Threshold(n, st.sn, tag, fwd),
                                        fsn |-> st.sn, sdlv |-> FALSE,
                                        txDes |-> None, tc |-> 0, utag |-> None]),
                    !.sn = @ + 1]

\* forward(msg, msg_tag, forward_tag, cl) at n.
Forward(n, tag, fwd, cl, st) ==
    LET i == UrbIndex(st.buf, tag) IN
    IF i # 0 THEN [st EXCEPT !.buf[i] = Merge(@, fwd, cl)]
    ELSE IF tag.seq > st.rx[tag.id]
    THEN [st EXCEPT !.buf = Append(@, [tag |-> tag,
                                        cl |-> Threshold(n, st.sn, tag, fwd),
                                        fsn |-> st.sn, sdlv |-> FALSE,
                                        txDes |-> None, tc |-> 0, utag |-> None]),
                    !.sn = @ + 1]
    ELSE [st EXCEPT !.rx[fwd.id] = Max({@, fwd.seq})]

\* scd_broadcast, SCD variant: ErrNoSpace when n holds WindowSize records
\* of its own, else forward with the tag (n, sn).
ScdBroadcast(n, st) ==
    IF Cardinality(Saved(st.buf, n)) < WindowSize
    THEN LET t == [id |-> n, seq |-> st.sn] IN
         [Forward(n, t, t, None, st) EXCEPT !.sent = @ \cup {t}]
    ELSE st

\* recv_operations: nb SCD_BROADCAST requests, admitted while
\* scd_available_space_for(num_of_msgs) holds, each then broadcast.
RecvOperationsOk(n, nb, st) ==
    /\ n \in Broadcasters \/ nb = 0
    /\ Cardinality(st.sent) + nb <= MaxBcast
    /\ Cardinality(Saved(st.buf, n)) + nb <= WindowSize

RecvOperations(n, nb, st) ==
    FoldLeft(LAMBDA acc, i : ScdBroadcast(n, acc), st, [i \in 1..nb |-> i])
\* Two datagrams that take the same slot of the network: same kind, sender,
\* receiver and (for FORWARD) tag.  A datagram overwrites the one in transit
\* in its slot, which is then lost (single-slot SCDGOSSIP relay queue).
SameSlot(m1, m2) ==
    /\ m1.type = m2.type /\ m1.sender = m2.sender /\ m1.dest = m2.dest
    /\ m1.type = "SCDGOSSIP" \/ m1.tag = m2.tag

With(nt, ms) == {m \in nt : \A m2 \in ms : ~SameSlot(m, m2)} \cup ms

(***************************************************************************)
(* Reception (urb.rs handle_gossip_messages, handle_received_msgs)         *)
(***************************************************************************)

\* SCDGOSSIP_received at n.  (scd_rxSpace is left out: scd_gossip
\* recomputes it before any read.)
ScdGossipReceived(g, st) ==
    LET s == g.sender
        txSp == st.txSp[s]
    IN [st EXCEPT
          !.sn = Max({@, g.maxSeq}),
          !.rx[s] = Max({@, g.txObsS}),
          !.tx[s] = Max({@, g.rxObsS}),
          !.txSp[s] = IF g.rxSpace # None /\ txSp # None THEN Max({txSp, g.rxSpace})
                      ELSE IF txSp = None \/ g.rxObsS + 1 > txSp THEN g.rxSpace
                      ELSE txSp]

\* handle_gossip_messages: the SCDGOSSIPs read (one slot per sender).
HandleGossipMessages(G, st) ==
    FoldSet(LAMBDA g, acc : ScdGossipReceived(g, acc), st, G)

\* handle_received_msgs: SCD_forward_recieved for the FORWARDs read, in
\* the order fs.
HandleForwards(n, fs, st) ==
    FoldLeft(LAMBDA acc, m : Forward(n, m.tag, m.fwd, m.cl, acc), st, fs)

\* urb_loop_iter hands every URB delivery to scd_msg_received: forward of
\* the FORWARD payload, in delivery order.
UrbDeliver(n, ts, st) ==
    LET st1 == FoldLeft(LAMBDA acc, t : LET p == urbSent[t.id][t.seq] IN
                             Forward(n, p.tag, p.fwd, p.cl, acc), st, ts)
    IN [st1 EXCEPT !.udl = @ \o ts]

(***************************************************************************)
(* scd_loop_iter (scd.rs)                                                  *)
(***************************************************************************)

\* handle_scd_records: the records with txDes None or terminated, own
\* ones URB-broadcast (once terminated with tc = 2, only when ss), those of
\* other senders sent back to their sender in a FORWARD.
Qualifies(n, dl, r) == r.txDes = None \/ UrbHasTerminated(dl, n, r.txDes)

ToUrbBroadcast(n, dl, ss, r) ==
    /\ Qualifies(n, dl, r)
    /\ r.tag.id = n
    /\ ss \/ r.txDes = None \/ r.tc < 2

ForwardBack(n, r) ==
    [type |-> "FORWARD", sender |-> n, dest |-> r.tag.id, tag |-> r.tag,
     fwd |-> [id |-> n, seq |-> r.fsn], cl |-> r.cl]

\* Mutation variant of UrbBroadcastRecord: the transmission counter is
\* not capped at 2.
UrbBroadcastRecordUncapped(n, i, st) ==
    LET r == st.buf[i]
        u == Len(st.ubc) + 1
        ok == Len(st.ubc) < st.umt + WindowSize * Cardinality(Node)
    IN [st EXCEPT !.buf[i] = [r EXCEPT !.tc = @ + 1,
                                       !.utag = IF ok /\ @ = None THEN u ELSE @,
                                       !.txDes = IF ok THEN u ELSE @],
                  !.ubc = IF ok THEN Append(@, [tag |-> r.tag,
                                                fwd |-> [id |-> n, seq |-> r.fsn],
                                                cl |-> r.cl])
                          ELSE @]

\* non_blocking_urb_broadcast of the record at i, then set_scd_meta.
\* urb_available_space: seq < min_urb_TxObsS + W * N.
UrbBroadcastRecord(n, i, st) ==
    LET r == st.buf[i]
        u == Len(st.ubc) + 1
        ok == Len(st.ubc) < st.umt + WindowSize * Cardinality(Node)
        r1 == [r EXCEPT !.tc = Min({2, @ + 1}),
                        !.utag = IF ok /\ @ = None THEN u ELSE @,
                        !.txDes = IF ok THEN u ELSE @]
    IN [st EXCEPT !.buf[i] = r1,
                  !.ubc = IF ok THEN Append(@, [tag |-> r.tag,
                                                fwd |-> [id |-> n, seq |-> r.fsn],
                                                cl |-> r.cl])
                          ELSE @]

\* The records broadcast in ascending tag.seq (sort by descending seq,
\* then pop from the back; own tags are distinct).
HandleScdRecords(n, ss, st) ==
    LET bc == {i \in DOMAIN st.buf : ToUrbBroadcast(n, st.udl, ss, st.buf[i])}
        fw == {i \in DOMAIN st.buf : Qualifies(n, st.udl, st.buf[i]) /\ st.buf[i].tag.id # n}
        order == SortSeq(SetToSeq(bc), LAMBDA i, j : st.buf[i].tag.seq < st.buf[j].tag.seq)
        st1 == [st EXCEPT !.out = With(@, {ForwardBack(n, st.buf[i]) : i \in fw})]
    IN FoldLeft(LAMBDA acc, i : UrbBroadcastRecord(n, i, acc), st1, order)
\* Mutation variant of Eligible: the delivered flag is not asked.
EligibleAgain(n, dl, r) == r.utag = None \/ UrbHasTerminated(dl, n, r.utag)

\* try_deliver: the eligible records (URB-delivered or without URB tag,
\* not yet SCD-delivered) in buffer order, pruned by ToDeliver; each
\* delivered entry marks the record get_urb_index finds for its tag, and
\* the set goes up to scd_deliver in one call.
Eligible(n, dl, r) ==
    /\ \/ r.utag = None
       \/ UrbHasTerminated(dl, n, r.utag)
    /\ ~r.sdlv

TryDeliver(n, st) ==
    LET el == SelectSeq(st.buf, LAMBDA r : Eligible(n, st.udl, r))
        idx == {UrbIndex(st.buf, e.tag) : e \in Range(ToDeliver(el))} \ {0}
        b == st.buf
    IN [st EXCEPT !.buf = [i \in DOMAIN b |-> IF i \in idx THEN [b[i] EXCEPT !.sdlv = TRUE]
                                              ELSE b[i]],
                  !.dlv = IF idx = {} THEN st.dlv ELSE Append(st.dlv, {b[i].tag : i \in idx})]

\* scd_obsolete(record, k): delivered, broadcast by n (or another's), and
\* the next clock entry of k.
ScdObsoleteFor(n, r) ==
    /\ (r.txDes # None /\ r.tag.id = n) \/ r.tag.id # n
    /\ r.sdlv

\* advance_scd_rxObsS_based_on_obs_record: rxObsS[k] moves on while some
\* obsolete record holds rxObsS[k] + 1 as its entry of k.
RECURSIVE AdvanceTo(_, _)
AdvanceTo(S, v) == IF v + 1 \in S THEN AdvanceTo(S, v + 1) ELSE v

AdvanceScdRxObsS(n, st) ==
    LET obs(k) == {st.buf[i].cl[k] : i \in {j \in DOMAIN st.buf : ScdObsoleteFor(n, st.buf[j])}}
    IN [st EXCEPT !.rx = [k \in Node |-> AdvanceTo(obs(k), @[k])]]

\* remove_unreasonable_scd_records_from_buffer, first pass: scd_needed of
\* a record, and the clock entries of n collected in clock_i.
ScdNeeded(n, ms, msp, r) ==
    IF r.tag.id # n THEN \E k \in Node : ms[k] < r.cl[k]
    ELSE \/ msp # None /\ msp <= r.cl[n]
         \/ msp = None /\ \E k \in Node : ms[k] < r.cl[k]

ClockI(n, msp, b) ==
    {b[i].cl[n] : i \in {j \in DOMAIN b :
        /\ \/ msp # None /\ b[j].tag.id # n
           \/ msp = None /\ b[j].tag.id = n
        /\ b[j].cl[n] # Inf}}

\* Second pass, in buffer order: a record holding the least entry of
\* clock_i, with every entry covered by ms, is not needed, and that entry
\* leaves clock_i.  ok is the sequence of the pass's verdicts.
RECURSIVE SecondPass(_, _, _, _, _)
SecondPass(n, ms, b, ci, i) ==
    IF i > Len(b) THEN <<>>
    ELSE LET drop == /\ ci # {}
                     /\ Min(ci) = b[i].cl[n]
                     /\ \A k \in Node : ms[k] >= b[i].cl[k]
         IN <<~drop>> \o SecondPass(n, ms, b, IF drop THEN ci \ {Min(ci)} ELSE ci, i + 1)

\* The records kept: scd_needed, or (with a URB tag) urb_needed, which for
\* n's own URB tag u is min_urb_TxObsS < u.
RemoveUnreasonableScd(n, st) ==
    LET ms == [k \in Node |-> ScdMs(n, st.tx, st.rx, k)]
        msp == ScdMsp(n, st.txSp)
        ok == SecondPass(n, ms, st.buf, ClockI(n, msp, st.buf), 1)
        kept(i) == \/ ScdNeeded(n, ms, msp, st.buf[i]) /\ ok[i]
                   \/ st.buf[i].utag # None /\ st.umt < st.buf[i].utag
        is == SelectSeq([i \in DOMAIN st.buf |-> i], kept)
    IN [st EXCEPT !.buf = [j \in DOMAIN is |-> @[is[j]]]]

\* The rxSpace entry n computes for k: the least of saved(k) and
\* rxObsS[k] + 1, None when saved(k) is empty.
RxSpace(b, rx, k) ==
    IF Saved(b, k) = {} THEN None ELSE Min({Min(Saved(b, k)), rx[k] + 1})

GossipFor(n, st, k) ==
    [type |-> "SCDGOSSIP", sender |-> n, dest |-> k,
     maxSeq |-> ScdMaxSeq(st.buf, st.rx, k), rxObsS |-> st.rx[k],
     txObsS |-> st.tx[k], rxSpace |-> RxSpace(st.buf, st.rx, k),
     txSpace |-> st.txSp[k]]

\* scd_gossip: an SCDGOSSIP to every other node, then SCDGOSSIP_received
\* of its own.  (A gossip that handle_records_in_buffer piggybacked on a
\* MSG to k this tick replaces the datagram to k; this path is left out.)
ScdGossip(n, st) ==
    ScdGossipReceived(GossipFor(n, st, n),
        [st EXCEPT !.out = With(@, {GossipFor(n, st, k) : k \in Node \ {n}})])

\* scd_clean_buffer_if_corrupted: two records with the same sender entry,
\* a record without n's entry, or more than WindowSize saved entries of a
\* node.  The buffer is emptied.
ScdBufferCorrupted(n, b) ==
    \/ \E i, j \in DOMAIN b : i < j /\ b[i].tag.id = b[j].tag.id
                               /\ b[i].cl[b[i].tag.id] = b[j].cl[b[j].tag.id]
    \/ \E i \in DOMAIN b : b[i].cl[n] = Inf
    \/ \E k \in Node : Cardinality(Saved(b, k)) > WindowSize

ScdCleanBufferIfCorrupted(n, st) ==
    IF ScdBufferCorrupted(n, st.buf)
    THEN [st EXCEPT !.buf = <<>>, !.illegal = TRUE]
    ELSE st

\* reset_scd_txObsS_if_corrupted: ms_i < sn, and the entries of n above
\* ms_i are ms_i + 1 .. sn - 1, each held once.  Otherwise
\* uniform_scd_obsS(sn): every txObsS and rxObsS[n] become sn - 1.
SnReasonable(n, st) ==
    LET ms == MinScdTxObsS(st.tx)
        above == {i \in DOMAIN st.buf : st.buf[i].cl[n] > ms}
    IN /\ ms < st.sn
       /\ {st.buf[i].cl[n] : i \in above} = (ms + 1)..(st.sn - 1)
       /\ Cardinality(above) = st.sn - 1 - ms

ResetScdTxObsSIfCorrupted(n, st) ==
    IF SnReasonable(n, st) THEN st
    ELSE LET v == Max({0, st.sn - 1}) IN
         [st EXCEPT !.tx = [k \in Node |-> v], !.rx[n] = v, !.illegal = TRUE]

\* scd_loop_iter
ScdLoopIter(n, ss, st) ==
    LET st1 == IF ss THEN ResetScdTxObsSIfCorrupted(n, ScdCleanBufferIfCorrupted(n, st))
               ELSE st
        st2 == AdvanceScdRxObsS(n, TryDeliver(n, HandleScdRecords(n, ss, st1)))
        st3 == RemoveUnreasonableScd(n, st2)
    IN IF ss THEN ScdGossip(n, st3) ELSE st3

(***************************************************************************)
(* The specification                                                       *)
(***************************************************************************)

TypeOK ==
    /\ sn \in [Node -> Nat \ {0}]
    /\ buffer \in [Node -> Seq(Records)]
    /\ scd_rxObsS \in [Node -> [Node -> Nat]]
    /\ scd_txObsS \in [Node -> [Node -> Nat]]
    /\ scd_txSpace \in [Node -> [Node -> OptNat]]
    /\ urbSent \in [Node -> Seq(Payloads)]
    /\ urbDelivered \in [Node -> Seq(Ua!AbsTags)]
    /\ urbMinTx \in [Node -> Nat]
    /\ net \subseteq Messages
    /\ iterations \in [Node -> 0..(Delta - 1)]
    /\ scdSent \in [Node -> SUBSET Tags]
    /\ scdDelivered \in [Node -> Seq(SUBSET Tags)]
    /\ illegally_triggered_ss \in [Node -> BOOLEAN]

\* MergedNode::new (SCD fields): sn = 1, the vectors 0, the spaces None.
Init ==
    /\ sn = [n \in Node |-> 1]
    /\ buffer = [n \in Node |-> <<>>]
    /\ scd_rxObsS = [n \in Node |-> [k \in Node |-> 0]]
    /\ scd_txObsS = [n \in Node |-> [k \in Node |-> 0]]
    /\ scd_txSpace = [n \in Node |-> [k \in Node |-> None]]
    /\ urbSent = [n \in Node |-> <<>>]
    /\ urbDelivered = [n \in Node |-> <<>>]
    /\ urbMinTx = [n \in Node |-> 0]
    /\ net = {}
    /\ iterations = [n \in Node |-> 0]
    /\ scdSent = [n \in Node |-> {}]
    /\ scdDelivered = [n \in Node |-> <<>>]
    /\ illegally_triggered_ss = [n \in Node |-> FALSE]

LocalState(n) ==
    [sn |-> sn[n], buf |-> buffer[n], rx |-> scd_rxObsS[n], tx |-> scd_txObsS[n],
     txSp |-> scd_txSpace[n], ubc |-> urbSent[n], umt |-> urbMinTx[n],
     sent |-> scdSent[n], dlv |-> <<>>, out |-> {}, illegal |-> illegally_triggered_ss[n],
     udl |-> urbDelivered[n]]

\* The datagrams in transit to n, and the sets of at most MaxRecv of them a
\* tick may read.
ToNode(n) == {m \in net : m.dest = n}

Reads(nt) == UNION {kSubset(k, nt) : k \in 0..MaxRecv}

\* The order handle_received_msgs reads the FORWARDs of F in: one relay
\* queue after the other, each in arrival order.
ForwardOrders(F) ==
    {fs \in SetToSeqs(F) :
        \A i, j, k \in DOMAIN fs :
            i < j /\ j < k /\ fs[i].sender = fs[k].sender => fs[j].sender = fs[i].sender}

\* How far min_urb_TxObsS of n may have come: every node delivered the tag.
UrbMinTxBound(n) == Min({Ua!CountOf(urbDelivered[k], n) : k \in Node})

\* One iteration of do_forever_loop at n: recv_operations (nb SCD
\* broadcasts), then bare_bone_loop_iter: recv_messages reads R,
\* handle_gossip_messages, handle_received_msgs (FORWARDs in the order fs),
\* urb_loop_iter (min_urb_TxObsS at m, deliveries ts of URB tags), and
\* scd_loop_iter with ss = (iterations % delta == 0).
TickWith(n, nb, R, fs, m, ts) ==
    \E st0 \in {RecvOperations(n, nb, LocalState(n))} :
    \E st1 \in {HandleForwards(n, fs,
                   HandleGossipMessages({g \in R : g.type = "SCDGOSSIP"}, st0))} :
    \E st2 \in {UrbDeliver(n, ts, [st1 EXCEPT !.umt = m])} :
    \E st \in {ScdLoopIter(n, iterations[n] = 0, st2)} :
       /\ sn' = [sn EXCEPT ![n] = st.sn]
       /\ buffer' = [buffer EXCEPT ![n] = st.buf]
       /\ scd_rxObsS' = [scd_rxObsS EXCEPT ![n] = st.rx]
       /\ scd_txObsS' = [scd_txObsS EXCEPT ![n] = st.tx]
       /\ scd_txSpace' = [scd_txSpace EXCEPT ![n] = st.txSp]
       /\ urbSent' = [urbSent EXCEPT ![n] = st.ubc]
       /\ urbDelivered' = [urbDelivered EXCEPT ![n] = @ \o ts]
       /\ urbMinTx' = [urbMinTx EXCEPT ![n] = st.umt]
       /\ net' = With(net \ R, st.out)
       /\ iterations' = [iterations EXCEPT ![n] = (@ + 1) % Delta]
       /\ scdSent' = [scdSent EXCEPT ![n] = st.sent]
       /\ scdDelivered' = [scdDelivered EXCEPT ![n] = @ \o st.dlv]
       /\ illegally_triggered_ss' = [illegally_triggered_ss EXCEPT ![n] = st.illegal]

Tick(n) ==
    \E nb \in 0..MaxBcast, R \in Reads(ToNode(n)) :
        /\ RecvOperationsOk(n, nb, LocalState(n))
        /\ \E fs \in ForwardOrders({f \in R : f.type = "FORWARD"}),
              m \in urbMinTx[n]..UrbMinTxBound(n),
              ts \in Ua!Extensions(urbDelivered[n], [k \in Node |-> Len(urbSent[k])]) :
             TickWith(n, nb, R, fs, m, ts)

Next == \E n \in Node : Tick(n)

Spec == Init /\ [][Next]_vars
(***************************************************************************)
(* Properties                                                              *)
(***************************************************************************)

\* The position of the set holding t among n's deliveries, 0 if none.
BatchOf(n, t) ==
    LET is == {i \in DOMAIN scdDelivered[n] : t \in scdDelivered[n][i]}
    IN IF is = {} THEN 0 ELSE Min(is)

DeliveredTagsOf(n) == UNION Range(scdDelivered[n])

DeliveredTags == UNION {DeliveredTagsOf(n) : n \in Node}

\* SCD causal soundness (spec.md 5): if a node delivers T1 in an earlier
\* set than T2, no node delivers T2 in an earlier set than T1.  Every node
\* gives a message its own clock entry when it learns of it (forward), and
\* try_deliver's pruning must keep the sets of all nodes in one order while
\* clocks are still being merged from FORWARDs and URB re-broadcasts.
ScdOrder ==
    \A n, m \in Node, t1, t2 \in DeliveredTags :
        ~(/\ BatchOf(n, t1) # 0 /\ BatchOf(n, t2) # 0 /\ BatchOf(n, t1) < BatchOf(n, t2)
          /\ BatchOf(m, t1) # 0 /\ BatchOf(m, t2) # 0 /\ BatchOf(m, t2) < BatchOf(m, t1))

\* No node hands a message up twice: once its record is delivered and
\* garbage collected, a late FORWARD or URB re-broadcast of it must not
\* create a fresh record (forward checks the tag against rxObsS).
NoDuplicateDelivery ==
    \A n \in Node : \A i, j \in DOMAIN scdDelivered[n] :
        i # j => scdDelivered[n][i] \cap scdDelivered[n][j] = {}

\* No recovery check of scd_loop_iter fires in a run without transient
\* faults (the code panics when one does): no two records of a tag, every
\* record has n's entry, no node has more than WindowSize saved entries,
\* and n's entries above min_scd_TxObsS are exactly ms+1 .. sn-1.
NoIllegalScdRecovery == \A n \in Node : ~illegally_triggered_ss[n]
=============================================================================
