---------------------------- MODULE URBAbstract ----------------------------
(***************************************************************************)
(* What uniform reliable broadcast promises about deliveries, as the       *)
(* merged node's URB variant is meant to provide it: a node delivers only  *)
(* tags that were broadcast, each at most once, and the tags of one sender *)
(* in the order 1, 2, 3, ... without a gap.  Delivery to every correct     *)
(* node (agreement) is a liveness property, stated apart.                  *)
(*                                                                         *)
(* One step of a node may broadcast several messages and deliver several   *)
(* tags, as one tick of the driver loop does.                              *)
(***************************************************************************)
EXTENDS Naturals, Sequences

CONSTANTS Node, MaxSeq

VARIABLES
    bcast,      \* bcast[n]: how many messages n has broadcast
    delivered   \* delivered[n]: the tags n delivered, in order

absVars == <<bcast, delivered>>

AbsTags == [id : Node, seq : 1..MaxSeq]

AbsInit ==
    /\ bcast = [n \in Node |-> 0]
    /\ delivered = [n \in Node |-> <<>>]

\* How many tags of s the delivery log d holds.
CountOf(d, s) == Len(SelectSeq(d, LAMBDA t : t.id = s))

\* The tags that may be delivered after the log d when b counts the
\* broadcasts: the next tag of a sender, if it has been broadcast.
NextTags(d, b) ==
    {t \in AbsTags : t.seq = CountOf(d, t.id) + 1 /\ t.seq <= b[t.id]}

\* Every sequence of tags that may be delivered after the log d.
RECURSIVE Extensions(_, _)
Extensions(d, b) ==
    {<<>>} \cup UNION {{<<t>> \o e : e \in Extensions(Append(d, t), b)} :
                         t \in NextTags(d, b)}

\* n broadcasts some messages and delivers some tags, in one step.
AbsStep(n) ==
    /\ \E k \in 0..(MaxSeq - bcast[n]) : bcast' = [bcast EXCEPT ![n] = @ + k]
    /\ \E ts \in Extensions(delivered[n], bcast') :
           delivered' = [delivered EXCEPT ![n] = @ \o ts]

AbsNext == \E n \in Node : AbsStep(n)

AbsSpec == AbsInit /\ [][AbsNext]_absVars
=============================================================================
