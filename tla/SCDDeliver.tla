----------------------------- MODULE SCDDeliver -----------------------------
(***************************************************************************)
(* The delivery test of the merged node's SCD engine (merge/scd.rs): which *)
(* of the records eligible for delivery try_deliver delivers together.     *)
(*                                                                         *)
(* A record carries a vector clock cl: cl[k] is the sequence number node k *)
(* gave the message when it first learnt of it, Inf (Int::max_value())     *)
(* when that is not known yet.  A record is a candidate when a majority of *)
(* its entries are known (majority_aware); a candidate is held back when   *)
(* some non-candidate, or some candidate held back before, is not smaller  *)
(* in a majority of entries (cannot_deliver).                              *)
(***************************************************************************)
EXTENDS Integers, Sequences, FiniteSets, FiniteSetsExt

CONSTANTS Node, Inf

\* majority_aware: more than half of the entries of cl are known.
MajorityAware(cl) == Cardinality({k \in Node : cl[k] < Inf}) > Cardinality(Node) \div 2

\* cannot_deliver(c, r): c is smaller than r in at most half of the entries.
CannotDeliver(c, r) == Cardinality({k \in Node : c[k] < r[k]}) <= Cardinality(Node) \div 2

\* The while-changed loop of try_deliver: the first entry of td held back by
\* an excluded entry moves, with every entry equal to it, to ex; until no
\* entry of td is held back.
RECURSIVE Prune(_, _)
Prune(td, ex) ==
    LET held == {i \in DOMAIN td : \E e \in ex : CannotDeliver(td[i].cl, e.cl)} IN
    IF held = {} THEN td
    ELSE LET e == td[Min(held)] IN
         Prune(SelectSeq(td, LAMBDA x : x # e), ex \cup {e})

\* The entries of the eligible sequence el that try_deliver delivers: the
\* majority-aware ones go to to_deliver, the others to exclude_to_deliver,
\* in buffer order.
ToDeliver(el) ==
    LET td == SelectSeq(el, LAMBDA r : MajorityAware(r.cl))
        ex == {el[i] : i \in {j \in DOMAIN el : ~MajorityAware(el[j].cl)}}
    IN Prune(td, ex)

\* The rule in the words of spec.md (4.2): a candidate is moved to the
\* excluded entries when an excluded clock is smaller than its clock in
\* more than half of the coordinates.
Dominated(c, r) == Cardinality({k \in Node : r[k] < c[k]}) * 2 > Cardinality(Node)

SpecDeliverableSet(E) ==
    UNION {D \in SUBSET {e \in E : MajorityAware(e.cl)} :
             \A d \in D, e \in E \ D : ~Dominated(d.cl, e.cl)}
=============================================================================
