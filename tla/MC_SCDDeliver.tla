--------------------------- MODULE MC_SCDDeliver ---------------------------
(***************************************************************************)
(* try_deliver's pruning loop over every sequence of at most MaxEntries    *)
(* eligible records whose clocks take the values 1..MaxClock or unknown on *)
(* three nodes, a node giving distinct records distinct values.  The input *)
(* is fixed in the initial state; no step changes it.                      *)
(***************************************************************************)
EXTENDS SCDDeliver, TLC

CONSTANTS n1, n2, n3, MaxClock, MaxEntries

MCNode == {n1, n2, n3}
MCInf == 1000

VARIABLE el   \* the eligible records, in buffer order

Clocks == [Node -> (1..MaxClock) \cup {Inf}]

\* A node gives distinct messages distinct sequence numbers (sn grows by
\* one with every record forward creates).
DistinctClocks(s) ==
    \A i, j \in DOMAIN s, k \in Node :
        i # j /\ s[i].cl[k] # Inf => s[i].cl[k] # s[j].cl[k]

Init == el \in {s \in UNION {[1..m -> [cl : Clocks]] : m \in 0..MaxEntries} :
                 DistinctClocks(s)}

Next == UNCHANGED el

Spec == Init /\ [][Next]_el

\* The entries try_deliver delivers are the ones the rule of spec.md 4.2
\* (move a candidate dominated by an excluded clock) delivers.
MatchesSpecRule == Range(ToDeliver(el)) = SpecDeliverableSet(Range(el))
=============================================================================
