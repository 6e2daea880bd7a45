------------------------------ MODULE MC_SCD ------------------------------
(***************************************************************************)
(* The SCD merged node for TLC: three nodes (a majority is two), node ids  *)
(* as model values.  sn and the URB broadcasts of a node are bounded by a  *)
(* state constraint: the behaviours explored are those in which no node    *)
(* gives out more than MaxSn - 1 sequence numbers or URB-broadcasts more   *)
(* than MaxUrb times.                                                      *)
(***************************************************************************)
EXTENDS SCD, TLC

CONSTANTS n1, n2, n3, MaxSn

MCNode == {n1, n2, n3}
MCInf == 1000

StateBound ==
    \A n \in Node : sn[n] <= MaxSn /\ Len(urbSent[n]) <= MaxUrb
=============================================================================
