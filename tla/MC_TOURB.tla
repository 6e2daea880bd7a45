------------------------------ MODULE MC_TOURB ------------------------------
(***************************************************************************)
(* TO-URB of the state-machine-replication emulation for TLC: the state    *)
(* constraint keeps the behaviours in which no node runs more than MaxSn  *)
(* SYNC rounds or starts an MVC instance beyond MaxInst.                   *)
(***************************************************************************)
EXTENDS TOURB, TLC

StateBound ==
    \A i \in Node : sn[i] <= MaxSn /\ obs[i] <= MaxInst /\ \A x \in Slots : cs[i][x].seq <= MaxInst
=============================================================================
