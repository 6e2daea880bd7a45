------------------------------ MODULE MC_URB ------------------------------
(***************************************************************************)
(* The URB merged node for TLC.  Nodes are model values; the nodes that do *)
(* not broadcast play interchangeable roles, so their permutations are a   *)
(* symmetry of the specification (no definition orders node ids).          *)
(***************************************************************************)
EXTENDS URB, TLC

CONSTANTS n1, n2, n3

MCNode == {n1, n2, n3}
MCNode2 == {n1, n2}
MCBroadcasters == {n1}
MCSymmetry == Permutations(MCNode \ MCBroadcasters)
=============================================================================
