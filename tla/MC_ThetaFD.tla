---------------------------- MODULE MC_ThetaFD ----------------------------
(* ThetaFD on its own: two nodes, one of which may crash. *)
EXTENDS ThetaFD
=============================================================================
