------------------------------- MODULE HBFD -------------------------------
(***************************************************************************)
(* The heartbeat failure detector of the merged node (merge/hbfd.rs).      *)
(*                                                                         *)
(* hbfd_iter increments the node's own counter hb[self] and sends a        *)
(* heartbeat to every other node; on_hb_hb increments hb[sender].  The     *)
(* only reader of hb is the test prevHB[k] < hb[k] in                      *)
(* handle_records_in_buffer, where prevHB[k] is -1 in a new record and     *)
(* otherwise a value of hb[k] copied at the last send of the record to k.  *)
(* hb never decreases, so prevHB[k] < hb[k] holds exactly when hb[k]       *)
(* advanced since the record was last sent to k, or was never sent to k.   *)
(* The counters are therefore represented by one set per buffer record,    *)
(* hbAdvanced: the nodes k for which the test holds.                       *)
(*                                                                         *)
(* A heartbeat of a live node s may reach n at any step of n's tick where  *)
(* the socket is read; a heartbeat has no other effect, so its channel is  *)
(* not represented.                                                        *)
(***************************************************************************)
CONSTANT Node

\* hb[k] += 1 for every k of K, seen through the records of a buffer b
\* (on_hb_hb for a heartbeat of k, send_hb_hb to itself for k = self).
HbAdvance(b, K) == [i \in DOMAIN b |-> [b[i] EXCEPT !.hbAdvanced = @ \cup K]]

\* A record created by update(): prevHB = [-1; N], below every hb.
FreshHb == Node

\* prevHB[k] = hb[k] for each k the record was just sent to.
HbSent(r, ks) == [r EXCEPT !.hbAdvanced = @ \ ks]
=============================================================================
