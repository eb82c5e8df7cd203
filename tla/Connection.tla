----------------------------- MODULE Connection -----------------------------
(***************************************************************************)
(* Two peers of this crate at the two ends of one connection: what one     *)
(* puts on its half the other one reads.                                   *)
(***************************************************************************)
EXTENDS Peer

ASSUME ConnectionAssumption == \A p \in Peers : Remote[p] \in Peers

(* One of the two ends moves, and the other one is its remote.             *)
ConnectionNext ==
  \E p, q \in Peers : q = Remote[p] /\ (PeerStep(p) \/ UserStep(p))

ConnectionSpec == Init /\ [][ConnectionNext]_vars

(* The executor runs the tasks of both peers for as long as one can go on *)
(* or a delay can end.  Every step uses up some of the finite work there   *)
(* is, so that fairness towards each task would add nothing.               *)
FairConnection == ConnectionSpec /\ WF_vars(\E p \in Peers : PeerStep(p))
-----------------------------------------------------------------------------
(* incoming.rs:73-94, service_map_macro.rs:366-407: a caller is told of a  *)
(* response only when an actor of the other process has handled the call.  *)
OkMeansHandled == \A c \in Calls : outcome[c] = "ok" => c \in handled

(* close_connection.rs:18, peer.rs:525-529: when one end has closed the    *)
(* other one closes as well.                                               *)
ClosesTogether == \A p \in Peers : closed[p] ~> closed[Remote[p]]
=============================================================================
