--------------------- MODULE MCRemoteDiscoveryService ---------------------
(* Peers of a service: a Probe with a MessageID, one without that carries a
   RelatesTo of its own, an announcement, an unknown message and one that is
   no envelope. *)
EXTENDS RemoteDiscoveryService

CONSTANTS p1, p2   \* MessageIDs of peers

MCDatagrams ==
  {[kind |-> "Probe", id |-> p1, relatesTo |-> NoId, num |-> 0],
   [kind |-> "Probe", id |-> NoId, relatesTo |-> p2, num |-> 0],
   [kind |-> "Hello", id |-> p2, relatesTo |-> NoId, num |-> 7],
   [kind |-> "Other", id |-> p2, relatesTo |-> p1, num |-> 0],
   [kind |-> "Garbage", id |-> NoId, relatesTo |-> NoId, num |-> 0]}
=============================================================================
