------------------------------ MODULE MCWsdd ------------------------------
(* The daemon and its peers. *)
EXTENDS Wsdd

CONSTANTS p1, p2   \* MessageIDs of peers

MCDatagrams ==
  {[kind |-> "Probe", id |-> p1, relatesTo |-> NoId, num |-> 0],
   [kind |-> "Probe", id |-> NoId, relatesTo |-> p2, num |-> 0],
   [kind |-> "Hello", id |-> p2, relatesTo |-> NoId, num |-> 7],
   [kind |-> "Other", id |-> p2, relatesTo |-> p1, num |-> 0],
   [kind |-> "Garbage", id |-> NoId, relatesTo |-> NoId, num |-> 0]}
=============================================================================
