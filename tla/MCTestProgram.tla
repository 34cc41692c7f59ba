--------------------------- MODULE MCTestProgram ---------------------------
(* The test program, with a peer that sends a Probe and one that sends what
   is no envelope. *)
EXTENDS TestProgram

CONSTANT p1   \* MessageID of the peer

MCDatagrams ==
  {[kind |-> "Probe", id |-> p1, relatesTo |-> NoId, num |-> 0],
   [kind |-> "Garbage", id |-> NoId, relatesTo |-> NoId, num |-> 0]}
=============================================================================
