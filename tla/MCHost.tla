------------------------------- MODULE MCHost -------------------------------
(* Two lives, a counter of two bits, a clock that ticks once. *)
EXTENDS Host
=============================================================================
