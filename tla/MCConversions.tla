--------------------------- MODULE MCConversions ---------------------------
(* Two different texts, so that a member stored in another one's place shows. *)
EXTENDS Conversions
=============================================================================
