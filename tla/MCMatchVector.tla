--------------------------- MODULE MCMatchVector ---------------------------
(* A service whose user returns a fixed number of matches or none. *)
EXTENDS MatchVector
=============================================================================
