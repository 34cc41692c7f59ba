-------------------------- MODULE MCProbeMatching --------------------------
(* Names of one or two letters: the daemon's type is "ab". *)
EXTENDS ProbeMatching

MCOwnTypes == <<"a", "b">>
=============================================================================
