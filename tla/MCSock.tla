------------------------------- MODULE MCSock -------------------------------
(* Two places for Socks, so that one may be made while another exists. *)
EXTENDS Sock
=============================================================================
