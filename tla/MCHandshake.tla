---------------------------- MODULE MCHandshake ----------------------------
(* Handshake for TLC; its constants are numbers and strings of the cfg files. *)
EXTENDS Handshake
=============================================================================
