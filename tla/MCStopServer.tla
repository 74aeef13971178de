---------------------------- MODULE MCStopServer ----------------------------
(* Small instances of StopServer for TLC. *)
EXTENDS StopServer

MCIps == {10, 11}
=============================================================================
