---------------------------- MODULE MCLinkServer ----------------------------
(* Small instances of LinkServer for TLC. *)
EXTENDS LinkServer

MCIps == {10, 11}
=============================================================================
