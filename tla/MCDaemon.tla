------------------------------ MODULE MCDaemon ------------------------------
(* Daemon for TLC: the values of its constants are in the configurations. *)
EXTENDS Daemon
=============================================================================
