--------------------------- MODULE MCControlSocket ---------------------------
(* ControlSocket for TLC: the values of its constants are in the configuration. *)
EXTENDS ControlSocket
=============================================================================
