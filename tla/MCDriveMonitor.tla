--------------------------- MODULE MCDriveMonitor ---------------------------
(***************************************************************************)
(* One drive, a readable disc, one it cannot read and a damaged one, and a *)
(* channel of two events, so that a person faster than the worker fills it.*)
(***************************************************************************)
EXTENDS DriveMonitor
=============================================================================
