--------------------------- MODULE MCEventStream ----------------------------
(***************************************************************************)
(* Instances of EventStream.  A buffer of two or three events wraps within *)
(* a run; SubBuffer is at least MaxEvents where the subscriber keeps up,   *)
(* and 1 where it does not.                                                *)
(***************************************************************************)
EXTENDS EventStream
=============================================================================
