-------------------------- MODULE MCDiscExtraction --------------------------
(***************************************************************************)
(* A disc with three titles, two of the same length: a copy that lost the  *)
(* third still holds enough, one that holds only the third does not.       *)
(***************************************************************************)
EXTENDS DiscExtraction

ThreeSecs == <<3, 5, 5>>
TwoSecs == <<3, 5>>
=============================================================================
