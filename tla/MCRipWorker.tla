----------------------------- MODULE MCRipWorker ----------------------------
(***************************************************************************)
(* Small instances of RipWorker: two drives that hold copies of one DVD,   *)
(* and one drive fed with an encrypted DVD, a Blu-ray or a damaged disc.   *)
(***************************************************************************)
EXTENDS RipWorker, TLC

OneTitle == [d \in Disc |-> 1]
TwoTitles == [d \in Disc |-> IF d \in BluRay THEN 1 ELSE 2]

\* The drives are interchangeable; used by a run of invariants only.
Drives == Permutations(Drive)
=============================================================================
