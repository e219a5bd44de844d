-------------------------- MODULE MCTranscodeQueue --------------------------
(***************************************************************************)
(* Small instances of TranscodeQueue: a DVD title and a Blu-ray, or a DVD  *)
(* with two titles.                                                        *)
(***************************************************************************)
EXTENDS TranscodeQueue

CONSTANTS a, b, dvd, bd, p, q

OneOfEach == {a, b}
OneOfEachDisc == [j \in OneOfEach |-> IF j = a THEN dvd ELSE bd]
OneOfEachIndex == [j \in OneOfEach |-> 0]
OneOfEachPath == [j \in OneOfEach |-> IF j = a THEN p ELSE q]

TwoTitles == {a, b}
TwoTitlesDisc == [j \in TwoTitles |-> dvd]
TwoTitlesIndex == [j \in TwoTitles |-> IF j = a THEN 0 ELSE 1]
TwoTitlesPath == [j \in TwoTitles |-> IF j = a THEN p ELSE q]
=============================================================================
