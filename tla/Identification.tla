---------------------------- MODULE Identification ----------------------------
(***************************************************************************)
(* identify.Resolve: what the nets' candidates for a disc's title come to  *)
(* (identify/identify.go).                                                 *)
(*                                                                         *)
(* Confidence is a float in the code; here it is in hundredths, which      *)
(* order as the floats do for the confidences the nets give.  Only of two  *)
(* that are exactly 0.2 apart does the rounding decide: RoundsDown has the *)
(* pairs whose floats differ by less (0.95 and 0.75 do, 0.8 and 0.6 do     *)
(* not).  A candidate carries the year for all the details that are filled *)
(* in the same way (season, disc, kind).                                   *)
(***************************************************************************)
EXTENDS Lists

CONSTANTS Candidate,        \* a title a net proposes for a disc
          RoundsDown        \* confidences 0.2 apart that differ by less as floats

ASSUME CandidateConstants ==
    \A c \in Candidate :
        {"title", "year", "confidence"} \subseteq DOMAIN c /\ c.confidence \in Int

\* normaliseTitle: letters and digits, in one case, with single spaces.
normaliseTitle(title) ==
    IF title \in {"Roman Holiday", "ROMAN_HOLIDAY"} THEN "roman holiday"
    ELSE IF title = "Spaceballs" THEN "spaceballs" ELSE ""

\* sort.SliceStable by falling confidence.
MostConfidentFirst(s) == Sorted(s, LAMBDA c, d : c.confidence > d.confidence)

\* mergeGroup that adds for every candidate, whichever net it came from.
mergeGroupCounts(g) ==
    LET sorted == MostConfidentFirst(g)
        raised == sorted[1].confidence + 15 * (Len(g) - 1)
    IN [sorted[1] EXCEPT !.confidence = IF raised > 95 THEN 95 ELSE raised]

\* mergeGroup.
mergeGroup(g) ==
    LET sorted == MostConfidentFirst(g)
        best == sorted[1]
        nets == Cardinality({g[i].net : i \in DOMAIN g})
        raised == best.confidence + 15 * (nets - 1)
        dated == {n \in DOMAIN sorted : sorted[n].year # 0}
    IN [best EXCEPT
            !.confidence = IF nets <= 1 THEN @ ELSE IF raised > 95 THEN 95 ELSE raised,
            !.year = IF dated = {} THEN 0 ELSE sorted[Least(dated)].year]

\* The titles in the order they were first proposed.
Order(all) ==
    LET Key(i) == normaliseTitle(all[i].title)
        order == Listed({i \in DOMAIN all : \A j \in 1..(i - 1) : Key(j) # Key(i)})
    IN [n \in DOMAIN order |-> Key(order[n])]

\* merged[0].Confidence-merged[1].Confidence < 0.2.
Close(c, d) == c - d < 20 \/ (c - d = 20 /\ <<c, d>> \in RoundsDown)

\* Resolve, with Run's skipping of a candidate that has no title.
Resolve(candidates) ==
    LET all == Where(candidates, LAMBDA c : c.title # "")
        order == Order(all)
        Group(k) == Where(all, LAMBDA c : normaliseTitle(c.title) = k)
        merged == MostConfidentFirst([n \in DOMAIN order |-> mergeGroup(Group(order[n]))])
    IN [all |-> merged,
        contested |-> /\ Len(merged) > 1
                      /\ Close(merged[1].confidence, merged[2].confidence)]

=============================================================================
