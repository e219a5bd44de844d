------------------------------ MODULE Diagnosis -------------------------------
(***************************************************************************)
(* How what a program printed becomes the group a failure is counted in:   *)
(* the last lines of ffmpeg's error output (dvd/extract.go), MakeMKV's     *)
(* messages (makemkv.summarise), and disc.ClassifyFailure.                 *)
(*                                                                         *)
(* A printed line is [benign, telling, says]: whether it carries a benign  *)
(* fragment, whether it holds one of the words summarise looks for, and    *)
(* the group of the fragment it carries ("" for none).  A line of the      *)
(* message that is classified is [benign, says] with a set of groups: the  *)
(* printed lines it was joined from, "; " between them.                    *)
(***************************************************************************)
EXTENDS Lists

\* failurePatterns, the groups in the order they are tried.
failurePatterns ==
    <<"cancelled", "aacs_key", "bdplus", "region", "stalled", "space", "tooling",
      "unreadable", "mismatch">>

\* strings.Join(lines, "; ").
Joined(lines) ==
    [benign |-> \E i \in DOMAIN lines : lines[i].benign,
     says |-> {lines[i].says : i \in DOMAIN lines} \ {""}]

\* lastLines.
lastLines(lines, n) ==
    Joined(IF Len(lines) > n THEN SubSeq(lines, Len(lines) - n + 1, Len(lines)) ELSE lines)

\* summarise: the first four telling messages, or the last two backwards.
summarise(msgs) ==
    LET out == Where(msgs, LAMBDA m : m.telling)
        short == IF Len(out) > 4 THEN SubSeq(out, 1, 4) ELSE out
        latest == [n \in 1..(IF Len(msgs) < 2 THEN Len(msgs) ELSE 2) |-> msgs[Len(msgs) + 1 - n]]
    IN Joined(IF out = <<>> THEN latest ELSE short)

\* What Scan's error adds to the summary in front: "no titles found on".
NoTitlesFound(line) == [line EXCEPT !.says = @ \cup {"unreadable"}]

\* StripBenign, line by line of the message.
StripBenign(message) == Where(message, LAMBDA l : ~l.benign)

\* ClassifyFailure that does not remove benign lines first.
ClassifyFailureAsPrinted(message) ==
    LET said == UNION {message[i].says : i \in DOMAIN message}
        at == {i \in DOMAIN failurePatterns : failurePatterns[i] \in said}
    IN IF at = {} THEN "other" ELSE failurePatterns[Least(at)]

\* ClassifyFailure.
ClassifyFailure(message) ==
    LET kept == StripBenign(message)
        said == UNION {kept[i].says : i \in DOMAIN kept}
        at == {i \in DOMAIN failurePatterns : failurePatterns[i] \in said}
    IN IF at = {} THEN "other" ELSE failurePatterns[Least(at)]

=============================================================================
