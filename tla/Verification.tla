----------------------------- MODULE Verification -----------------------------
(***************************************************************************)
(* verify.Verifier: what a written title is compared with before it is     *)
(* recorded as ripped (verify/verify.go).                                  *)
(*                                                                         *)
(* The tolerance is a fraction, here in hundredths, so that the comparison *)
(* stays one of integers.  A problem is a member of a set; its wording is  *)
(* left out.                                                               *)
(***************************************************************************)
EXTENDS Integers

DefaultTolerance == 2       \* hundredths
MinToleranceSecs == 5

\* durationProblem without the absolute value: only a longer file is a problem.
durationProblemSigned(got, want, tolerance) ==
    /\ 100 * (got - want) > want * tolerance
    /\ got - want > MinToleranceSecs

\* durationProblem: diff is within the larger of the two tolerances, or not.
durationProblem(got, want, tolerance) ==
    LET diff == IF got < want THEN want - got ELSE got - want
    IN /\ 100 * diff > want * tolerance
       /\ diff > MinToleranceSecs

\* Verifier.Title: the problems of file when want was expected of it.
VerifyTitle(want, file) ==
    IF ~file.exists THEN {"missing"}
    ELSE IF want.minBytes > 0 /\ file.bytes < want.minBytes THEN {"too small"}
    ELSE IF ~file.magic THEN {"not matroska"}
    ELSE IF ~file.probes THEN {"no probe"}
    ELSE {p \in {"duration"} :
                /\ want.secs > 0
                /\ durationProblem(file.secs, want.secs, DefaultTolerance)}
         \cup {k \in {"video", "audio", "subtitle"} :
                /\ want[k] > 0
                /\ file[k] < want[k]}

=============================================================================
