------------------------ MODULE DiscExtractionProofs ------------------------
(***************************************************************************)
(* For any disc and any number of attempts, cancellations and deaths of    *)
(* the daemon: a copy that titles are read from was finished, a copy that  *)
(* could be reused is not thrown away, makemkvcon never leaves half a      *)
(* title under its final name, and what is recorded as a disc's rip is the *)
(* disc.                                                                   *)
(*                                                                         *)
(* The first two rest on what the marker stands for at each step of rip,   *)
(* the third on when the staging directory can hold half a title.  Neither *)
(* is visible in the property itself: a marker that outlived the copy it   *)
(* was written for, or a program that reported success with half a title   *)
(* staged, would break it only some steps later.  The fourth rests on both *)
(* and on which list the titles are numbered by at each step.              *)
(***************************************************************************)
EXTENDS DiscExtraction, WellFoundedInduction, TLAPS

\* A sequence with one more element.
LEMMA AppendedIs ==
    ASSUME NEW S, NEW s \in Seq(S), NEW e \in S
    PROVE  /\ Append(s, e) \in Seq(S) /\ Append(s, e) # <<>> /\ Len(Append(s, e)) = Len(s) + 1
           /\ \A i \in 1 .. Len(s) : Append(s, e)[i] = s[i]
           /\ Append(s, e)[Len(s) + 1] = e
OBVIOUS

-----------------------------------------------------------------------------
(* The copy *)

\* The steps before a copy is in use.
Before == {"idle", "source", "clear", "mirror", "mark", "failed"}

CopyInv ==
    /\ folder \in BOOLEAN /\ marker \in BOOLEAN /\ finished \in BOOLEAN
    /\ made \in BOOLEAN /\ oversized \in BOOLEAN
    /\ marker => finished
    /\ pc \in {"mirror", "mark", "failed"} => ~marker
    /\ pc = "mark" => finished /\ made /\ ~oversized
    /\ pc \in Before => ~folder
    /\ Reading => finished /\ made /\ ~oversized
    /\ pc = "discard" => recorded

LEMMA CopyInit == Init => CopyInv
BY Zenon DEF Init, CopyInv, Reading, Before

\* A step that leaves the copy alone and goes on with the titles, or back to
\* idle, keeps the invariant.
LEMMA CopyUntouched ==
    ASSUME CopyInv, UNCHANGED copyVars,
           \/ pc' = "idle" /\ folder' = FALSE
           \/ /\ UNCHANGED folder
              /\ \/ pc' = pc /\ (pc = "discard" => UNCHANGED recorded)
                 \/ /\ pc \in {"rescan", "described", "title", "rip", "verify"}
                    /\ pc' \in {"described", "title", "rip", "verify"}
    PROVE  CopyInv'
<1> USE DEF CopyInv, Reading, Before
<1>1. UNCHANGED <<made, oversized, marker, finished>>
  BY DEF copyVars
<1>2. CASE pc' = "idle" /\ folder' = FALSE
  BY <1>1, <1>2, Zenon
<1>3. CASE UNCHANGED folder /\ pc' = pc /\ (pc = "discard" => UNCHANGED recorded)
  BY <1>1, <1>3
<1>4. CASE /\ UNCHANGED folder
           /\ pc \in {"rescan", "described", "title", "rip", "verify"}
           /\ pc' \in {"described", "title", "rip", "verify"}
  BY <1>1, <1>4
<1> QED BY <1>2, <1>3, <1>4, Zenon

LEMMA CopyStep == CopyInv /\ [Next]_vars => CopyInv'
<1> SUFFICES ASSUME CopyInv, [Next]_vars PROVE CopyInv'
  OBVIOUS
<1>1. CASE UNCHANGED vars
  BY <1>1, CopyUntouched DEF vars, attemptVars, recordVars
<1>2. CASE Begin
  <2>1. UNCHANGED <<made, oversized, marker, finished, folder>>
        /\ pc = "idle" /\ pc' = "source"
    BY <1>2 DEF Begin, copyVars
  <2> QED BY <2>1 DEF CopyInv, Reading, Before
<1>3. CASE ripSource
  <2> USE DEF CopyInv, Reading, Before
  <2>1. pc = "source" /\ UNCHANGED <<made, oversized, marker, finished>>
    BY <1>3 DEF ripSource, copyVars
  <2>2. \/ pc' \in {"described", "clear"} /\ UNCHANGED folder
        \/ pc' = "idle" /\ folder' = FALSE
        \/ Existing /\ folder' = TRUE /\ pc' = "rescan"
    BY <1>3 DEF ripSource, GoTo, Return, attemptVars
  <2>3. CASE pc' \in {"described", "clear"} /\ UNCHANGED folder
    BY <2>1, <2>3
  <2>4. CASE pc' = "idle" /\ folder' = FALSE
    BY <2>1, <2>4, Zenon
  <2>5. CASE Existing /\ folder' = TRUE /\ pc' = "rescan"
    BY <2>1, <2>5 DEF Existing, verifyCopy
  <2> QED BY <2>2, <2>3, <2>4, <2>5, Zenon
<1>4. CASE RemoveEntry
  <2> USE DEF CopyInv, Reading, Before
  <2>1. pc \in {"clear", "failed", "discard"}
        /\ UNCHANGED <<pc, folder, finished, recorded>>
    BY <1>4 DEF RemoveEntry, attemptVars, recordVars
  <2>2. /\ marker' = marker \/ marker' = FALSE
        /\ made' = made \/ made' = FALSE
        /\ oversized' = oversized \/ oversized' = FALSE
    BY <1>4 DEF RemoveEntry
  <2>3. made' \in BOOLEAN /\ oversized' \in BOOLEAN
    BY <2>2, Zenon
  <2>4. CASE marker' = marker
    BY <2>1, <2>3, <2>4
  <2>5. CASE marker' = FALSE
    BY <2>1, <2>3, <2>5, Zenon
  <2> QED BY <2>2, <2>4, <2>5, Zenon
<1>5. CASE StartMirror
  BY <1>5, Zenon DEF StartMirror, NoCopy, CopyInv, Reading, Before, attemptVars
<1>6. CASE MirrorEnds
  <2> USE DEF CopyInv, Reading, Before
  <2>1. pc = "mirror" /\ UNCHANGED <<made, oversized, marker, folder>>
    BY <1>6 DEF MirrorEnds, attemptVars
  <2>2. \/ made /\ ~oversized /\ pc' = "mark" /\ finished' = TRUE
        \/ pc' = "failed" /\ UNCHANGED finished
    BY <1>6 DEF MirrorEnds, verifyCopy
  <2> QED BY <2>1, <2>2, Zenon
<1>7. CASE MarkComplete
  <2> USE DEF CopyInv, Reading, Before
  <2>1. pc = "mark" /\ UNCHANGED <<made, oversized, finished>>
    BY <1>7 DEF MarkComplete
  <2>2. CASE marker' = TRUE /\ folder' = TRUE /\ pc' = "rescan"
    BY <2>1, <2>2
  <2>3. CASE pc' = "failed" /\ UNCHANGED <<marker, folder>>
    BY <2>1, <2>3
  <2> QED BY <1>7, <2>2, <2>3, Zenon DEF MarkComplete
<1>8. CASE Removed
  BY <1>8, CopyUntouched, Zenon DEF Removed, Return
<1>9. CASE rescanCopy
  BY <1>9, CopyUntouched, Zenon DEF rescanCopy, GoTo, Return, attemptVars
<1>10. CASE writeDiscJSON
  BY <1>10, CopyUntouched DEF writeDiscJSON
<1>11. CASE StartProgram
  BY <1>11, CopyUntouched, Zenon DEF StartProgram, GoTo, Return, attemptVars
<1>12. CASE RipTitle \/ Extract
  BY <1>12, CopyUntouched, Zenon DEF RipTitle, Extract, GoTo, Return, attemptVars
<1>13. CASE verifyTitle
  BY <1>13, CopyUntouched, Zenon DEF verifyTitle, Return
<1>14. CASE SetDiscRipDir
  BY <1>14, Zenon DEF SetDiscRipDir, GoTo, Return, CopyInv, Reading, Before, copyVars,
               attemptVars
<1>15. CASE BackupWrites
  BY <1>15, Zenon DEF BackupWrites, CopyInv, Reading, Before, attemptVars
<1>16. CASE BackupExits \/ Cancel
  BY <1>16, CopyUntouched, Zenon DEF BackupExits, Cancel, attemptVars, recordVars
<1>17. CASE \/ ReadRobotLine \/ ReadProgressLine \/ Tick \/ WatchRip \/ WatchExtract
            \/ ProgramReads \/ ProgramTalks \/ ProgramExits \/ ProgramStops
  BY <1>17, CopyUntouched, Zenon DEF ReadRobotLine, ReadProgressLine, Tick, WatchRip, WatchExtract,
        ProgramReads, ProgramTalks, ProgramExits, ProgramStops, attemptVars, recordVars
<1>18. CASE Crash
  BY <1>18, CopyUntouched, Zenon DEF Crash, Return
<1>19. CASE Forget
  BY <1>19, CopyUntouched DEF Forget, attemptVars
<1> QED BY <1>1, <1>2, <1>3, <1>4, <1>5, <1>6, <1>7, <1>8, <1>9, <1>10, <1>11, <1>12,
           <1>13, <1>14, <1>15, <1>16, <1>17, <1>18, <1>19
        DEF Next, WorkerStep, StartRipTitle, StartExtract

\* Titles are read only from a copy that dvdbackup finished and that verified
\* (decrypt.Mirror, Existing), however many attempts died on the way.
THEOREM ReusedIsFinishedHolds == Spec => []ReusedIsFinished
<1>1. CopyInv => ReusedIsFinished
  BY DEF CopyInv, ReusedIsFinished
<1> QED BY <1>1, CopyInit, CopyStep, PTL DEF Spec

\* A copy that could be reused is removed only after the rip made from it was
\* recorded (ripSource, rip): no failure, cancellation or death in between
\* costs the hour it took to make.
THEOREM KeptForRetryHolds == Spec => KeptForRetry
<1> DEFINE Kept == Existing /\ ~Existing' => recorded \/ pc = "clear"
<1>1. ASSUME CopyInv, [Next]_vars PROVE [Kept]_vars
  <2>1. CASE UNCHANGED <<made, oversized, marker>>
    BY <2>1 DEF Existing, verifyCopy
  <2>2. CASE RemoveEntry
    BY <1>1, <2>2 DEF RemoveEntry, CopyInv, Existing
  <2>3. CASE BackupWrites
    BY <1>1, <2>3 DEF BackupWrites, CopyInv, Existing
  <2>4. CASE MarkComplete
    BY <1>1, <2>4 DEF MarkComplete, CopyInv, Existing
  <2>5. CASE UNCHANGED vars
    BY <2>5, <2>1 DEF vars, copyVars
  <2>6. ASSUME Next, ~RemoveEntry, ~BackupWrites, ~MarkComplete
        PROVE  UNCHANGED <<made, oversized, marker>>
    BY <2>6, Zenon DEF Next, WorkerStep, Begin, ripSource, StartMirror, MirrorEnds, Removed,
        rescanCopy, writeDiscJSON, StartRipTitle, StartExtract, StartProgram, RipTitle,
        Extract, verifyTitle, SetDiscRipDir, BackupExits, ReadRobotLine,
        ReadProgressLine, Tick, WatchRip, WatchExtract, ProgramReads, ProgramTalks,
        ProgramExits, ProgramStops, Cancel, Crash, Forget, copyVars
  <2> QED BY <1>1, <2>1, <2>2, <2>3, <2>4, <2>5, <2>6
<1> QED BY <1>1, CopyInit, CopyStep, PTL DEF Spec, KeptForRetry

-----------------------------------------------------------------------------
(* The staging directory *)

\* While makemkvcon writes, half a title is in the staging directory and nowhere
\* else; it never reports success with half a title there.
StageInv ==
    /\ file \in [Titles -> Amount] /\ staged \in Amount /\ progress \in Nat
    /\ ~native =>
        /\ "part" \notin left
        /\ \A i \in Titles : file[i] # "part"
        /\ staged = "part" => pc = "rip" /\ progress > 0 /\ proc # "exit0"

LEMMA StageInit == Init => StageInv
BY DEF Init, StageInv, Amount

\* A step that writes nothing and does not take half a title out of "rip".
LEMMA StageUntouched ==
    ASSUME StageInv, UNCHANGED <<native, fileVars>>, progress' \in Nat,
           staged = "part" /\ ~native => pc' = "rip" /\ progress' > 0 /\ proc' # "exit0"
    PROVE  StageInv'
BY DEF StageInv, fileVars

LEMMA StageStep == StageInv /\ [Next]_vars => StageInv'
<1> SUFFICES ASSUME StageInv, [Next]_vars PROVE StageInv'
  OBVIOUS
<1>1. CASE UNCHANGED vars
  BY <1>1, StageUntouched DEF vars, setup, stallVars, progVars, StageInv
<1>2. CASE Begin
  <2>1. /\ UNCHANGED <<native, staged, progress>> /\ pc = "idle"
        /\ left' = left \cup {file[i] : i \in Titles}
        /\ file' = [i \in Titles |-> "none"]
    BY <1>2 DEF Begin, setup, stallVars
  <2> QED BY <2>1 DEF StageInv, Amount
<1>3. CASE \/ ripSource \/ RemoveEntry \/ StartMirror \/ MarkComplete \/ Removed \/ rescanCopy
           \/ writeDiscJSON \/ StartProgram \/ verifyTitle \/ SetDiscRipDir
           \/ BackupWrites \/ BackupExits
  <2>1. pc # "rip" /\ UNCHANGED <<native, fileVars, progress>>
    BY <1>3, Zenon DEF ripSource, RemoveEntry, StartMirror, MarkComplete, Removed, rescanCopy,
        writeDiscJSON, StartProgram, verifyTitle, SetDiscRipDir, BackupWrites,
        BackupExits, setup, stallVars
  <2> QED BY <2>1, StageUntouched DEF StageInv
<1>4. CASE MirrorEnds
  <2>1. pc = "mirror" /\ progress' = 0 /\ UNCHANGED <<native, fileVars>>
    BY <1>4 DEF MirrorEnds, ProgramGone, setup
  <2> QED BY <2>1, StageUntouched DEF StageInv
<1>5. CASE ReadRobotLine \/ ReadProgressLine \/ Tick \/ ProgramTalks \/ Forget
  <2>1. UNCHANGED <<native, fileVars, progress, pc, proc>>
    BY <1>5 DEF ReadRobotLine, ReadProgressLine, Tick, ProgramTalks, Forget, setup, progVars,
                stallVars
  <2> QED BY <2>1, StageUntouched DEF StageInv
<1>6. CASE WatchRip \/ WatchExtract \/ Cancel
  <2>1. UNCHANGED <<native, fileVars, progress, pc>> /\ proc' \in {proc, "stopping"}
    BY <1>6 DEF WatchRip, WatchExtract, Cancel, Interrupted, setup, stallVars
  <2> QED BY <2>1, StageUntouched DEF StageInv
<1>7. CASE ProgramStops
  <2>1. UNCHANGED <<native, fileVars, progress, pc>> /\ proc' = "exit1"
    BY <1>7 DEF ProgramStops, setup, stallVars
  <2> QED BY <2>1, StageUntouched DEF StageInv
<1>8. CASE ProgramReads
  <2>1. UNCHANGED <<native, pc, proc>> /\ pc = "rip" /\ proc = "running"
        /\ progress' = progress + 1 /\ Writes("part")
    BY <1>8 DEF ProgramReads, setup, progVars
  <2>2. CASE native
    BY <2>1, <2>2 DEF Writes, nativeRipTitle, StageInv, Amount
  <2>3. CASE ~native
    BY <2>1, <2>3 DEF Writes, StageInv, Amount
  <2> QED BY <2>2, <2>3
<1>9. CASE ProgramExits
  <2>1. UNCHANGED <<native, pc, progress>> /\ proc = "running"
    BY <1>9 DEF ProgramExits, setup, stallVars
  <2>2. CASE UNCHANGED fileVars /\ (proc' = "exit1" \/ progress = 0)
    <3>1. proc' = "exit1" => pc' = pc /\ proc' # "exit0"
      BY <2>1
    <3> QED BY <2>1, <2>2, <3>1, StageUntouched DEF StageInv
  <2>3. ASSUME NEW a \in {"whole", "short"}, Writes(a) PROVE StageInv'
    <3>1. CASE native
      BY <2>1, <2>3, <3>1 DEF Writes, nativeRipTitle, StageInv, Amount
    <3>2. CASE ~native
      BY <2>1, <2>3, <3>2 DEF Writes, StageInv, Amount
    <3> QED BY <3>1, <3>2
  <2>4. \/ UNCHANGED fileVars /\ (proc' = "exit1" \/ progress = 0)
        \/ \E a \in {"whole", "short"} : Writes(a)
    BY <1>9 DEF ProgramExits
  <2> QED BY <2>2, <2>3, <2>4
<1>10. CASE RipTitle
  <2>1. UNCHANGED <<native, left>> /\ staged' = "none" /\ progress' = 0 /\ ~native
    BY <1>10 DEF RipTitle, ProgramGone, setup
  <2>2. \/ UNCHANGED file
        \/ proc = "exit0" /\ file' = [file EXCEPT ![index] = staged] /\ staged # "none"
    BY <1>10 DEF RipTitle
  <2>3. CASE UNCHANGED file
    BY <2>1, <2>3 DEF StageInv, Amount
  <2>4. CASE proc = "exit0" /\ file' = [file EXCEPT ![index] = staged] /\ staged # "none"
    BY <2>1, <2>4, Zenon DEF StageInv, Amount
  <2> QED BY <2>2, <2>3, <2>4
<1>11. CASE Extract
  <2>1. UNCHANGED <<native, staged>> /\ native /\ progress' = 0
        /\ file' \in {file, [file EXCEPT ![index] = "none"]}
    BY <1>11 DEF Extract, ProgramGone, setup
  <2> QED BY <2>1 DEF StageInv, Amount
<1>12. CASE Crash
  <2>1. UNCHANGED <<native, file, left>> /\ staged' = "none" /\ progress' = 0
    BY <1>12 DEF Crash, ProgramGone, setup
  <2> QED BY <2>1 DEF StageInv, Amount
<1> QED BY <1>1, <1>2, <1>3, <1>4, <1>5, <1>6, <1>7, <1>8, <1>9, <1>10, <1>11, <1>12
        DEF Next, WorkerStep, StartRipTitle, StartExtract

\* Where makemkvcon writes the titles, no directory ever holds half of one under
\* its final name (RipTitle's staging directory).
THEOREM StagedUntilDoneHolds == Spec => []StagedUntilDone
<1>1. StageInv => StagedUntilDone
  BY DEF StageInv, StagedUntilDone
<1> QED BY <1>1, StageInit, StageStep, PTL DEF Spec

-----------------------------------------------------------------------------
(* What is recorded *)

\* The steps before what is to be ripped is settled.
Early == {"source", "clear", "mirror", "mark", "failed", "rescan"}

\* The steps on the titles, once disc.json is written.
Ripping == {"title", "rip", "verify"}

Lists == {l \in Seq(Titles) : Len(l) <= Count}

\* Title i is there, and verified as far as its kind of rip is.
Done(i) == file[i] = "whole" \/ (~native /\ file[i] = "short")

RecordTypes ==
    /\ native \in BOOLEAN /\ offered \subseteq Titles /\ held \subseteq Titles
    /\ list \in Lists /\ described \in Lists
    /\ index \in Nat /\ blind \in BOOLEAN /\ folder \in BOOLEAN
    /\ file \in [Titles -> Amount] /\ holds = [i \in Titles |-> holds[i]]

\* A list that is about to be ripped is the drive's, or holds enough of it, and
\* numbers the titles as their source does.
RipsWhat ==
    /\ pc \in Early => list = Drive
    /\ pc = "rescan" => folder
    /\ pc \in {"described"} \cup Ripping =>
        /\ list = Drive \/ ~TooLittle(list)
        /\ ~blind => list = Source

\* The titles before index are done, those from index on are not begun, and the
\* one at index has, where it has a file, the title the list says.
RipsInOrder ==
    /\ pc \in Early \cup {"described"}
        => \A i \in Titles : file[i] = "none"
    /\ pc \in Ripping =>
        /\ described = list /\ index > 0
        /\ pc # "title" => index <= Len(list)
        /\ \A i \in 1..Len(list) : i < index => Done(i) /\ (~blind => holds[i] = list[i])
        /\ \A i \in Titles : i > index \/ (i = index /\ pc = "title") => file[i] = "none"
    /\ pc \in {"rip", "verify"} /\ ~blind /\ file[index] # "none"
        => holds[index] = list[index]

Recorded ==
    ripDir # 0 =>
        /\ pc \in {"idle", "discard"}
        /\ RecordedIsComplete /\ TitleIsWhatItSays
        /\ described = Drive \/ ~TooLittle(described)

RecordInv == RecordTypes /\ RipsWhat /\ RipsInOrder /\ Recorded

\* A set of numbers that is not empty has a least element.
LEMMA LeastNumber ==
    ASSUME NEW T, T \subseteq Nat, T # {}
    PROVE  \E x \in T : \A y \in T : x <= y
<1> DEFINE R == OpToRel(<, Nat)
<1>1. \A x, y \in Nat : x > y => <<y, x>> \in R
  BY DEF OpToRel
<1>2. IsWellFoundedOn(R, Nat)
  BY NatLessThanWellFounded, Zenon
<1> HIDE DEF R
<1>3. PICK x \in T : \A y \in T : ~(<<y, x>> \in R)
  BY <1>2, WFMin, Zenon
<1>4. ASSUME NEW y \in T PROVE x <= y
  <2>1. x \in Nat /\ y \in Nat
    OBVIOUS
  <2>2. ~(x > y)
    BY <1>1, <1>3, <2>1, Zenon
  <2> QED BY <2>1, <2>2
<1> QED BY <1>4

\* Induction up to N: what holds at 0 and is passed on holds everywhere.
LEMMA PassedOn ==
    ASSUME NEW N \in Nat, NEW P, 0 \in P, \A k \in 1..N : k - 1 \in P => k \in P
    PROVE  \A k \in 0..N : k \in P
<1> DEFINE Wrong == {k \in 0..N : k \notin P}
<1>1. SUFFICES ASSUME Wrong # {} PROVE FALSE
  OBVIOUS
<1>2. PICK k \in Wrong : \A m \in Wrong : k <= m
  <2>1. Wrong \subseteq Nat
    OBVIOUS
  <2> HIDE DEF Wrong
  <2> QED BY <1>1, <2>1, LeastNumber, Zenon
<1>3. k \in 1..N /\ k \notin P
  OBVIOUS
<1>4. k - 1 \in P
  BY <1>2, <1>3
<1> QED BY <1>3, <1>4

\* A loop of N steps that starts from a and stays in A: what it has after each.
Stays(step, N, A) == \A k \in 1..N : \A v \in A : step[k][v] \in A
Runs(g, step, N, A, a) ==
    g \in [0..N -> A] /\ g[0] = a /\ \A k \in 1..N : g[k] = step[k][g[k - 1]]

\* Every such loop runs, so the recursive functions that describe one exist.
LEMMA LoopRuns ==
    ASSUME NEW N \in Nat, NEW A, NEW a \in A, NEW step, Stays(step, N, A)
    PROVE  \E g : Runs(g, step, N, A, a)
<1> DEFINE Run(n, g) == g[0] = a /\ \A k \in 1..n : g[k] = step[k][g[k - 1]]
           P == {n \in 0..N : \E g \in [0..n -> A] : Run(n, g)}
<1>1. 0 \in P
  <2>1. [k \in 0..0 |-> a] \in [0..0 -> A] /\ Run(0, [k \in 0..0 |-> a])
    OBVIOUS
  <2>2. \E g \in [0..0 -> A] : Run(0, g)
    <3> HIDE DEF Run
    <3> QED BY <2>1, Zenon
  <2>3. 0 \in 0..N
    OBVIOUS
  <2> HIDE DEF Run
  <2> QED BY <2>2, <2>3
<1>2. ASSUME NEW n \in 1..N, n - 1 \in P PROVE n \in P
  <2>1. PICK g \in [0..(n - 1) -> A] : Run(n - 1, g)
    BY <1>2
  <2> DEFINE h == [k \in 0..n |-> IF k = n THEN step[n][g[n - 1]] ELSE g[k]]
  <2>2. n - 1 \in 0..(n - 1) /\ g[n - 1] \in A
    OBVIOUS
  <2>4. step[n][g[n - 1]] \in A
    BY <2>2 DEF Stays
  <2>5. h \in [0..n -> A]
    BY <2>4
  <2>6. Run(n, h)
    <3>1. h[0] = a
      BY <2>1
    <3>2. ASSUME NEW k \in 1..n PROVE h[k] = step[k][h[k - 1]]
      BY <2>1
    <3> QED BY <3>1, <3>2
  <2>7. \E f \in [0..n -> A] : Run(n, f)
    <3> HIDE DEF Run, h
    <3> QED BY <2>5, <2>6, Zenon
  <2>8. n \in 0..N
    OBVIOUS
  <2> HIDE DEF Run
  <2> QED BY <2>7, <2>8
<1>3. N \in P
  <2> HIDE DEF P
  <2>1. \A k \in 1..N : k - 1 \in P => k \in P
    BY <1>2
  <2>2. \A k \in 0..N : k \in P
    BY <1>1, <2>1, PassedOn, Zenon
  <2>3. N \in 0..N
    OBVIOUS
  <2> QED BY <2>2, <2>3
<1>4. \E g \in [0..N -> A] : Run(N, g)
  <2> HIDE DEF Run
  <2> QED BY <1>3
<1>5. PICK g \in [0..N -> A] : Run(N, g)
  BY <1>4
<1>6. Runs(g, step, N, A, a)
  BY <1>5 DEF Runs
<1> QED BY <1>6

\* MakeMKV's list of any titles is one of the disc's titles, each at most once.
LEMMA ListedIs == ASSUME NEW S PROVE Listed(S) \in Lists
<1> DEFINE Loop(g) == [n \in 0..Count |->
               IF n = 0 THEN <<>>
               ELSE IF n \in S THEN Append(g[n - 1], n)
               ELSE g[n - 1]]
           upTo[n \in 0..Count] ==
               IF n = 0 THEN <<>>
               ELSE IF n \in S THEN Append(upTo[n - 1], n)
               ELSE upTo[n - 1]
           step == [n \in 1..Count |->
               [s \in Seq(Titles) |-> IF n \in S THEN Append(s, n) ELSE s]]
<1>0. Count \in Nat
  BY ExtractionConstants
<1>1. Listed(S) = upTo[Count]
  BY DEF Listed
<1>2. upTo = CHOOSE g : g = Loop(g)
  BY DEF upTo
<1>3. \E g : g = Loop(g)
  <2>1. Stays(step, Count, Seq(Titles))
    BY AppendedIs, Zenon DEF Stays, Titles
  <2>2. <<>> \in Seq(Titles)
    OBVIOUS
  <2> HIDE DEF step
  <2>3. PICK f : Runs(f, step, Count, Seq(Titles), <<>>)
    BY <1>0, <2>1, <2>2, LoopRuns, Zenon
  <2>4. PICK g \in [0..Count -> Seq(Titles)] :
            g[0] = <<>> /\ \A k \in 1..Count : g[k] = step[k][g[k - 1]]
    BY <2>3, Zenon DEF Runs
  <2>5. ASSUME NEW k \in 1..Count
        PROVE  g[k] = IF k \in S THEN Append(g[k - 1], k) ELSE g[k - 1]
    <3>1. g[k - 1] \in Seq(Titles)
      BY <1>0
    <3> QED BY <2>4, <3>1, Zenon DEF step
  <2>6. g = Loop(g)
    <3>1. \A n \in 0..Count : n = 0 \/ n \in 1..Count
      BY <1>0
    <3>2. ASSUME NEW n \in 0..Count PROVE g[n] = Loop(g)[n]
      BY <2>5, <2>4, <3>1, Zenon
    <3> HIDE DEF Loop
    <3>3. Loop(g) = [n \in 0..Count |-> Loop(g)[n]]
      BY DEF Loop
    <3> QED BY <3>2, <3>3
  <2> QED BY <2>6, Zenon
<1> HIDE DEF upTo, step
<1>4. upTo = Loop(upTo)
  <2> HIDE DEF Loop
  <2> QED BY <1>2, <1>3, Zenon
<1>5. /\ upTo[0] = <<>>
      /\ \A n \in 1..Count : upTo[n] = IF n \in S THEN Append(upTo[n - 1], n) ELSE upTo[n - 1]
  <2>1. Loop(upTo)[0] = <<>>
    BY <1>0
  <2>2. ASSUME NEW n \in 1..Count
        PROVE  Loop(upTo)[n] = IF n \in S THEN Append(upTo[n - 1], n) ELSE upTo[n - 1]
    BY <1>0
  <2> HIDE DEF Loop
  <2> QED BY <1>4, <2>1, <2>2
<1> DEFINE P == {n \in 0..Count : upTo[n] \in Seq(Titles) /\ Len(upTo[n]) <= n}
<1>6. 0 \in P
  <2>1. upTo[0] \in Seq(Titles) /\ Len(upTo[0]) <= 0
    BY <1>5
  <2> QED BY <1>0, <2>1
<1>7. ASSUME NEW n \in 1..Count, n - 1 \in P PROVE n \in P
  <2>1. /\ upTo[n - 1] \in Seq(Titles) /\ Len(upTo[n - 1]) <= n - 1 /\ n \in Titles
        /\ Len(upTo[n - 1]) \in Nat
    BY <1>7 DEF Titles
  <2>2. /\ Append(upTo[n - 1], n) \in Seq(Titles)
        /\ Len(Append(upTo[n - 1], n)) = Len(upTo[n - 1]) + 1
    BY <2>1, AppendedIs
  <2>3. upTo[n] \in Seq(Titles) /\ Len(upTo[n]) <= n
    <3>1. CASE n \in S
      <4>1. upTo[n] = Append(upTo[n - 1], n)
        BY <1>5, <3>1, Zenon
      <4> QED BY <1>0, <2>1, <2>2, <4>1
    <3>2. CASE n \notin S
      <4>1. upTo[n] = upTo[n - 1]
        BY <1>5, <3>2
      <4> QED BY <1>0, <2>1, <4>1
    <3> QED BY <3>1, <3>2
  <2>4. n \in 0..Count
    BY <1>0
  <2> QED BY <2>3, <2>4
<1>8. Count \in P
  <2> HIDE DEF P
  <2>1. \A n \in 1..Count : n - 1 \in P => n \in P
    BY <1>7
  <2>2. \A n \in 0..Count : n \in P
    BY <1>0, <1>6, <2>1, PassedOn, Zenon
  <2>3. Count \in 0..Count
    BY <1>0
  <2> QED BY <2>2, <2>3
<1> QED BY <1>1, <1>8 DEF Lists

\* Counting a running time once makes a list no longer (totalSecs, dedupedSecs).
LEMMA SecsOf ==
    ASSUME NEW l \in Lists
    PROVE  /\ totalSecs(l) \in Nat /\ dedupedSecs(l) \in Nat
           /\ dedupedSecs(l) <= totalSecs(l)
<1> USE ExtractionConstants
<1> DEFINE N == Len(l)
           x == [i \in 1..N |-> Secs[l[i]]]
           seen(i) == \E j \in 1..(i - 1) : Secs[l[j]] = Secs[l[i]]
           y == [i \in 1..N |-> IF seen(i) THEN 0 ELSE Secs[l[i]]]
           total[i \in 0..N] == IF i = 0 THEN 0 ELSE total[i - 1] + Secs[l[i]]
           deduped[i \in 0..N] ==
               IF i = 0 THEN 0
               ELSE IF seen(i) THEN deduped[i - 1]
               ELSE deduped[i - 1] + Secs[l[i]]
           Total(g) == [i \in 0..N |-> IF i = 0 THEN 0 ELSE g[i - 1] + Secs[l[i]]]
           Deduped(g) == [i \in 0..N |->
               IF i = 0 THEN 0
               ELSE IF seen(i) THEN g[i - 1]
               ELSE g[i - 1] + Secs[l[i]]]
<1>1. totalSecs(l) = total[N] /\ dedupedSecs(l) = deduped[N]
  BY DEF totalSecs, dedupedSecs
<1>2. total = (CHOOSE g : g = Total(g)) /\ deduped = (CHOOSE g : g = Deduped(g))
  BY DEF total, deduped
<1>3. N \in Nat /\ \A i \in 1..N : Secs[l[i]] \in Nat
  BY DEF Lists, Titles
<1> HIDE DEF N, total, deduped, seen
<1>4. ASSUME NEW z \in [1..N -> Nat]
      PROVE  \E g \in [0..N -> Nat] : g[0] = 0 /\ \A k \in 1..N : g[k] = g[k - 1] + z[k]
  <2> DEFINE step == [k \in 1..N |-> [v \in Nat |-> v + z[k]]]
  <2>1. Stays(step, N, Nat)
    BY DEF Stays
  <2>2. \A k \in 1..N : \A v \in Nat : step[k][v] = v + z[k]
    OBVIOUS
  <2> HIDE DEF step
  <2>3. PICK g \in [0..N -> Nat] : g[0] = 0 /\ \A k \in 1..N : g[k] = step[k][g[k - 1]]
    <3>1. N \in Nat /\ 0 \in Nat
      BY <1>3
    <3>2. PICK f : Runs(f, step, N, Nat, 0)
      BY <2>1, <3>1, LoopRuns, Zenon
    <3> QED BY <3>2, Zenon DEF Runs
  <2>4. ASSUME NEW k \in 1..N PROVE g[k] = g[k - 1] + z[k]
    <3>1. g[k - 1] \in Nat
      BY <1>3
    <3> QED BY <2>2, <2>3, <3>1, Zenon
  <2> QED BY <2>3, <2>4, Zenon
<1>5. \E g : g = Total(g)
  <2>1. x \in [1..N -> Nat]
    BY <1>3
  <2>2. PICK g \in [0..N -> Nat] : g[0] = 0 /\ \A k \in 1..N : g[k] = g[k - 1] + x[k]
    BY <1>4, <2>1, Zenon
  <2>3. g = Total(g)
    BY <1>3, <2>2
  <2> QED BY <2>3, Zenon
<1>6. \E g : g = Deduped(g)
  <2>1. y \in [1..N -> Nat]
    BY <1>3
  <2>2. PICK g \in [0..N -> Nat] : g[0] = 0 /\ \A k \in 1..N : g[k] = g[k - 1] + y[k]
    BY <1>4, <2>1, Zenon
  <2>3. ASSUME NEW k \in 1..N
        PROVE  g[k] = IF seen(k) THEN g[k - 1] ELSE g[k - 1] + Secs[l[k]]
    <3>1. g[k - 1] \in Nat
      BY <1>3
    <3> QED BY <2>2, <3>1
  <2>4. g = Deduped(g)
    BY <1>3, <2>2, <2>3
  <2> QED BY <2>4, Zenon
<1>7. total = Total(total) /\ deduped = Deduped(deduped)
  <2> HIDE DEF Total, Deduped
  <2> QED BY <1>2, <1>5, <1>6, Zenon
<1>8. /\ total[0] = 0 /\ \A k \in 1..N : total[k] = total[k - 1] + Secs[l[k]]
      /\ deduped[0] = 0
      /\ \A k \in 1..N : deduped[k] = IF seen(k) THEN deduped[k - 1]
                                      ELSE deduped[k - 1] + Secs[l[k]]
  <2>1. Total(total)[0] = 0 /\ Deduped(deduped)[0] = 0
    BY <1>3
  <2>2. ASSUME NEW k \in 1..N
        PROVE  /\ Total(total)[k] = total[k - 1] + Secs[l[k]]
               /\ Deduped(deduped)[k] = IF seen(k) THEN deduped[k - 1]
                                        ELSE deduped[k - 1] + Secs[l[k]]
    BY <1>3
  <2> HIDE DEF Total, Deduped
  <2> QED BY <1>7, <2>1, <2>2
<1> DEFINE P == {k \in 0..N : total[k] \in Nat /\ deduped[k] \in Nat /\ deduped[k] <= total[k]}
<1>9. 0 \in P
  BY <1>3, <1>8
<1>10. ASSUME NEW k \in 1..N, k - 1 \in P PROVE k \in P
  <2>1. total[k - 1] \in Nat /\ deduped[k - 1] \in Nat /\ deduped[k - 1] <= total[k - 1]
    BY <1>10
  <2>2. Secs[l[k]] \in Nat /\ total[k] = total[k - 1] + Secs[l[k]]
        /\ deduped[k] \in {deduped[k - 1], deduped[k - 1] + Secs[l[k]]}
    BY <1>3, <1>8
  <2>3. total[k] \in Nat /\ deduped[k] \in Nat /\ deduped[k] <= total[k]
    BY <2>1, <2>2
  <2>4. k \in 0..N
    BY <1>3
  <2> QED BY <2>3, <2>4
<1>11. N \in P
  <2> HIDE DEF P
  <2>1. \A k \in 1..N : k - 1 \in P => k \in P
    BY <1>10
  <2>2. \A k \in 0..N : k \in P
    BY <1>3, <1>9, <2>1, PassedOn, Zenon
  <2>3. N \in 0..N
    BY <1>3
  <2> QED BY <2>2, <2>3
<1> QED BY <1>1, <1>11

LEMMA RecordInit == Init => RecordInv
<1> SUFFICES ASSUME Init PROVE RecordInv
  OBVIOUS
<1>1. <<>> \in Lists
  BY ExtractionConstants DEF Lists
<1>2. pc = "idle" /\ ripDir = 0 /\ list = <<>> /\ described = <<>>
  BY DEF Init
<1>3. RecordTypes
  BY <1>1, <1>2, Zenon DEF Init, RecordTypes, Amount
<1> QED BY <1>2, <1>3 DEF RecordInv, RipsWhat, RipsInOrder, Recorded, Early, Ripping

\* A step that leaves the lists and the files alone, and the copy while it is in
\* use.
LEMMA RecordStays ==
    ASSUME RecordInv,
           UNCHANGED <<native, offered, list, index, file, holds, described, blind, ripDir>>,
           held' \subseteq Titles, folder' \in BOOLEAN,
           pc' = pc \/ (pc \in Early /\ pc' \in Early), pc' = "rescan" => folder',
           pc' \in {"described"} \cup Ripping => UNCHANGED <<held, folder>>
    PROVE  RecordInv'
<1>1. RecordTypes'
  BY DEF RecordInv, RecordTypes
<1>2. Drive' = Drive
  BY DEF Drive
<1>3. RipsWhat'
  BY <1>2 DEF RecordInv, RipsWhat, Source, CopyList, TooLittle, Early, Ripping
<1>4. RipsInOrder'
  BY DEF RecordInv, RipsInOrder, Done, Early, Ripping
<1>5. Recorded'
  BY <1>2 DEF RecordInv, Recorded, RecordedIsComplete, TitleIsWhatItSays, TooLittle, Early
<1> QED BY <1>1, <1>3, <1>4, <1>5 DEF RecordInv

\* rip returns: what it has recorded stays, and what it has not is not relied on.
LEMMA RecordReturns ==
    ASSUME RecordInv, Return, UNCHANGED <<native, offered, held, described, blind>>,
           file' \in [Titles -> Amount], holds' = [i \in Titles |-> holds'[i]],
           ripDir' = 0 \/ UNCHANGED <<file, holds, ripDir>>
    PROVE  RecordInv'
<1>1. pc' = "idle" /\ list' = <<>> /\ index' = 0 /\ folder' = FALSE
  BY DEF Return
<1>2. <<>> \in Lists
  BY ExtractionConstants DEF Lists
<1>3. RecordTypes'
  BY <1>1, <1>2, Zenon DEF RecordInv, RecordTypes
<1>4. Drive' = Drive
  BY DEF Drive
<1>5. Recorded'
  BY <1>1, <1>4 DEF RecordInv, Recorded, RecordedIsComplete, TitleIsWhatItSays, TooLittle
<1> QED BY <1>1, <1>3, <1>5 DEF RecordInv, RipsWhat, RipsInOrder, Early, Ripping

\* The program at a title writes what it has read of it, or has it removed.
LEMMA RecordWrites ==
    ASSUME RecordInv, pc = "rip", pc' \in {"rip", "verify"},
           UNCHANGED <<native, offered, held, folder, list, index, described, blind, ripDir>>,
           NEW a \in Amount, file' = [file EXCEPT ![index] = a],
           \/ holds' = [holds EXCEPT ![index] = Source[index]]
           \/ UNCHANGED holds /\ (a = "none" \/ a = file[index])
    PROVE  RecordInv'
<1>0. RecordTypes /\ RipsWhat /\ RipsInOrder /\ Recorded
  BY DEF RecordInv
<1>1. index \in Titles /\ index <= Len(list) /\ described = list /\ list \in Lists
  BY <1>0, ExtractionConstants DEF RipsInOrder, Ripping, RecordTypes, Lists, Titles
<1>2. RecordTypes'
  BY <1>0, <1>1 DEF RecordTypes
<1>3. Drive' = Drive /\ Source' = Source
  BY DEF Drive, Source, CopyList
<1>4. RipsWhat'
  BY <1>0, <1>3 DEF RipsWhat, TooLittle, Early, Ripping
<1>5. /\ file'[index] = a
      /\ \A i \in Titles : i # index => file'[i] = file[i] /\ holds'[i] = holds[i]
  BY <1>0, <1>1 DEF RecordTypes
<1>6. ~blind /\ a # "none" => holds'[index] = list[index]
  <2>1. ~blind => list = Source
    BY <1>0 DEF RipsWhat, Ripping
  <2>2. CASE holds' = [holds EXCEPT ![index] = Source[index]]
    BY <1>0, <1>1, <2>1, <2>2 DEF RecordTypes
  <2>3. CASE UNCHANGED holds /\ (a = "none" \/ a = file[index])
    BY <1>0, <2>3 DEF RipsInOrder
  <2> QED BY <2>2, <2>3
<1>7. \A i \in 1..Len(list) : i \in Titles /\ (i < index => i # index)
  BY <1>1, ExtractionConstants DEF Lists, Titles
<1>8. \A i \in Titles : i > index => i # index
  BY <1>1 DEF Titles
<1>9. RipsInOrder'
  BY <1>0, <1>1, <1>5, <1>6, <1>7, <1>8 DEF RipsInOrder, Done, Early, Ripping
<1>10. Recorded'
  BY <1>0 DEF Recorded
<1> QED BY <1>2, <1>4, <1>9, <1>10 DEF RecordInv

LEMMA RecordStep ==
    CopyInv /\ StageInv /\ RecordInv /\ [Next]_vars => RecordInv'
<1> SUFFICES ASSUME CopyInv, StageInv, RecordInv, [Next]_vars PROVE RecordInv'
  OBVIOUS
<1>0. RecordTypes /\ RipsWhat /\ RipsInOrder /\ Recorded
  BY DEF RecordInv
<1>1. ASSUME UNCHANGED <<pc, native, offered, held, folder, list, index, file, holds, described,
                         blind, ripDir>>
      PROVE  RecordInv'
  BY <1>0, <1>1, RecordStays DEF RecordTypes, RipsWhat
<1>2. CASE UNCHANGED vars
  BY <1>1, <1>2 DEF vars, setup, attemptVars, copyVars, fileVars, recordVars
<1>3. CASE Begin
  <2>1. /\ ripDir = 0 /\ pc' = "source" /\ list' = Drive /\ file' = [i \in Titles |-> "none"]
        /\ holds' = [i \in Titles |-> 0] /\ described' = <<>> /\ blind' = FALSE
        /\ UNCHANGED <<native, offered, held, folder, index, ripDir>>
    BY <1>3, Zenon DEF Begin, setup, copyVars
  <2>2. Drive \in Lists /\ <<>> \in Lists /\ Drive' = Drive
    BY <2>1, ListedIs, ExtractionConstants DEF Drive, Lists
  <2>3. RecordTypes'
    BY <1>0, <2>1, <2>2, Zenon DEF RecordTypes, Amount
  <2>4. RipsWhat' /\ RipsInOrder'
    BY <2>1, <2>2 DEF RipsWhat, RipsInOrder, Early, Ripping
  <2>5. Recorded'
    BY <2>1 DEF Recorded
  <2> QED BY <2>3, <2>4, <2>5 DEF RecordInv
<1>4. CASE ripSource
  <2>1. /\ pc = "source"
        /\ UNCHANGED <<native, offered, held, file, holds, described, blind, ripDir>>
    BY <1>4 DEF ripSource, setup, copyVars, fileVars, recordVars
  <2>2. \/ GoTo("described") \/ GoTo("clear") \/ Return
        \/ folder' = TRUE /\ pc' = "rescan" /\ UNCHANGED <<list, index>>
    BY <1>4 DEF ripSource
  <2>3. CASE GoTo("described")
    <3>1. pc' = "described" /\ UNCHANGED <<list, index, folder>>
      BY <2>3 DEF GoTo, attemptVars
    <3>2. ~folder /\ list = Drive /\ Drive' = Drive
      BY <1>0, <2>1 DEF CopyInv, Before, RipsWhat, Early, Drive
    <3>3. RecordTypes'
      BY <1>0, <2>1, <3>1 DEF RecordTypes
    <3>4. RipsWhat'
      BY <3>1, <3>2 DEF RipsWhat, Source, Early
    <3>5. RipsInOrder'
      BY <1>0, <2>1, <3>1 DEF RipsInOrder, Early, Ripping
    <3>6. Recorded'
      BY <1>0, <2>1 DEF Recorded
    <3> QED BY <3>3, <3>4, <3>5, <3>6 DEF RecordInv
  <2>4. CASE GoTo("clear")
    BY <1>0, <2>1, <2>4, RecordStays DEF GoTo, attemptVars, RecordTypes, Early, Ripping
  <2>5. CASE Return
    BY <1>0, <2>1, <2>5, RecordReturns DEF RecordTypes
  <2>6. CASE folder' = TRUE /\ pc' = "rescan" /\ UNCHANGED <<list, index>>
    BY <1>0, <2>1, <2>6, RecordStays DEF RecordTypes, Early, Ripping
  <2> QED BY <2>2, <2>3, <2>4, <2>5, <2>6, Zenon
<1>5. CASE RemoveEntry
  <2>1. /\ pc \in {"clear", "failed", "discard"}
        /\ UNCHANGED <<pc, native, offered, folder, list, index, file, holds, described, blind,
                       ripDir>>
    BY <1>5 DEF RemoveEntry, setup, attemptVars, fileVars, recordVars
  <2>2. held' \subseteq held
    BY <1>5 DEF RemoveEntry
  <2> QED BY <1>0, <2>1, <2>2, RecordStays DEF RecordTypes, Ripping
<1>6. CASE StartMirror \/ MirrorEnds \/ MarkComplete
  <2>1. /\ pc \in Early /\ pc' \in Early
        /\ UNCHANGED <<native, offered, held, list, index, file, holds, described, blind, ripDir>>
        /\ folder' = folder \/ folder' = TRUE
        /\ pc' = "rescan" => folder'
    BY <1>6 DEF StartMirror, MirrorEnds, MarkComplete, Early, setup, attemptVars, fileVars,
        recordVars
  <2> QED BY <1>0, <2>1, RecordStays, Zenon DEF RecordTypes, Early, Ripping
<1>7. CASE BackupWrites
  <2>1. /\ pc = "mirror" /\ held' \subseteq held \cup Titles
        /\ UNCHANGED <<pc, native, offered, folder, list, index, file, holds, described, blind,
                       ripDir>>
    BY <1>7 DEF BackupWrites, setup, attemptVars, fileVars, recordVars
  <2> QED BY <1>0, <2>1, RecordStays DEF RecordTypes, Ripping
<1>8. CASE \/ BackupExits \/ Cancel \/ ProgramTalks \/ ProgramStops
           \/ ReadRobotLine \/ ReadProgressLine \/ Tick \/ WatchRip \/ WatchExtract
  BY <1>1, <1>8, Zenon DEF BackupExits, Cancel, ProgramTalks, ProgramStops, ReadRobotLine,
      ReadProgressLine, Tick, WatchRip, WatchExtract, setup, attemptVars, copyVars, fileVars,
      recordVars
<1>9. CASE Removed \/ Crash
  <2>1. Return /\ UNCHANGED <<native, offered, held, file, holds, described, blind, ripDir>>
    BY <1>9 DEF Removed, Crash, setup, copyVars, fileVars, recordVars
  <2> QED BY <1>0, <2>1, RecordReturns DEF RecordTypes
<1>10. CASE Forget
  <2>1. /\ pc \in {"idle", "discard"} /\ ripDir' = 0
        /\ UNCHANGED <<pc, native, offered, held, folder, list, index, file, holds, described, blind>>
    BY <1>0, <1>10 DEF Forget, Recorded, setup, attemptVars, copyVars, fileVars
  <2>2. RecordTypes'
    BY <1>0, <2>1 DEF RecordTypes
  <2> QED BY <2>1, <2>2 DEF RecordInv, RipsWhat, RipsInOrder, Recorded, Early, Ripping
<1>11. CASE rescanCopy
  <2>1. /\ pc = "rescan"
        /\ UNCHANGED <<native, offered, held, file, holds, described, ripDir>>
    BY <1>11 DEF rescanCopy, setup, copyVars, fileVars
  <2>2. ripDir = 0 /\ folder /\ list = Drive /\ Drive' = Drive /\ CopyList' = CopyList
    BY <1>0, <2>1 DEF Recorded, RipsWhat, Early, Drive, CopyList
  <2>3. \/ GoTo("described") /\ blind' = TRUE
        \/ Return /\ UNCHANGED blind
        \/ /\ ~TooLittle(CopyList) /\ list' = CopyList /\ pc' = "described"
           /\ UNCHANGED <<folder, index, blind>>
    BY <1>11 DEF rescanCopy
  <2>4. CASE Return /\ UNCHANGED blind
    BY <1>0, <2>1, <2>4, RecordReturns DEF RecordTypes
  <2>5. ASSUME pc' = "described", UNCHANGED <<folder, index>>, blind' \in BOOLEAN,
               \/ list' = Drive /\ blind'
               \/ list' = CopyList /\ ~TooLittle(CopyList)
        PROVE  RecordInv'
    <3>1. CopyList \in Lists /\ Drive \in Lists
      BY ListedIs DEF Drive, CopyList
    <3>2. RecordTypes'
      BY <1>0, <2>1, <2>5, <3>1 DEF RecordTypes
    <3>3. RipsWhat'
      BY <2>1, <2>2, <2>5 DEF RipsWhat, Source, TooLittle, Early
    <3>4. RipsInOrder'
      BY <1>0, <2>1, <2>5 DEF RipsInOrder, Early, Ripping
    <3>5. Recorded'
      BY <2>1, <2>2 DEF Recorded
    <3> QED BY <3>2, <3>3, <3>4, <3>5 DEF RecordInv
  <2>6. CASE GoTo("described") /\ blind' = TRUE
    BY <2>2, <2>5, <2>6 DEF GoTo, attemptVars
  <2>7. CASE /\ ~TooLittle(CopyList) /\ list' = CopyList /\ pc' = "described"
             /\ UNCHANGED <<folder, index, blind>>
    BY <1>0, <2>5, <2>7 DEF RecordTypes
  <2> QED BY <2>3, <2>4, <2>6, <2>7, Zenon
<1>12. CASE writeDiscJSON
  <2>1. /\ pc = "described" /\ described' = list /\ index' = 1 /\ pc' = "title"
        /\ UNCHANGED <<native, offered, held, folder, list, file, holds, blind, ripDir>>
    BY <1>12 DEF writeDiscJSON, setup, copyVars, fileVars
  <2>2. Drive' = Drive /\ Source' = Source
    BY <2>1 DEF Drive, Source, CopyList
  <2>3. RecordTypes'
    BY <1>0, <2>1 DEF RecordTypes
  <2>4. RipsWhat'
    BY <1>0, <2>1, <2>2 DEF RipsWhat, TooLittle, Early, Ripping
  <2>5. \A i \in 1..Len(list) : ~(i < 1)
    BY <1>0 DEF RecordTypes, Lists
  <2>6. RipsInOrder'
    BY <1>0, <2>1, <2>5 DEF RipsInOrder, Early, Ripping
  <2>7. Recorded'
    BY <1>0, <2>1 DEF Recorded
  <2> QED BY <2>3, <2>4, <2>6, <2>7 DEF RecordInv
<1>13. CASE StartProgram
  <2>1. /\ pc = "title" /\ index <= Len(list)
        /\ UNCHANGED <<native, offered, held, file, holds, described, blind, ripDir>>
    BY <1>13 DEF StartProgram, setup, copyVars, fileVars, recordVars
  <2>2. CASE Return
    BY <1>0, <2>1, <2>2, RecordReturns DEF RecordTypes
  <2>3. CASE GoTo("rip")
    <3>1. pc' = "rip" /\ UNCHANGED <<folder, list, index>>
      BY <2>3 DEF GoTo, attemptVars
    <3>2. Drive' = Drive /\ Source' = Source
      BY <2>1, <3>1 DEF Drive, Source, CopyList
    <3>3. RecordTypes'
      BY <1>0, <2>1, <3>1 DEF RecordTypes
    <3>4. RipsWhat'
      BY <1>0, <2>1, <3>1, <3>2 DEF RipsWhat, TooLittle, Early, Ripping
    <3>5. index \in Titles
      BY <1>0, <2>1, ExtractionConstants DEF RipsInOrder, Ripping, RecordTypes, Lists, Titles
    <3>6. RipsInOrder'
      BY <1>0, <2>1, <3>1, <3>5 DEF RipsInOrder, Done, Early, Ripping
    <3>7. Recorded'
      BY <1>0, <2>1 DEF Recorded
    <3> QED BY <3>3, <3>4, <3>6, <3>7 DEF RecordInv
  <2> QED BY <1>13, <2>2, <2>3 DEF StartProgram
<1>14. ASSUME NEW a \in Amount, pc = "rip", pc' = "rip", Writes(a),
              UNCHANGED <<native, offered, held, folder, list, index, described, blind, ripDir>>
       PROVE  RecordInv'
  <2>1. CASE native
    BY <1>14, <2>1, RecordWrites, Zenon DEF Writes, nativeRipTitle
  <2>2. CASE ~native
    BY <1>1, <1>14, <2>2 DEF Writes
  <2> QED BY <2>1, <2>2
<1>15. CASE ProgramReads \/ ProgramExits
  <2>1. /\ pc = "rip" /\ pc' = "rip"
        /\ UNCHANGED <<native, offered, held, folder, list, index, described, blind, ripDir>>
    BY <1>15 DEF ProgramReads, ProgramExits, setup, attemptVars, copyVars, recordVars
  <2>2. UNCHANGED fileVars \/ \E a \in Amount : Writes(a)
    BY <1>15 DEF ProgramReads, ProgramExits, Amount
  <2>3. CASE UNCHANGED fileVars
    BY <1>1, <2>1, <2>3 DEF fileVars
  <2> QED BY <1>14, <2>1, <2>2, <2>3
<1>16. CASE RipTitle
  <2>1. /\ pc = "rip" /\ UNCHANGED <<native, offered, held, described, blind, ripDir>>
    BY <1>16, Zenon DEF RipTitle, setup, copyVars, recordVars
  <2>2. \/ Return /\ UNCHANGED <<file, holds>>
        \/ /\ file' = [file EXCEPT ![index] = staged]
           /\ holds' = [holds EXCEPT ![index] = Source[index]]
           /\ GoTo("verify")
    BY <1>16 DEF RipTitle
  <2>3. CASE Return /\ UNCHANGED <<file, holds>>
    BY <1>0, <2>1, <2>3, RecordReturns DEF RecordTypes
  <2>4. CASE /\ file' = [file EXCEPT ![index] = staged]
             /\ holds' = [holds EXCEPT ![index] = Source[index]]
             /\ GoTo("verify")
    <3>1. pc' = "verify" /\ UNCHANGED <<folder, list, index>> /\ staged \in Amount
      BY <2>4 DEF GoTo, attemptVars, StageInv
    <3> QED BY <2>1, <2>4, <3>1, RecordWrites, Zenon
  <2> QED BY <2>2, <2>3, <2>4, Zenon
<1>17. CASE Extract
  <2>1. /\ pc = "rip" /\ UNCHANGED <<native, offered, held, holds, described, blind, ripDir>>
        /\ file' = file \/ file' = [file EXCEPT ![index] = "none"]
        /\ Return \/ GoTo("verify")
    BY <1>17 DEF Extract, setup, copyVars, recordVars
  <2>2. file[index] \in Amount /\ file = [file EXCEPT ![index] = file[index]]
        /\ file' \in [Titles -> Amount] /\ ripDir' = 0
    <3>1. index \in Titles
      BY <1>0, <2>1, ExtractionConstants DEF RipsInOrder, Ripping, RecordTypes, Lists, Titles
    <3> QED BY <1>0, <2>1, <3>1 DEF RecordTypes, Recorded, Amount
  <2>3. CASE Return
    BY <1>0, <2>1, <2>2, <2>3, RecordReturns DEF RecordTypes
  <2>4. CASE GoTo("verify")
    <3>1. pc' = "verify" /\ UNCHANGED <<folder, list, index>>
      BY <2>4 DEF GoTo, attemptVars
    <3>2. CASE file' = file
      BY <2>1, <2>2, <3>1, <3>2, RecordWrites
    <3>3. CASE file' = [file EXCEPT ![index] = "none"]
      BY <2>1, <3>1, <3>3, RecordWrites DEF Amount
    <3> QED BY <2>1, <3>2, <3>3
  <2> QED BY <2>1, <2>3, <2>4
<1>18. CASE verifyTitle
  <2>1. /\ pc = "verify"
        /\ UNCHANGED <<native, offered, held, file, holds, described, blind, ripDir>>
    BY <1>18 DEF verifyTitle, setup, copyVars, fileVars
  <2>2. CASE Return
    BY <1>0, <2>1, <2>2, RecordReturns DEF RecordTypes
  <2>3. CASE /\ verifyOutput /\ (native => verifyNativeTitle)
             /\ index' = index + 1 /\ pc' = "title" /\ UNCHANGED <<folder, list>>
    <3>1. index \in Titles /\ index <= Len(list) /\ index' = index + 1
      BY <1>0, <2>1, <2>3, ExtractionConstants
         DEF RipsInOrder, Ripping, RecordTypes, Lists, Titles
    <3>2. Done(index) /\ file[index] # "none"
      BY <1>0, <2>3, <3>1 DEF verifyOutput, verifyNativeTitle, Done, StageInv, Amount
    <3>3. Drive' = Drive /\ Source' = Source
      BY <2>1, <2>3 DEF Drive, Source, CopyList
    <3>4. RecordTypes'
      BY <1>0, <2>1, <2>3 DEF RecordTypes
    <3>5. RipsWhat'
      BY <1>0, <2>1, <2>3, <3>3 DEF RipsWhat, TooLittle, Early, Ripping
    <3>6. /\ \A i \in 1..Len(list) : i < index + 1 => i < index \/ i = index
          /\ \A i \in Titles : i > index + 1 \/ i = index + 1 => i > index
          /\ index + 1 > 0
      BY <1>0, <3>1 DEF RecordTypes, Lists, Titles
    <3>7. RipsInOrder'
      BY <1>0, <2>1, <2>3, <3>1, <3>2, <3>6 DEF RipsInOrder, Done, Early, Ripping
    <3>8. Recorded'
      BY <1>0, <2>1 DEF Recorded
    <3> QED BY <3>4, <3>5, <3>7, <3>8 DEF RecordInv
  <2> QED BY <1>18, <2>2, <2>3 DEF verifyTitle
<1>19. CASE SetDiscRipDir
  <2>1. /\ pc = "title" /\ index > Len(list)
        /\ UNCHANGED <<native, offered, held, file, holds, described, blind>>
        /\ ripDir' = 0 \/ ~ctxDone
    <3>1. ripDir = 0
      BY <1>0, <1>19 DEF Recorded, SetDiscRipDir
    <3> QED BY <1>19, <3>1 DEF SetDiscRipDir, setup, copyVars, fileVars
  <2>2. Drive' = Drive
    BY <2>1 DEF Drive
  <2>3. /\ \A i \in DOMAIN described : Done(i) /\ (~blind => holds[i] = described[i])
        /\ described = Drive \/ ~TooLittle(described)
    <3>1. described = list /\ DOMAIN list = 1..Len(list) /\ Len(list) \in Nat /\ index \in Nat
      BY <1>0, <2>1 DEF RipsInOrder, Ripping, RecordTypes, Lists
    <3>2. \A i \in 1..Len(list) : i < index
      BY <2>1, <3>1
    <3> QED BY <1>0, <2>1, <3>1, <3>2 DEF RipsInOrder, RipsWhat, Ripping
  <2>4. ASSUME pc' \in {"idle", "discard"} PROVE Recorded'
    BY <2>1, <2>2, <2>3, <2>4, Zenon
       DEF Recorded, RecordedIsComplete, TitleIsWhatItSays, TooLittle, Done
  <2>5. pc' \in {"idle", "discard"} /\ list' \in Lists /\ index' \in Nat /\ folder' \in BOOLEAN
    <3>1. <<>> \in Lists
      BY ExtractionConstants DEF Lists
    <3>2. CASE GoTo("discard")
      BY <1>0, <3>2 DEF GoTo, attemptVars, RecordTypes
    <3>3. CASE Return
      BY <3>1, <3>3, Zenon DEF Return
    <3> QED BY <1>19, <3>2, <3>3 DEF SetDiscRipDir
  <2>6. RecordTypes'
    BY <1>0, <2>1, <2>5 DEF RecordTypes
  <2>7. RipsWhat' /\ RipsInOrder'
    BY <2>5 DEF RipsWhat, RipsInOrder, Early, Ripping
  <2> QED BY <2>4, <2>5, <2>6, <2>7 DEF RecordInv
<1> QED BY <1>2, <1>3, <1>4, <1>5, <1>6, <1>7, <1>8, <1>9, <1>10, <1>11, <1>12, <1>13, <1>15,
           <1>16, <1>17, <1>18, <1>19
        DEF Next, WorkerStep, StartRipTitle, StartExtract

\* What is recorded as a disc's rip is the disc: every title of its disc.json is
\* there and verified, under the number that means it, and the list is not one
\* that lost too much of the disc (Worker.rip, rescanCopy, SetDiscRipDir), on
\* every path and after any failed, cancelled or interrupted attempts.
THEOREM RecordedIsTheDiscHolds == Spec => []RecordedIsTheDisc
<1>1. RecordInv => RecordedIsTheDisc
  <2> SUFFICES ASSUME RecordInv PROVE RecordedIsTheDisc
    OBVIOUS
  <2>1. Drive \in Lists /\ described \in Lists
    BY ListedIs DEF Drive, RecordInv, RecordTypes
  <2>2. /\ totalSecs(described) \in Nat /\ dedupedSecs(Drive) \in Nat
        /\ dedupedSecs(Drive) <= totalSecs(Drive)
    BY <2>1, SecsOf
  <2>3. ASSUME ripDir # 0 PROVE 10 * totalSecs(described) >= 6 * dedupedSecs(Drive)
    <3>1. CASE described = Drive
      BY <2>2, <3>1
    <3>2. CASE ~TooLittle(described)
      BY <2>2, <3>2 DEF TooLittle, minKeptPercent
    <3> QED BY <2>3, <3>1, <3>2 DEF RecordInv, Recorded
  <2>4. RecordedIsComplete /\ TitleIsWhatItSays
    BY DEF RecordInv, Recorded, RecordedIsComplete, TitleIsWhatItSays
  <2> QED BY <2>3, <2>4 DEF RecordedIsTheDisc, EnoughWasKept
<1> QED BY <1>1, CopyInit, CopyStep, StageInit, StageStep, RecordInit, RecordStep, PTL DEF Spec
=============================================================================
