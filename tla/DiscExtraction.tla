--------------------------- MODULE DiscExtraction ---------------------------
(***************************************************************************)
(* How one disc becomes files: Worker.rip and everything below it.  The    *)
(* titles are read either straight from the drive or, when the drive will  *)
(* not decrypt the disc, from a copy that dvdbackup makes under work_dir   *)
(* (internal/decrypt); each title is written by makemkvcon into a hidden   *)
(* staging directory (makemkv.RipTitle) or, with native_dvd, by ffmpeg     *)
(* straight to its place (dvd.Extract); a watchdog goroutine stops a       *)
(* program that makes no progress (makemkv/stall.go, dvd.watch).  An       *)
(* attempt may be cancelled, the daemon may die between any two steps,     *)
(* and the disc is tried again.                                            *)
(*                                                                         *)
(* A title is a number and a running time.  Filesystem calls that fail     *)
(* only on an I/O error succeed; the external programs may write what they *)
(* like, hang, exit early, exit successfully with too little, or ignore    *)
(* SIGINT.  Durations are counted in ticks of the watchdog.                *)
(***************************************************************************)
EXTENDS Integers, Sequences

CONSTANTS
    Count,        \* how many titles the disc has
    Secs,         \* their running times
    Steps,        \* progress readings that make up a whole title
    StallTimeout, \* RipStallTimeout, in watchdog ticks
    MaxAttempts,  \* bound: attempts at the disc, and their rip directories
    MaxCrashes    \* bound: times the daemon dies

ASSUME ExtractionConstants ==
    /\ Count \in Nat \ {0}
    /\ Secs \in [1..Count -> Nat \ {0}]
    /\ Steps \in Nat \ {0}
    /\ StallTimeout \in Nat \ {0}
    /\ MaxAttempts \in Nat
    /\ MaxCrashes \in Nat

VARIABLES
    native,    \* cfg.NativeDVD
    offered,   \* the titles the drive describes
    pc,        \* where Worker.rip is
    dir,       \* this attempt's rip directory; directories are numbered
    folder,    \* the titles are read from the decrypted copy
    list,      \* d.Titles: which title each index means
    index,     \* the title being ripped
    ctxDone,   \* the job's context is cancelled
    proc,      \* the external program
    deaf,      \* it does not react to SIGINT
    made,      \* the copy: VIDEO_TS exists,
    held,      \* the titles it holds whole,
    oversized, \* it has a VOB above maxVOBBytes,
    marker,    \* completeMarker exists
    finished,  \* (history) dvdbackup exited 0 and the copy was verified
    staged,    \* what the program has written in the staging directory
    file,      \* title_NN.mkv in the rip directory: how much of a title
    holds,     \* and of which one
    left,      \* what earlier attempts' directories hold under such names
    progress,  \* readings made so far
    unread,    \* the last output line, not yet seen by the reader
    quiet,     \* ticks since the reader last saw progress
    fired,     \* the watchdog has stopped the program
    described, \* disc.json in the rip directory
    blind,     \* (history) it was ripped from a copy that was not rescanned
    ripped,    \* rows of titles with ripped = 1
    ripDir,    \* discs.rip_dir
    recorded,  \* (history) the attempt's rip was recorded
    crashes

setup == <<native, offered>>
attemptVars == <<dir, folder, list, index, ctxDone>>
copyVars == <<made, held, oversized, marker, finished>>
progVars == <<proc, deaf>>
stallVars == <<progress, unread, quiet, fired>>
fileVars == <<staged, file, holds, left>>
recordVars == <<described, blind, ripped, ripDir, recorded>>
vars == <<setup, pc, attemptVars, progVars, copyVars, stallVars, fileVars,
          recordVars, crashes>>

Titles == 1..Count
\* The titles of S, in the order MakeMKV lists them.
Listed(S) ==
    LET upTo[n \in 0..Count] ==
            IF n = 0 THEN <<>>
            ELSE IF n \in S THEN Append(upTo[n - 1], n)
            ELSE upTo[n - 1]
    IN  upTo[Count]

\* The titles MakeMKV lists for the drive and for the copy: each is numbered
\* within its own list.
Drive == Listed(offered)
CopyList == Listed(held)

NoCopy == ~made /\ held = {} /\ ~marker
Amount == {"none", "part", "short", "whole"}

-----------------------------------------------------------------------------
Init ==
    /\ native \in BOOLEAN /\ offered \in (SUBSET Titles) \ {{}}
    /\ native => offered = Titles
    /\ pc = "idle" /\ dir = 0 /\ folder = FALSE /\ list = <<>> /\ index = 0
    /\ ctxDone = FALSE
    /\ proc = "none" /\ deaf = FALSE
    /\ \/ /\ made = FALSE /\ held = {} /\ oversized = FALSE
          /\ marker = FALSE /\ finished = FALSE
       \/ /\ ~native                           \* a copy marked by a build that
          /\ made = TRUE /\ held = offered  \* did not look at the sizes
          /\ oversized = TRUE /\ marker = TRUE /\ finished = TRUE
    /\ staged = "none"
    /\ file = [i \in Titles |-> "none"] /\ holds = [i \in Titles |-> 0]
    /\ left = {}
    /\ progress = 0 /\ unread = "no" /\ quiet = 0 /\ fired = FALSE
    /\ described = <<>> /\ blind = FALSE
    /\ ripped = {} /\ ripDir = 0 /\ recorded = FALSE /\ crashes = 0

\* rip returns.  A decrypted copy is left for the next attempt.
Return ==
    /\ pc' = "idle"
    /\ folder' = FALSE /\ list' = <<>> /\ index' = 0 /\ ctxDone' = FALSE
    /\ UNCHANGED dir

\* It goes on, with the next thing to do.
GoTo(step) == pc' = step /\ UNCHANGED attemptVars

\* The program has been waited for, and its watchdog and reader are gone.
ProgramGone ==
    /\ proc' = "none" /\ deaf' = FALSE
    /\ progress' = 0 /\ unread' = "no" /\ quiet' = 0 /\ fired' = FALSE

\* A disc that is not recorded as ripped is tried (again): rip starts with a
\* directory of its own from makeRipDir.
Begin ==
    /\ pc = "idle" /\ ripDir = 0 /\ dir < MaxAttempts
    /\ pc' = "source"
    /\ dir' = dir + 1
    /\ list' = Drive
    /\ left' = left \cup {file[i] : i \in Titles}
    /\ file' = [i \in Titles |-> "none"] /\ holds' = [i \in Titles |-> 0]
    /\ described' = <<>> /\ blind' = FALSE /\ recorded' = FALSE
    /\ UNCHANGED <<setup, folder, index, ctxDone, progVars, copyVars, stallVars,
                   staged, ripped, ripDir, crashes>>

-----------------------------------------------------------------------------
(* The decrypted copy *)

verifyCopy == ~oversized

\* Mutant: "the directory exists" is the test.
ExistingDirectory == made

Existing == marker /\ made /\ verifyCopy

\* Where the titles come from.  decryptNeeded asks the drive and fails open, so
\* the answer may differ from one attempt to the next.
ripSource ==
    /\ pc = "source"
    /\ \/ GoTo("described")                     \* native, or no copy is needed
       \/ ~native /\ Return                     \* fallback off, or no dvdbackup
       \/ ~native /\ ~Existing /\ GoTo("clear")
       \/ /\ ~native /\ Existing
          /\ folder' = TRUE /\ pc' = "rescan"
          /\ UNCHANGED <<dir, list, index, ctxDone>>
    /\ UNCHANGED <<setup, progVars, copyVars, stallVars, fileVars, recordVars, crashes>>

\* os.RemoveAll unlinks one entry at a time, in the directory's own order.
RemoveEntry ==
    /\ pc \in {"clear", "failed", "discard"}
    /\ ~NoCopy
    /\ \/ /\ marker /\ marker' = FALSE
          /\ UNCHANGED <<made, held, oversized>>
       \/ /\ \E t \in held : held' = held \ {t}
          /\ UNCHANGED <<made, marker, oversized>>
       \/ /\ oversized /\ oversized' = FALSE
          /\ UNCHANGED <<made, held, marker>>
       \/ /\ held = {} /\ ~oversized /\ made /\ made' = FALSE
          /\ UNCHANGED <<held, marker, oversized>>
    /\ UNCHANGED <<setup, pc, attemptVars, progVars, finished, stallVars,
                   fileVars, recordVars, crashes>>

\* Mirror, once nothing is left at the copy's path: dvdbackup starts.
StartMirror ==
    /\ pc = "clear" /\ NoCopy
    /\ \/ /\ ctxDone
          /\ pc' = "failed"
          /\ UNCHANGED <<progVars, finished>>
       \/ /\ ~ctxDone
          /\ pc' = "mirror"
          /\ proc' = "running" /\ deaf' \in BOOLEAN
          /\ finished' = FALSE
    /\ UNCHANGED <<setup, attemptVars, made, held, oversized, marker,
                   stallVars, fileVars, recordVars, crashes>>

BackupWrites ==
    /\ pc = "mirror" /\ proc \in {"running", "stopping"}
    /\ made' = TRUE
    /\ \/ \E t \in Titles \ held : held' = held \cup {t} /\ UNCHANGED oversized
       \/ oversized' = TRUE /\ UNCHANGED held
    /\ UNCHANGED <<setup, pc, attemptVars, progVars, marker, finished,
                   stallVars, fileVars, recordVars, crashes>>

\* A program that was sent SIGINT reports the context's error however it exits.
BackupExits ==
    /\ pc = "mirror"
    /\ \/ proc = "running" /\ proc' \in {"exit0", "exit1"}
       \/ proc = "stopping" /\ ~deaf /\ proc' = "exit1"
    /\ UNCHANGED <<setup, pc, attemptVars, deaf, copyVars, stallVars,
                   fileVars, recordVars, crashes>>

\* After cmd.Wait: only a copy that has a VIDEO_TS and verifies is kept.
MirrorEnds ==
    /\ pc = "mirror" /\ proc \in {"exit0", "exit1"}
    /\ ProgramGone
    /\ IF proc = "exit0" /\ made /\ verifyCopy
       THEN pc' = "mark" /\ finished' = TRUE
       ELSE pc' = "failed" /\ UNCHANGED finished
    /\ UNCHANGED <<setup, attemptVars, made, held, oversized, marker,
                   fileVars, recordVars, crashes>>

\* The marker is written last.
MarkComplete ==
    /\ pc = "mark"
    /\ \/ marker' = TRUE /\ folder' = TRUE /\ pc' = "rescan"
       \/ pc' = "failed" /\ UNCHANGED <<marker, folder>>
    /\ UNCHANGED <<setup, dir, list, index, ctxDone, progVars, made, held,
                   oversized, finished, stallVars, fileVars, recordVars, crashes>>

\* RemoveAll has finished: a failed Mirror fails the attempt, discard ends it.
Removed ==
    /\ pc \in {"failed", "discard"} /\ NoCopy
    /\ Return
    /\ UNCHANGED <<setup, progVars, copyVars, stallVars, fileVars, recordVars, crashes>>

totalSecs(l) ==
    LET n[i \in 0..Len(l)] == IF i = 0 THEN 0 ELSE n[i - 1] + Secs[l[i]]
    IN  n[Len(l)]

dedupedSecs(l) ==
    LET seen(i) == \E j \in 1..(i - 1) : Secs[l[j]] = Secs[l[i]]
        n[i \in 0..Len(l)] ==
            IF i = 0 THEN 0
            ELSE IF seen(i) THEN n[i - 1]
            ELSE n[i - 1] + Secs[l[i]]
    IN  n[Len(l)]

minKeptPercent == 60

\* Mutant: a copy is trusted whatever it holds.
TooLittleOnlyIfEmpty(l) == l = <<>>

TooLittle(l) == totalSecs(l) * 100 < dedupedSecs(Drive) * minKeptPercent

\* Mutant: the copy is ripped by the drive's title numbers.
rescanCopyKeepsDriveList ==
    /\ pc = "rescan"
    /\ GoTo("described")
    /\ UNCHANGED <<setup, progVars, copyVars, stallVars, fileVars, recordVars, crashes>>

\* rescanCopy, and what rip makes of it.  Its error is only logged: the drive's
\* list stays.
rescanCopy ==
    /\ pc = "rescan"
    /\ \/ GoTo("described") /\ blind' = TRUE
       \/ /\ ~ctxDone /\ held # {}
          /\ IF TooLittle(CopyList) THEN Return
             ELSE /\ list' = CopyList /\ pc' = "described"
                  /\ UNCHANGED <<dir, folder, index, ctxDone>>
          /\ UNCHANGED blind
    /\ UNCHANGED <<setup, progVars, copyVars, stallVars, fileVars, described,
                   ripped, ripDir, recorded, crashes>>

-----------------------------------------------------------------------------
(* The title loop *)

writeDiscJSON ==
    /\ pc = "described"
    /\ described' = list
    /\ index' = 1
    /\ pc' = "title"
    /\ UNCHANGED <<setup, dir, folder, list, ctxDone, progVars, copyVars,
                   stallVars, fileVars, blind, ripped, ripDir, recorded, crashes>>

\* The program for the title at index starts, unless the context is cancelled
\* already.
StartProgram ==
    /\ pc = "title" /\ index <= Len(list)
    /\ \/ ctxDone /\ Return /\ UNCHANGED progVars
       \/ ~ctxDone /\ GoTo("rip") /\ proc' = "running" /\ deaf' \in BOOLEAN
    /\ UNCHANGED <<setup, copyVars, stallVars, fileVars, recordVars, crashes>>

StartRipTitle == ~native /\ StartProgram
StartExtract == native /\ StartProgram

\* What index means to the program that is given it, if anything.
Source == IF folder THEN CopyList ELSE Drive

\* The program has written amount a of the title it was given: makemkvcon to
\* the staging directory, ffmpeg to the path nativeRipTitle gave it.
nativeRipTitle(a) ==
    /\ file' = [file EXCEPT ![index] = a]
    /\ holds' = [holds EXCEPT ![index] = Source[index]]

\* Mutant: there is no staging directory.
WritesInPlace(a) == nativeRipTitle(a) /\ staged' = a /\ UNCHANGED left

Writes(a) ==
    IF native THEN nativeRipTitle(a) /\ UNCHANGED <<staged, left>>
    ELSE staged' = a /\ UNCHANGED <<file, holds, left>>

\* It reads on, and says so.
ProgramReads ==
    /\ pc = "rip" /\ proc = "running"
    /\ index <= Len(Source)
    /\ progress < Steps
    /\ progress' = progress + 1
    /\ unread' = "new"
    /\ Writes("part")
    /\ UNCHANGED <<setup, pc, attemptVars, progVars, copyVars, quiet, fired,
                   recordVars, crashes>>

\* It says something, having read nothing.
ProgramTalks ==
    /\ pc = "rip" /\ proc = "running" /\ unread = "no"
    /\ unread' = "same"
    /\ UNCHANGED <<setup, pc, attemptVars, progVars, copyVars, progress,
                   quiet, fired, fileVars, recordVars, crashes>>

\* It exits: with an error, or claiming success with the whole title or less.
ProgramExits ==
    /\ pc = "rip"
    /\ \/ /\ proc = "running" /\ proc' = "exit0"
          /\ IF progress = 0 THEN UNCHANGED fileVars
             ELSE Writes(IF progress = Steps THEN "whole" ELSE "short")
       \/ /\ proc = "running" /\ proc' = "exit1"
          /\ UNCHANGED fileVars
    /\ UNCHANGED <<setup, pc, attemptVars, deaf, copyVars, stallVars,
                   recordVars, crashes>>

\* It is made to exit.  run allows makemkvcon WaitDelay and then kills it;
\* Extract waits for ffmpeg for as long as it takes.
run == proc = "stopping" /\ (deaf => ~native)

ProgramStops ==
    /\ pc = "rip" /\ run
    /\ proc' = "exit1"
    /\ UNCHANGED <<setup, pc, attemptVars, deaf, copyVars, stallVars,
                   fileVars, recordVars, crashes>>

\* Mutant: any line restarts the clock.
observeAnyLine == 0

\* When the stall timer's clock was last restarted, after a reading: only by
\* one that differs from the last.
observe == IF unread = "new" THEN 0 ELSE quiet

ReadRobotLine ==
    /\ pc = "rip" /\ ~native /\ unread # "no"
    /\ unread' = "no"
    /\ quiet' = observe
    /\ UNCHANGED <<setup, pc, attemptVars, progVars, copyVars, progress,
                   fired, fileVars, recordVars, crashes>>

\* In watch, only by an out_time that is further on.
ReadProgressLine ==
    /\ pc = "rip" /\ native /\ unread # "no"
    /\ unread' = "no"
    /\ quiet' = IF unread = "new" THEN 0 ELSE quiet
    /\ UNCHANGED <<setup, pc, attemptVars, progVars, copyVars, progress,
                   fired, fileVars, recordVars, crashes>>

Tick ==
    /\ pc = "rip" /\ quiet <= StallTimeout
    /\ quiet' = quiet + 1
    /\ UNCHANGED <<setup, pc, attemptVars, progVars, copyVars, progress,
                   unread, fired, fileVars, recordVars, crashes>>

\* Mutant: nothing tells the program.
InterruptedNever == proc

Interrupted == IF proc = "running" THEN "stopping" ELSE proc

\* The timer fires once, as soon as the timeout is reached.
expired == ~fired /\ ~(quiet < StallTimeout)

\* The watchdog goroutines' ticks.  The program may have exited already: the
\* one stops when RipTitle returns, the other when the reader sees the end.
WatchRip ==
    /\ pc = "rip" /\ ~native /\ ~ctxDone
    /\ expired
    /\ fired' = TRUE
    /\ proc' = Interrupted
    /\ UNCHANGED <<setup, pc, attemptVars, deaf, copyVars, progress, unread,
                   quiet, fileVars, recordVars, crashes>>

WatchExtract ==
    /\ pc = "rip" /\ native /\ ~ctxDone /\ ~fired
    /\ quiet > StallTimeout
    /\ fired' = TRUE
    /\ proc' = Interrupted
    /\ UNCHANGED <<setup, pc, attemptVars, deaf, copyVars, progress, unread,
                   quiet, fileVars, recordVars, crashes>>

\* RipTitle after run: a stall first, then the error, then the file.
RipTitle ==
    /\ pc = "rip" /\ ~native /\ proc \in {"exit0", "exit1"} /\ unread = "no"
    /\ ProgramGone
    /\ staged' = "none"
    /\ IF fired \/ proc = "exit1" \/ staged = "none"
       THEN Return /\ UNCHANGED <<file, holds>>
       ELSE /\ file' = [file EXCEPT ![index] = staged]
            /\ holds' = [holds EXCEPT ![index] = Source[index]]
            /\ GoTo("verify")
    /\ UNCHANGED <<setup, copyVars, left, recordVars, crashes>>

\* Extract after cmd.Wait: a stall or a cancellation removes what was written,
\* ffmpeg's own failure does not.
Extract ==
    /\ pc = "rip" /\ native /\ proc \in {"exit0", "exit1"} /\ unread = "no"
    /\ ProgramGone
    /\ file' = IF fired \/ ctxDone
               THEN [file EXCEPT ![index] = "none"] ELSE file
    /\ IF proc = "exit1" \/ file'[index] = "none" THEN Return ELSE GoTo("verify")
    /\ UNCHANGED <<setup, copyVars, staged, holds, left, recordVars, crashes>>

\* verifyOutput looks at the size and the magic, verifyNativeTitle at the
\* running time.
verifyOutput == file[index] # "none"

\* Mutant: the running time is not measured.
verifyNativeTitleShallow == verifyOutput

verifyNativeTitle == file[index] = "whole"

\* Verification and MarkTitleRipped, whose context may be cancelled by now.
verifyTitle ==
    /\ pc = "verify"
    /\ \/ Return /\ UNCHANGED ripped
       \/ /\ verifyOutput /\ (native => verifyNativeTitle) /\ ~ctxDone
          /\ ripped' = ripped \cup {index}
          /\ index' = index + 1 /\ pc' = "title"
          /\ UNCHANGED <<dir, folder, list, ctxDone>>
    /\ UNCHANGED <<setup, progVars, copyVars, stallVars, fileVars, described,
                   blind, ripDir, recorded, crashes>>

\* Mutant: the copy is discarded although recording the rip failed.
SetDiscRipDirDiscards ==
    /\ pc = "title" /\ index > Len(list)
    /\ ripDir' = IF ctxDone THEN ripDir ELSE dir
    /\ recorded' = ~ctxDone
    /\ IF folder THEN GoTo("discard") ELSE Return
    /\ UNCHANGED <<setup, progVars, copyVars, stallVars, fileVars, described,
                   blind, ripped, crashes>>

\* Every title is in place: SetDiscRipDir, and only then discard().
SetDiscRipDir ==
    /\ pc = "title" /\ index > Len(list)
    /\ ripDir' = IF ctxDone THEN ripDir ELSE dir
    /\ recorded' = ~ctxDone
    /\ IF ~ctxDone /\ folder THEN GoTo("discard") ELSE Return
    /\ UNCHANGED <<setup, progVars, copyVars, stallVars, fileVars, described,
                   blind, ripped, crashes>>

-----------------------------------------------------------------------------
(* From outside *)

\* The job is cancelled, or the daemon is asked to stop.
Cancel ==
    /\ pc # "idle" /\ ~ctxDone
    /\ ctxDone' = TRUE
    /\ proc' = Interrupted
    /\ UNCHANGED <<setup, pc, dir, folder, list, index, deaf, copyVars,
                   stallVars, fileVars, recordVars, crashes>>

\* The daemon dies, and its programs with it.  What is on disk stays.
Crash ==
    /\ pc # "idle" /\ crashes < MaxCrashes
    /\ crashes' = crashes + 1
    /\ Return
    /\ ProgramGone
    /\ staged' = "none"
    /\ UNCHANGED <<setup, copyVars, file, holds, left, recordVars>>

\* A person has the disc ripped afresh, at any time: ForgetDisc clears rip_dir and
\* leaves the rows of the titles.  (The attempts it forgets are RipWorker's.)
Forget ==
    /\ ripDir # 0
    /\ ripDir' = 0
    /\ UNCHANGED <<setup, pc, attemptVars, progVars, copyVars, stallVars,
                   fileVars, described, blind, ripped, recorded, crashes>>

\* One step of the worker, its reader and its watchdog.
WorkerStep ==
    \/ ripSource \/ RemoveEntry \/ StartMirror \/ MirrorEnds \/ MarkComplete
    \/ Removed \/ rescanCopy \/ writeDiscJSON \/ StartRipTitle
    \/ StartExtract \/ RipTitle \/ Extract \/ verifyTitle \/ SetDiscRipDir

Next ==
    \/ Begin \/ WorkerStep
    \/ ReadRobotLine \/ ReadProgressLine \/ Tick \/ WatchRip \/ WatchExtract
    \/ BackupWrites \/ BackupExits
    \/ ProgramReads \/ ProgramTalks \/ ProgramExits \/ ProgramStops
    \/ Cancel \/ Crash \/ Forget

Spec == Init /\ [][Next]_vars

\* A program need not do anything of its own accord.  One that heeds SIGINT
\* exits after it and one that is killed is gone.
FairSpec ==
    /\ Spec
    /\ WF_vars(WorkerStep) /\ WF_vars(Tick) /\ WF_vars(ProgramStops)
    /\ WF_vars(ReadRobotLine \/ ReadProgressLine)
    /\ WF_vars(WatchRip \/ WatchExtract)
    /\ WF_vars(proc = "stopping" /\ BackupExits)

-----------------------------------------------------------------------------
\* Types: rip is at one of its steps, no title holds another disc's contents and
\* no watchdog waits longer than its timeout and one tick.
TypeOK ==
    /\ native \in BOOLEAN /\ offered \subseteq Titles
    /\ pc \in {"idle", "source", "clear", "mirror", "mark", "failed", "rescan",
              "described", "title", "rip", "verify", "discard"}
    /\ dir \in 0..MaxAttempts /\ folder \in BOOLEAN /\ list \in Seq(Titles)
    /\ index \in Nat /\ ctxDone \in BOOLEAN
    /\ proc \in {"none", "running", "stopping", "exit0", "exit1"}
    /\ deaf \in BOOLEAN
    /\ made \in BOOLEAN /\ held \subseteq Titles /\ oversized \in BOOLEAN
    /\ marker \in BOOLEAN /\ finished \in BOOLEAN
    /\ staged \in Amount /\ file \in [Titles -> Amount]
    /\ holds \in [Titles -> 0..Count] /\ left \subseteq Amount
    /\ progress \in 0..Steps /\ unread \in {"no", "new", "same"}
    /\ quiet \in 0..(StallTimeout + 1) /\ fired \in BOOLEAN
    /\ described \in Seq(Titles) /\ blind \in BOOLEAN
    /\ ripped \subseteq Titles /\ ripDir \in 0..MaxAttempts
    /\ recorded \in BOOLEAN
    /\ crashes \in 0..MaxCrashes

Reading == folder /\ pc \in {"rescan", "described", "title", "rip", "verify"}

\* Titles are read only from a copy that dvdbackup finished and that has the
\* sizes of a DVD, whenever the daemon died while one was being made, checked,
\* marked or removed (decrypt.Mirror, Existing).
ReusedIsFinished == Reading => finished /\ ~oversized /\ made

\* A copy that could be reused is removed only once the rip made from it was
\* recorded, however attempts fail, are cancelled or die: until then it is what
\* makes a retry cheap (ripSource, rip).  Mirror's clearing of a path where
\* Existing found nothing usable is the exception.
KeptForRetry ==
    [][Existing /\ ~Existing' => recorded \/ pc = "clear"]_vars

\* A disc recorded as ripped has every title of its disc.json in its
\* directory, and each passed verification (rip, SetDiscRipDir).
RecordedIsComplete ==
    ripDir # 0 => \A i \in DOMAIN described :
        \/ file[i] = "whole"
        \/ ~native /\ file[i] = "short"

\* title_NN.mkv holds the title that disc.json describes under that number,
\* although MakeMKV numbers the drive's titles and the copy's differently,
\* unless the copy could not be rescanned (rip, rescanCopy).
TitleIsWhatItSays ==
    ripDir # 0 /\ ~blind
        => \A i \in DOMAIN described : holds[i] = described[i]

\* A disc is not recorded as ripped from a copy that lost more than the
\* permitted share of its running time (rip, minKeptPercent).
EnoughWasKept ==
    ripDir # 0 => 10 * totalSecs(described) >= 6 * dedupedSecs(Drive)

\* What is recorded as a disc's rip is the disc: complete, under the right numbers
\* and not from a copy that lost too much, on every path through rip and after
\* any failed attempts.
RecordedIsTheDisc == RecordedIsComplete /\ TitleIsWhatItSays /\ EnoughWasKept

\* Under its final name there is never half a title where makemkvcon writes
\* it, whatever dies in the middle (RipTitle's staging directory).
StagedUntilDone ==
    ~native => "part" \notin left \cup {file[i] : i \in Titles}

\* The same of both ways of ripping, once the attempt is over.
NothingLooksFinished ==
    pc = "idle" => "part" \notin left \cup {file[i] : i \in Titles}

\* The marker stands for a copy with nothing missing from it.
MarkedIsWhole == [][marker' => held \subseteq held']_vars

\* Every title with ripped = 1 has a file in the disc's rip directory.
RippedHasAFile ==
    ripDir # 0 => \A i \in ripped : file[i] # "none"

\* A title comes to an end even when its program hangs, talks without reading
\* or, being makemkvcon, ignores SIGINT (stallTimer, watch, run's WaitDelay).
TitleEnds == (pc = "rip" /\ (deaf => ~native)) ~> pc # "rip"

\* A cancelled attempt comes to an end while its program heeds SIGINT or is
\* killed for not heeding it.
CancelEnds == (ctxDone /\ pc # "idle" /\ ~deaf) ~> (pc = "idle" \/ deaf)
=============================================================================
