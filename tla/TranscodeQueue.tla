--------------------------- MODULE TranscodeQueue ---------------------------
(***************************************************************************)
(* The transcode queue of hellboxd and the filing of what it produces:     *)
(* the transcodes and library_links tables (internal/store/transcode.go),  *)
(* the single runner goroutine that drains them (daemon/transcode.go,      *)
(* runTranscodes and transcodeOne), the filing of a finished encode into   *)
(* the library (daemon/library.go), and everything that touches the queue  *)
(* from another goroutine: a rip that finishes, a Blu-ray that was encoded *)
(* straight from the disc, and the socket's transcode, queue.retry and     *)
(* queue.cancel requests (daemon/server.go).  The daemon may be shut down  *)
(* or die between any two steps and be started again.                      *)
(*                                                                         *)
(* A job is one title of one disc: the row UNIQUE(disc_id, title_index).   *)
(* File names, profiles, sizes and log lines are left out.  A store call   *)
(* fails only when its context is cancelled.                               *)
(***************************************************************************)
EXTENDS Integers, FiniteSets

CONSTANTS
    Job,         \* one per (disc, title)
    Disc,
    DiscOf,      \* the disc a job's title is on
    IndexOf,     \* its title_index
    BluRay,      \* jobs of Blu-ray discs, encoded straight from the drive
    Path,        \* names in the library
    PathOf,      \* where library.Plan puts a job's output
    MaxAttempts, \* maxTranscodeAttempts
    MaxRequests, \* bound: requests, cancels and hand edits in a behaviour
    MaxRestarts, \* bound: times the daemon stops
    MaxNow,      \* bound: seconds of the created_at clock
    None         \* no job, no file

ASSUME QueueConstants ==
    /\ DiscOf \in [Job -> Disc]
    /\ IndexOf \in [Job -> Nat]
    /\ BluRay \subseteq Job
    /\ PathOf \in [Job -> Path]
    /\ MaxAttempts \in Nat \ {0}
    /\ MaxRequests \in Nat
    /\ MaxRestarts \in Nat
    /\ MaxNow \in Nat
    /\ None \notin Job
    /\ "hand" \notin Job

VARIABLES
    state,     \* the transcodes table: the state column,
    attempt,   \* the attempt column
    created,   \* and created_at
    links,     \* jobs with a library_links row
    libBy,     \* who put the file that is at each library path, if any
    libSame,   \* whether that file is the job's output as it is now
    out,       \* jobs whose encoded file is in the transcoded tree
    ripped,    \* discs with a rip_dir
    now,       \* time.Now().Unix()
    ctxDone,   \* the daemon's context is cancelled
    pc,        \* where the runTranscodes goroutine is
    job,       \* the job transcodeOne has in hand
    ok,        \* its encoder succeeded
    cancelled, \* its encCtx was cancelled by a request
    sweep,     \* what fileUnfiled has still to visit
    wake,      \* the transcodeWake channel, capacity one, holds a token
    fstep,     \* where the runner's fileTitle, and a drive's worker with a Blu-ray
               \* it has encoded, is
    fjob,      \* and the job it files
    left,      \* per disc: titles the queueTranscodes or requeueDisc in
               \* progress has still to queue
    due,       \* and whether it has queued one and so owes a nudge
    retry,     \* per job: the queue.retry request in progress
    cancel,    \* the queue.cancel request in progress
    libUp,     \* the library can be written
    requests, restarts,
    spent,     \* history: encodes of a job that ended, since its last reset
    overtaken  \* history: the job was re-queued while its row was running

table == <<state, attempt, created>>
files == <<libBy, libSame, out, libUp>>
run == <<pc, job, ok, cancelled>>
filing == <<fstep, fjob>>
queueing == <<left, due>>
history == <<spent, overtaken>>
env == <<ripped, now, requests, restarts>>
vars == <<table, links, files, ripped, now, ctxDone, run, sweep, wake, filing,
          queueing, retry, cancel, requests, restarts, history>>

States == {"absent", "pending", "running", "complete", "failed"}
Filers == {"runner", "worker"}

(***************************************************************************)
(* The store.  Each operator is one statement or transaction.              *)
(***************************************************************************)

Claimable(j) == state[j] = "pending" /\ attempt[j] < MaxAttempts

\* ORDER BY created_at, title_index
Before(k, j) ==
    \/ created[k] < created[j]
    \/ created[k] = created[j] /\ IndexOf[k] < IndexOf[j]

\* Mutant: the attempt is not returned.
KeepAttempt(n) == n

\* MAX(attempt - 1, 0)
GiveBack(n) == IF n > 0 THEN n - 1 ELSE 0

\* INSERT ... ON CONFLICT DO UPDATE: the attempt is left as it was.
QueueTranscode(j) ==
    /\ state' = [state EXCEPT ![j] = "pending"]
    /\ created' = [created EXCEPT ![j] = now]
    /\ UNCHANGED attempt

\* The same, already complete; created_at is set by the INSERT only.
RecordTranscode(j) ==
    /\ state' = [state EXCEPT ![j] = "complete"]
    /\ created' = [created EXCEPT ![j] = IF state[j] = "absent" THEN now ELSE @]
    /\ UNCHANGED attempt

NextTranscode(j) ==
    /\ Claimable(j)
    /\ \A k \in Job : Claimable(k) => ~ Before(k, j)
    /\ state' = [state EXCEPT ![j] = "running"]
    /\ attempt' = [attempt EXCEPT ![j] = @ + 1]
    /\ UNCHANGED created

FinishTranscode(j) == state' = [state EXCEPT ![j] = "complete"] /\ UNCHANGED <<attempt, created>>

FailTranscode(j) == state' = [state EXCEPT ![j] = "failed"] /\ UNCHANGED <<attempt, created>>

\* Mutant: the cancelled job keeps its claim.
RequeueKeepsClaim(j) ==
    /\ attempt' = [attempt EXCEPT ![j] = GiveBack(@)]
    /\ UNCHANGED <<state, created>>

RequeueTranscode(j) ==
    /\ state' = [state EXCEPT ![j] = "pending"]
    /\ attempt' = [attempt EXCEPT ![j] = GiveBack(@)]
    /\ UNCHANGED created

ResetTranscodeAttempts(j) ==
    /\ state' = [state EXCEPT ![j] = "pending"]
    /\ attempt' = [attempt EXCEPT ![j] = 0]
    /\ UNCHANGED created

\* Mutant: nothing releases the claims of a process that is gone.
ReclaimNothing == UNCHANGED table

ReclaimRunningTranscodes ==
    /\ state' = [j \in Job |-> IF state[j] = "running" THEN "pending" ELSE state[j]]
    /\ attempt' = [j \in Job |-> IF state[j] = "running" THEN GiveBack(attempt[j]) ELSE attempt[j]]
    /\ UNCHANGED created

\* Mutant: only what has just finished is filed.
NothingUnfiled == {}

UnfiledTranscodes == {j \in Job : state[j] = "complete" /\ j \notin links}

(***************************************************************************)
(* The runner.                                                             *)
(***************************************************************************)

Encoding == pc \in {"encode", "judge", "record", "file"}

Goto(l) == pc' = l /\ UNCHANGED <<job, ok, cancelled>>

\* Returning from transcodeOne: the cancel function is dropped, so a request
\* that had already picked it up now holds one that stops nothing.
Return ==
    /\ pc' = IF ctxDone THEN "off" ELSE "claim"
    /\ job' = None /\ ok' = FALSE /\ cancelled' = FALSE
    /\ cancel' = IF cancel = "held" THEN "stale" ELSE cancel

Reclaim ==
    /\ pc = "reclaim"
    /\ Goto("claim")
    /\ IF ctxDone THEN UNCHANGED table ELSE ReclaimRunningTranscodes
    /\ UNCHANGED <<links, files, env, ctxDone, sweep, wake, filing, queueing, retry, cancel, history>>

Claim ==
    /\ pc = "claim"
    /\ ~ ctxDone
    /\ pc' = "encode"
    /\ \E j \in Job : NextTranscode(j) /\ job' = j
    /\ UNCHANGED <<ok, cancelled>>
    /\ UNCHANGED <<links, files, env, ctxDone, sweep, wake, filing, queueing, retry, cancel, history>>

\* The queue is empty or unreadable: the counts are refreshed and fileUnfiled
\* reads its list.
Drained ==
    /\ pc = "claim"
    /\ ctxDone \/ \A j \in Job : ~ Claimable(j)
    /\ Goto("sweep")
    /\ sweep' = IF ctxDone THEN {} ELSE UnfiledTranscodes
    /\ UNCHANGED <<table, links, files, env, ctxDone, wake, filing, queueing, retry, cancel, history>>

\* The encoder's rename replaces the output; a library name linked to the old
\* file keeps the old file.
NewOutput(j) ==
    /\ out' = out \union {j}
    /\ libSame' = [p \in Path |-> libSame[p] /\ libBy[p] # j]

\* ffmpeg ends, by itself or because encCtx was cancelled.  One that was interrupted or failed leaves no output behind.
EncodeEnds ==
    /\ pc = "encode"
    /\ pc' = "judge"
    /\ \/ NewOutput(job) /\ ok' = TRUE
       \/ UNCHANGED <<out, libSame, ok>>
    /\ UNCHANGED <<job, cancelled, table, links, libBy, libUp, env, ctxDone, sweep, wake, filing,
                   queueing, retry, cancel, history>>

\* encCtx.Err() is looked at once, after the encoder has returned.
Judge ==
    /\ pc = "judge"
    /\ IF cancelled \/ ctxDone
       THEN RequeueTranscode(job) /\ Return
       ELSE Goto("record") /\ UNCHANGED <<table, cancel>>
    /\ UNCHANGED <<links, files, env, ctxDone, sweep, wake, filing, queueing, retry, history>>

Spend(j) == spent' = [spent EXCEPT ![j] = IF @ > MaxAttempts THEN @ ELSE @ + 1]

RecordFailure ==
    /\ pc = "record"
    /\ ~ ok
    /\ IF ctxDone
       THEN UNCHANGED <<table, spent>>
       ELSE FailTranscode(job) /\ Spend(job)
    /\ Return
    /\ UNCHANGED <<links, files, env, ctxDone, sweep, wake, filing, queueing, retry, overtaken>>

\* fileTitle is called on j by f.
StartFiling(f, j) ==
    /\ fstep' = [fstep EXCEPT ![f] = "stat"]
    /\ fjob' = [fjob EXCEPT ![f] = j]

RecordSuccess ==
    /\ pc = "record"
    /\ ok
    /\ IF ctxDone
       THEN UNCHANGED <<table, spent>>
       ELSE FinishTranscode(job) /\ Spend(job)
    /\ Goto("file")
    /\ StartFiling("runner", job)
    /\ UNCHANGED <<links, files, env, ctxDone, sweep, wake, queueing, retry, cancel, overtaken>>

FiledOne ==
    /\ pc = "file"
    /\ fstep["runner"] = "idle"
    /\ Return
    /\ UNCHANGED <<table, links, files, env, ctxDone, sweep, wake, filing, queueing, retry, history>>

\* fileUnfiled: a row whose output has since been moved or removed is skipped.
SweepOne ==
    /\ pc = "sweep"
    /\ fstep["runner"] = "idle"
    /\ ~ ctxDone
    /\ \E j \in sweep :
          /\ sweep' = sweep \ {j}
          /\ IF j \in out THEN StartFiling("runner", j) ELSE UNCHANGED filing
    /\ UNCHANGED <<table, links, files, env, ctxDone, run, wake, queueing, retry, cancel, history>>

SweepEnds ==
    /\ pc = "sweep"
    /\ fstep["runner"] = "idle"
    /\ sweep = {} \/ ctxDone
    /\ sweep' = {}
    /\ Goto("wait")
    /\ UNCHANGED <<table, links, files, env, ctxDone, wake, filing, queueing, retry, cancel, history>>

\* The select: the wake channel or the 30 second ticker ...
Wait ==
    /\ pc = "wait"
    /\ Goto("claim")
    /\ wake' \in {wake, FALSE}
    /\ UNCHANGED <<table, links, files, env, ctxDone, sweep, filing, queueing, retry, cancel, history>>

\* ... or the context.
Stop ==
    /\ pc = "wait"
    /\ ctxDone
    /\ Goto("off")
    /\ UNCHANGED <<table, links, files, env, ctxDone, sweep, wake, filing, queueing, retry, cancel,
                   history>>

(***************************************************************************)
(* fileTitle, called by the runner and, for a Blu-ray, by a drive's worker.*)
(* Link is an Lstat followed by a link(2) that fails if the name is taken. *)
(***************************************************************************)

Step(f, s) ==
    /\ fstep' = [fstep EXCEPT ![f] = s]
    /\ fjob' = [fjob EXCEPT ![f] = IF s = "idle" THEN None ELSE @]

FileStat(f) ==
    /\ fstep[f] = "stat"
    /\ Step(f, IF ctxDone THEN "idle"
               ELSE IF libBy[PathOf[fjob[f]]] # None THEN "record" ELSE "link")
    /\ UNCHANGED <<table, links, files, env, ctxDone, run, sweep, wake, queueing, retry, cancel,
                   history>>

\* Mutant: the name is taken over from whatever holds it.
CanReplace(j) == libUp /\ j \in out

\* link(2) needs a directory it can write, a source, and a free name.
CanLink(j) == libUp /\ j \in out /\ libBy[PathOf[j]] = None

FileLink(f) ==
    /\ fstep[f] = "link"
    /\ IF CanLink(fjob[f])
       THEN /\ libBy' = [libBy EXCEPT ![PathOf[fjob[f]]] = fjob[f]]
            /\ libSame' = [libSame EXCEPT ![PathOf[fjob[f]]] = TRUE]
            /\ Step(f, "record")
       ELSE Step(f, "idle") /\ UNCHANGED <<libBy, libSame>>
    /\ UNCHANGED <<table, links, out, libUp, env, ctxDone, run, sweep, wake, queueing, retry, cancel,
                   history>>

FileRecord(f) ==
    /\ fstep[f] = "record"
    /\ links' = IF ctxDone THEN links ELSE links \union {fjob[f]}
    /\ Step(f, "idle")
    /\ UNCHANGED <<table, files, env, ctxDone, run, sweep, wake, queueing, retry, cancel, history>>

FileTitle(f) == FileStat(f) \/ FileLink(f) \/ FileRecord(f)

(***************************************************************************)
(* The other goroutines.                                                   *)
(***************************************************************************)

Up == pc # "off"

Request ==
    /\ requests < MaxRequests
    /\ requests' = requests + 1

\* The titles of a disc that a rip hands on, each of them verified and marked ripped.
TitlesOf(d) == {j \in Job : DiscOf[j] = d}

\* No queueTranscodes or requeueDisc is in progress on d.
Free(d) == left[d] = {} /\ ~ due[d]

\* A rip has finished, minutes after the runner started: queueTranscodes starts
\* on every title of the disc.
RipFinished(d) ==
    /\ Up /\ pc # "reclaim" /\ ~ ctxDone /\ Request
    /\ TitlesOf(d) \intersect BluRay = {}
    /\ Free(d)
    /\ ripped' = ripped \union {d}
    /\ left' = [left EXCEPT ![d] = TitlesOf(d)]
    /\ UNCHANGED <<table, links, files, now, restarts, ctxDone, run, sweep, wake, filing,
                   due, retry, cancel, history>>

\* The socket's transcode request: the titles that are marked ripped and whose
\* rip is still on disk, which after a failed rip may be any of them.  The rip_dir
\* of a Blu-ray is the directory of its only copy, the output.
RequeueDisc(d) ==
    /\ Up /\ ~ ctxDone /\ Request
    /\ d \in ripped
    /\ Free(d)
    /\ \E present \in SUBSET TitlesOf(d) :
          /\ present # {}
          /\ present \intersect BluRay \subseteq out
          /\ left' = [left EXCEPT ![d] = present]
    /\ UNCHANGED <<table, links, files, ripped, now, restarts, ctxDone, run, sweep, wake,
                   filing, due, retry, cancel, history>>

Overtake(j) ==
    overtaken' = IF state[j] = "running" THEN overtaken \union {j} ELSE overtaken

\* One turn of either loop.  A cancelled context ends both without a nudge the
\* runner could still act on.
QueueTitle(d) ==
    /\ left[d] # {}
    /\ IF ctxDone
       THEN /\ left' = [left EXCEPT ![d] = {}]
            /\ due' = [due EXCEPT ![d] = FALSE]
            /\ UNCHANGED <<table, overtaken>>
       ELSE \E j \in left[d] :
               /\ \A k \in left[d] : IndexOf[j] <= IndexOf[k]
               /\ QueueTranscode(j)
               /\ left' = [left EXCEPT ![d] = @ \ {j}]
               /\ due' = [due EXCEPT ![d] = TRUE]
               /\ Overtake(j)
    /\ UNCHANGED <<links, files, env, ctxDone, run, sweep, wake, filing, retry, cancel, spent>>

\* Mutant: an unbuffered channel, heard only by a runner already waiting.
NudgeUnbuffered == wake' = (wake \/ pc = "wait")

\* nudgeTranscoder: a send that is dropped when a token is already there.
NudgeTranscoder == wake' = TRUE

QueueDone(d) ==
    /\ left[d] = {} /\ due[d]
    /\ due' = [due EXCEPT ![d] = FALSE]
    /\ NudgeTranscoder
    /\ UNCHANGED <<table, links, files, env, ctxDone, run, sweep, filing, left, retry, cancel,
                   history>>

\* A Blu-ray was encoded from the drive, to the directory that is its output.  The
\* worker goes on to SetDiscRipDir,
BluRayEncoded(j) ==
    /\ Up /\ Request
    /\ j \in BluRay
    /\ fstep["worker"] = "idle"
    /\ NewOutput(j)
    /\ fstep' = [fstep EXCEPT !["worker"] = "ripDir"]
    /\ fjob' = [fjob EXCEPT !["worker"] = j]
    /\ UNCHANGED <<table, links, libBy, libUp, ripped, now, restarts, ctxDone, run, sweep, wake,
                   queueing, retry, cancel, history>>

BluRayDir ==
    /\ fstep["worker"] = "ripDir"
    /\ ripped' = IF ctxDone THEN ripped ELSE ripped \union {DiscOf[fjob["worker"]]}
    /\ Step("worker", "row")
    /\ UNCHANGED <<table, links, files, now, requests, restarts, ctxDone, run, sweep, wake, queueing,
                   retry, cancel, history>>

\* to RecordTranscode, and to fileTitle, whatever becomes of them.
BluRayRow ==
    /\ fstep["worker"] = "row"
    /\ IF ctxDone
       THEN UNCHANGED <<table, overtaken>>
       ELSE RecordTranscode(fjob["worker"]) /\ Overtake(fjob["worker"])
    /\ Step("worker", "stat")
    /\ UNCHANGED <<links, files, env, ctxDone, run, sweep, wake, queueing, retry, cancel, spent>>

\* queue.retry reads the row and refuses a running one ...
RetryCheck(j) ==
    /\ Up /\ ~ ctxDone /\ Request
    /\ retry[j] = "idle"
    /\ state[j] \notin {"absent", "running"}
    /\ retry' = [retry EXCEPT ![j] = "checked"]
    /\ UNCHANGED <<table, links, files, ripped, now, restarts, ctxDone, run, sweep, wake,
                   filing, queueing, cancel, history>>

\* ... and then, in a statement of its own, resets it.
RetryReset(j) ==
    /\ retry[j] = "checked"
    /\ IF ctxDone
       THEN retry' = [retry EXCEPT ![j] = "idle"] /\ UNCHANGED <<table, spent, overtaken>>
       ELSE /\ ResetTranscodeAttempts(j)
            /\ retry' = [retry EXCEPT ![j] = "reset"]
            /\ spent' = [spent EXCEPT ![j] = 0]
            /\ overtaken' = overtaken \ {j}
    /\ UNCHANGED <<links, files, env, ctxDone, run, sweep, wake, filing, queueing, cancel>>

RetryNudge(j) ==
    /\ retry[j] = "reset"
    /\ retry' = [retry EXCEPT ![j] = "idle"]
    /\ NudgeTranscoder
    /\ UNCHANGED <<table, links, files, env, ctxDone, run, sweep, filing, queueing, cancel, history>>

\* CancelTranscode picks up the cancel function under the lock ...
CancelRead ==
    /\ Encoding /\ Request
    /\ cancel = "idle"
    /\ cancel' = "held"
    /\ UNCHANGED <<table, links, files, ripped, now, restarts, ctxDone, run, sweep, wake,
                   filing, queueing, retry, history>>

\* ... and calls it after the lock is released.
CancelCall ==
    /\ cancel # "idle"
    /\ cancel' = "idle"
    /\ cancelled' = (cancelled \/ cancel = "held")
    /\ UNCHANGED <<pc, job, ok, table, links, files, env, ctxDone, sweep, wake, filing, queueing,
                   retry, history>>

(***************************************************************************)
(* The daemon's life, the clock, and what people and disks do.             *)
(***************************************************************************)

\* Nothing of the process is left but the files and the database.
Volatile ==
    /\ job' = None /\ ok' = FALSE /\ cancelled' = FALSE
    /\ sweep' = {}
    /\ wake' = FALSE
    /\ fstep' = [f \in Filers |-> "idle"]
    /\ fjob' = [f \in Filers |-> None]
    /\ left' = [d \in Disc |-> {}]
    /\ due' = [d \in Disc |-> FALSE]
    /\ retry' = [j \in Job |-> "idle"]
    /\ cancel' = "idle"

Boot ==
    /\ pc = "off"
    /\ pc' = "reclaim"
    /\ ctxDone' = FALSE
    /\ Volatile
    /\ UNCHANGED <<table, links, files, env, history>>

\* SIGTERM cancels the context; every goroutine finds out at its next call.
Shutdown ==
    /\ Up /\ ~ ctxDone
    /\ restarts < MaxRestarts
    /\ restarts' = restarts + 1
    /\ ctxDone' = TRUE
    /\ UNCHANGED <<table, links, files, ripped, now, requests, run, sweep, wake, filing,
                   queueing, retry, cancel, history>>

\* The process dies where it stands.
Crash ==
    /\ Up
    /\ restarts < MaxRestarts
    /\ restarts' = restarts + 1
    /\ pc' = "off"
    /\ Volatile
    /\ UNCHANGED <<table, links, files, ripped, now, requests, ctxDone, history>>

Tick ==
    /\ now < MaxNow
    /\ now' = now + 1
    /\ UNCHANGED <<table, links, files, ripped, requests, restarts, ctxDone, run, sweep, wake,
                   filing, queueing, retry, cancel, history>>

LibraryLost ==
    /\ libUp /\ Request
    /\ libUp' = FALSE
    /\ UNCHANGED <<table, links, libBy, libSame, out, ripped, now, restarts, ctxDone, run, sweep,
                   wake, filing, queueing, retry, cancel, history>>

LibraryBack ==
    /\ ~ libUp
    /\ libUp' = TRUE
    /\ UNCHANGED <<table, links, libBy, libSame, out, env, ctxDone, run, sweep, wake, filing,
                   queueing, retry, cancel, history>>

\* A person puts a file of their own at a free library name, renames or removes
\* the one that is there, or removes an encoded file.
HandEdit ==
    /\ Request
    /\ \/ /\ \E p \in Path : /\ libBy' = [libBy EXCEPT ![p] = IF @ = None THEN "hand" ELSE None]
                             /\ libSame' = [libSame EXCEPT ![p] = FALSE]
          /\ UNCHANGED out
       \/ /\ \E j \in out : out' = out \ {j}
          /\ UNCHANGED <<libBy, libSame>>
    /\ UNCHANGED <<table, links, libUp, ripped, now, restarts, ctxDone, run, sweep, wake,
                   filing, queueing, retry, cancel, history>>

Init ==
    /\ state = [j \in Job |-> "absent"]
    /\ attempt = [j \in Job |-> 0]
    /\ created = [j \in Job |-> 0]
    /\ links = {}
    /\ libBy = [p \in Path |-> None]
    /\ libSame = [p \in Path |-> FALSE]
    /\ out = {}
    /\ ripped = {}
    /\ now = 0
    /\ ctxDone = FALSE
    /\ pc = "off" /\ job = None /\ ok = FALSE /\ cancelled = FALSE
    /\ sweep = {}
    /\ wake = FALSE
    /\ fstep = [f \in Filers |-> "idle"]
    /\ fjob = [f \in Filers |-> None]
    /\ left = [d \in Disc |-> {}]
    /\ due = [d \in Disc |-> FALSE]
    /\ retry = [j \in Job |-> "idle"]
    /\ cancel = "idle"
    /\ libUp = TRUE
    /\ requests = 0
    /\ restarts = 0
    /\ spent = [j \in Job |-> 0]
    /\ overtaken = {}

RunnerStep ==
    \/ Reclaim \/ Claim \/ Drained \/ EncodeEnds \/ Judge
    \/ RecordFailure \/ RecordSuccess \/ FiledOne
    \/ SweepOne \/ SweepEnds \/ Wait \/ Stop

FilerStep == (\E f \in Filers : FileTitle(f)) \/ BluRayDir \/ BluRayRow

ClientStep ==
    \/ \E d \in Disc : QueueTitle(d) \/ QueueDone(d)
    \/ \E j \in Job : RetryReset(j) \/ RetryNudge(j)
    \/ CancelCall

Arrival ==
    \/ \E d \in Disc : RipFinished(d) \/ RequeueDisc(d)
    \/ \E j \in Job : BluRayEncoded(j) \/ RetryCheck(j)
    \/ CancelRead

Next ==
    \/ RunnerStep \/ FilerStep \/ ClientStep \/ Arrival
    \/ Boot \/ Shutdown \/ Crash
    \/ Tick \/ LibraryLost \/ LibraryBack \/ HandEdit

Spec == Init /\ [][Next]_vars

\* The Go scheduler runs every goroutine that can run, a select does not pass
\* over a ready case for ever, an ffmpeg that is told to stop is killed if it does
\* not (WaitDelay), systemd restarts the daemon, and an unwritable library is put
\* right in the end.  Nothing ends an encode that hangs by itself.
Fairness ==
    /\ WF_vars(RunnerStep /\ (pc = "encode" => cancelled \/ ctxDone))
    /\ SF_vars(Stop)
    /\ \A f \in Filers : WF_vars(FileTitle(f))
    /\ WF_vars(BluRayDir \/ BluRayRow)
    /\ \A d \in Disc : WF_vars(QueueTitle(d) \/ QueueDone(d))
    /\ \A j \in Job : WF_vars(RetryReset(j) \/ RetryNudge(j))
    /\ WF_vars(CancelCall)
    /\ WF_vars(Boot)
    /\ WF_vars(LibraryBack)

FairSpec == Spec /\ Fairness

(***************************************************************************)
(* What the queue promises.                                                *)
(***************************************************************************)

\* The values the variables take; in particular no claim takes a job's attempt
\* past maxTranscodeAttempts.
TypeOK ==
    /\ state \in [Job -> States]
    /\ attempt \in [Job -> 0..MaxAttempts]
    /\ created \in [Job -> 0..MaxNow]
    /\ links \subseteq Job
    /\ libBy \in [Path -> Job \union {None, "hand"}]
    /\ libSame \in [Path -> BOOLEAN]
    /\ out \subseteq Job
    /\ ripped \subseteq Disc
    /\ now \in 0..MaxNow
    /\ ctxDone \in BOOLEAN
    /\ pc \in {"off", "reclaim", "claim", "encode", "judge", "record", "file", "sweep", "wait"}
    /\ job \in Job \union {None}
    /\ ok \in BOOLEAN
    /\ cancelled \in BOOLEAN
    /\ sweep \subseteq Job
    /\ wake \in BOOLEAN
    /\ fstep \in [Filers -> {"idle", "ripDir", "row", "stat", "link", "record"}]
    /\ fjob \in [Filers -> Job \union {None}]
    /\ left \in [Disc -> SUBSET Job]
    /\ due \in [Disc -> BOOLEAN]
    /\ retry \in [Job -> {"idle", "checked", "reset"}]
    /\ cancel \in {"idle", "held", "stale"}
    /\ libUp \in BOOLEAN
    /\ requests \in 0..MaxRequests
    /\ restarts \in 0..MaxRestarts
    /\ spent \in [Job -> 0..(MaxAttempts + 1)]
    /\ overtaken \subseteq Job

\* Once the runner has reclaimed what a previous process left behind, a row is
\* "running" only while the runner is encoding that very job: no cancel,
\* shutdown, crash, retry or re-queue leaves a claim nobody will ever release.
NoOrphanedClaim ==
    (~ ctxDone /\ pc \notin {"off", "reclaim"}) =>
        \A j \in Job : state[j] = "running" =>
            job = j /\ pc \in {"encode", "judge", "record"}

\* While the runner sleeps in its select with work it could claim, somebody is
\* about to wake it: a token is in transcodeWake or the request that queued the
\* work has its nudge still to do.  The 30 second ticker is never needed.
NoLostWakeup ==
    (~ ctxDone /\ pc = "wait" /\ \E j \in Job : Claimable(j)) =>
        \/ wake
        \/ \E d \in Disc : due[d]
        \/ \E j \in Job : retry[j] = "reset"

\* The attempts charged to a job are encodes that ended by themselves, plus the
\* one its running row stands for: RequeueTranscode and
\* ReclaimRunningTranscodes give back what a cancel, a shutdown or a crash
\* interrupted.  A job re-queued while its row was running is excepted.
AttemptsAreSpent ==
    \A j \in Job \ overtaken :
        attempt[j] <= spent[j] + (IF state[j] = "running" THEN 1 ELSE 0)

\* Filing never takes over a library name that is in use, whoever put the file
\* there and however late: between fileTitle's Lstat and its link(2) a person
\* or the other filer may have come first.  (A person may clear a name.)
NeverClobbers ==
    [][\A p \in Path : libBy[p] # None => libBy'[p] \in {libBy[p], None}]_libBy

\* ffmpeg and ffprobe do not hang: no deadline and no watchdog sees to it.
EncodesEnd == []<>(pc # "encode")

Unsettled(j) == Claimable(j) \/ state[j] = "running"

\* A title that can be claimed, or has been, ends complete, failed, or out of
\* attempts, across cancels, shutdowns and crashes, as long as no encode hangs.
JobSettles == EncodesEnd => \A j \in Job : Unsettled(j) ~> ~ Unsettled(j)

\* A finished encode whose file is there reaches the library's table, even if
\* the library was unwritable or the daemon died when it was first filed, as long
\* as no encode keeps the runner from its sweep.
CompleteIsFiled ==
    EncodesEnd =>
        \A j \in Job : (state[j] = "complete" /\ j \in out) ~>
                       (j \in links \/ state[j] # "complete" \/ j \notin out)

(***************************************************************************)
(* What comments in the code say of it and the code does not keep.         *)
(***************************************************************************)

\* store/transcode.go:40-43, of QueueTranscode: "a title already done is simply
\* done again, and a title that failed gets another attempt".
QueuedIsClaimable == \A j \in Job : state[j] = "pending" => Claimable(j)

\* store/transcode.go:201-205, of ReclaimRunningTranscodes: "The attempt is
\* given back too.  An encode interrupted by a restart learned nothing".
InterruptedIsNotCharged ==
    \A j \in Job :
        attempt[j] <= spent[j] + (IF state[j] = "running" \/ job = j THEN 1 ELSE 0)

\* store/transcode.go:73-74, of RecordTranscode: "the row exists to be
\* reconciled against, not to be run".
RecordedIsNotRun == Encoding => job \notin BluRay

\* library/library.go:308-309, of Link: "the library and the transcoded tree
\* are the same bytes".
LibraryIsSameBytes == \A p \in Path : libBy[p] \in out => libSame[p]

\* daemon/library.go:83-85, of a name already taken: "Either hellbox filed it
\* before, or a person has put something at that name".
NameTakenByItselfOrAPerson ==
    \A f \in Filers : fstep[f] = "record" =>
        libBy[PathOf[fjob[f]]] \in {fjob[f], "hand", None}

\* store/transcode.go:160-162, of FailTranscode: "the runner re-queues it only
\* if the attempt budget allows".
FailedWithinBudgetIsRequeued ==
    \A j \in Job : (state[j] = "failed" /\ attempt[j] < MaxAttempts) ~>
                   (state[j] # "failed")
=============================================================================
