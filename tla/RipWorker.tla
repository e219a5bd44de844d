----------------------------- MODULE RipWorker ------------------------------
(***************************************************************************)
(* The drives' workers: internal/daemon/worker.go takes a disc from        *)
(* insertion to an open tray, one disc at a time across every drive, and   *)
(* internal/daemon/bluray.go does the same for a Blu-ray.  With them, the  *)
(* discs and jobs tables (internal/store/store.go) that decide whether a   *)
(* disc is ripped, refused or recognised; the requests that race a worker  *)
(* (eject, cancel, forget); and the daemon stopping, dying and starting.   *)
(*                                                                         *)
(* A disc is its fingerprint; two drives may hold copies of the same one.  *)
(* Every read of a disc, every file written and every encode may fail.  A  *)
(* store call fails only when its context is cancelled, so consecutive     *)
(* store calls with nothing but log lines between them are one step.       *)
(***************************************************************************)
EXTENDS DriveMonitor, FiniteSets

CONSTANTS
    BluRay,          \* discs handled by handleBluRay
    Encrypted,       \* discs that ripSource copies to disk first (decrypt_fallback)
    TitleCount,      \* titles on each disc
    ScanAttempts,    \* config: scan_attempts
    MaxRipAttempts,  \* config: max_rip_attempts
    EjectOnSuccess,  \* config: eject_on_success
    EjectOnFailure,  \* config: eject_on_failure
    MaxJobs,         \* bound: rows of the jobs table
    MaxRequests,     \* bound: eject, cancel and forget requests
    MaxRestarts,     \* bound: times the daemon stops
    MaxJams          \* bound: trays that refuse to open

ASSUME WorkerConstants ==
    /\ BluRay \subseteq Disc
    /\ Encrypted \subseteq Disc
    /\ TitleCount \in [Disc -> Nat \ {0}]
    /\ \A d \in BluRay : TitleCount[d] = 1
    /\ ScanAttempts \in Nat \ {0}
    /\ MaxRipAttempts \in Nat \ {0}
    /\ EjectOnSuccess \in BOOLEAN
    /\ EjectOnFailure \in BOOLEAN
    /\ MaxJobs \in Nat
    /\ MaxRequests \in Nat
    /\ MaxRestarts \in Nat
    /\ MaxJams \in Nat
    /\ None \notin Drive

VARIABLES
    known,      \* the discs table: discs with a row,
    ripDir,     \* those with a rip_dir,
    forgotten,  \* forgotten_after_job
    marked,     \* and the titles marked ripped
    jobs,       \* the jobs table: how many rows,
    jobDisc,    \* disc_id
    jobState,   \* and state, by id
    handed,     \* history: discs whose latest rip reached the transcode queue
    copy,       \* discs with a finished decrypted copy in the work directory
    slot,       \* discSlot: the worker whose token is in it
    pc,         \* where each worker is in handleDisc, rip or handleBluRay
    shown,      \* status.State
    scan,       \* the attempt scanWithRetry is at
    moved,      \* the disc has left the drive since it was last opened for reading
    disc,       \* the disc being worked on
    job,        \* its job
    fromCopy,   \* titles are read from the decrypted copy
    title,      \* titles written and recorded by this rip
    cancelWork, \* cancelWork is not nil
    cancelled,  \* it was called
    eject,      \* an eject request has passed its check,
    cancel,     \* or a cancel request
    requests, restarts, jams,
    stopped,    \* history: jobs whose context was cancelled under them
    owed        \* history: discs forgotten and not opened a job for since

discs == <<known, ripDir, forgotten, marked>>
jobTable == <<jobs, jobDisc, jobState>>
work == <<scan, disc, job, fromCopy, title>>
asks == <<eject, cancel, requests>>
workerVars == <<discs, jobTable, handed, copy, slot, pc, shown, work, moved,
                cancelWork, cancelled, asks, restarts, jams, stopped, owed>>
vars == <<monitorVars, workerVars>>

JobIds == 1 .. MaxJobs
JobStates == {"pending", "ripping", "complete", "failed", "cancelled"}
Busy == {"queued", "scanning", "decrypting", "ripping", "verifying", "ejecting"}
Terminal == {"complete", "duplicate", "failed", "incompatible", "cancelled"}

(***************************************************************************)
(* The store.                                                              *)
(***************************************************************************)

JobsOf(d) == {i \in 1 .. jobs : jobDisc[i] = d}

AttemptsForDisc(d) ==
    Cardinality({i \in JobsOf(d) : i > forgotten[d] /\ jobState[i] # "cancelled"})

CreateJob(d) ==
    /\ jobs < MaxJobs
    /\ jobs' = jobs + 1
    /\ jobDisc' = [jobDisc EXCEPT ![jobs + 1] = d]
    /\ jobState' = [jobState EXCEPT ![jobs + 1] = "pending"]

\* A cancelled context writes nothing.
SetJobState(i, s, ctxDone) ==
    /\ jobState' = IF ctxDone THEN jobState ELSE [jobState EXCEPT ![i] = s]
    /\ UNCHANGED <<jobs, jobDisc>>

\* Mutant: jobs a dead daemon left behind stay as they were.
ReclaimNoJobs == jobState

ReclaimUnfinishedJobs ==
    [i \in JobIds |-> IF jobState[i] \in {"pending", "ripping"} THEN "cancelled"
                                                                  ELSE jobState[i]]

LastJob(d) == CHOOSE n \in JobsOf(d) \cup {0} : \A i \in JobsOf(d) : i <= n

(***************************************************************************)
(* handleEvent, and the shared slot.                                       *)
(***************************************************************************)

\* ctx.Err() # nil, for the context of the work in hand.
Dead(w) == cancelled[w] \/ daemon = "stopping"

At(w, here) == daemon # "down" /\ pc[w] = here

Goto(w, there) == pc' = [pc EXCEPT ![w] = there]

Show(w, s) == shown' = [shown EXCEPT ![w] = s]

\* The state a drive event shows, for the ones that start no work.
Rest == [error |-> "absent", tray_open |-> "tray_open", no_disc |-> "empty",
         not_ready |-> "loading", incompatible |-> "incompatible"]

\* The switch has no case for StatusUnknown: what was shown stays.
handleEvent(w) ==
    LET reading == Head(events[w]) IN
    /\ At(w, "idle")
    /\ Receive(w)
    /\ CASE reading = "disc_ok" -> Goto(w, "slot") /\ UNCHANGED shown
         [] reading \in DOMAIN Rest -> Show(w, Rest[reading]) /\ UNCHANGED pc
         [] OTHER -> UNCHANGED <<shown, pc>>
    /\ UNCHANGED <<discs, jobTable, handed, copy, slot, work, moved, cancelWork,
                   cancelled, asks, restarts, jams, stopped, owed>>

\* Mutant: a worker does not wait for the slot.
SlotNotAwaited(w) == TRUE

SlotFree(w) == slot = None

\* What takeDiscSlot leaves alone.
Elsewhere == UNCHANGED <<monitorVars, discs, jobTable, handed, copy, work, moved,
                         cancelWork, cancelled, asks, restarts, jams, stopped, owed>>

TakeSlot(w) ==
    /\ At(w, "slot") \/ At(w, "queued")
    /\ SlotFree(w)
    /\ slot' = w
    /\ Goto(w, "kind")
    /\ UNCHANGED shown /\ Elsewhere

AwaitSlot(w) ==
    /\ At(w, "slot") /\ ~ SlotFree(w)
    /\ Show(w, "queued")
    /\ Goto(w, "queued")
    /\ UNCHANGED slot /\ Elsewhere

AbandonSlot(w) ==
    /\ At(w, "queued") /\ daemon = "stopping"
    /\ Goto(w, "idle")
    /\ UNCHANGED <<slot, shown>> /\ Elsewhere

(***************************************************************************)
(* The ways handleDisc ends.                                               *)
(***************************************************************************)

\* Mutant: the slot is not given back.
SlotLeaked(w) == UNCHANGED slot

releaseDiscSlot(w) == slot' = None

\* The deferred releaseDiscSlot and the clearing of cancelWork.
Return(w) ==
    /\ Goto(w, "idle")
    /\ releaseDiscSlot(w)
    /\ cancelWork' = [cancelWork EXCEPT ![w] = FALSE]
    /\ scan' = [scan EXCEPT ![w] = 0]
    /\ disc' = [disc EXCEPT ![w] = None]
    /\ job' = [job EXCEPT ![w] = 0]
    /\ fromCopy' = [fromCopy EXCEPT ![w] = FALSE]
    /\ title' = [title EXCEPT ![w] = 0]

Continue(w, there) == Goto(w, there) /\ UNCHANGED <<slot, cancelWork, work>>

\* ejectNow, up to the opening of the tray; s is what is shown if it returns.
StartEject(w, s) ==
    IF EjectOnSuccess THEN Show(w, "ejecting") /\ Continue(w, "eject")
                      ELSE Show(w, s) /\ Return(w)

\* Mutant: a failed disc is handed back.
FailEjects(w) == StartEject(w, "failed")

\* fail: the disc is retained, unless the configuration says otherwise.
Fail(w) ==
    IF EjectOnFailure THEN StartEject(w, "failed")
                      ELSE Show(w, "failed") /\ Return(w)

Tables == UNCHANGED <<discs, jobTable, handed, copy>>

\* What no step of handleDisc changes but the opening of the tray.
Others == UNCHANGED <<monitorVars, cancelled, asks, restarts, jams, stopped>>

Opened(w) ==
    /\ open' = [open EXCEPT ![w] = TRUE]
    /\ ready' = [ready EXCEPT ![w] = "no"]
    /\ looked' = [looked EXCEPT ![w] = FALSE]
    /\ moved' = [moved EXCEPT ![w] = TRUE]
    /\ UNCHANGED <<plugged, inside, moves, flickers, monitor, daemon, told>>

EjectOpens(w) ==
    /\ At(w, "eject") /\ plugged[w]
    /\ IF open[w] THEN UNCHANGED <<monitorVars, moved>> ELSE Opened(w)
    /\ Show(w, "tray_open")
    /\ Return(w)
    /\ Tables
    /\ UNCHANGED <<cancelled, asks, restarts, jams, stopped, owed>>

\* The tray does not open: a warning is logged and nothing else is done.
EjectFails(w) ==
    /\ At(w, "eject")
    /\ ~ plugged[w] \/ jams < MaxJams
    /\ jams' = IF plugged[w] THEN jams + 1 ELSE jams
    /\ Return(w)
    /\ Tables
    /\ UNCHANGED <<monitorVars, shown, moved, cancelled, asks, restarts, stopped, owed>>

(***************************************************************************)
(* handleDisc: what the disc is, the scan, and whether to rip it.          *)
(***************************************************************************)

\* discKind; a drive that will not say what it holds is treated as holding a
\* DVD.  From here on the DVD path can be cancelled.
Kind(w) ==
    /\ At(w, "kind")
    /\ Show(w, "scanning")
    /\ moved' = [moved EXCEPT ![w] = FALSE]
    /\ cancelled' = [cancelled EXCEPT ![w] = FALSE]
    /\ \/ /\ Status(w) = "disc_ok" /\ inside[w] \in BluRay
          /\ Goto(w, "probe")
          /\ UNCHANGED <<scan, cancelWork>>
       \/ /\ Goto(w, "scan")
          /\ scan' = [scan EXCEPT ![w] = 1]
          /\ cancelWork' = [cancelWork EXCEPT ![w] = TRUE]
    /\ Tables
    /\ UNCHANGED <<monitorVars, slot, disc, job, fromCopy, title, asks, restarts,
                   jams, stopped, owed>>

\* The disc in the drive can be read to the end.
CanRead(w) == ~ moved[w] /\ Status(w) = "disc_ok"

\* A scan, or a Blu-ray's probe, names the disc.
Identify(w) ==
    /\ At(w, "scan") \/ At(w, "probe")
    /\ CanRead(w)
    /\ disc' = [disc EXCEPT ![w] = inside[w]]
    /\ Goto(w, IF pc[w] = "probe" THEN "admitBluRay" ELSE "admit")
    /\ Tables /\ Others
    /\ UNCHANGED <<slot, cancelWork, shown, moved, scan, job, fromCopy, title, owed>>

LastScan(w) == scan[w] = ScanAttempts

\* Mutant: a cancelled scan leaves the drive scanning.
CancelUnshown(w) == UNCHANGED shown

\* A cancelled scan is not a failed one.
ScanCancelled(w) == Show(w, "cancelled")

\* scanWithRetry after a failed attempt, in the order of its checks.  discGone
\* believes every answer but an error.
ScanFails(w) ==
    /\ At(w, "scan")
    /\ \/ Dead(w) /\ ScanCancelled(w) /\ Return(w)
       \/ /\ ~ Dead(w) /\ Status(w) \notin {"disc_ok", "error"}
          /\ UNCHANGED shown /\ Return(w)
       \/ /\ ~ Dead(w) /\ Status(w) \in {"disc_ok", "error"}
          /\ IF LastScan(w)
             THEN Fail(w)
             ELSE Continue(w, "retry") /\ UNCHANGED shown
    /\ Tables /\ Others
    /\ UNCHANGED <<moved, owed>>

\* The delay before the next attempt.
ScanAgain(w) ==
    /\ At(w, "retry")
    /\ IF Dead(w)
       THEN ScanCancelled(w) /\ Return(w) /\ UNCHANGED moved
       ELSE /\ Goto(w, "scan")
            /\ scan' = [scan EXCEPT ![w] = @ + 1]
            /\ moved' = [moved EXCEPT ![w] = FALSE]
            /\ UNCHANGED <<shown, slot, cancelWork, disc, job, fromCopy, title>>
    /\ Tables /\ Others
    /\ UNCHANGED owed

ProbeFails(w) ==
    /\ At(w, "probe")
    /\ IF Dead(w) THEN UNCHANGED shown /\ Return(w) ELSE Fail(w)
    /\ Tables /\ Others
    /\ UNCHANGED <<moved, owed>>

\* FindDisc and Ripped.
Recognised(d) == d \in ripDir

Spent(d) == AttemptsForDisc(d) >= MaxRipAttempts

\* FindDisc, SaveDisc, AttemptsForDisc and CreateJob.  A context cancelled
\* since the disc was identified makes the first of them that runs fail.
Admit(w) ==
    LET d == disc[w] IN
    /\ At(w, "admit") \/ At(w, "admitBluRay")
    /\ \/ Dead(w) /\ Fail(w) /\ UNCHANGED <<known, jobTable, owed>>
       \/ /\ ~ Dead(w) /\ Recognised(d)
          /\ StartEject(w, "duplicate")
          /\ UNCHANGED <<known, jobTable, owed>>
       \/ /\ ~ Dead(w) /\ ~ Recognised(d) /\ Spent(d)
          /\ Fail(w)
          /\ known' = known \cup {d}
          /\ UNCHANGED <<jobTable, owed>>
       \/ /\ ~ Dead(w) /\ ~ Recognised(d) /\ ~ Spent(d)
          /\ CreateJob(d)
          /\ known' = known \cup {d}
          /\ job' = [job EXCEPT ![w] = jobs + 1]
          /\ owed' = owed \ {d}
          /\ IF pc[w] = "admit"
             THEN Goto(w, "prepare") /\ UNCHANGED shown
             ELSE Goto(w, "encode") /\ Show(w, "ripping")
          /\ UNCHANGED <<slot, cancelWork, scan, disc, fromCopy, title>>
    /\ Others
    /\ UNCHANGED <<ripDir, forgotten, marked, handed, copy, moved>>

(***************************************************************************)
(* rip.                                                                    *)
(***************************************************************************)

\* rip returns an error: SetJobState with the context of the work, and fail.
RecordFailure(w) ==
    /\ At(w, "failing")
    /\ SetJobState(job[w], "failed", Dead(w))
    /\ Fail(w)
    /\ Others
    /\ UNCHANGED <<discs, handed, copy, moved, owed>>

\* An error with no bookkeeping of its own, at any stage of a rip.
RipFails(w) ==
    /\ \E here \in {"prepare", "rescan", "begin", "verify"} : At(w, here)
    /\ Continue(w, "failing")
    /\ Tables /\ Others
    /\ UNCHANGED <<shown, moved, owed>>

\* makeRipDir and ripSource: the drive, a copy an earlier attempt left, or a
\* copy to be made now.
RipSource(w) ==
    LET d == disc[w] IN
    /\ At(w, "prepare")
    /\ IF d \in Encrypted
       THEN IF d \in copy
            THEN /\ Goto(w, "rescan")
                 /\ fromCopy' = [fromCopy EXCEPT ![w] = TRUE]
                 /\ UNCHANGED shown
            ELSE Goto(w, "decrypt") /\ Show(w, "decrypting") /\ UNCHANGED fromCopy
       ELSE Goto(w, "begin") /\ UNCHANGED <<shown, fromCopy>>
    /\ Tables /\ Others
    /\ UNCHANGED <<slot, cancelWork, scan, disc, job, title, moved, owed>>

Decrypted(w) ==
    /\ At(w, "decrypt")
    /\ CanRead(w)
    /\ copy' = copy \cup {disc[w]}
    /\ fromCopy' = [fromCopy EXCEPT ![w] = TRUE]
    /\ Goto(w, "rescan")
    /\ Others
    /\ UNCHANGED <<discs, jobTable, handed, shown, slot, cancelWork, scan, disc, job,
                   title, moved, owed>>

\* errCancelled: the job and the drive both say cancelled.
Cancelled(w) ==
    /\ SetJobState(job[w], "cancelled", FALSE)
    /\ Show(w, "cancelled")
    /\ Return(w)

DecryptFails(w) ==
    /\ At(w, "decrypt")
    /\ IF Dead(w) THEN Cancelled(w)
                  ELSE Continue(w, "failing") /\ UNCHANGED <<shown, jobTable>>
    /\ Others
    /\ UNCHANGED <<discs, handed, copy, moved, owed>>

\* rescanCopy succeeded and kept enough of the disc, or failed and is ignored;
\* a copy that holds too little is RipFails.
Rescanned(w) ==
    /\ At(w, "rescan")
    /\ Continue(w, "begin")
    /\ Tables /\ Others
    /\ UNCHANGED <<shown, moved, owed>>

Begin(w) ==
    /\ At(w, "begin")
    /\ Show(w, "ripping")
    /\ SetJobState(job[w], "ripping", Dead(w))
    /\ Continue(w, "rip")
    /\ Others
    /\ UNCHANGED <<discs, handed, copy, moved, owed>>

TitleWritten(w) ==
    /\ At(w, "rip")
    /\ fromCopy[w] \/ CanRead(w)
    /\ Show(w, "verifying")
    /\ Continue(w, "verify")
    /\ Tables /\ Others
    /\ UNCHANGED <<moved, owed>>

\* Written with a context of its own, because the work's is cancelled.
CancelRecorded(w) ==
    IF Dead(w) THEN SetJobState(job[w], "cancelled", FALSE) ELSE UNCHANGED jobTable

\* A cancelled title is an ordinary error to handleDisc.
TitleFails(w) ==
    /\ At(w, "rip")
    /\ CancelRecorded(w)
    /\ Continue(w, "failing")
    /\ Others
    /\ UNCHANGED <<discs, handed, copy, shown, moved, owed>>

\* Mutant: the last title is not waited for.
AllButOne(w) == title[w] + 2 >= TitleCount[disc[w]]

LastTitle(w) == title[w] + 1 = TitleCount[disc[w]]

\* verifyOutput, verifyNativeTitle and MarkTitleRipped.
TitleVerified(w) ==
    LET d == disc[w] IN
    /\ At(w, "verify") /\ ~ Dead(w)
    /\ marked' = [marked EXCEPT ![d] = @ \cup {title[w] + 1}]
    /\ title' = [title EXCEPT ![w] = @ + 1]
    /\ Show(w, "ripping")
    /\ Goto(w, IF LastTitle(w) THEN "record" ELSE "rip")
    /\ Others
    /\ UNCHANGED <<known, ripDir, forgotten, jobTable, handed, copy, slot, cancelWork,
                   scan, disc, job, fromCopy, moved, owed>>

\* SetDiscRipDir and the discarding of the copy.
RecordRip(w) ==
    LET d == disc[w] IN
    /\ At(w, "record")
    /\ IF Dead(w)
       THEN Continue(w, "failing") /\ UNCHANGED <<ripDir, copy, handed>>
       ELSE /\ ripDir' = ripDir \cup {d}
            /\ copy' = IF fromCopy[w] THEN copy \ {d} ELSE copy
            /\ handed' = handed \ {d}
            /\ Continue(w, "complete")
    /\ Others
    /\ UNCHANGED <<known, forgotten, marked, jobTable, shown, moved, owed>>

RipComplete(w) ==
    /\ At(w, "complete")
    /\ SetJobState(job[w], "complete", Dead(w))
    /\ Show(w, "complete")
    /\ Continue(w, "handOff")
    /\ Others
    /\ UNCHANGED <<discs, handed, copy, moved, owed>>

\* onRipped, which is queueTranscodes with the work's own context.
HandOff(w) ==
    /\ At(w, "handOff")
    /\ handed' = IF Dead(w) THEN handed ELSE handed \cup {disc[w]}
    /\ StartEject(w, "complete")
    /\ Others
    /\ UNCHANGED <<discs, jobTable, copy, moved, owed>>

(***************************************************************************)
(* handleBluRay, from the encode on: one pass from the drive to the file.  *)
(***************************************************************************)

Encoded(w) ==
    /\ At(w, "encode")
    /\ CanRead(w)
    /\ Continue(w, "recordBluRay")
    /\ Tables /\ Others
    /\ UNCHANGED <<shown, moved, owed>>

EncodeFails(w) ==
    /\ At(w, "encode")
    /\ IF Dead(w) THEN Cancelled(w)
                  ELSE Continue(w, "failing") /\ UNCHANGED <<shown, jobTable>>
    /\ Others
    /\ UNCHANGED <<discs, handed, copy, moved, owed>>

\* MarkTitleRipped and SetDiscRipDir; an error is only logged.
RecordBluRay(w) ==
    LET d == disc[w] IN
    /\ At(w, "recordBluRay")
    /\ IF Dead(w)
       THEN UNCHANGED <<marked, ripDir, handed>>
       ELSE /\ marked' = [marked EXCEPT ![d] = @ \cup {1}]
            /\ ripDir' = ripDir \cup {d}
            /\ handed' = handed \ {d}
    /\ Continue(w, "completeBluRay")
    /\ Others
    /\ UNCHANGED <<known, forgotten, jobTable, copy, shown, moved, owed>>

CompleteBluRay(w) ==
    /\ At(w, "completeBluRay")
    /\ SetJobState(job[w], "complete", Dead(w))
    /\ Continue(w, "handOffBluRay")
    /\ Others
    /\ UNCHANGED <<discs, handed, copy, shown, moved, owed>>

\* RecordTranscode.
HandOffBluRay(w) ==
    /\ At(w, "handOffBluRay")
    /\ handed' = IF Dead(w) THEN handed ELSE handed \cup {disc[w]}
    /\ Show(w, "complete")
    /\ Continue(w, "fileBluRay")
    /\ Others
    /\ UNCHANGED <<discs, jobTable, copy, moved, owed>>

\* onBluRayDone.
FileBluRay(w) ==
    /\ At(w, "fileBluRay")
    /\ StartEject(w, "complete")
    /\ Tables /\ Others
    /\ UNCHANGED <<moved, owed>>

(***************************************************************************)
(* Requests, and the person at the drive.                                  *)
(***************************************************************************)

Ask ==
    /\ daemon = "up"
    /\ requests < MaxRequests
    /\ requests' = requests + 1

Idle == UNCHANGED <<slot, pc, work, cancelWork>>

\* Worker.Eject: the check,
EjectCheck(w) ==
    /\ Ask
    /\ ~ eject[w] /\ shown[w] \notin Busy
    /\ eject' = [eject EXCEPT ![w] = TRUE]
    /\ Tables /\ Idle
    /\ UNCHANGED <<monitorVars, cancel, shown, moved, cancelled, restarts, jams, stopped, owed>>

\* and the act.
EjectAct(w) ==
    /\ daemon # "down" /\ eject[w]
    /\ eject' = [eject EXCEPT ![w] = FALSE]
    /\ IF plugged[w] /\ ~ open[w] THEN Opened(w) ELSE UNCHANGED <<monitorVars, moved>>
    /\ Tables /\ Idle
    /\ UNCHANGED <<cancel, requests, shown, cancelled, restarts, jams, stopped, owed>>

\* Worker.Cancel: it reads cancelWork, without a lock, to see that it is not nil,
CancelCheck(w) ==
    /\ Ask
    /\ ~ cancel[w] /\ cancelWork[w]
    /\ cancel' = [cancel EXCEPT ![w] = TRUE]
    /\ Tables /\ Idle
    /\ UNCHANGED <<monitorVars, eject, shown, moved, cancelled, restarts, jams, stopped,
                   owed>>

\* and again to call it, for the work of that moment.
CancelAct(w) ==
    /\ daemon # "down" /\ cancel[w] /\ cancelWork[w]
    /\ cancel' = [cancel EXCEPT ![w] = FALSE]
    /\ cancelled' = [cancelled EXCEPT ![w] = TRUE]
    /\ stopped' = stopped \cup ({job[w]} \ {0})
    /\ Tables /\ Idle
    /\ UNCHANGED <<monitorVars, eject, requests, shown, moved, restarts, jams, owed>>

ForgetDisc(d) ==
    /\ Ask
    /\ d \in known
    /\ ripDir' = ripDir \ {d}
    /\ forgotten' = [forgotten EXCEPT ![d] = LastJob(d)]
    /\ owed' = owed \cup {d}
    /\ Idle
    /\ UNCHANGED <<monitorVars, known, marked, jobTable, handed, copy, eject, cancel, shown,
                   moved, cancelled, restarts, jams, stopped>>

Handles(w) ==
    /\ Person(w)
    /\ moved' = [moved EXCEPT ![w] = @ \/ open'[w] # open[w] \/ plugged'[w] # plugged[w]]
    /\ Tables /\ Idle
    /\ UNCHANGED <<shown, cancelled, asks, restarts, jams, stopped, owed>>

Watches(w) == (Poll(w) \/ Deliver(w) \/ SpinUp(w) \/ Flicker(w)) /\ UNCHANGED workerVars

(***************************************************************************)
(* The daemon.                                                             *)
(***************************************************************************)

\* Everything that is not on disk.
Volatile ==
    /\ FreshMonitor
    /\ slot' = None
    /\ pc' = [w \in Drive |-> "idle"]
    /\ shown' = [w \in Drive |-> "empty"]
    /\ scan' = [w \in Drive |-> 0]
    /\ moved' = [w \in Drive |-> FALSE]
    /\ disc' = [w \in Drive |-> None]
    /\ job' = [w \in Drive |-> 0]
    /\ fromCopy' = [w \in Drive |-> FALSE]
    /\ title' = [w \in Drive |-> 0]
    /\ cancelWork' = [w \in Drive |-> FALSE]
    /\ cancelled' = [w \in Drive |-> FALSE]
    /\ eject' = [w \in Drive |-> FALSE]
    /\ cancel' = [w \in Drive |-> FALSE]

Boot ==
    /\ daemon = "down"
    /\ daemon' = "up"
    /\ jobState' = ReclaimUnfinishedJobs
    /\ UNCHANGED <<drive, monitor, told, discs, jobs, jobDisc, handed, copy, slot, pc,
                   shown, work, moved, cancelWork, cancelled, asks, restarts, jams,
                   stopped, owed>>

Shutdown ==
    /\ daemon = "up"
    /\ restarts < MaxRestarts
    /\ restarts' = restarts + 1
    /\ daemon' = "stopping"
    /\ stopped' = stopped \cup ({job[w] : w \in Drive} \ {0})
    /\ Tables /\ Idle
    /\ UNCHANGED <<drive, monitor, told, shown, moved, cancelled, asks, jams, owed>>

Down ==
    /\ daemon' = "down"
    /\ Volatile
    /\ Tables
    /\ UNCHANGED <<drive, requests, jams, stopped, owed>>

\* Every worker has returned to its loop and seen the context.
Exit ==
    /\ daemon = "stopping"
    /\ \A w \in Drive : pc[w] = "idle"
    /\ Down
    /\ UNCHANGED restarts

Crash ==
    /\ daemon # "down"
    /\ restarts < MaxRestarts
    /\ restarts' = restarts + 1
    /\ Down

\* A cancel request that finds nothing left to call: a nil call, which ends the
\* daemon unless the request came over HTTP, whose server recovers it, or the
\* function was read once and belongs to work that is over.
CancelLate(w) ==
    /\ daemon # "down" /\ cancel[w] /\ ~ cancelWork[w]
    /\ \/ Down
       \/ /\ cancel' = [cancel EXCEPT ![w] = FALSE]
          /\ Tables /\ Idle
          /\ UNCHANGED <<monitorVars, eject, requests, shown, moved, cancelled, jams,
                         stopped, owed>>
    /\ UNCHANGED restarts

Init ==
    /\ DriveInit
    /\ known = {} /\ ripDir = {} /\ handed = {} /\ copy = {}
    /\ forgotten = [d \in Disc |-> 0]
    /\ marked = [d \in Disc |-> {}]
    /\ jobs = 0
    /\ jobDisc = [i \in JobIds |-> None]
    /\ jobState = [i \in JobIds |-> "none"]
    /\ slot = None
    /\ pc = [w \in Drive |-> "idle"]
    /\ shown = [w \in Drive |-> "empty"]
    /\ scan = [w \in Drive |-> 0]
    /\ moved = [w \in Drive |-> FALSE]
    /\ disc = [w \in Drive |-> None]
    /\ job = [w \in Drive |-> 0]
    /\ fromCopy = [w \in Drive |-> FALSE]
    /\ title = [w \in Drive |-> 0]
    /\ cancelWork = [w \in Drive |-> FALSE]
    /\ cancelled = [w \in Drive |-> FALSE]
    /\ eject = [w \in Drive |-> FALSE]
    /\ cancel = [w \in Drive |-> FALSE]
    /\ requests = 0 /\ restarts = 0 /\ jams = 0
    /\ stopped = {} /\ owed = {}

handleDisc(w) ==
    \/ Kind(w) \/ Identify(w) \/ ScanFails(w) \/ ScanAgain(w) \/ ProbeFails(w) \/ Admit(w)
    \/ RipSource(w) \/ Decrypted(w) \/ DecryptFails(w) \/ Rescanned(w) \/ Begin(w)
    \/ TitleWritten(w) \/ TitleFails(w) \/ TitleVerified(w) \/ RipFails(w)
    \/ RecordFailure(w) \/ RecordRip(w) \/ RipComplete(w) \/ HandOff(w)
    \/ Encoded(w) \/ EncodeFails(w) \/ RecordBluRay(w) \/ CompleteBluRay(w)
    \/ HandOffBluRay(w) \/ FileBluRay(w) \/ EjectOpens(w) \/ EjectFails(w)

WorkerStep(w) ==
    handleEvent(w) \/ TakeSlot(w) \/ AwaitSlot(w) \/ AbandonSlot(w) \/ handleDisc(w)

Request(w) ==
    EjectCheck(w) \/ EjectAct(w) \/ CancelCheck(w) \/ CancelAct(w) \/ CancelLate(w)

Next ==
    \/ \E w \in Drive : WorkerStep(w) \/ Request(w) \/ Handles(w) \/ Watches(w)
    \/ \E d \in Disc : ForgetDisc(d)
    \/ Boot \/ Shutdown \/ Exit \/ Crash

Spec == Init /\ [][Next]_vars

\* Where a worker waits for a program that nothing but its context ends: the probe
\* and the encode of a Blu-ray, the decrypt and the scan of its copy, and the
\* measuring of a title.  A scan has a deadline and a rip a stall watchdog.
Unguarded == {"probe", "decrypt", "rescan", "verify", "encode"}

\* Goroutines run, a guarded read ends, a program whose context is cancelled is
\* killed, an eject that passed its check acts, and a supervisor starts the
\* daemon again.  Senders on a Go channel are served in order, so the slot is not
\* withheld from one of them forever.
Fairness ==
    /\ WF_vars(Boot) /\ WF_vars(Exit)
    /\ \A w \in Drive :
        /\ WF_vars((PollError(w) \/ PollFirst(w) \/ PollChanged(w)) /\ UNCHANGED workerVars)
        /\ WF_vars(Poll(w) /\ UNCHANGED workerVars)
        /\ WF_vars(Deliver(w) /\ UNCHANGED workerVars)
        /\ WF_vars(SpinUp(w) /\ UNCHANGED workerVars)
        /\ WF_vars(WorkerStep(w) /\ (pc[w] \in Unguarded => Dead(w)))
        /\ SF_vars(TakeSlot(w))
        /\ WF_vars(EjectAct(w))

FairSpec == Spec /\ Fairness

(***************************************************************************)
(* Properties.                                                             *)
(***************************************************************************)

Places == {"idle", "slot", "queued", "kind", "scan", "retry", "probe", "admit",
           "admitBluRay", "prepare", "decrypt", "rescan", "begin", "rip", "verify",
           "record", "complete", "handOff", "encode", "recordBluRay", "completeBluRay",
           "handOffBluRay", "fileBluRay", "failing", "eject"}

\* Every variable has its type.
TypeOK ==
    /\ MonitorTypeOK
    /\ known \subseteq Disc /\ ripDir \subseteq known
    /\ handed \subseteq Disc /\ copy \subseteq Disc /\ owed \subseteq Disc
    /\ forgotten \in [Disc -> 0 .. jobs]
    /\ marked \in [Disc -> SUBSET Nat]
    /\ jobs \in 0 .. MaxJobs
    /\ jobDisc \in [JobIds -> Disc \cup {None}]
    /\ jobState \in [JobIds -> JobStates \cup {"none"}]
    /\ slot \in Drive \cup {None}
    /\ pc \in [Drive -> Places]
    /\ shown \in [Drive -> Busy \cup Terminal \cup {"absent", "empty", "tray_open", "loading"}]
    /\ scan \in [Drive -> 0 .. ScanAttempts]
    /\ moved \in [Drive -> BOOLEAN]
    /\ disc \in [Drive -> Disc \cup {None}]
    /\ job \in [Drive -> 0 .. jobs]
    /\ fromCopy \in [Drive -> BOOLEAN]
    /\ title \in [Drive -> Nat]
    /\ cancelWork \in [Drive -> BOOLEAN]
    /\ cancelled \in [Drive -> BOOLEAN]
    /\ eject \in [Drive -> BOOLEAN] /\ cancel \in [Drive -> BOOLEAN]
    /\ requests \in 0 .. MaxRequests /\ restarts \in 0 .. MaxRestarts /\ jams \in 0 .. MaxJams
    /\ stopped \subseteq 1 .. jobs

Working(w) == pc[w] \notin {"idle", "slot", "queued"}

\* One disc is worked on at a time across every drive (discSlot, worker.go:65):
\* a worker past takeDiscSlot is the one whose token is in the slot.
OneDiscAtATime == \A w \in Drive : Working(w) => slot = w

\* A disc with a rip is never ripped again, even when two drives hold copies of
\* it: the check in handleDisc is still true when the rip is recorded.
NoDoubleRip ==
    \A w \in Drive : pc[w] \in {"prepare", "decrypt", "rescan", "begin", "rip", "verify",
                               "record", "encode", "recordBluRay"}
        => disc[w] \notin ripDir

\* "A partially ripped disc must not be recognised as done on reinsertion"
\* (worker.go:700): every title of a disc with a rip_dir was written and
\* verified, across failed attempts, cancellations and crashes.
RippedIsWhole == \A d \in ripDir : marked[d] = 1 .. TitleCount[d]

\* A disc is not retried forever: no more than max_rip_attempts jobs count
\* against it, however the daemon is interrupted and the disc reinserted.
AttemptsAreCapped == \A d \in Disc : AttemptsForDisc(d) <= MaxRipAttempts

\* A job that is not finished has a worker, unless its context was cancelled
\* under it: a restart leaves no phantom attempt behind (store.go:509).
UnfinishedJobHasAWorker ==
    \A i \in JobIds :
        daemon = "up" /\ jobState[i] \in {"pending", "ripping"} /\ i \notin stopped
            => \E w \in Drive : job[w] = i

\* A worker about to open the tray on a DVD it did not fail has a rip of it
\* on record, or had until a person forgot the disc.
EjectingIsDone ==
    \A w \in Drive :
        pc[w] = "eject" /\ ~ EjectOnFailure /\ disc[w] \notin BluRay
            => disc[w] \in ripDir \cup owed

Settled(w) ==
    /\ daemon = "up" /\ pc[w] = "idle"
    /\ started[w] /\ events[w] = <<>> /\ blocked[w] = None /\ current[w] = To(Status(w))

\* Once the events are handled a drive shows what it is: the stale events, the
\* discs that left while they were being read and the trays opened by others
\* leave no wrong state behind.  A drive that is gone shows it when its error was
\* reported; of a status that is unknown nothing is said (DamagedIsAttempted).
SettledIsShown ==
    \A w \in Drive : Settled(w) =>
        /\ Status(w) = "disc_ok" => shown[w] \in Terminal
        /\ Status(w) \in DOMAIN Rest \ {"error"} => shown[w] = Rest[Status(w)]
        /\ told[w] = "error" => shown[w] = "absent"

\* The programs that nothing but a cancellation ends do end.
ProgramsEnd == \A w \in Drive : []<>(pc[w] \notin Unguarded)

\* A readable disc that is left in its drive is dealt with in the end, as long as
\* ffmpeg, ffprobe and dvdbackup do not hang: the slot comes free, the work ends,
\* and the drive shows how it ended.
DiscIsDealtWith ==
    ProgramsEnd =>
        \A w \in Drive :
            <>[](Status(w) = "disc_ok") => <>[](pc[w] = "idle" /\ shown[w] \in Terminal)

(***************************************************************************)
(* What the code's comments and documents say and the code does not do.    *)
(***************************************************************************)

\* A cancellation "is not a failure: nothing is wrong with the disc"
\* (worker.go:392): a drive whose work a person stopped does not show failed.
CancelIsNotAFailure == \A w \in Drive : shown[w] = "failed" => ~ cancelled[w]

\* Cancelled jobs do not count as attempts (store.go:490): a job whose context
\* was cancelled is not left unfinished when its worker is done with it.
CancelledJobIsFinished ==
    \A i \in stopped :
        daemon = "up" /\ (\A w \in Drive : job[w] # i)
            => jobState[i] \notin {"pending", "ripping"}

\* onRipped "is called once a disc is completely ripped and verified"
\* (worker.go:39): the titles of a disc recorded as ripped are queued.
RippedIsHandedOn ==
    \A d \in ripDir : daemon = "up" /\ (\A w \in Drive : disc[w] # d) => d \in handed

\* Eject "refuses while a rip is running" (worker.go:122).
EjectLeavesWorkAlone ==
    [][\A w \in Drive : eject[w] /\ ~ eject'[w] /\ open'[w] /\ ~ open[w]
            => shown[w] \notin Busy]_vars

\* "An open tray must only ever mean success" (proto/drive.go:66): the disc a
\* worker hands back has a rip.
OpenTrayMeansDone ==
    [][\A w \in Drive : pc[w] = "eject" /\ open'[w] /\ ~ open[w]
            => inside[w] \in ripDir \cup owed]_vars

\* Cancel answers "is not doing anything to cancel" (worker.go:134): a request that
\* comes too late does not end the daemon.
LateCancelIsRefused ==
    [][\A w \in Drive : cancel[w] /\ ~ cancelWork[w] /\ daemon = "up" /\ daemon' = "down"
            => restarts' # restarts]_vars

\* ForgetDisc clears the record "so it will be ripped again" (store.go:365).
ForgottenIsRippedAgain == owed \cap ripDir = {}

\* "Busy reports whether the drive is actively working on a disc"
\* (proto/drive.go:91): a worker with nothing to do does not show a busy drive.
IdleIsNotBusy == \A w \in Drive : Settled(w) => shown[w] \notin Busy

\* "A scratched disc reports MEDIUM ERROR [...] the disc is there and should be
\* attempted" (drive/sense_test.go:29): a drive whose status is unknown shows how
\* an attempt at its disc ended.
DamagedIsAttempted ==
    \A w \in Drive :
        Settled(w) /\ plugged[w] /\ inside[w] \in Damaged /\ Status(w) = "unknown"
            => shown[w] \in Terminal
=============================================================================
