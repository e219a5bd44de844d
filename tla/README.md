# hellbox in TLA+

hellbox rips the discs put into its drives, encodes the titles, and files them
in a media library; a terminal program, slay, talks to the daemon over a socket,
and a Rails application keeps a catalog of the discs from the daemon's event
stream. These modules model the daemon, its client and the stream, from the source
under `src/`. `PROJECT.json` gives the lines every definition stands for, the
runs, the theorems, and the hazards the properties are aimed at.

## The system

| Part | Code | Here |
| --- | --- | --- |
| Drive monitor: polls a drive, reports its changes | `internal/drive/monitor.go` | `DriveMonitor` |
| Worker of a drive: scan, admit, decrypt, rip, verify, eject | `internal/daemon/worker.go`, `state.go` | `RipWorker` |
| Blu-ray path: one encode from disc to file | `internal/daemon/bluray.go` | `RipWorker` |
| Discs, titles and jobs | `internal/store/store.go` | `RipWorker`, `DiscExtraction` |
| One disc from directory to last title: decrypted copy, rescan, titles, watchdog | `internal/daemon/worker.go` (`rip`), `native.go`, `internal/decrypt`, `makemkv`, `dvd` | `DiscExtraction` |
| Transcode queue and its runner | `internal/daemon/transcode.go`, `internal/store/transcode.go` | `TranscodeQueue` |
| Filing into the library | `internal/daemon/library.go` | `TranscodeQueue` |
| `Run`, drive discovery, health checks, registration key, stop | `internal/daemon/daemon.go`, `internal/makemkv/key.go` | `Daemon` |
| Unix socket, its client, the terminal program | `internal/daemon/server.go`, `internal/client`, `internal/tui` | `ControlSocket` |
| Event hub | `internal/api/hub.go` | `EventHub` |
| `GET /v1/events`, the bridge and its cursor | `internal/api/server.go`, `slay/bin/bridge`, `slay/lib/hellboxd/stream.rb` | `EventStream`, `EventFeed` |
| Title lists: playlists, robot output, DVD sweep, fingerprint, library plan | `internal/bluray`, `makemkv`, `dvd`, `disc`, `library` | `TitleLists`, `DiscReading` |
| Regions and protection | `internal/drive/region.go`, `protection.go` | `DriveRules` |
| Verification of a file | `internal/verify` | `Verification` |
| Choice of streams | `internal/transcode/select.go` | `StreamChoice` |
| Groups of failures | `internal/disc/failure.go` | `Diagnosis` |
| Merging of guesses | `internal/identify/identify.go` | `Identification` |
| Catalog: ingest, identification, review, filing | `slay/app` | not modelled |

A disc goes from the tray through the monitor's event to its worker. The worker
waits for the one slot all drives share, scans the disc, looks it up in the
store, and rips it title by title. A disc that is wholly ripped is recorded, its
titles are queued, and the tray opens. The runner claims a title at a time,
encodes it and files it. Everything is published to the hub, and the bridge
applies it to the catalog. People open trays, pull cables, eject, cancel, forget
and re-queue at any moment, and the daemon may be stopped or die at any moment.

## Modules

### TranscodeQueue

The transcodes table is three functions on jobs (`state`, `attempt`, `created`);
the library is `links` (the records), `libBy` (whose file has each name) and
`libSame` (whether that file is still the job's current output). `pc` and `job` are
the runner's place in `runTranscodes` and `transcodeOne`; `wake` is the token in
`transcodeWake`. Two goroutines file titles, the runner and a worker with a
Blu-ray; `fstep` is each one's place in `fileTitle`, which reads, links and
records in three steps. A request is split where another process may come
between its store calls: `queue.retry` reads the row, resets it, nudges the
runner; a worker with an encoded Blu-ray records its directory, then its row, then
files it. `spent` and `overtaken` are history: encodes that ended by themselves,
and jobs queued again under a running encode. A name is a constant of the job
(`PathOf`).

### DriveMonitor

The drive is `plugged`, `open`, `inside`, `ready`, and `Status` is what a reading
returns: a status, or an error when the drive cannot be reached. A sense that says
nothing of the medium, as from a damaged disc, is the status unknown and no error
(`statusFromSense`), and an event with an error carries the same status (`To`). The
monitor polls; a poll is one of the branches of `Monitor.Run`.
`blocked` is the event `emit` is waiting to send on a full channel: while it waits
there is no poll. Time is abstract with one assumption, in the guard of `Moves`
and `SpinUp`: while the monitor polls, a person does not move a tray twice, and a
disc does not spin up, between two polls. `Flicker` is exempt from it, and may also
make a drive answer something odd for a moment. A not-ready or unknown reading is
believed at some poll after the first that gave it.

### RipWorker

Extends `DriveMonitor` with the worker of each drive. `pc[w]` is its place in
`handleDisc`, `rip` or `handleBluRay`; consecutive store calls are one step unless
the outside can come between them with effect. `Dead(w)` is a cancelled context:
a person cancelled the work or the daemon is stopping. A store call with a dead
context writes nothing, and several actions differ only in that. `moved` says that
the disc the work began on has left the drive, so that it cannot be read to its
end. `Eject` and `Cancel` look at the worker's state without a lock and act later
(`EjectCheck` and `EjectAct`, `CancelCheck` and `CancelAct`); a cancel function that has
been reset in between is nil, and calling it ends the daemon, unless the HTTP server
recovers it (`CancelLate`; the read is a data race, so the old function may be called
too, which stops nothing). An event whose status is unknown and that carries no error leaves the worker as it is: `handleEvent` has no case
for it. `handed`, `stopped` and `owed` are history: discs that reached the queue, jobs
whose context was cancelled, discs forgotten and not taken up again. A title is
ripped or not; how, is the next module.

### DiscExtraction

`Worker.rip` and everything below it, for one disc. `pc` is its place; `made`,
`held`, `oversized` and `marker` are the decrypted copy on disk, `finished` (history)
says that dvdbackup really ended well on it. `list` is which title each index
means: the drive's list, or the copy's after `rescanCopy`, each numbered on its own.
`proc` is the external program, which may write, hang, go silent, talk without
progress, ignore SIGINT (`deaf`), exit early or exit well with too little. `unread`,
`quiet` and `fired` are its watchdog and reader. `native` chooses the path:
makemkvcon writes into a staging directory and the file is renamed, ffmpeg writes to
the final name. `left` is what the directories of earlier attempts hold. An
attempt may fail anywhere or be cancelled, a person may forget the disc, which
clears its directory's record and nothing else, and the daemon may die between any two
steps; the next attempt gets a directory of its own and the same copy. `recorded`
(history) says that this attempt's rip was put on record.

### Daemon

`Run` and the goroutines it starts. Four callers run `syncDrives` and
`runHealthChecks`: two tickers, a rescan on the socket and a rescan over HTTP; `at[c]`
is each one's place, `syncMu` and `keyMu` are the locks. `workers[d]` is `d.workers`:
whose context the worker of a drive was started with; `running[d]` counts the
goroutines. A drive in `moved` is at another device path than its worker was given:
`syncDrives` notes the move and leaves the worker as it is. `Discover` is the discovery
that fails. The status ticker, `runTranscodes` and `serveHTTP` are waited for by `Run`
as well; they end with the context and wait for nothing modelled here, so their time
is part of the time `Run` takes (`WaitGroupDone`). The key's file is `settings`, with
`temp` written beside it and renamed over it; `tried` and `since` are the throttle. `serve`, the clients and `Run` are how
a stop ends. The daemon may die at any step; drives come and go, the key expires, a
new one is published, the network fails.

### ControlSocket

One client and the daemon's end of its connection. In the daemon: the `handler`, the
writer's channel `out`, the `pump` from the subscription `ch`; in the client: `runner`
(dial, read, wait), and the `inbox`; in the program: `pending` (the method of each
request by number), `panes` (which list's rows each pane shows), `shown`, the view and
the cursor. A connection may be lost at any time with messages on both ways. `Cap`
and `InboxCap` are the channels' sizes. Its specification is `SocketSpec`, so that it can be
extended together with `Daemon`, whose proofs it shares a module with.

### EventHub, EventStream, EventFeed

`EventHub` has the circular buffer as the code stores it (`ring`, `start`, `full`),
and `Since` with its two results. `EventStream` adds the handler, from `Subscribe`
through the replay to the live loop, with the subscription's channel and a
connection that blocks when it is full; and the bridge, which applies an event and
then moves its cursor. The connection may break with frames on it, some of which
are still read; the bridge may be killed, connected or not; the daemon may restart with ids from 1.
`EventFeed` is what that should amount to for a reader: events are given before
they are passed, and a reader is told when, and only when, more wait than are kept.

### DiscReading and its rules

`DriveRules`, `Verification`, `TitleLists`, `StreamChoice`, `Diagnosis` and
`Identification` have the daemon's pure algorithms as operators that keep the source's
names, each with the constants for what it reads. `Lists` has what their loops and
sorts do with a slice, said by the result: a filter is the positions it keeps, in rising
order; a sort is the order it puts the positions in, ties by position, as
`sort.SliceStable` does (`sort.Slice` is used on keys that tell all items apart, or
where equal items are the same).

`DiscReading` feeds them: in a behaviour of one `job`, items (playlists, robot lines,
titles, words, streams, printed lines, candidates) are read one by one in every order,
and `out` is what the code returns of those read so far; `scan` is what the callback of
`Scan` has put into its maps. Each property compares `out` with a definition that does
not follow the code. A text is a member of a small set with the attributes that the code
looks at; a digest is what it is taken of; a confidence is in hundredths, and `RoundsDown`
names the pairs whose difference is 0.20 and comes out below it in float64. A region is
read under every configuration that `ripSource` looks at. The DVD sweep
(`Enumerate`, `scanWithRetry`) has steps of its own, under an attempt's deadline and a
cancellation.

## Runs

| Run | Instance | Shows |
| --- | --- | --- |
| `queue` | a DVD title and a Blu-ray, 2 requests, 1 stop, 1 step of the clock, with fairness | `NoOrphanedClaim`, `NoLostWakeup`, `AttemptsAreSpent`, `NeverClobbers`, `JobSettles`, `CompleteIsFiled` |
| `monitor` | 1 drive, a readable, an unreadable and a damaged disc, channel of 2, 6 movements, 1 flicker | `EveryEventIsATransition`, `SettledIsReported` |
| `rip_one_drive` | an encrypted DVD with 2 titles, a Blu-ray and a damaged disc, 2 scans, 1 request, 1 stop | `RippedIsWhole`, `UnfinishedJobHasAWorker`, `EjectingIsDone`, `SettledIsShown` |
| `rip_two_drives` | 2 interchangeable drives and copies of one disc, 1 stop, 1 flicker | `OneDiscAtATime`, `NoDoubleRip` |
| `rip_liveness` | 2 drives, 1 stop, with fairness | `DiscIsDealtWith` |
| `extraction` | a disc of 2 titles on either path, any part of it offered by the drive, 2 attempts, 1 crash, titles of 2 readings, a timeout of 1 tick, with fairness | `ReusedIsFinished`, `RecordedIsTheDisc`, `StagedUntilDone`, `KeptForRetry`, `TitleEnds`, `CancelEnds` |
| `daemon` | 1 drive at either of 2 device paths, 4 callers, an old key and a new one, 2 events of the outside, with fairness | `OneWorker`, `KeyNeverGoesBack`, `DriveIsWatched`, `StopEnds`, `KeyComesBack` |
| `client` | channels of 1, lists of 2 rows, 3 keys, losses or restarts, with fairness | `NoSendOnClosed`, `ListsShowTheirOwn`, `RequestIsAnswered`, `ScreenConverges`, `CloseEnds` |
| `reading` | sequences of 1 to 5 items, by job (`MCDiscReading`), 2 regions with every mask and every configuration, sweeps of up to 3 titles in 2 attempts | `TitlesAreTheDiscs` (playlists, robot lines, sweep, fingerprint), `ConclusionsFollow` (filing, name, streams, failures, guesses), `CopyOnlyIfNeeded`, `AcceptedIsWhole` |
| `stream` | buffer of 3, 6 events, 2 breaks or kills, with fairness | `NoSilentGap`, `CompleteIsHonest`, `EventArrives`, refinement of `EventFeed` (`IsAFeed`) |
| `stream_faults` | subscription of 1 event, 1 restart of the daemon | `InOrderOnce` |
| `http_rescan` | as `daemon` | `DriveStaysWatched` is violated: a drive that a rescan over HTTP finds has a worker until the request is answered, and never again |

The bounds are named constants. They are chosen so that each cap is met and
passed: a title can use up its two attempts, a channel fills, the buffer wraps
more than once, a disc is taken out and put back between any two steps of a
worker. `MaxJobs` never stops a behaviour of the passing runs; in `rip_one_drive`
one attempt and one restart allow three jobs per disc at most. In `extraction` two
titles are the fewest for which an index can mean different titles, and two attempts
the fewest for which a copy is reused. In `daemon` one drive is enough for two callers
to compete for; the proofs are for any set. In `client` channels of one are full
after one message, so that every wait of one goroutine on another occurs. Runs that
reach their last movement or event stop there, so deadlock is not checked in them. In
`rip_one_drive` no drive flickers and in `stream` no channel overflows: what
happens then is in the next table. `JobSettles`, `CompleteIsFiled` and `DiscIsDealtWith`
have a premise in their own statement, that the programs nothing guards do not hang
(see Fairness). `SettledIsReported` does not tell a drive that is gone from one whose
status is unknown, `SettledIsShown` says nothing of a drive whose status is unknown, and
`DriveIsWatched` asks of a drive that moved under its worker only that it has one: the
next table has what the code does there.

Each module also has a type invariant (`TypeOK`, `MonitorTypeOK`, `HubTypeOK`,
`SocketTypeOK`), and a few plainer properties that hold on the same instances and are not part of a run:
`NoDoubleRip` with one drive, `AttemptsAreCapped`, `RingIsTheLatest` (which is proved),
`SinceIsTheRest`, and `SweepSettles` under `FairSpec`. `RecordedIsTheDisc`,
`TitlesAreTheDiscs` and `ConclusionsFollow` are conjunctions; each conjunct that stands for
an algorithm of its own has a mutant that breaks it.

## Statements the code does not keep

These sentences of comments are stated as properties at the end of the modules, and
TLC refutes them. The first is the run `http_rescan`. Where a configuration is named,
`tlc -config <it> <module>` shows the behaviour; where it names another property, or a
run is named, the property is to be put in place of the one there.

| Property | Instance | What happens |
| --- | --- | --- |
| `DriveStaysWatched` | `MCHttpRescan.cfg`, `MCDaemon` | see above |
| `StopReturns` | `MCStopWaits.cfg`, `MCDaemon` | a client that stays connected keeps a stopped daemon from returning |
| `MovedDriveIsWatched` | `MCHttpRescan.cfg`, `MCDaemon` | a drive that comes back under another device path has a worker that polls the old one |
| `UnplugIsReported` | `MCMonitorUnplug.cfg`, `MCDriveMonitor` | a drive unplugged after an unknown status is not reported as gone |
| `QueuedIsClaimable` | `MCQueueBudget.cfg`, `MCTranscodeQueue` | a title queued again after two attempts is pending for ever |
| `InterruptedIsNotCharged` | `queue` | an interrupted encode stays charged to a title queued again under it |
| `RecordedIsNotRun` | `queue` | the runner encodes a Blu-ray's recorded row |
| `LibraryIsSameBytes` | `queue` | a second encode leaves the library with the first |
| `NameTakenByItselfOrAPerson` | `queue`, one name for both jobs | of two discs with one name the second is recorded as filed |
| `FailedWithinBudgetIsRequeued` | `queue` | nobody re-queues a failed title that has an attempt left |
| `CancelIsNotAFailure` | `MCRipCancelFails.cfg`, `MCRipWorker` | a cancelled rip is shown as failed |
| `CancelledJobIsFinished` | the same | a rip cancelled during a verify leaves an unfinished job that counts |
| `RippedIsHandedOn` | `MCRipNotHandedOn.cfg`, `MCRipWorker` | a cancel after the rip is recorded leaves its titles unqueued for ever |
| `DiscIsDealtWith` | `MCRipFlicker.cfg`, `MCRipWorker` | a drive not ready for a moment during a failing scan is never looked at again |
| `DamagedIsAttempted` | `MCRipDamaged.cfg`, `MCRipWorker` | a damaged disc answers with a status that `handleEvent` passes over; the drive shows what it showed before |
| `LateCancelIsRefused` | `MCRipCancelFails.cfg` | a cancel that comes as the work ends calls a nil function, and the daemon dies |
| `EjectLeavesWorkAlone` | `MCRipCancelFails.cfg` | an eject request opens the tray of a drive that has just started work |
| `OpenTrayMeansDone` | `rip_one_drive` | a shutdown after a Blu-ray's encode opens the tray with nothing recorded; with 4 movements, a disc swapped in during a rip from a copy is handed back unripped |
| `ForgottenIsRippedAgain` | `MCRipCancelFails.cfg` | a disc forgotten during its rip is recorded as ripped |
| `IdleIsNotBusy` | `MCRipCancelFails.cfg`, `MaxJams = 1` | a tray that does not open leaves an idle drive busy |
| `RippedHasAFile` | `MCExtractionStaleRows.cfg`, `MCDiscExtraction` | a title ripped by an earlier attempt and not by the recorded one is still marked as ripped, and has no file there |
| `NothingLooksFinished` | `extraction` | ffmpeg dies with half a title under its final name |
| `MarkedIsWhole` | `extraction` | while a copy is removed, its marker outlives some of its titles |
| `ScanIsWhole` | `MCReadingCutOff.cfg`, `MCDiscReading` | a deadline that passes while a title is probed ends the sweep as if the disc had no more titles |
| `CauseSurvives` | `MCReadingNoise.cfg`, `MCDiscReading` | the last lines are joined into one before noise is removed by the line, and a cause goes with the noise |
| `DefaultAudioIsKept` | `reading` | of several tracks the one with most channels is kept, whatever the disc's default is |
| `NeverForgottenMidRip` | `MCForgetMidRip.cfg`, `MCControlSocket` | the program refuses by a status up to a second old, and the daemon does not look |
| `NoSilentGap` | `MCStreamRestart.cfg`, `MCEventStream` | after a restart of the daemon the bridge skips new events; with `SubBuffer = 1`, `MaxBoots = 0`, an event dropped on a full channel is passed over silently |
| `ReplayableIsNotSkipped` | `stream` | a bridge killed after a reconcile skips events it could have replayed |

## Fairness

Goroutines run: the runner, the filers, the workers, the stream's handler, the
callers of `syncDrives`, a connection's handler, writer and pump, the client's loop
and the program's. A scan ends, because it has a deadline, and the rip of a title,
because it has a watchdog. A Blu-ray's probe, the decrypt, the scan of the copy, the
measuring of a title and an encode have neither: only a cancelled context kills their
programs, and only then are they fair. That they do not hang is an assumption about
ffmpeg, ffprobe, makemkvcon and dvdbackup, which no code sees to; it is the premise of
`DiscIsDealtWith` (`ProgramsEnd`) and of `JobSettles` and `CompleteIsFiled` (`EncodesEnd`).
In `DiscExtraction`, where that is what is shown, only the
clock, the reader and the watchdog are fair, and a program is fair in stopping when it
has been told to and heeds it. A request that has started finishes. The supervisor
starts the daemon again, and the bridge reconnects after three seconds. Tickers fire
again and again, and a status that stays outlasts the settle time. Three places
need strong fairness: the runner's `select` and the writer's channel in `ControlSocket`
(`Answers`), where Go chooses among ready cases at random or serves senders in
order, and the slot, where senders on a channel are served in order. Nothing is
assumed of people.

## Proofs

Every theorem is for all values of the constants; the bounds on requests, restarts
and events are constants too, so they hold for any number of those.

`TranscodeQueueProofs`, for any set of jobs, discs and names:

- `TypeCorrect`. The invariant `Typed` adds to the types that the runner has a job
  in hand whenever it is past its claim (`JobInHand`).
- `ClaimsAreHeld`. `NoOrphanedClaim` is inductive over `Typed`: a row becomes
  running only by the runner's own claim, a boot ends in `Reclaim` before anything
  is claimed, and every way out of `transcodeOne` writes the row first.
- `WakeupsArrive`. `WakeInv` covers the moment between an empty claim and the
  `select` too: work queued then must have left a token or have its nudge to come.
- `InterruptionsAreFree`. `Owed` says in every state of the runner how many
  attempts the row may be ahead of the encodes that ended.
- `FilingNeverClobbers`, an action property: only `FileLink` writes a name, and
  link(2) refuses one that is taken.

`RipWorkerProofs`, for any drives and discs:

- `OneDiscAtATimeHolds`, `NoDoubleRipHolds`, `RippedIsWholeHolds`, from one invariant
  `RipInv`. The slot makes the rest local to one worker: `Doing(w)` says for each place of
  a worker what it knows of its disc, and that stays true because no other worker is
  past the slot. `Marks` counts the titles.
- `UnfinishedJobHasAWorkerHolds`. A job is started and finished by the worker that has it, at
  places where it has one; a boot takes back what the daemon before it left.
- `EjectingIsDoneHolds`. What a worker saw of a disc when it was admitted, or recorded
  itself, holds until the tray opens; only a request to forget the disc takes it back,
  and that leaves it in `owed`.

`DriveProofs`, which builds on `RipWorkerProofs`:

- `EveryEventIsATransitionHolds`, for any size of the channel. `EventInv` joins the
  sequence a worker has been told, the channel and the event `emit` is blocked on into one
  that alternates and ends in what the monitor takes to be the state.
- `SettledIsShownHolds`: `Spec /\ [][Calm]_vars => []SettledIsShown`. `Calm` says of the
  steps that no loaded drive flickers out of readiness, that a tray opens when it is told
  to, and that the monitor never finds the channel full. It is what the run
  `rip_one_drive` has by its bounds (`MaxFlickers` and `MaxJams` are 0, and no more events
  than the channel holds can happen), and it is needed: a worker whose scan fails while the
  drive is not ready for a moment takes the disc to be gone, and between two polls the
  monitor sees no change to report (`MCRipFlicker.cfg`). The invariant says which report a
  worker acts on at each of its places, and that a disc reported as ready can only have left
  since the last poll. A drive whose status is unknown is not part of the statement; a
  drive whose error was reported is, and shows as absent.

`DiscExtractionProofs`, for any disc:

- `ReusedIsFinishedHolds` and `KeptForRetryHolds`, an action property. `CopyInv` says what
  the marker stands for at each step: a marker that outlived its copy would do harm
  only in the next attempt. `KeptForRetry` is stated with `recorded`, because a person may
  forget the disc between the record and the removal.
- `StagedUntilDoneHolds`. `StageInv` says when the staging directory can hold half a title.
- `RecordedIsTheDiscHolds`. `RecordInv` follows an attempt: what the lists of the drive, of the
  copy and of the rescan are at each step, that the titles before the one in hand are
  ripped, verified and marked, and what `SetDiscRipDir` therefore records. That the lists
  and the sums over them are what the code's loops compute is proved by induction: see below.

`ServiceProofs`, for any drives (`Daemon`) and channels of any size (`ControlSocket`):

- `OneWorkerHolds`. Who is inside `syncDrives` has `syncMu`, so the drive it found
  without a worker still has none when it starts one.
- `KeyNeverGoesBackHolds`, an action property: the same of `keyMu`, and what `temp` may
  hold at each step of the replacement.
- `NoSendOnClosedHolds`. `CloseInv`: `out` is closed after the handler and the pump are past
  their last send.
- `ListsShowTheirOwnHolds`. `AnswerInv`: every request and answer on its way, in whatever
  channel of whatever connection, fits what is pending under its number, for numbers
  are not used again.

`DiscReadingProofs`, for readings of any length, of any items the constants allow:

- `TitlesAreTheDiscsHolds`. The playlists, the robot output, the DVD's sweep and the
  fingerprint: the titles are those of the disc, and two discs have one fingerprint
  exactly when they have the same titles, each as often.
- `ConclusionsFollowHolds`. Filing, naming, the choice of streams, the group of a failure
  and the title the nets come to.
- `CopyOnlyIfNeededHolds`, for any number of regions, any masks and every configuration
  of the native path, the fallback and dvdbackup, and
  `AcceptedIsWholeHolds`, for any durations and streams.

One invariant, `ReadingInv`, serves all four: what has been read is of its kind, and
`out` is the rule's outcome for all of it. Two jobs need more. The playlists have a file
number each, which makes the lowest of a layout one playlist. Of the robot output
`ScanKeeps` says that the maps hold what the lines said last, which each line preserves.
The sweep is inductive as it stands, wherever it is cut off and however often it is
started again: what was read are titles of this DVD under the numbers the DVD gives them.

What the rules return is in `ReadingRules`, a lemma for each: `NameRule`, `SelectRule`,
`FailureRule`, `FilteredRule`, `PlaylistRule`, `ScanTitles`, `FingerprintRule`, `ShapeRule`,
`PlanRule`; and in `DiscReadingProofs` itself `ResolveRule`, `DecryptRule`, `DurationRule` and
`AcceptRule`. All the sorts and filters rest on `InOrderIs`, that a finite set can be listed
in every strict total order of it. A fingerprint needs that two sorted lists with the
same values, each as often, are the same list (`SameLists`, at the first place where they
would differ); the shape of a disc, that what a sorted list has in its middle is the duration
with no more than half of the titles above it (`MiddleIs`).

`EventStreamProofs`, for buffers of any size and any number of events:

- `BufferIsTheLatest` and `CompletenessIsHonest`. The invariant `HubInv` gives the
  id in every cell, by its distance from the oldest around the end of the buffer.
- `SinceReturnsTheRest`: what `Since` returns is the buffer after the cursor, in order.
- `InOrderOnceHolds`, for any number of broken connections, killed bridges, full
  subscriptions and restarts. `OrderInv` says that what is on the wire, what is to be replayed
  and what is in the subscription are each in order, and that the handler's `sent` is
  where the next may begin.
- `NoSilentGapHolds` and `FeedRefinement`: `Spec /\ [][KeepsUp]_vars => []NoSilentGap`,
  and the same for `IsAFeed`, the refinement of `EventFeed`. `KeepsUp` says that the daemon
  does not restart and that no event finds the subscription full; connections break and
  bridges are killed as often as they like. The run `stream` has it by its bounds
  (`MaxBoots` is 0 and the subscription holds all `MaxEvents`). It is needed, because ids
  start again at 1 after a restart and `Publish` drops an event for a subscriber that is
  full. `FeedInv` says where each event between the cursor and the latest is: handled, in
  hand, on the wire, to be replayed, or in the subscription. Each step of the stream is then
  a step of the feed or leaves it alone (`FeedSimulation`).

In `DiscExtraction` and `EventHub` lists and sums are recursive functions (`Since`, `Listed`,
`totalSecs`, `dedupedSecs`) that take the steps of the code's loops. What they compute for every
list is proved from the least number that would be a counterexample (`LeastNumber`,
`PassedOn`), and that such a function exists from the stretches of its loop (`LoopRuns`).

The assumptions are the named ones on the constants: sizes are natural numbers,
the buffer is not empty, `None` is no job and no frame, and so on. Every invariant and
every action property of a passing run is the statement of a theorem. Model-checked only
is liveness, with the fairness it stands on, which is out of the prover's reach.

## Not modelled

- The catalog (`slay/app`): its rows are changed by validations, callbacks and a
  person's edits, and nothing of it reaches back into the daemon. The bridge is
  modelled up to the point where an event is applied. An `enumerated` event replayed after
  a disc was confirmed (`slay/app/services/ingest.rb`) and a disc filed twice
  (`slay/app/services/file_disc.rb`) would be the first things to look at.
- Decoding of fixed layouts (IFO files, SCSI sense, region and protection bytes,
  libbluray's output) and of text (the nets of `internal/identify`, the key's forum
  page), ffmpeg's arguments, configuration, the terminal's layout, calls to outside
  catalogs. They have no state that the order of steps could spoil; the modules take
  what they yield as inputs.
- Listings and the `events` and `drives` tables of the store, which nothing reads to
  decide.
- A composition of worker, queue and library that follows a disc from tray to
  shelf: the hand-off is in both `RipWorker` and `TranscodeQueue`, and together they are
  beyond what TLC explores.
