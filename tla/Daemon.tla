------------------------------- MODULE Daemon -------------------------------
(***************************************************************************)
(* The daemon around its workers (internal/daemon/daemon.go): which drives *)
(* are watched, who runs discovery and the health checks, how the MakeMKV  *)
(* registration key is replaced (makemkv/key.go), and how the goroutines   *)
(* that Run starts come to an end.                                         *)
(*                                                                         *)
(* syncDrives and runHealthChecks are called from four places: the drive   *)
(* ticker; the health ticker, which here also stands for Run's own calls   *)
(* before it starts anything; a rescan request on the unix socket; and a   *)
(* rescan request over HTTP.  Each is a process.  A worker runs with the   *)
(* context of whoever started it: the daemon's, or, from an HTTP rescan,   *)
(* the request's, which ends with the request.  Disc work is in RipWorker: *)
(* here a worker is alive until its context is done.  Of d.health only the *)
(* entry for the key is kept.                                              *)
(***************************************************************************)
EXTENDS Integers

CONSTANTS
    Drive,
    Disabled,        \* drives the config disables
    AutoRefreshKey,
    TooOld,          \* MakeMKV is too old to accept any key
    RefreshInterval, \* KeyRefreshInterval, in ticks of a clock
    MaxEvents,       \* bound: requests, drives plugged, failures, crashes and changes
    None

ASSUME DaemonConstants ==
    /\ Disabled \subseteq Drive
    /\ AutoRefreshKey \in BOOLEAN /\ TooOld \in BOOLEAN
    /\ RefreshInterval \in Nat \ {0}
    /\ MaxEvents \in Nat
    /\ None \notin Drive
    /\ None \notin {"tick", "health", "socket", "http"}

Caller == {"tick", "health", "socket", "http"}

VARIABLES
    ctxDone,    \* the daemon's context is cancelled
    returned,   \* Run has returned
    serving,    \* the accept loop
    clients,    \* clients connected to the socket
    attached,   \* drives that Discover finds
    moved,      \* drives not at the device path their worker has, or will be given
    workers,    \* d.workers: whose context the drive's worker was given
    running,    \* how many goroutines run a worker for the drive
    syncMu, keyMu,
    at,         \* where each caller is
    gone,       \* the HTTP client did not wait for its answer
    todo,       \* drives its syncDrives has still to look at
    starting,    \* the drive it is about to start a worker for
    verdict,    \* what each caller's CheckKey said
    settings,   \* the key in settings.conf
    temp,       \* the temporary file beside it
    fetched,    \* the key that was fetched
    expired,    \* the old key has expired
    page,       \* the key that is published
    online,
    tried, since, \* keyRefreshTried, time since lastKeyRefresh
    health,     \* the key's entry in d.health
    events      \* how much has happened so far, bounded

driveVars == <<attached, moved, workers, running, syncMu, todo, starting>>
keyVars == <<keyMu, verdict, settings, temp, fetched, tried, since, health>>
lifeVars == <<ctxDone, returned, serving, clients>>
worldVars == <<expired, page, online>>
vars == <<at, gone, driveVars, keyVars, lifeVars, worldVars, events>>

\* What a starting daemon has in memory.  Run looks for drives and checks the
\* key before it starts its goroutines.
Boot ==
    /\ ctxDone = FALSE /\ returned = FALSE /\ serving = "starting" /\ clients = 0
    /\ moved = {}
    /\ workers = [d \in Drive |-> "none"] /\ running = [d \in Drive |-> 0]
    /\ syncMu = None /\ keyMu = None
    /\ at = [c \in Caller |-> IF c = "health" THEN "sync" ELSE "idle"]
    /\ gone = FALSE
    /\ todo = [c \in Caller |-> {}] /\ starting = [c \in Caller |-> None]
    /\ verdict = [c \in Caller |-> "none"]
    /\ fetched = "none"
    /\ tried = FALSE /\ since = 0
    /\ health = "none"

Init ==
    /\ Boot
    /\ attached \in SUBSET Drive
    /\ settings \in {"none", "old"} /\ temp = "none"
    /\ expired = FALSE /\ page = "old" /\ online = TRUE
    /\ events = 0

Cancelled(c) == ctxDone \/ (c = "http" /\ gone)

\* Something that need not happen, and happens a bounded number of times.
Happens == events < MaxEvents /\ events' = events + 1

-----------------------------------------------------------------------------
(* Who calls *)

Ticks(c) ==
    /\ c \in {"tick", "health"} /\ at[c] = "idle" /\ ~ctxDone
    /\ serving # "starting"
    /\ at' = [at EXCEPT ![c] = IF c = "tick" THEN "sync" ELSE "check"]
    /\ UNCHANGED <<gone, driveVars, keyVars, lifeVars, worldVars, events>>

\* A rescan request arrives.  A socket's handler goes on reading requests for as
\* long as its client is there; the HTTP server stops with the daemon.
rescan(c) ==
    /\ at[c] = "idle" /\ Happens
    /\ \/ c = "socket" /\ clients > 0
       \/ c = "http" /\ serving # "starting" /\ ~ctxDone
    /\ at' = [at EXCEPT ![c] = "sync"]
    /\ UNCHANGED <<gone, driveVars, keyVars, lifeVars, worldVars>>

\* Workers that have the request's context when it ends.
RequestEnds == [d \in Drive |-> IF workers[d] = "request" THEN "ended" ELSE workers[d]]

\* The HTTP client goes away: net/http cancels the request's context.
GoesAway ==
    /\ at["http"] # "idle" /\ ~gone
    /\ gone' = TRUE
    /\ workers' = RequestEnds
    /\ UNCHANGED <<at, attached, moved, running, syncMu, todo, starting, keyVars,
                   lifeVars, worldVars, events>>

\* The call is over.  So is the context of an HTTP request when its handler
\* returns.
Over(c) ==
    /\ at' = [at EXCEPT ![c] = "idle"]
    /\ IF c = "http" THEN gone' = FALSE /\ workers' = RequestEnds
       ELSE UNCHANGED <<gone, workers>>

-----------------------------------------------------------------------------
(* Drives *)

\* Drives away from the device path their worker has, once Discover has looked: a
\* drive without a worker is given one with the path found now.
Found == moved \ {d \in attached : workers[d] = "none"}

\* Mutant: without the lock.
syncDrivesUnlocked(c) ==
    /\ at[c] = "sync"
    /\ moved' = Found
    /\ todo' = [todo EXCEPT ![c] = attached \ Disabled]
    /\ at' = [at EXCEPT ![c] = "drives"]
    /\ UNCHANGED <<gone, attached, workers, running, syncMu, starting, keyVars,
                   lifeVars, worldVars, events>>

\* syncDrives takes its lock and looks at the drives there are.
syncDrives(c) ==
    /\ at[c] = "sync" /\ syncMu = None
    /\ syncMu' = c
    /\ moved' = Found
    /\ todo' = [todo EXCEPT ![c] = attached \ Disabled]
    /\ at' = [at EXCEPT ![c] = "drives"]
    /\ UNCHANGED <<gone, attached, workers, running, starting, keyVars, lifeVars,
                   worldVars, events>>

\* Discover fails, and syncDrives with it.  Run itself returns the error.
Discover(c) ==
    /\ at[c] = "sync" /\ syncMu = None /\ Happens
    /\ Over(c)
    /\ returned' = (serving = "starting")
    /\ UNCHANGED <<attached, moved, running, syncMu, todo, starting, keyVars, ctxDone,
                   serving, clients, worldVars>>

\* The next drive: one that has a worker is left alone.  When it has moved the
\* code notes so, and its worker goes on with the device path it was given.
NextDrive(c, d) ==
    /\ at[c] = "drives" /\ d \in todo[c]
    /\ todo' = [todo EXCEPT ![c] = @ \ {d}]
    /\ IF workers[d] # "none" THEN UNCHANGED <<at, starting>>
       ELSE at' = [at EXCEPT ![c] = "start"] /\ starting' = [starting EXCEPT ![c] = d]
    /\ UNCHANGED <<gone, attached, moved, workers, running, syncMu, keyVars, lifeVars,
                   worldVars, events>>

\* UpsertDrive succeeds: the worker is registered, and its goroutine started with
\* the caller's context.
StartWorker(c) ==
    /\ at[c] = "start" /\ ~Cancelled(c)
    /\ workers' = [workers EXCEPT ![starting[c]] = IF c = "http" THEN "request" ELSE "daemon"]
    /\ running' = [running EXCEPT ![starting[c]] = @ + 1]
    /\ starting' = [starting EXCEPT ![c] = None]
    /\ at' = [at EXCEPT ![c] = "drives"]
    /\ UNCHANGED <<gone, attached, moved, syncMu, todo, keyVars, lifeVars, worldVars,
                   events>>

\* Mutant: the error return keeps the lock.
UpsertDriveKeepsLock(c) ==
    /\ at[c] = "start"
    /\ \/ Cancelled(c) /\ UNCHANGED events
       \/ ~Cancelled(c) /\ Happens
    /\ todo' = [todo EXCEPT ![c] = {}] /\ starting' = [starting EXCEPT ![c] = None]
    /\ Over(c)
    /\ returned' = (serving = "starting")
    /\ UNCHANGED <<attached, moved, running, syncMu, keyVars, ctxDone, serving,
                   clients, worldVars>>

\* UpsertDrive fails, and syncDrives with it.  Run itself returns the error.
UpsertDrive(c) ==
    /\ at[c] = "start"
    /\ \/ Cancelled(c) /\ UNCHANGED events
       \/ ~Cancelled(c) /\ Happens
    /\ syncMu' = None
    /\ todo' = [todo EXCEPT ![c] = {}] /\ starting' = [starting EXCEPT ![c] = None]
    /\ Over(c)
    /\ returned' = (serving = "starting")
    /\ UNCHANGED <<attached, moved, running, keyVars, ctxDone, serving, clients,
                   worldVars>>

\* syncDrives is done: a rescan goes on to the health checks.
EndSync(c) ==
    /\ at[c] = "drives" /\ todo[c] = {}
    /\ syncMu' = None
    /\ IF c = "tick" THEN Over(c)
       ELSE at' = [at EXCEPT ![c] = "check"] /\ UNCHANGED <<gone, workers>>
    /\ UNCHANGED <<attached, moved, running, todo, starting, keyVars, lifeVars,
                   worldVars, events>>

\* Worker.Run returns when its context is done.  Nothing takes the worker out
\* of d.workers.
WorkerEnds(d) ==
    /\ running[d] > 0
    /\ ctxDone \/ workers[d] = "ended"
    /\ running' = [running EXCEPT ![d] = @ - 1]
    /\ UNCHANGED <<at, gone, attached, moved, workers, syncMu, todo, starting,
                   keyVars, lifeVars, worldVars, events>>

-----------------------------------------------------------------------------
(* The registration key *)

\* What CheckKey says of the key: settings without one are read before makemkvcon
\* is asked, which then says that it is too old to accept any.
KeyStatus ==
    IF settings = "none" THEN "bad"
    ELSE IF TooOld THEN "tooOld"
    ELSE IF settings = "new" \/ (settings = "old" /\ ~expired) THEN "ok"
    ELSE "bad"

\* CheckKey.  makemkvcon fails when its context ends and may fail by itself;
\* settings that cannot be read count as settings without a key.
Checked(c) ==
    LET asks == settings # "none" IN
    \/ /\ ~(asks /\ Cancelled(c))
       /\ verdict' = [verdict EXCEPT ![c] = KeyStatus] /\ UNCHANGED events
    \/ asks /\ Cancelled(c) /\ verdict' = [verdict EXCEPT ![c] = "error"] /\ UNCHANGED events
    \/ asks /\ ~Cancelled(c) /\ verdict' = [verdict EXCEPT ![c] = "error"] /\ Happens
    \/ asks /\ verdict' = [verdict EXCEPT ![c] = "bad"] /\ Happens

\* A refresh is tried only for a key that is missing or expired.
CheckKey(c) ==
    /\ at[c] = "check"
    /\ Checked(c)
    /\ at' = [at EXCEPT ![c] =
                IF verdict'[c] = "bad" /\ AutoRefreshKey THEN "refresh" ELSE "publish"]
    /\ UNCHANGED <<gone, driveVars, keyMu, settings, temp, fetched, tried, since,
                   health, lifeVars, worldVars>>

\* Mutant: the early return keeps the lock.
refreshKeyKeepsLock(c) ==
    /\ at[c] = "refresh" /\ keyMu = None
    /\ keyMu' = c
    /\ IF tried /\ since < RefreshInterval
       THEN at' = [at EXCEPT ![c] = "publish"] /\ UNCHANGED <<tried, since>>
       ELSE tried' = TRUE /\ since' = 0 /\ at' = [at EXCEPT ![c] = "fetch"]
    /\ UNCHANGED <<gone, driveVars, verdict, settings, temp, fetched, health,
                   lifeVars, worldVars, events>>

\* Mutant: the lock covers the throttle, and not the attempt.
refreshKeyUnlocked(c) ==
    /\ at[c] = "refresh" /\ keyMu = None
    /\ IF tried /\ since < RefreshInterval
       THEN at' = [at EXCEPT ![c] = "publish"] /\ UNCHANGED <<tried, since>>
       ELSE tried' = TRUE /\ since' = 0 /\ at' = [at EXCEPT ![c] = "fetch"]
    /\ UNCHANGED <<gone, driveVars, keyMu, verdict, settings, temp, fetched, health,
                   lifeVars, worldVars, events>>

\* refreshKey takes its lock; an attempt is made once per interval.
refreshKey(c) ==
    /\ at[c] = "refresh" /\ keyMu = None
    /\ IF tried /\ since < RefreshInterval
       THEN at' = [at EXCEPT ![c] = "publish"] /\ UNCHANGED <<keyMu, tried, since>>
       ELSE keyMu' = c /\ tried' = TRUE /\ since' = 0 /\ at' = [at EXCEPT ![c] = "fetch"]
    /\ UNCHANGED <<gone, driveVars, verdict, settings, temp, fetched, health,
                   lifeVars, worldVars, events>>

\* The page as FetchBetaKey got it, if it did.
FetchBetaKey(c) == IF Cancelled(c) \/ ~online THEN "none" ELSE page

\* RefreshBetaKey fetches the published key, and has something to do when another
\* one is in place.
RefreshBetaKey(c) ==
    /\ at[c] = "fetch"
    /\ IF FetchBetaKey(c) \in {"none", settings}
       THEN /\ at' = [at EXCEPT ![c] = "recheck"] /\ keyMu' = None
            /\ UNCHANGED <<fetched, temp>>
       ELSE /\ at' = [at EXCEPT ![c] = "write"]
            /\ fetched' = FetchBetaKey(c) /\ temp' = "torn"
            /\ UNCHANGED keyMu
    /\ UNCHANGED <<gone, driveVars, verdict, settings, tried, since, health, lifeVars,
                   worldVars, events>>

\* WriteSettingsKey writes the temporary file out; a failure removes it.
WriteSettingsKey(c) ==
    /\ at[c] = "write"
    /\ \/ /\ temp' = "whole" /\ at' = [at EXCEPT ![c] = "install"]
          /\ UNCHANGED <<keyMu, fetched, events>>
       \/ /\ temp' = "none" /\ fetched' = "none" /\ at' = [at EXCEPT ![c] = "recheck"]
          /\ keyMu' = None /\ Happens
    /\ UNCHANGED <<gone, driveVars, verdict, settings, tried, since, health, lifeVars,
                   worldVars>>

\* It is renamed over settings.conf.
InstallSettings(c) ==
    /\ at[c] = "install"
    /\ settings' = (IF temp = "whole" THEN fetched ELSE temp)
    /\ temp' = "none" /\ fetched' = "none" /\ keyMu' = None
    /\ at' = [at EXCEPT ![c] = "recheck"]
    /\ UNCHANGED <<gone, driveVars, verdict, tried, since, health, lifeVars,
                   worldVars, events>>

\* CheckKey again, after an attempt.
Recheck(c) ==
    /\ at[c] = "recheck"
    /\ Checked(c)
    /\ at' = [at EXCEPT ![c] = "publish"]
    /\ UNCHANGED <<gone, driveVars, keyMu, settings, temp, fetched, tried, since,
                   health, lifeVars, worldVars>>

\* runHealthChecks replaces d.health with what this call found.  The first one
\* done, Run starts its goroutines.
runHealthChecks(c) ==
    /\ at[c] = "publish"
    /\ health' = verdict[c]
    /\ verdict' = [verdict EXCEPT ![c] = "none"]
    /\ Over(c)
    /\ serving' = IF serving = "starting" THEN "up" ELSE serving
    /\ UNCHANGED <<attached, moved, running, syncMu, todo, starting, keyMu, settings,
                   temp, fetched, tried, since, ctxDone, returned, clients, worldVars,
                   events>>

-----------------------------------------------------------------------------
(* Stopping *)

Connect ==
    /\ serving = "up" /\ ~ctxDone /\ clients = 0
    /\ clients' = 1
    /\ UNCHANGED <<at, gone, driveVars, keyVars, ctxDone, returned, serving,
                   worldVars, events>>

\* handleConn returns when its client has gone, and for nothing else.
ConnReturns ==
    /\ clients > 0 /\ at["socket"] = "idle"
    /\ clients' = 0
    /\ UNCHANGED <<at, gone, driveVars, keyVars, ctxDone, returned, serving,
                   worldVars, events>>

\* Mutant: nobody closes the listener.
serveIgnoresStop ==
    /\ serving = "up"
    /\ ~ctxDone /\ serving' = "failed" /\ Happens
    /\ UNCHANGED <<at, gone, driveVars, keyVars, ctxDone, returned, clients,
                   worldVars>>

\* serve fails, or sees its listener closed and waits for its handlers.
serve ==
    /\ serving = "up"
    /\ \/ ctxDone /\ clients = 0 /\ serving' = "down" /\ UNCHANGED events
       \/ ~ctxDone /\ serving' = "failed" /\ Happens
    /\ UNCHANGED <<at, gone, driveVars, keyVars, ctxDone, returned, clients,
                   worldVars>>

\* SIGTERM.
Stop ==
    /\ ~ctxDone
    /\ ctxDone' = TRUE
    /\ UNCHANGED <<at, gone, driveVars, keyVars, returned, serving, clients,
                   worldVars, events>>

\* What Run waits for.  The tickers end with the daemon's context, serve with
\* its handlers or by failing.  The status ticker, runTranscodes and serveHTTP end
\* with the context too and wait for nothing that is modelled here: the time they
\* take is time that Run takes.  The handlers of HTTP requests are not waited for.
WaitGroupDone ==
    /\ ctxDone /\ at["tick"] = "idle" /\ at["health"] = "idle"
    /\ serving \in {"down", "failed"}
    /\ \A d \in Drive : running[d] = 0

\* Run returns, stopped or told that serve failed, once its goroutines have.
Run ==
    /\ ctxDone \/ serving = "failed"
    /\ WaitGroupDone
    /\ returned' = TRUE
    /\ UNCHANGED <<at, gone, driveVars, keyVars, ctxDone, serving, clients, worldVars,
                   events>>

\* The daemon dies and is started again.  Nobody reads a temporary file it leaves.
Crash ==
    /\ Happens
    /\ ctxDone' = FALSE /\ serving' = "starting" /\ clients' = 0
    /\ moved' = {}
    /\ workers' = [d \in Drive |-> "none"] /\ running' = [d \in Drive |-> 0]
    /\ syncMu' = None /\ keyMu' = None
    /\ at' = [c \in Caller |-> IF c = "health" THEN "sync" ELSE "idle"]
    /\ gone' = FALSE
    /\ todo' = [c \in Caller |-> {}] /\ starting' = [c \in Caller |-> None]
    /\ verdict' = [c \in Caller |-> "none"]
    /\ fetched' = "none" /\ temp' = "none"
    /\ tried' = FALSE /\ since' = 0
    /\ health' = "none"
    /\ UNCHANGED <<returned, attached, settings, worldVars>>

-----------------------------------------------------------------------------
(* The world, and the specification *)

\* A drive is unplugged, or plugged in: where it was, or at another device path
\* (of two).
Plug(d) ==
    /\ Happens
    /\ \/ attached' = attached \ {d} /\ d \in attached /\ UNCHANGED moved
       \/ /\ d \notin attached /\ attached' = attached \cup {d}
          /\ moved' \in {moved \cup {d}, moved \ {d}}
    /\ UNCHANGED <<at, gone, workers, running, syncMu, todo, starting, keyVars,
                   lifeVars, worldVars>>

\* The old key expires; MakeMKV publishes another; the network comes and goes.
Change ==
    /\ Happens
    /\ \/ ~expired /\ expired' = TRUE /\ UNCHANGED <<page, online>>
       \/ page = "old" /\ page' = "new" /\ UNCHANGED <<expired, online>>
       \/ online' = ~online /\ UNCHANGED <<expired, page>>
    /\ UNCHANGED <<at, gone, driveVars, keyVars, lifeVars>>

Clock ==
    /\ tried /\ since < RefreshInterval
    /\ since' = since + 1
    /\ UNCHANGED <<at, gone, driveVars, keyMu, verdict, settings, temp, fetched,
                   tried, health, lifeVars, worldVars, events>>

CallStep(c) ==
    \/ syncDrives(c) \/ (\E d \in Drive : NextDrive(c, d)) \/ StartWorker(c)
    \/ Discover(c) \/ UpsertDrive(c) \/ EndSync(c)
    \/ CheckKey(c) \/ refreshKey(c) \/ RefreshBetaKey(c)
    \/ WriteSettingsKey(c) \/ InstallSettings(c) \/ Recheck(c) \/ runHealthChecks(c)

Next ==
    \/ \E c \in Caller : ~returned /\ Ticks(c)
    \/ \E c \in Caller : ~returned /\ rescan(c)
    \/ \E c \in Caller : ~returned /\ CallStep(c)
    \/ \E d \in Drive : ~returned /\ WorkerEnds(d)
    \/ \E d \in Drive : ~returned /\ Plug(d)
    \/ ~returned /\ GoesAway
    \/ ~returned /\ Connect
    \/ ~returned /\ ConnReturns
    \/ ~returned /\ serve
    \/ ~returned /\ Stop
    \/ ~returned /\ Run
    \/ ~returned /\ Crash
    \/ ~returned /\ Change
    \/ ~returned /\ Clock

Spec == Init /\ [][Next]_vars

\* Tickers tick, goroutines run, the clock advances.  Nothing says that a client
\* leaves, that anything fails, or that the daemon is ever stopped.
FairSpec ==
    /\ Spec
    /\ \A c \in Caller : WF_vars(~returned /\ (Ticks(c) \/ CallStep(c)))
    /\ \A d \in Drive : WF_vars(~returned /\ WorkerEnds(d))
    /\ WF_vars(~returned /\ ((ctxDone /\ serve) \/ Run))
    /\ WF_vars(~returned /\ Clock)

-----------------------------------------------------------------------------
(* Properties *)

\* Types: workers are in one of four stages, settings.conf and its temporary file
\* in one of theirs, and no drive is looked at that the configuration disables.
TypeOK ==
    /\ ctxDone \in BOOLEAN /\ returned \in BOOLEAN /\ gone \in BOOLEAN
    /\ serving \in {"starting", "up", "failed", "down"} /\ clients \in 0..1
    /\ attached \subseteq Drive /\ moved \subseteq Drive
    /\ todo \in [Caller -> SUBSET (Drive \ Disabled)]
    /\ workers \in [Drive -> {"none", "daemon", "request", "ended"}]
    /\ running \in [Drive -> Nat]
    /\ {syncMu, keyMu} \subseteq Caller \cup {None}
    /\ at \in [Caller -> {"idle", "sync", "drives", "start", "check", "refresh",
                          "fetch", "write", "install", "recheck", "publish"}]
    /\ starting \in [Caller -> Drive \cup {None}]
    /\ verdict \in [Caller -> {"none", "ok", "bad", "tooOld", "error"}]
    /\ health \in {"none", "ok", "bad", "tooOld", "error"}
    /\ settings \in {"none", "old", "new", "torn"} /\ temp \in {"none", "torn", "whole"}
    /\ fetched \in {"none", "old", "new"} /\ page \in {"old", "new"}
    /\ {expired, online, tried} \subseteq BOOLEAN
    /\ since \in 0..RefreshInterval

\* A drive never has two workers, however the tickers, a socket's rescan and an
\* HTTP rescan fall together (syncMu).
OneWorker == \A d \in Drive : running[d] <= 1

\* settings.conf always holds a whole file, whenever the daemon dies, and a key
\* once replaced does not come back, however the refreshes of several callers
\* fall together (keyMu, and the rename in WriteSettingsKey).
KeyNeverGoesBack ==
    [][settings' # "torn" /\ (settings = "new" => settings' = "new")]_vars

\* An enabled drive that stays plugged in is watched in the end, whatever
\* discovery ran into, by a worker that has its device path; unless its worker was
\* started by an HTTP rescan, or the drive has moved away from its worker.
DriveIsWatched ==
    \A d \in Drive \ Disabled :
        d \in attached ~> \/ d \notin attached
                          \/ running[d] = 1 /\ d \notin moved
                          \/ workers[d] # "none" /\ d \in moved
                          \/ workers[d] \in {"request", "ended"}
                          \/ ctxDone \/ returned

\* A drive plugged in later is picked up, and its stable id is what identifies it
\* (the comments in Run and syncDrives say so).  One that comes back at another
\* device path keeps the worker that has the old one.
MovedDriveIsWatched ==
    \A d \in Drive \ Disabled :
        d \in attached ~> \/ d \notin attached
                          \/ running[d] = 1 /\ d \notin moved
                          \/ workers[d] \in {"request", "ended"}
                          \/ ctxDone \/ returned

\* Once told to stop, the daemon returns (or dies), unless a client of the socket
\* stays connected.
StopEnds == ctxDone ~> returned \/ ~ctxDone \/ clients > 0

\* When a valid key is published and stays within reach of a daemon that keeps
\* running, the key is accepted in the end and reported so for good: neither the
\* throttle nor a late answer of another caller prevents it.
KeyComesBack ==
    (AutoRefreshKey /\ <>[](/\ ~TooOld /\ online /\ (page = "old" => ~expired)
                            /\ ~ctxDone /\ ~returned))
        => <>[](health = "ok")

\* A drive plugged in later is picked up without restarting the daemon (the
\* comment in Run says so).  A worker that an HTTP rescan started ends with the
\* request and is never replaced.
DriveStaysWatched ==
    \A d \in Drive \ Disabled :
        <>[](d \in attached /\ ~ctxDone /\ ~returned) => <>[](running[d] = 1)

\* Run blocks until ctx is cancelled, and then returns (its comment says so; the
\* code waits for the clients of the socket as well).
StopReturns == ctxDone ~> returned \/ ~ctxDone
=============================================================================
