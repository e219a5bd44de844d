---------------------------- MODULE ServiceProofs ----------------------------
(***************************************************************************)
(* What the daemon does beside its drives: the daemon itself (Daemon), and *)
(* the socket it serves with a client on it (ControlSocket).               *)
(***************************************************************************)
EXTENDS Daemon, ControlSocket, SequenceTheorems, TLAPS

-----------------------------------------------------------------------------
(***************************************************************************)
(* For any set of drives and any number of rescans, failures and restarts: *)
(* a drive never has two workers, and a key once replaced stays.           *)
(*                                                                         *)
(* Neither property is inductive.  OneWorker needs that whoever is inside  *)
(* syncDrives holds syncMu, so that the drive it found without a worker    *)
(* still has none when the worker is started.  KeyNeverGoesBack needs the  *)
(* same of keyMu and of what was compared before the temporary file is     *)
(* written: the key it holds is no older than the one in place.            *)
(***************************************************************************)

Stage == {"idle", "sync", "drives", "start", "check", "refresh", "fetch", "write",
          "install", "recheck", "publish"}

-----------------------------------------------------------------------------
(* One worker for each drive *)

Types ==
    /\ attached \subseteq Drive
    /\ at \in [Caller -> Stage]
    /\ todo \in [Caller -> SUBSET Drive]
    /\ starting \in [Caller -> Drive \cup {None}]
    /\ workers \in [Drive -> {"none", "daemon", "request", "ended"}]
    /\ running \in [Drive -> {0, 1}]

\* Whoever looks at the drives holds the lock, and has found no worker for the
\* drive it is about to start one for; a drive without a worker runs none.
SyncInv ==
    /\ \A c \in Caller : at[c] \in {"drives", "start"} => syncMu = c
    /\ \A c \in Caller : at[c] = "start" => starting[c] \in Drive /\ workers[starting[c]] = "none"
    /\ \A d \in Drive : workers[d] = "none" => running[d] = 0

WorkersInv == Types /\ SyncInv

LEMMA WorkersInit == Init => WorkersInv
BY DaemonConstants DEF Init, Boot, WorkersInv, Types, SyncInv, Stage, Caller

\* The end of a request takes no worker's entry away and makes none.
LEMMA RequestEndsKeeps ==
    ASSUME Types
    PROVE  /\ RequestEnds \in [Drive -> {"none", "daemon", "request", "ended"}]
           /\ \A d \in Drive : RequestEnds[d] = "none" <=> workers[d] = "none"
BY DEF Types, RequestEnds

\* A step outside syncDrives, which may end a request, keeps the invariant.
LEMMA Elsewhere ==
    ASSUME WorkersInv, NEW c \in Caller, NEW s \in Stage \ {"drives", "start"},
           at' = [at EXCEPT ![c] = s],
           UNCHANGED <<attached, running, syncMu, todo, starting>>,
           workers' = workers \/ workers' = RequestEnds
    PROVE  WorkersInv'
<1>1. Types'
  BY RequestEndsKeeps DEF WorkersInv, Types
<1>2. \A d \in Drive : workers'[d] = "none" <=> workers[d] = "none"
  BY RequestEndsKeeps DEF WorkersInv
<1>3. SyncInv'
  BY <1>2 DEF WorkersInv, Types, SyncInv
<1> QED BY <1>1, <1>3 DEF WorkersInv

LEMMA WorkersStep == WorkersInv /\ [Next]_vars => WorkersInv'
<1> SUFFICES ASSUME WorkersInv, [Next]_vars PROVE WorkersInv'
  OBVIOUS
<1>1. CASE UNCHANGED vars
  BY <1>1 DEF vars, driveVars, WorkersInv, Types, SyncInv
<1>2. ASSUME NEW c \in Caller, Ticks(c) PROVE WorkersInv'
  <2>1. PICK s \in Stage \ {"drives", "start"} : at' = [at EXCEPT ![c] = s]
    BY <1>2 DEF Ticks, Stage
  <2> QED BY <1>2, <2>1, Elsewhere DEF Ticks, driveVars
<1>3. ASSUME NEW c \in Caller, rescan(c) PROVE WorkersInv'
  <2>1. at' = [at EXCEPT ![c] = "sync"] /\ UNCHANGED driveVars
    BY <1>3 DEF rescan
  <2> QED BY <2>1, Elsewhere DEF driveVars, Stage
<1>4. CASE GoesAway
  <2>1. UNCHANGED <<at, attached, running, syncMu, todo, starting>> /\ workers' = RequestEnds
    BY <1>4 DEF GoesAway
  <2>2. Types'
    BY <2>1, RequestEndsKeeps DEF WorkersInv, Types
  <2>3. SyncInv'
    BY <2>1, RequestEndsKeeps DEF WorkersInv, Types, SyncInv
  <2> QED BY <2>2, <2>3 DEF WorkersInv
<1>5. ASSUME NEW c \in Caller, syncDrives(c) PROVE WorkersInv'
  <2>1. /\ at' = [at EXCEPT ![c] = "drives"] /\ syncMu = None /\ syncMu' = c
        /\ todo' = [todo EXCEPT ![c] = attached \ Disabled]
        /\ UNCHANGED <<attached, workers, running, starting>>
    BY <1>5 DEF syncDrives
  <2>2. \A e \in Caller : at[e] \notin {"drives", "start"}
    BY <2>1, DaemonConstants DEF WorkersInv, SyncInv, Caller
  <2>3. Types'
    BY <2>1 DEF WorkersInv, Types, Stage
  <2>4. SyncInv'
    BY <2>1, <2>2 DEF WorkersInv, Types, SyncInv
  <2> QED BY <2>3, <2>4 DEF WorkersInv
<1>5a. ASSUME NEW c \in Caller, Discover(c) PROVE WorkersInv'
  <2>1. /\ at' = [at EXCEPT ![c] = "idle"]
        /\ UNCHANGED <<attached, running, syncMu, todo, starting>>
        /\ workers' = workers \/ workers' = RequestEnds
    BY <1>5a DEF Discover, Over
  <2> QED BY <2>1, Elsewhere DEF Stage
<1>6. ASSUME NEW c \in Caller, NEW d \in Drive, NextDrive(c, d) PROVE WorkersInv'
  <2>1. /\ at[c] = "drives" /\ todo' = [todo EXCEPT ![c] = @ \ {d}]
        /\ UNCHANGED <<attached, workers, running, syncMu>>
    BY <1>6 DEF NextDrive
  <2>2. CASE workers[d] # "none"
    BY <1>6, <2>1, <2>2 DEF NextDrive, WorkersInv, Types, SyncInv
  <2>3. CASE workers[d] = "none"
    <3>1. at' = [at EXCEPT ![c] = "start"] /\ starting' = [starting EXCEPT ![c] = d]
      BY <1>6, <2>3 DEF NextDrive
    <3>2. Types'
      BY <2>1, <3>1 DEF WorkersInv, Types, Stage
    <3>3. SyncInv'
      BY <2>1, <2>3, <3>1 DEF WorkersInv, Types, SyncInv
    <3> QED BY <3>2, <3>3 DEF WorkersInv
  <2> QED BY <2>2, <2>3
<1>7. ASSUME NEW c \in Caller, StartWorker(c) PROVE WorkersInv'
  <2> DEFINE d == starting[c]
  <2> DEFINE whose == IF c = "http" THEN "request" ELSE "daemon"
  <2>1. /\ at[c] = "start" /\ at' = [at EXCEPT ![c] = "drives"]
        /\ workers' = [workers EXCEPT ![d] = whose]
        /\ running' = [running EXCEPT ![d] = running[d] + 1]
        /\ starting' = [starting EXCEPT ![c] = None]
        /\ UNCHANGED <<attached, syncMu, todo>>
    BY <1>7 DEF StartWorker
  <2>2. d \in Drive /\ running[d] = 0 /\ syncMu = c
    BY <2>1 DEF WorkersInv, SyncInv
  <2>3. running' = [running EXCEPT ![d] = 1]
    BY <2>1, <2>2
  <2>4. Types'
    BY <2>1, <2>2, <2>3 DEF WorkersInv, Types, Stage
  <2>5. \A e \in Caller : e # c => at[e] \notin {"drives", "start"}
    BY <2>2 DEF WorkersInv, SyncInv
  <2>6. SyncInv'
    BY <2>1, <2>2, <2>3, <2>5 DEF WorkersInv, Types, SyncInv
  <2> QED BY <2>4, <2>6 DEF WorkersInv
<1>8. ASSUME NEW c \in Caller, UpsertDrive(c) PROVE WorkersInv'
  <2>1. /\ at[c] = "start" /\ at' = [at EXCEPT ![c] = "idle"] /\ syncMu' = None
        /\ todo' = [todo EXCEPT ![c] = {}] /\ starting' = [starting EXCEPT ![c] = None]
        /\ UNCHANGED <<attached, running>>
        /\ workers' = workers \/ workers' = RequestEnds
    BY <1>8 DEF UpsertDrive, Over
  <2>2. \A e \in Caller : e # c => at[e] \notin {"drives", "start"}
    BY <2>1 DEF WorkersInv, SyncInv
  <2>3. Types'
    BY <2>1, RequestEndsKeeps DEF WorkersInv, Types, Stage
  <2>4. \A e \in Drive : workers'[e] = "none" <=> workers[e] = "none"
    BY <2>1, RequestEndsKeeps DEF WorkersInv
  <2>5. SyncInv'
    BY <2>1, <2>2, <2>4 DEF WorkersInv, Types, SyncInv
  <2> QED BY <2>3, <2>5 DEF WorkersInv
<1>9. ASSUME NEW c \in Caller, EndSync(c) PROVE WorkersInv'
  <2>1. PICK s \in {"idle", "check"} :
          /\ at[c] = "drives" /\ at' = [at EXCEPT ![c] = s] /\ syncMu' = None
          /\ UNCHANGED <<attached, running, todo, starting>>
          /\ workers' = workers \/ workers' = RequestEnds
    BY <1>9 DEF EndSync, Over
  <2>2. \A e \in Caller : e # c => at[e] \notin {"drives", "start"}
    BY <2>1 DEF WorkersInv, SyncInv
  <2>3. Types'
    BY <2>1, RequestEndsKeeps DEF WorkersInv, Types, Stage
  <2>4. \A e \in Drive : workers'[e] = "none" <=> workers[e] = "none"
    BY <2>1, RequestEndsKeeps DEF WorkersInv
  <2>5. SyncInv'
    BY <2>1, <2>2, <2>4 DEF WorkersInv, Types, SyncInv
  <2> QED BY <2>3, <2>5 DEF WorkersInv
<1>10. ASSUME NEW d \in Drive, WorkerEnds(d) PROVE WorkersInv'
  <2>1. /\ running[d] > 0 /\ running' = [running EXCEPT ![d] = running[d] - 1]
        /\ UNCHANGED <<at, attached, workers, syncMu, todo, starting>>
    BY <1>10 DEF WorkerEnds
  <2>2. running[d] = 1
    BY <2>1 DEF WorkersInv, Types
  <2>3. running' = [running EXCEPT ![d] = 0]
    BY <2>1, <2>2
  <2> QED BY <2>1, <2>3 DEF WorkersInv, Types, SyncInv
<1>11. ASSUME NEW c \in Caller,
              CheckKey(c) \/ refreshKey(c) \/ RefreshBetaKey(c) \/ WriteSettingsKey(c)
                \/ InstallSettings(c) \/ Recheck(c)
       PROVE  WorkersInv'
  <2>1. UNCHANGED driveVars
    BY <1>11 DEF CheckKey, refreshKey, RefreshBetaKey, WriteSettingsKey, InstallSettings, Recheck
  <2>2. PICK s \in Stage \ {"drives", "start"} : at' = [at EXCEPT ![c] = s]
    BY <1>11 DEF CheckKey, refreshKey, RefreshBetaKey, WriteSettingsKey, InstallSettings,
                 Recheck, Stage
  <2> QED BY <2>1, <2>2, Elsewhere DEF driveVars
<1>12. ASSUME NEW c \in Caller, runHealthChecks(c) PROVE WorkersInv'
  <2>1. /\ at' = [at EXCEPT ![c] = "idle"]
        /\ UNCHANGED <<attached, running, syncMu, todo, starting>>
        /\ workers' = workers \/ workers' = RequestEnds
    BY <1>12 DEF runHealthChecks, Over
  <2> QED BY <2>1, Elsewhere DEF Stage
<1>13. ASSUME NEW d \in Drive, Plug(d) PROVE WorkersInv'
  BY <1>13 DEF Plug, WorkersInv, Types, SyncInv
<1>14. CASE Connect \/ ConnReturns \/ serve \/ Stop \/ Run \/ Change \/ Clock
  <2>1. UNCHANGED <<at, driveVars>>
    BY <1>14 DEF Connect, ConnReturns, serve, Stop, Run, Change, Clock
  <2> QED BY <2>1 DEF driveVars, WorkersInv, Types, SyncInv
<1>15. CASE Crash
  BY <1>15 DEF Crash, WorkersInv, Types, SyncInv, Stage, Caller
<1> QED
  BY <1>1, <1>2, <1>3, <1>4, <1>5, <1>5a, <1>6, <1>7, <1>8, <1>9, <1>10, <1>11, <1>12,
     <1>13, <1>14, <1>15 DEF Next, CallStep

\* A drive never has two workers (syncDrives under syncMu), for any set of drives
\* and however many callers' rescans, failures and restarts there are.
THEOREM OneWorkerHolds == Spec => []OneWorker
<1>1. WorkersInv => OneWorker
  BY DEF WorkersInv, Types, OneWorker
<1> QED BY <1>1, WorkersInit, WorkersStep, PTL DEF Spec

-----------------------------------------------------------------------------
(* The registration key *)

KeyTypes ==
    /\ at \in [Caller -> Stage]
    /\ settings \in {"none", "old", "new"}
    /\ page \in {"old", "new"}

\* Whoever refreshes holds the lock; what it is about to install is whole, was
\* published, and is not older than what is in place.
RefreshInv ==
    /\ \A c \in Caller : at[c] \in {"fetch", "write", "install"} => keyMu = c
    /\ \A c \in Caller : at[c] = "install" => temp = "whole"
    /\ \A c \in Caller : at[c] \in {"write", "install"} =>
            /\ fetched \in {"old", "new"}
            /\ fetched = "new" => page = "new"
            /\ settings = "new" => fetched = "new"
    /\ settings = "new" => page = "new"

KeyInv == KeyTypes /\ RefreshInv

LEMMA KeyInit == Init => KeyInv
BY DEF Init, Boot, KeyInv, KeyTypes, RefreshInv, Stage, Caller

\* A step of a caller that neither holds the lock nor takes it.
LEMMA NotRefreshing ==
    ASSUME KeyInv, NEW c \in Caller, NEW s \in Stage \ {"fetch", "write", "install"},
           at' = [at EXCEPT ![c] = s],
           UNCHANGED <<settings, page, keyMu, temp, fetched>>
    PROVE  KeyInv'
BY DEF KeyInv, KeyTypes, RefreshInv

LEMMA KeyStep == KeyInv /\ [Next]_vars => KeyInv'
<1> SUFFICES ASSUME KeyInv, [Next]_vars PROVE KeyInv'
  OBVIOUS
<1>1. CASE UNCHANGED vars
  BY <1>1 DEF vars, keyVars, worldVars, KeyInv, KeyTypes, RefreshInv
<1>2. ASSUME NEW c \in Caller,
             \/ Ticks(c) \/ rescan(c) \/ syncDrives(c) \/ Discover(c) \/ StartWorker(c)
             \/ UpsertDrive(c) \/ EndSync(c) \/ CheckKey(c) \/ Recheck(c) \/ runHealthChecks(c)
      PROVE  KeyInv'
  <2>1. UNCHANGED <<settings, page, keyMu, temp, fetched>>
    BY <1>2 DEF Ticks, rescan, syncDrives, Discover, StartWorker, UpsertDrive, EndSync,
                CheckKey, Recheck, runHealthChecks, keyVars, worldVars
  <2>2. PICK s \in Stage \ {"fetch", "write", "install"} : at' = [at EXCEPT ![c] = s]
    BY <1>2 DEF Ticks, rescan, syncDrives, Discover, StartWorker, UpsertDrive, EndSync,
                CheckKey, Recheck, runHealthChecks, Over, Stage
  <2> QED BY <2>1, <2>2, NotRefreshing
<1>3. ASSUME NEW c \in Caller, NEW d \in Drive, NextDrive(c, d) PROVE KeyInv'
  <2>1. UNCHANGED <<settings, page, keyMu, temp, fetched>>
    BY <1>3 DEF NextDrive, keyVars, worldVars
  <2>2. CASE UNCHANGED at
    BY <2>1, <2>2 DEF KeyInv, KeyTypes, RefreshInv
  <2>3. CASE at' = [at EXCEPT ![c] = "start"]
    BY <2>1, <2>3, NotRefreshing DEF Stage
  <2> QED BY <1>3, <2>2, <2>3 DEF NextDrive
<1>4. ASSUME NEW c \in Caller, refreshKey(c) PROVE KeyInv'
  <2>1. UNCHANGED <<settings, page, temp, fetched>> /\ keyMu = None
    BY <1>4 DEF refreshKey, worldVars
  <2>2. \A e \in Caller : at[e] \notin {"fetch", "write", "install"}
    BY <2>1, DaemonConstants DEF KeyInv, RefreshInv, Caller
  <2>3. CASE at' = [at EXCEPT ![c] = "publish"] /\ UNCHANGED keyMu
    BY <2>1, <2>3, NotRefreshing DEF Stage
  <2>4. CASE at' = [at EXCEPT ![c] = "fetch"] /\ keyMu' = c
    BY <2>1, <2>2, <2>4 DEF KeyInv, KeyTypes, RefreshInv, Stage
  <2> QED BY <1>4, <2>3, <2>4 DEF refreshKey
<1>5. ASSUME NEW c \in Caller, RefreshBetaKey(c) PROVE KeyInv'
  <2>1. at[c] = "fetch" /\ keyMu = c /\ UNCHANGED <<settings, page>>
    BY <1>5 DEF RefreshBetaKey, KeyInv, RefreshInv, worldVars
  <2>2. \A e \in Caller : e # c => at[e] \notin {"fetch", "write", "install"}
    BY <2>1 DEF KeyInv, RefreshInv
  <2>3. CASE FetchBetaKey(c) \in {"none", settings}
    <3>1. at' = [at EXCEPT ![c] = "recheck"] /\ UNCHANGED <<fetched, temp>>
      BY <1>5, <2>3 DEF RefreshBetaKey
    <3> QED BY <2>1, <2>2, <3>1 DEF KeyInv, KeyTypes, RefreshInv, Stage
  <2>4. CASE FetchBetaKey(c) \notin {"none", settings}
    <3>1. /\ at' = [at EXCEPT ![c] = "write"] /\ fetched' = FetchBetaKey(c)
          /\ UNCHANGED keyMu
      BY <1>5, <2>4 DEF RefreshBetaKey
    <3>2. fetched' = page /\ page # settings
      BY <2>4, <3>1 DEF FetchBetaKey
    <3> QED BY <2>1, <2>2, <3>1, <3>2 DEF KeyInv, KeyTypes, RefreshInv, Stage
  <2> QED BY <2>3, <2>4
<1>6. ASSUME NEW c \in Caller, WriteSettingsKey(c) PROVE KeyInv'
  <2>1. at[c] = "write" /\ keyMu = c /\ UNCHANGED <<settings, page>>
    BY <1>6 DEF WriteSettingsKey, KeyInv, RefreshInv, worldVars
  <2>2. \A e \in Caller : e # c => at[e] \notin {"fetch", "write", "install"}
    BY <2>1 DEF KeyInv, RefreshInv
  <2>3. CASE at' = [at EXCEPT ![c] = "install"] /\ temp' = "whole" /\ UNCHANGED <<keyMu, fetched>>
    BY <2>1, <2>2, <2>3 DEF KeyInv, KeyTypes, RefreshInv, Stage
  <2>4. CASE at' = [at EXCEPT ![c] = "recheck"]
    BY <2>1, <2>2, <2>4 DEF KeyInv, KeyTypes, RefreshInv, Stage
  <2> QED BY <1>6, <2>3, <2>4 DEF WriteSettingsKey
<1>7. ASSUME NEW c \in Caller, InstallSettings(c) PROVE KeyInv'
  <2>1. /\ at[c] = "install" /\ keyMu = c /\ temp = "whole" /\ page' = page
        /\ settings' = fetched /\ at' = [at EXCEPT ![c] = "recheck"]
    BY <1>7 DEF InstallSettings, KeyInv, RefreshInv, worldVars
  <2>2. \A e \in Caller : e # c => at[e] \notin {"fetch", "write", "install"}
    BY <2>1 DEF KeyInv, RefreshInv
  <2> QED BY <2>1, <2>2 DEF KeyInv, KeyTypes, RefreshInv, Stage
<1>8. CASE Change
  <2>1. /\ UNCHANGED <<at, settings, keyMu, temp, fetched>>
        /\ page' = page \/ page' = "new"
    BY <1>8 DEF Change, keyVars
  <2> QED BY <2>1 DEF KeyInv, KeyTypes, RefreshInv
<1>9. CASE \/ GoesAway \/ Connect \/ ConnReturns \/ serve \/ Stop \/ Run \/ Clock
           \/ \E d \in Drive : WorkerEnds(d) \/ Plug(d)
  <2>1. UNCHANGED <<at, settings, page, keyMu, temp, fetched>>
    BY <1>9 DEF GoesAway, Connect, ConnReturns, serve, Stop, Run, Clock, WorkerEnds, Plug,
                keyVars, worldVars
  <2> QED BY <2>1 DEF KeyInv, KeyTypes, RefreshInv
<1>10. CASE Crash
  BY <1>10 DEF Crash, worldVars, KeyInv, KeyTypes, RefreshInv, Stage, Caller
<1> QED
  BY <1>1, <1>2, <1>3, <1>4, <1>5, <1>6, <1>7, <1>8, <1>9, <1>10 DEF Next, CallStep

\* settings.conf is always whole and a replaced key does not come back (refreshKey
\* under keyMu, and the rename in WriteSettingsKey), for any number of callers'
\* refreshes, of changes of the published key and of crashes.
THEOREM KeyNeverGoesBackHolds == Spec => KeyNeverGoesBack
<1>1. ASSUME KeyInv, KeyInv', [Next]_vars
      PROVE  [settings' # "torn" /\ (settings = "new" => settings' = "new")]_vars
  <2>1. settings' # "torn"
    BY <1>1 DEF KeyInv, KeyTypes
  <2>2. ASSUME NEW c \in Caller, InstallSettings(c), settings = "new" PROVE settings' = "new"
    BY <1>1, <2>2 DEF InstallSettings, KeyInv, RefreshInv
  <2>3. CASE \A c \in Caller : ~InstallSettings(c)
    <3>1. settings' = settings
      BY <1>1, <2>3 DEF Next, CallStep, vars, keyVars, Ticks, rescan, syncDrives, NextDrive,
         Discover, StartWorker, UpsertDrive, EndSync, CheckKey, refreshKey, RefreshBetaKey,
         WriteSettingsKey, Recheck, runHealthChecks, WorkerEnds, Plug, GoesAway, Connect,
         ConnReturns, serve, Stop, Run, Crash, Change, Clock
    <3> QED BY <3>1, <2>1
  <2> QED BY <2>1, <2>2, <2>3
<1> QED BY <1>1, KeyInit, KeyStep, PTL DEF Spec, KeyNeverGoesBack

-----------------------------------------------------------------------------
(***************************************************************************)
(* For channels of any size and any number of keys, lost connections and   *)
(* restarts: no goroutine sends on a closed channel, and a list on the     *)
(* screen holds the rows that were asked for.                              *)
(*                                                                         *)
(* The second rests on what is on its way.  A request and an answer may be *)
(* in a socket, in a channel or in the client's inbox when the connection  *)
(* they belong to is long gone; each still fits the request that is        *)
(* remembered under its number, because numbers are never used again.      *)
(***************************************************************************)

-----------------------------------------------------------------------------
(* The closed channel *)

\* out is closed when the pump is through and the handler is past its last send.
CloseInv ==
    /\ outClosed = TRUE => handler \in {"close", "none"} /\ pump # "on"
    /\ panicked = FALSE

LEMMA CloseInit == SocketInit => CloseInv
BY DEF SocketInit, CloseInv

LEMMA CloseStep == CloseInv /\ [SocketNext]_socketVars => CloseInv'
<1> SUFFICES ASSUME CloseInv, [SocketNext]_socketVars PROVE CloseInv'
  OBVIOUS
<1> USE DEF CloseInv
<1>1. CASE UNCHANGED socketVars
  BY <1>1 DEF socketVars, handlerVars
<1>2. CASE broadcastStatus
  BY <1>2 DEF broadcastStatus
<1>3. CASE PumpSends
  BY <1>3 DEF PumpSends, Send
<1>4. CASE Answers
  BY <1>4 DEF Answers, Send
<1>5. CASE PumpEnds \/ unsubscribe \/ CloseOut \/ HandlerEnds
  BY <1>5 DEF PumpEnds, unsubscribe, CloseOut, HandlerEnds
<1>6. CASE handleConn
  BY <1>6 DEF handleConn
<1>7. CASE Dial \/ Dies
  BY <1>7 DEF Dial, Dies
<1>8. CASE \/ Returns \/ Attach \/ Subscribe \/ ReadEnds \/ Lost \/ Close \/ handleDaemon
           \/ StatusChanges \/ StopDaemon \/ Starts \/ \E k \in Keys : handleKey(k)
  BY <1>8 DEF Returns, Attach, Subscribe, ReadEnds, Lost, Close, handleDaemon, StatusChanges,
        StopDaemon, Starts, handleKey, handlerVars
<1>9. CASE read
  BY <1>9 DEF read
<1> QED BY <1>1, <1>2, <1>3, <1>4, <1>5, <1>6, <1>7, <1>8, <1>9
        DEF SocketNext, HandlerStep, PumpStep, RunStep

\* No goroutine of a connection sends on the channel its handler closed
\* (handleConn's order of unsubscribing, waiting for the pump and closing out).
THEOREM NoSendOnClosedHolds == SocketSpec => []NoSendOnClosed
<1>1. CloseInv => NoSendOnClosed
  BY DEF CloseInv, NoSendOnClosed
<1> QED BY <1>1, CloseInit, CloseStep, PTL DEF SocketSpec

-----------------------------------------------------------------------------
(* Requests and their answers *)

Result == Lists \cup {"ack", "error", "none"}

Message ==
    [kind : {"none", "connected", "disconnected"}] \cup [kind : {"push"}, status : Status]
        \cup [kind : {"response"}, id : Nat, result : Result]

\* Requests on their way: none contradicts what is remembered under its number.
FitRequest ==
    {r \in [id : 1 .. lastId, method : Method] :
        r.id \in DOMAIN pending => pending[r.id].method = r.method}

\* And messages: a list answers the request for that list.
FitMessage ==
    {m \in Message : m.kind = "response" =>
        /\ m.id \in 1 .. lastId
        /\ m.id \in DOMAIN pending /\ pending[m.id].method \in Lists =>
                m.result \in {pending[m.id].method, "none", "error"}}

AnswerInv ==
    /\ lastId \in Nat /\ status \in Status
    /\ DOMAIN pending \subseteq 1 .. lastId
    /\ requests \in Seq(FitRequest)
    /\ answer \in FitMessage
    /\ ch \in Seq(FitMessage) /\ out \in Seq(FitMessage) /\ inbox \in Seq(FitMessage)
    /\ panes \in [Lists -> Result \cup {"empty"}]
    /\ ListsShowTheirOwn

LEMMA AnswerInit == SocketInit => AnswerInv
<1> SUFFICES ASSUME SocketInit PROVE AnswerInv
  OBVIOUS
<1>1. requests = <<>> /\ ch = <<>> /\ out = <<>> /\ inbox = <<>> /\ pending = <<>> /\ lastId = 0
  BY DEF SocketInit
<1>2. answer \in FitMessage
  BY DEF SocketInit, Nothing, FitMessage, Message
<1>3. panes = [l \in Lists |-> "empty"] /\ status \in Status
  BY DEF SocketInit, Status
<1>4. DOMAIN pending = {}
  BY <1>1
<1> QED BY <1>1, <1>2, <1>3, <1>4, EmptySeq DEF AnswerInv, ListsShowTheirOwn, Lists

\* What is on its way stays fitting when requests are forgotten and when one is
\* remembered under the next number.
LEMMA StillFits ==
    ASSUME AnswerInv, lastId' \in Nat, lastId <= lastId',
           \A i \in DOMAIN pending' : \/ i \in DOMAIN pending /\ pending'[i] = pending[i]
                                      \/ i > lastId
    PROVE  FitRequest \subseteq FitRequest' /\ FitMessage \subseteq FitMessage'
<1>1. lastId \in Nat
  BY DEF AnswerInv
<1>2. FitRequest \subseteq FitRequest'
  BY <1>1 DEF FitRequest
<1>3. FitMessage \subseteq FitMessage'
  <2> SUFFICES ASSUME NEW m \in FitMessage, m.kind = "response"
               PROVE  /\ m.id \in 1 .. lastId'
                      /\ m.id \in DOMAIN pending' /\ pending'[m.id].method \in Lists =>
                            m.result \in {pending'[m.id].method, "none", "error"}
    BY DEF FitMessage
  <2>1. m.id \in 1 .. lastId
    BY DEF FitMessage
  <2>2. m.id \in DOMAIN pending' => m.id \in DOMAIN pending /\ pending'[m.id] = pending[m.id]
    BY <1>1, <2>1
  <2>3. m.id \in DOMAIN pending /\ pending[m.id].method \in Lists =>
            m.result \in {pending[m.id].method, "none", "error"}
    BY DEF FitMessage
  <2>4. m.id \in 1 .. lastId'
    BY <1>1, <2>1
  <2>5. m.id \in DOMAIN pending' /\ pending'[m.id].method \in Lists =>
            m.result \in {pending'[m.id].method, "none", "error"}
    BY <2>2, <2>3, Zenon
  <2> QED BY <2>4, <2>5, Zenon
<1> QED BY <1>2, <1>3

\* A step that sends nothing and asks nothing new: what was on its way is there
\* still, or is not, and the rest fits.
LEMMA Passes ==
    ASSUME AnswerInv, UNCHANGED <<lastId, pending, panes>>, status' \in Status,
           requests' \in Seq(FitRequest), answer' \in FitMessage, ch' \in Seq(FitMessage),
           out' \in Seq(FitMessage), inbox' \in Seq(FitMessage)
    PROVE  AnswerInv'
<1>1. FitRequest' = FitRequest /\ FitMessage' = FitMessage
  BY DEF FitRequest, FitMessage
<1> QED BY <1>1 DEF AnswerInv, ListsShowTheirOwn

\* A step after which other requests are remembered.
LEMMA Remembers ==
    ASSUME AnswerInv, lastId' \in Nat, lastId <= lastId', DOMAIN pending' \subseteq 1 .. lastId',
           \A i \in DOMAIN pending' : \/ i \in DOMAIN pending /\ pending'[i] = pending[i]
                                      \/ i > lastId,
           UNCHANGED <<status, answer, ch, out>>, inbox' \in Seq(FitMessage),
           requests' \in Seq(FitRequest'),
           panes' \in [Lists -> Result \cup {"empty"}], ListsShowTheirOwn'
    PROVE  AnswerInv'
<1>1. FitRequest \subseteq FitRequest' /\ FitMessage \subseteq FitMessage'
  BY StillFits
<1>2. ch \in Seq(FitMessage') /\ out \in Seq(FitMessage') /\ inbox' \in Seq(FitMessage')
  BY <1>1, SeqMonotonic DEF AnswerInv
<1> QED BY <1>1, <1>2 DEF AnswerInv

LEMMA Told ==
    ASSUME AnswerInv, NEW m \in FitMessage, emit(m)
    PROVE  inbox' \in Seq(FitMessage)
<1>1. inbox' = inbox \/ inbox' = Append(inbox, m)
  BY DEF emit
<1>2. inbox \in Seq(FitMessage)
  BY DEF AnswerInv
<1> QED BY <1>1, <1>2, AppendProperties

LEMMA Sent ==
    ASSUME AnswerInv, NEW m \in FitMessage, Send(m)
    PROVE  out' \in Seq(FitMessage)
<1>1. out' = out \/ out' = Append(out, m)
  BY DEF Send
<1>2. out \in Seq(FitMessage)
  BY DEF AnswerInv
<1> QED BY <1>1, <1>2, AppendProperties

\* Messages that answer nothing fit.
LEMMA NoAnswerFits ==
    /\ Nothing \in FitMessage
    /\ \A s \in Status : Push(s) \in FitMessage
    /\ Transport("connected") \in FitMessage /\ Transport("disconnected") \in FitMessage
BY DEF Nothing, Push, Transport, FitMessage, Message

\* A request is written under the next number.
LEMMA Asked ==
    ASSUME AnswerInv, NEW method \in Method, lastId' = lastId + 1, Write(lastId', method),
           \/ pending' = pending
           \/ pending' = [i \in DOMAIN pending \cup {lastId'} |->
                            IF i = lastId' THEN [method |-> method, link |-> link] ELSE pending[i]],
           UNCHANGED <<status, answer, ch, out, panes>>, inbox' \in Seq(FitMessage)
    PROVE  AnswerInv'
<1>1. lastId \in Nat /\ lastId' \in Nat /\ lastId' = lastId + 1 /\ DOMAIN pending \subseteq 1 .. lastId
  BY DEF AnswerInv
<1>2. lastId' \notin DOMAIN pending
  BY <1>1
<1>3. /\ DOMAIN pending' \subseteq 1 .. lastId'
      /\ \A i \in DOMAIN pending' : \/ i \in DOMAIN pending /\ pending'[i] = pending[i]
                                    \/ i > lastId
  BY <1>1, <1>2
<1>4. FitRequest \subseteq FitRequest'
  BY <1>1, <1>3, StillFits
<1> DEFINE r == [id |-> lastId', method |-> method]
<1>5. r \in FitRequest'
  <2>1. lastId' \in DOMAIN pending' => pending'[lastId'].method = method
    BY <1>2
  <2> QED BY <1>1, <2>1 DEF FitRequest
<1>6. requests \in Seq(FitRequest')
  BY <1>4, SeqMonotonic DEF AnswerInv
<1> HIDE DEF r
<1>7. requests' \in Seq(FitRequest')
  <2>1. requests' = requests \/ requests' = Append(requests, r)
    BY DEF Write, r
  <2> QED BY <1>5, <1>6, <2>1, AppendProperties
<1>8. panes' \in [Lists -> Result \cup {"empty"}] /\ ListsShowTheirOwn'
  BY DEF AnswerInv, ListsShowTheirOwn
<1>9. lastId <= lastId'
  BY <1>1
<1> QED BY <1>1, <1>3, <1>7, <1>8, <1>9, Remembers, Zenon

LEMMA AnswerStep == AnswerInv /\ [SocketNext]_socketVars => AnswerInv'
<1> SUFFICES ASSUME AnswerInv, [SocketNext]_socketVars PROVE AnswerInv'
  OBVIOUS
<1>0. \A S : <<>> \in Seq(S)
  BY EmptySeq
<1>1. CASE UNCHANGED socketVars
  BY <1>1, Passes DEF socketVars, daemonVars, handlerVars, clientVars, tuiVars, AnswerInv
<1>2. CASE broadcastStatus
  <2>1. ch' \in Seq(FitMessage)
    BY <1>2, NoAnswerFits, AppendProperties DEF broadcastStatus, publishRaw, AnswerInv
  <2> QED BY <1>2, <2>1, Passes DEF broadcastStatus, daemonVars, clientVars, tuiVars, AnswerInv
<1>3. CASE PumpSends
  <2>1. Head(ch) \in FitMessage /\ Tail(ch) \in Seq(FitMessage)
    BY <1>3, HeadTailProperties DEF PumpSends, AnswerInv
  <2>2. out' \in Seq(FitMessage)
    BY <1>3, <2>1, Sent DEF PumpSends
  <2> QED BY <1>3, <2>1, <2>2, Passes DEF PumpSends, daemonVars, clientVars, tuiVars, AnswerInv
<1>4. CASE handleConn
  <2> DEFINE req == Head(requests)
  <2>1. req \in FitRequest /\ Tail(requests) \in Seq(FitRequest)
    BY <1>4, HeadTailProperties DEF handleConn, AnswerInv
  <2>2. PICK result \in Result :
            /\ answer' = Response(req.id, result)
            /\ result \in {"none", "error"} \cup (IF req.method \in Lists THEN {req.method} ELSE {"ack"})
    BY <1>4 DEF handleConn, handle, Result
  <2> HIDE DEF req
  <2>3. answer' \in FitMessage
    <3>1. /\ req.id \in 1 .. lastId /\ req.method \in Method
          /\ req.id \in DOMAIN pending => pending[req.id].method = req.method
      BY <2>1 DEF FitRequest
    <3>2. Response(req.id, result) \in Message
      <4>1. lastId \in Nat
        BY DEF AnswerInv
      <4>2. req.id \in Nat
        BY <3>1, <4>1
      <4> QED BY <4>2 DEF Response, Message
    <3>3. /\ Response(req.id, result).id = req.id /\ Response(req.id, result).result = result
      BY DEF Response
    <3> QED BY <2>2, <3>1, <3>2, <3>3 DEF FitMessage
  <2> QED BY <1>4, <2>1, <2>3, Passes DEF handleConn, daemonVars, clientVars, tuiVars, AnswerInv
<1>5. CASE Answers
  <2>1. out' \in Seq(FitMessage)
    BY <1>5, Sent DEF Answers, AnswerInv
  <2>2. answer' \in FitMessage
    BY <1>5, NoAnswerFits DEF Answers, AnswerInv
  <2> QED BY <1>5, <2>1, <2>2, Passes DEF Answers, daemonVars, clientVars, tuiVars, AnswerInv
<1>6. CASE PumpEnds \/ unsubscribe \/ CloseOut \/ Returns \/ Attach \/ ReadEnds \/ StopDaemon \/ Starts
  <2>1. UNCHANGED <<lastId, pending, panes, status, requests, answer, ch, out, inbox>>
    BY <1>6 DEF PumpEnds, unsubscribe, CloseOut, Returns, Attach, ReadEnds, StopDaemon, Starts, daemonVars,
        handlerVars, clientVars, tuiVars
  <2> QED BY <2>1, Passes DEF AnswerInv
<1>7. CASE HandlerEnds \/ Dial \/ Dies
  <2>1. /\ UNCHANGED <<lastId, pending, panes, status, inbox>> /\ ch' = <<>> /\ out' = <<>>
        /\ answer' = Nothing /\ requests' \in {<<>>, requests}
    BY <1>7 DEF HandlerEnds, Dial, Dies, daemonVars, clientVars, tuiVars
  <2> QED BY <1>0, <2>1, NoAnswerFits, Passes DEF AnswerInv
<1>8. CASE StatusChanges
  <2>1. /\ UNCHANGED <<lastId, pending, panes, requests, answer, ch, out, inbox>>
        /\ status' \in Status
    BY <1>8 DEF StatusChanges, handlerVars, clientVars, tuiVars
  <2> QED BY <2>1, Passes DEF AnswerInv
<1>9. CASE Subscribe
  <2>1. inbox' \in Seq(FitMessage)
    BY <1>9, NoAnswerFits, Told DEF Subscribe
  <2>2. /\ lastId' = lastId + 1 /\ Write(lastId', "subscribe")
        /\ UNCHANGED <<status, answer, ch, out, panes, pending>>
    BY <1>9 DEF Subscribe, daemonVars, handlerVars, tuiVars
  <2> QED BY <2>1, <2>2, Asked DEF Method
<1>10. CASE read
  <2>1. out # <<>> /\ out' = Tail(out) /\ (UNCHANGED inbox \/ emit(Head(out)))
    BY <1>10 DEF read
  <2>2. Head(out) \in FitMessage /\ Tail(out) \in Seq(FitMessage)
    BY <2>1, HeadTailProperties DEF AnswerInv
  <2>3. inbox' \in Seq(FitMessage)
    BY <2>1, <2>2, Told DEF AnswerInv
  <2> QED BY <1>10, <2>1, <2>2, <2>3, Passes DEF read, daemonVars, tuiVars, AnswerInv
<1>11. CASE Lost
  <2>1. inbox' \in Seq(FitMessage)
    BY <1>11, NoAnswerFits, Told DEF Lost
  <2> QED BY <1>11, <2>1, Passes DEF Lost, daemonVars, handlerVars, clientVars, tuiVars, AnswerInv
<1>12. ASSUME NEW k \in Keys, handleKey(k) PROVE AnswerInv'
  <2>1. UNCHANGED <<status, answer, ch, out, inbox, panes>>
    BY <1>12 DEF handleKey, daemonVars, handlerVars
  <2>2. UNCHANGED <<lastId, requests, pending>> \/ (k \in Method /\ request(k))
    BY <1>12 DEF handleKey, Method, Commands
  <2>3. CASE UNCHANGED <<lastId, requests, pending>>
    BY <2>1, <2>3, Passes DEF AnswerInv
  <2>4. CASE k \in Method /\ request(k) /\ conn # 0
    BY <2>1, <2>4, Asked DEF request, AnswerInv
  <2> QED BY <2>2, <2>3, <2>4 DEF request
<1>13. CASE Close
  <2>1. /\ UNCHANGED <<status, answer, ch, out, inbox, lastId, requests>>
        /\ pending' = <<>> /\ panes' = [l \in Lists |-> "empty"]
    BY <1>13 DEF Close, daemonVars, handlerVars
  <2>2. DOMAIN pending' = {}
    BY <2>1
  <2>3. FitRequest \subseteq FitRequest'
    BY <2>1, <2>2, StillFits DEF AnswerInv
  <2>4. requests' \in Seq(FitRequest')
    BY <2>1, <2>3, SeqMonotonic DEF AnswerInv
  <2>5. panes' \in [Lists -> Result \cup {"empty"}] /\ ListsShowTheirOwn'
    BY <2>1 DEF ListsShowTheirOwn
  <2> QED BY <2>1, <2>2, <2>4, <2>5, Remembers DEF AnswerInv
<1>14. CASE handleDaemon
  <2> DEFINE msg == Head(inbox)
  <2>1. /\ inbox # <<>> /\ inbox' = Tail(inbox)
        /\ UNCHANGED <<status, answer, ch, out, requests, lastId>>
    BY <1>14 DEF handleDaemon, daemonVars, handlerVars, clientVars
  <2>2. msg \in FitMessage /\ inbox' \in Seq(FitMessage)
    BY <2>1, HeadTailProperties DEF AnswerInv
  <2>3. CASE msg.kind # "response"
    <3>1. UNCHANGED <<pending, panes>>
      BY <1>14, <2>3 DEF handleDaemon, applyStatus
    <3> QED BY <2>1, <2>2, <3>1, Passes DEF AnswerInv
  <2>4. CASE msg.kind = "response"
    <3>1. /\ pending' = Restrict(pending, DOMAIN pending \ {msg.id})
          /\ \/ UNCHANGED panes
             \/ /\ msg.result \notin {"none", "error"}
                /\ applyResult(MethodOf(msg.id), msg.result)
      BY <1>14, <2>4 DEF handleDaemon
    <3> HIDE DEF msg
    <3>2. \A i \in DOMAIN pending' : i \in DOMAIN pending /\ pending'[i] = pending[i]
      BY <3>1 DEF Restrict
    <3>3. lastId' \in Nat /\ lastId <= lastId' /\ DOMAIN pending' \subseteq 1 .. lastId'
      <4>1. lastId \in Nat /\ DOMAIN pending \subseteq 1 .. lastId
        BY DEF AnswerInv
      <4>2. lastId' = lastId
        BY <2>1
      <4>3. DOMAIN pending' \subseteq DOMAIN pending
        BY <3>2
      <4> QED BY <4>1, <4>2, <4>3
    <3>4. requests' \in Seq(FitRequest')
      <4>1. FitRequest \subseteq FitRequest'
        BY <3>2, <3>3, StillFits
      <4> QED BY <2>1, <4>1, SeqMonotonic DEF AnswerInv
    <3>5. panes' \in [Lists -> Result \cup {"empty"}] /\ ListsShowTheirOwn'
      <4>1. CASE UNCHANGED panes
        BY <4>1 DEF AnswerInv, ListsShowTheirOwn
      <4>2. CASE /\ msg.result \notin {"none", "error"} /\ MethodOf(msg.id) \in Lists
                 /\ panes' = [panes EXCEPT ![MethodOf(msg.id)] = msg.result]
        <5>1. msg.id \in DOMAIN pending /\ MethodOf(msg.id) = pending[msg.id].method
          BY <4>2 DEF MethodOf, Lists
        <5>2. msg.result = MethodOf(msg.id)
          BY <2>2, <2>4, <4>2, <5>1 DEF FitMessage
        <5> QED BY <4>2, <5>2 DEF AnswerInv, ListsShowTheirOwn, Result
      <4> QED BY <3>1, <4>1, <4>2 DEF applyResult
    <3> QED BY <2>1, <2>2, <3>2, <3>3, <3>4, <3>5, Remembers
  <2> QED BY <2>3, <2>4
<1> QED BY <1>1, <1>2, <1>3, <1>4, <1>5, <1>6, <1>7, <1>8, <1>9, <1>10, <1>11, <1>12, <1>13, <1>14
        DEF SocketNext, HandlerStep, PumpStep, RunStep

\* A list on the screen shows what was asked for, however many requests are in
\* flight and whatever connections were lost between a request and its answer
\* (the pending map of tui.go, and Client.Send's numbering).
THEOREM ListsShowTheirOwnHolds == SocketSpec => []ListsShowTheirOwn
<1>1. AnswerInv => ListsShowTheirOwn
  BY DEF AnswerInv
<1> QED BY <1>1, AnswerInit, AnswerStep, PTL DEF SocketSpec
=============================================================================
