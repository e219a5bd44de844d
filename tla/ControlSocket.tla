---------------------------- MODULE ControlSocket ----------------------------
(***************************************************************************)
(* The operator's client and the daemon's unix socket: a connection's      *)
(* handler, writer and pump in the daemon (daemon/server.go), the client   *)
(* that reconnects (client/client.go), and the terminal program that sends *)
(* requests and applies what comes back (tui/tui.go).                      *)
(*                                                                         *)
(* There is one client, so one connection at a time; the old handler is    *)
(* gone before the next connection is accepted, which loses nothing: two   *)
(* handlers share only the set of subscribers.  A socket's own buffer is   *)
(* part of the channel in front of it, and holds every request.  A status  *)
(* is abstracted to the number of drives in it and whether they are busy,  *)
(* a list to the method that returns it.                                   *)
(***************************************************************************)
EXTENDS Integers, Sequences, FiniteSets, Functions

CONSTANTS
    Cap,        \* what a connection's channels hold (64 in the code)
    InboxCap,   \* what the client's channel holds (64 in the code)
    Jobs,       \* rows in the transcode queue
    MaxChanges  \* bound: keys, changes of the status, daemons stopped, quits

ASSUME SocketConstants ==
    /\ {Cap, InboxCap} \subseteq Nat \ {0}
    /\ {Jobs, MaxChanges} \subseteq Nat

\* History and failures are requested and applied as events are; eject, cancel,
\* transcode and rescan as forget is.
Lists == {"events", "queue"}
Commands == {"forget", "queue.retry"}
Method == Lists \cup Commands \cup {"subscribe"}
Status == {[drives |-> 1, busy |-> FALSE], [drives |-> 2, busy |-> TRUE]}

VARIABLES
    \* the daemon
    daemon,     \* "up", "stopping", "down"
    status,     \* what d.status would return
    handler,    \* where handleConn is
    answer,     \* the message the handler is about to send
    requests,   \* requests in the socket
    ch,         \* the subscriber's channel
    pump,       \* the goroutine that moves ch to out, and what it holds
    out,        \* the connection's outgoing channel
    outClosed,
    panicked,   \* a send on a closed channel
    \* the client
    runner,     \* where Client.Run is
    conn,       \* c.conn: the connection's number, 0 for nil
    link,       \* the last connection's number
    alive,      \* its socket is open at both ends
    lastId,     \* c.id
    inbox,      \* c.out
    closed,     \* c.closed
    \* the terminal program
    view, selected, shown, connected, quitting,
    panes,      \* what each list was last filled with
    pending,    \* methods of the requests in flight, by id
    changes     \* how much has happened so far, bounded

daemonVars == <<daemon, status>>
handlerVars == <<handler, answer, ch, pump, out, outClosed, panicked>>
clientVars == <<runner, conn, link, lastId, closed>>
tuiVars == <<view, selected, shown, connected, quitting, panes, pending>>
socketVars == <<daemonVars, handlerVars, requests, clientVars, alive, inbox, tuiVars, changes>>

Nothing == [kind |-> "none"]
Response(id, result) == [kind |-> "response", id |-> id, result |-> result]
Push(s) == [kind |-> "push", status |-> s]
Transport(what) == [kind |-> what]

SocketInit ==
    /\ daemon = "up" /\ status = [drives |-> 1, busy |-> FALSE]
    /\ handler = "none" /\ answer = Nothing /\ requests = <<>> /\ ch = <<>> /\ pump = "none"
    /\ out = <<>> /\ outClosed = FALSE /\ panicked = FALSE
    /\ runner = "dial" /\ conn = 0 /\ link = 0 /\ alive = FALSE /\ lastId = 0
    /\ inbox = <<>> /\ closed = FALSE
    /\ view = "drives" /\ selected = 0 /\ shown = Nothing /\ connected = FALSE
    /\ quitting = FALSE
    /\ panes = [l \in Lists |-> "empty"] /\ pending = <<>>
    /\ changes = 0

\* Something that need not happen, and happens a bounded number of times.
Occurs == changes < MaxChanges /\ changes' = changes + 1

-----------------------------------------------------------------------------
(* The daemon's end of a connection *)

\* connCtx is done: the daemon is stopping, or the writer found the socket gone.
ConnDone == daemon # "up" \/ ~alive

Subscribed == pump # "none"

\* publishRaw hands a push to the subscriber, or drops it when its channel is full.
publishRaw(msg) ==
    ch' = IF Subscribed /\ Len(ch) < Cap THEN Append(ch, msg) ELSE ch

\* The status ticker.
broadcastStatus ==
    /\ daemon = "up"
    /\ publishRaw(Push(status))
    /\ UNCHANGED <<daemonVars, handler, answer, pump, out, outClosed, panicked, requests,
                   clientVars, alive, inbox, tuiVars, changes>>

\* Mutant: a send that finds no room is dropped.
SendOrDrop(msg) ==
    \/ outClosed /\ panicked' = TRUE /\ UNCHANGED out
    \/ ~outClosed /\ Len(out) < Cap /\ out' = Append(out, msg) /\ UNCHANGED panicked
    \/ ~outClosed /\ Len(out) >= Cap /\ UNCHANGED <<out, panicked>>

\* A send on out: it waits for room, gives up when the context is done, and
\* panics when the channel was closed.
Send(msg) ==
    \/ outClosed /\ panicked' = TRUE /\ UNCHANGED out
    \/ ~outClosed /\ Len(out) < Cap /\ out' = Append(out, msg) /\ UNCHANGED panicked
    \/ ~outClosed /\ ConnDone /\ UNCHANGED <<out, panicked>>

\* The pump sends the subscriber's pushes on.
PumpSends ==
    /\ pump = "on" /\ ch # <<>>
    /\ Send(Head(ch))
    /\ ch' = Tail(ch)
    /\ UNCHANGED <<daemonVars, handler, answer, pump, outClosed, requests,
                   clientVars, alive, inbox, tuiVars, changes>>

\* It ends with its context, or when its channel is closed and drained.
PumpEnds ==
    /\ pump = "on"
    /\ ConnDone \/ (handler = "wait" /\ ch = <<>>)
    /\ pump' = "ended"
    /\ UNCHANGED <<daemonVars, handler, answer, ch, out, outClosed, panicked,
                   requests, clientVars, alive, inbox, tuiVars, changes>>

\* What handle may return: an error of the store, of a worker or of the request,
\* or a list, which is the method that asked for it, or an acknowledgement.
\* Forgetting a disc does not look at the drive it is in.
handle(method) == {"error", IF method \in Lists THEN method ELSE "ack"}

\* The handler reads a request.  The answer to a subscription has no result, and
\* is followed by the status as it is when the answer is on its way.
handleConn ==
    /\ handler = "read" /\ daemon # "down" /\ requests # <<>>
    /\ LET req == Head(requests)
       IN  /\ \/ req.method = "subscribe" /\ answer' = Response(req.id, "none")
              \/ /\ req.method # "subscribe"
                 /\ \E result \in handle(req.method) : answer' = Response(req.id, result)
           /\ pump' = IF req.method = "subscribe" /\ pump = "none" THEN "on" ELSE pump
           /\ handler' = IF req.method = "subscribe" THEN "subscribe" ELSE "reply"
    /\ requests' = Tail(requests)
    /\ UNCHANGED <<daemonVars, ch, out, outClosed, panicked, clientVars, alive, inbox,
                   tuiVars, changes>>

Answers ==
    /\ handler \in {"reply", "subscribe"}
    /\ Send(answer)
    /\ IF handler = "subscribe" THEN handler' = "reply" /\ answer' = Push(status)
       ELSE handler' = "read" /\ answer' = Nothing
    /\ UNCHANGED <<daemonVars, ch, pump, outClosed, requests, clientVars,
                   alive, inbox, tuiVars, changes>>

\* The client has gone: the subscription ends,
unsubscribe ==
    /\ handler = "read" /\ ~alive /\ requests = <<>>
    /\ handler' = "wait"
    /\ UNCHANGED <<daemonVars, answer, ch, pump, out, outClosed, panicked,
                   requests, clientVars, alive, inbox, tuiVars, changes>>

\* Mutant: out is closed at once.
CloseOutAtOnce ==
    /\ handler = "wait"
    /\ handler' = "close" /\ outClosed' = TRUE
    /\ UNCHANGED <<daemonVars, answer, ch, pump, out, panicked, requests,
                   clientVars, alive, inbox, tuiVars, changes>>

\* the pump is waited for, and out closed,
CloseOut ==
    /\ handler = "wait" /\ pump \in {"none", "ended"}
    /\ handler' = "close" /\ outClosed' = TRUE
    /\ UNCHANGED <<daemonVars, answer, ch, pump, out, panicked, requests,
                   clientVars, alive, inbox, tuiVars, changes>>

\* and the writer, whose socket is gone.
HandlerEnds ==
    /\ handler = "close"
    /\ handler' = "none" /\ answer' = Nothing /\ ch' = <<>> /\ out' = <<>>
    /\ pump' = IF pump = "ended" THEN "none" ELSE pump
    /\ UNCHANGED <<daemonVars, outClosed, panicked, requests, clientVars,
                   alive, inbox, tuiVars, changes>>

-----------------------------------------------------------------------------
(* The client *)

\* Mutant: it waits for a consumer that has stopped.
emitWaits(msg) == Len(inbox) < InboxCap /\ inbox' = Append(inbox, msg)

\* A message is delivered when there is room, or not at all after Close.
emit(msg) ==
    \/ Len(inbox) < InboxCap /\ inbox' = Append(inbox, msg)
    \/ closed /\ UNCHANGED inbox

\* Run returns once Close was called.
Returns ==
    /\ runner = "dial" /\ closed
    /\ runner' = "done"
    /\ UNCHANGED <<daemonVars, handlerVars, requests, conn, link, lastId, closed, alive,
                   inbox, tuiVars, changes>>

\* Dialling succeeds while the daemon accepts connections; until then it is tried
\* again after a pause, and an error is shown that nothing here depends on.
Dial ==
    /\ runner = "dial" /\ daemon = "up" /\ handler = "none"
    /\ runner' = "attach"
    /\ link' = link + 1 /\ alive' = TRUE
    /\ handler' = "read" /\ answer' = Nothing /\ requests' = <<>>
    /\ ch' = <<>> /\ pump' = "none" /\ out' = <<>> /\ outClosed' = FALSE
    /\ UNCHANGED <<daemonVars, panicked, conn, lastId, closed, inbox, tuiVars, changes>>

\* The connection becomes the one that Send writes to,
Attach ==
    /\ runner = "attach"
    /\ conn' = link /\ runner' = "subscribe"
    /\ UNCHANGED <<daemonVars, handlerVars, requests, link, lastId, closed, alive, inbox,
                   tuiVars, changes>>

\* A request is written; the write fails when the socket is closed.
Write(id, method) ==
    requests' = IF alive THEN Append(requests, [id |-> id, method |-> method]) ELSE requests

\* it is announced, and the client subscribes.
Subscribe ==
    /\ runner = "subscribe"
    /\ emit(Transport("connected"))
    /\ lastId' = lastId + 1
    /\ Write(lastId', "subscribe")
    /\ runner' = "read"
    /\ UNCHANGED <<daemonVars, handlerVars, conn, link, closed, alive, tuiVars, changes>>

\* The daemon's writer encodes a message, and the client's reader delivers it.
\* A daemon that stops writes no more.
read ==
    /\ runner = "read" /\ alive /\ daemon = "up" /\ out # <<>>
    /\ out' = Tail(out)
    /\ IF closed THEN runner' = "lost" /\ conn' = 0 /\ UNCHANGED inbox
       ELSE emit(Head(out)) /\ UNCHANGED <<runner, conn>>
    /\ UNCHANGED <<daemonVars, handler, answer, ch, pump, outClosed, panicked,
                   requests, link, lastId, closed, alive, tuiVars, changes>>

\* The socket was closed, by the daemon's end or by Close.
ReadEnds ==
    /\ runner = "read" /\ ~alive
    /\ runner' = "lost" /\ conn' = 0
    /\ UNCHANGED <<daemonVars, handlerVars, requests, link, lastId, closed, alive, inbox,
                   tuiVars, changes>>

\* Mutant: without telling anyone.
LostSilently ==
    /\ runner = "lost"
    /\ runner' = "dial"
    /\ UNCHANGED <<daemonVars, handlerVars, requests, conn, link, lastId, closed, alive,
                   inbox, tuiVars, changes>>

Lost ==
    /\ runner = "lost"
    /\ emit(Transport("disconnected"))
    /\ runner' = "dial"
    /\ UNCHANGED <<daemonVars, handlerVars, requests, conn, link, lastId, closed, alive,
                   tuiVars, changes>>

-----------------------------------------------------------------------------
(* The terminal program *)

Max0(n) == IF n > 0 THEN n ELSE 0

\* How many rows the current view can select between.
rowCount ==
    IF view = "queue" THEN (IF panes["queue"] = "queue" THEN Jobs ELSE 0)
    ELSE IF shown = Nothing THEN 0 ELSE shown.status.drives

\* request sends a command and remembers what it was; without a connection it
\* says so and nothing else.
request(method) ==
    IF conn = 0 THEN UNCHANGED <<lastId, requests, pending>>
    ELSE /\ lastId' = lastId + 1
         /\ Write(lastId', method)
         /\ pending' = IF alive
                       THEN [i \in DOMAIN pending \cup {lastId'} |->
                               IF i = lastId' THEN [method |-> method, link |-> link]
                               ELSE pending[i]]
                       ELSE pending

\* The drive and the job under the cursor.
current == shown # Nothing /\ selected < shown.status.drives
currentJob == panes["queue"] = "queue" /\ selected < Jobs

\* What pressing f may forget: the disc of a drive that the screen shows idle.
forgetTarget == current /\ ~shown.status.busy

\* A key is pressed.  The lists switch the view and ask for their contents; the
\* cursor moves within the view; commands act on the row under it.
handleKey(k) ==
    /\ ~quitting /\ Occurs
    /\ \/ k = "drives" /\ view' = k /\ UNCHANGED <<selected, lastId, requests, pending>>
       \/ k \in Lists /\ view' = k /\ request(k) /\ UNCHANGED selected
       \/ /\ k = "up" /\ selected > 0 /\ selected' = selected - 1
          /\ UNCHANGED <<view, lastId, requests, pending>>
       \/ /\ k = "down" /\ selected < rowCount - 1 /\ selected' = selected + 1
          /\ UNCHANGED <<view, lastId, requests, pending>>
       \/ /\ \/ k = "queue.retry" /\ view = "queue" /\ currentJob
             \/ k = "forget" /\ forgetTarget
          /\ request(k) /\ UNCHANGED <<view, selected>>
    /\ UNCHANGED <<daemonVars, handlerVars, runner, conn, link, closed, alive, inbox, shown,
                   connected, quitting, panes>>

\* The operator quits: Close closes the connection there is, and the screen is gone.
Close ==
    /\ ~quitting /\ Occurs
    /\ quitting' = TRUE /\ closed' = TRUE
    /\ alive' = (alive /\ conn = 0)
    /\ view' = "drives" /\ selected' = 0 /\ shown' = Nothing /\ connected' = FALSE
    /\ panes' = [l \in Lists |-> "empty"] /\ pending' = <<>>
    /\ UNCHANGED <<daemonVars, handlerVars, requests, runner, conn, link, lastId, inbox>>

\* A status replaces the drives, and brings the cursor back among them.
applyStatus(msg) ==
    /\ shown' = msg
    /\ selected' = IF selected >= msg.status.drives THEN Max0(msg.status.drives - 1)
                   ELSE selected
    /\ UNCHANGED <<panes, pending, connected>>

\* A result is decoded as what its request asked for.
applyResult(method, result) ==
    /\ panes' = IF method \in Lists THEN [panes EXCEPT ![method] = result] ELSE panes
    /\ selected' = IF method = "queue" /\ selected >= Jobs THEN 0 ELSE selected

\* Mutant: a reply is taken for that of the last request.
MethodOfLatest(id) ==
    IF pending = <<>> THEN "none"
    ELSE pending[CHOOSE i \in DOMAIN pending : \A j \in DOMAIN pending : j <= i].method

MethodOf(id) == IF id \in DOMAIN pending THEN pending[id].method ELSE "none"

\* The program takes the next message.
handleDaemon ==
    /\ inbox # <<>> /\ ~quitting
    /\ inbox' = Tail(inbox)
    /\ LET msg == Head(inbox)
       IN  CASE msg.kind = "push" -> applyStatus(msg)
             [] msg.kind = "response" ->
                  /\ pending' = Restrict(pending, DOMAIN pending \ {msg.id})
                  /\ IF msg.result \in {"none", "error"} THEN UNCHANGED <<panes, selected>>
                     ELSE applyResult(MethodOf(msg.id), msg.result)
                  /\ UNCHANGED <<shown, connected>>
             [] OTHER ->
                  /\ connected' = (msg.kind = "connected")
                  /\ UNCHANGED <<panes, selected, shown, pending>>
    /\ UNCHANGED <<daemonVars, handlerVars, requests, clientVars, alive, view, quitting, changes>>

-----------------------------------------------------------------------------
(* The daemon's life, and the specification *)

StatusChanges ==
    /\ daemon = "up" /\ Occurs
    /\ status' \in Status \ {status}
    /\ UNCHANGED <<daemon, handlerVars, requests, clientVars, alive, inbox,
                   tuiVars>>

\* SIGTERM: the listener, the writers and the pumps end; a handler goes on
\* waiting for its client.
StopDaemon ==
    /\ daemon = "up" /\ Occurs
    /\ daemon' = "stopping"
    /\ UNCHANGED <<status, handlerVars, requests, clientVars, alive, inbox, tuiVars>>

\* The daemon has gone: by itself, for there is no handler left, or killed.
Dies ==
    /\ \/ daemon = "stopping" /\ UNCHANGED changes
       \/ daemon = "up" /\ Occurs
    /\ daemon' = "down"
    /\ handler' = "none" /\ answer' = Nothing /\ requests' = <<>> /\ ch' = <<>>
    /\ pump' = "none" /\ out' = <<>> /\ outClosed' = FALSE
    /\ alive' = FALSE
    /\ UNCHANGED <<status, panicked, clientVars, inbox, tuiVars>>

Starts ==
    /\ daemon = "down"
    /\ daemon' = "up"
    /\ UNCHANGED <<status, handlerVars, requests, clientVars, alive, inbox, tuiVars, changes>>

Keys == {"drives", "up", "down"} \cup Lists \cup Commands

HandlerStep == handleConn \/ Answers \/ unsubscribe \/ CloseOut \/ HandlerEnds
PumpStep == PumpSends \/ PumpEnds
RunStep ==
    \/ Returns \/ Dial \/ Attach \/ Subscribe \/ read
    \/ ReadEnds \/ Lost

SocketNext ==
    \/ broadcastStatus \/ HandlerStep \/ PumpStep \/ RunStep
    \/ \E k \in Keys : handleKey(k)
    \/ Close \/ handleDaemon \/ StatusChanges \/ StopDaemon \/ Dies \/ Starts

SocketSpec == SocketInit /\ [][SocketNext]_socketVars

\* Goroutines run and the status is broadcast every second.  A handler that waits
\* for room in out is not passed over forever by the pump: senders blocked on a Go
\* channel are served in the order they came.  systemd kills a daemon that does
\* not stop in time.  Nothing says that a stopped daemon is
\* started again, or that the operator does anything.
SocketFairSpec ==
    /\ SocketSpec
    /\ WF_socketVars(broadcastStatus) /\ WF_socketVars(HandlerStep) /\ SF_socketVars(Answers)
    /\ WF_socketVars(PumpStep)
    /\ WF_socketVars(RunStep) /\ WF_socketVars(handleDaemon)
    /\ WF_socketVars(daemon = "stopping" /\ Dies)

-----------------------------------------------------------------------------
(* Properties *)

\* Types and limits: channels hold what they are made for, a connection in use is
\* the last one dialled, and the cursor is on a row some view has.
SocketTypeOK ==
    /\ daemon \in {"up", "stopping", "down"} /\ status \in Status
    /\ handler \in {"none", "read", "reply", "subscribe", "wait", "close"}
    /\ pump \in {"none", "on", "ended"}
    /\ Len(ch) <= Cap /\ Len(out) <= Cap /\ Len(inbox) <= InboxCap
    /\ runner \in {"dial", "attach", "subscribe", "read", "lost", "done"}
    /\ conn \in {0, link} /\ lastId \in Nat
    /\ selected \in Nat /\ (selected < 2 \/ selected < Jobs) /\ view \in Lists \cup {"drives"}
    /\ \A i \in DOMAIN pending : i \in 1..lastId /\ pending[i].method \in Method
    /\ {outClosed, panicked, alive, closed, connected, quitting} \subseteq BOOLEAN

\* No goroutine of a connection sends on a channel that its handler has closed,
\* in whatever order the client leaves, the pump sends and the handler cleans up.
NoSendOnClosed == ~panicked

\* A list shows what was asked for, never another list's rows: a reply is matched
\* with its own request, however many are in flight and whatever connections were
\* lost in between.
ListsShowTheirOwn == \A l \in Lists : panes[l] \in {"empty", l}

\* A request that was written is answered, or its connection is lost: no reply
\* is dropped while both ends are there.
RequestIsAnswered ==
    LET waiting == alive /\ \E i \in DOMAIN pending : pending[i].link = link
    IN  waiting ~> ~waiting

\* The screen tells the truth in the end: when the daemon stays up, the client is
\* connected and comes to show its status as it is, whatever was dropped on the
\* way; when the daemon stays away, it says so.
ScreenConverges ==
    /\ <>[](daemon = "up" /\ ~quitting) => <>[](connected /\ shown = Push(status))
    /\ <>[](daemon = "down" /\ ~quitting) => <>[]~connected

\* After Close the client's goroutine ends, wherever it was, if the daemon is there.
CloseEnds == closed ~> runner = "done" \/ daemon # "up"

-----------------------------------------------------------------------------
(* A statement of the repository that the code does not keep. *)

\* "Forgetting mid-rip would clear the attempt count of the very rip still
\* running" (forgetTarget), so it is refused: a disc is never forgotten while
\* its drive is busy.  The status that is looked at is up to a second old, and
\* the daemon does not look again.
NeverForgottenMidRip ==
    [][(handler = "read" /\ handler' = "reply" /\ Head(requests).method = "forget")
            => ~status.busy]_socketVars

=============================================================================
