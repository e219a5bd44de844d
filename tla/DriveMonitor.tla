---------------------------- MODULE DriveMonitor ----------------------------
(***************************************************************************)
(* A drive, the person at its tray, and the goroutine that watches it:     *)
(* internal/drive/monitor.go polls Drive.Status, suppresses the states a   *)
(* drive passes through while a disc spins up, and sends every change down *)
(* a bounded channel to the drive's worker.                                *)
(*                                                                         *)
(* Time is abstract.  A tray, or a plug, is slower than the poll interval: *)
(* nobody moves a drive twice between two polls of a monitor that is       *)
(* polling.  A monitor blocked on a full channel does not poll, and then   *)
(* anything may happen to the drive meanwhile.                             *)
(***************************************************************************)
EXTENDS Integers, Sequences

CONSTANTS
    Drive,
    Disc,
    Unreadable, \* discs these drives cannot read
    Damaged,    \* discs that answer with an error of their medium
    Buffer,     \* capacity of the event channel
    MaxMoves,   \* bound: movements of trays and plugs, and stops of the daemon
    MaxFlickers,\* bound: times a drive answers something else for a moment
    None        \* no disc, no event

ASSUME MonitorConstants ==
    /\ Unreadable \subseteq Disc
    /\ Damaged \subseteq Disc \ Unreadable
    /\ Buffer \in Nat \ {0}
    /\ MaxMoves \in Nat
    /\ MaxFlickers \in Nat
    /\ None \notin Disc
    /\ None \notin {"error", "unknown", "no_disc", "tray_open", "not_ready", "disc_ok",
                    "incompatible"}

VARIABLES
    plugged,  \* the kernel can reach the drive
    open,     \* its tray is open
    inside,   \* the disc on the tray, or None
    ready,    \* "no", "odd" (it answers with a sense that says nothing) or "yes"
    looked,   \* a poll has read the drive since it last moved
    moves, flickers,
    daemon,   \* "up", "stopping" (the context is cancelled) or "down"
    started,  \* Monitor.Run: the first reading is done,
    current,  \* the status last reported,
    pending,  \* the transient status being waited out,
    blocked,  \* the event emit is blocked on, if the channel is full
    events,   \* and the channel
    told      \* history: the last event the worker received

drive == <<plugged, open, inside, ready, looked, moves, flickers>>
monitor == <<started, current, pending, blocked, events>>
monitorVars == <<drive, monitor, daemon, told>>

Statuses == {"unknown", "no_disc", "tray_open", "not_ready", "disc_ok", "incompatible"}

\* What Drive.Status returns, and an event carries: a status, or an error.
Readings == Statuses \cup {"error"}

\* Event.To: with an error it is StatusUnknown.
To(reading) == IF reading = "error" THEN "unknown" ELSE reading

\* queryStatus and statusFromSense.  A drive that cannot be reached answers with
\* an error; a sense that does not describe the medium, such as a damaged
\* disc's or a unit attention, is StatusUnknown and no error.
Status(w) ==
    CASE ~ plugged[w] -> "error"
      [] plugged[w] /\ open[w] -> "tray_open"
      [] plugged[w] /\ ~ open[w] /\ ready[w] = "no" -> "not_ready"
      [] plugged[w] /\ ~ open[w] /\ ready[w] = "odd" -> "unknown"
      [] plugged[w] /\ ~ open[w] /\ ready[w] = "yes" /\ inside[w] = None -> "no_disc"
      [] plugged[w] /\ ~ open[w] /\ ready[w] = "yes" /\ inside[w] \in Unreadable -> "incompatible"
      [] plugged[w] /\ ~ open[w] /\ ready[w] = "yes" /\ inside[w] \in Damaged -> "unknown"
      [] OTHER -> "disc_ok"

(***************************************************************************)
(* Monitor.Run.                                                            *)
(***************************************************************************)

\* Mutant: a full channel drops the event.
EmitOrDrop(w, reading) ==
    /\ current' = [current EXCEPT ![w] = To(reading)]
    /\ events' = [events EXCEPT ![w] = IF Len(@) < Buffer THEN Append(@, reading) ELSE @]
    /\ UNCHANGED blocked

emit(w, reading) ==
    /\ current' = [current EXCEPT ![w] = To(reading)]
    /\ IF Len(events[w]) < Buffer
       THEN events' = [events EXCEPT ![w] = Append(@, reading)] /\ UNCHANGED blocked
       ELSE blocked' = [blocked EXCEPT ![w] = reading] /\ UNCHANGED events

Deliver(w) ==
    /\ daemon = "up"
    /\ blocked[w] # None
    /\ Len(events[w]) < Buffer
    /\ events' = [events EXCEPT ![w] = Append(@, blocked[w])]
    /\ blocked' = [blocked EXCEPT ![w] = None]
    /\ UNCHANGED <<drive, started, current, pending, daemon, told>>

\* The ticker fires and the drive is read.
Tick(w) ==
    /\ daemon = "up"
    /\ blocked[w] = None
    /\ looked' = [looked EXCEPT ![w] = TRUE]
    /\ UNCHANGED <<plugged, open, inside, ready, moves, flickers, daemon, told>>

Quiet == UNCHANGED <<current, blocked, events>>

\* Mutant: a drive that was readable and is not is passed over.
NewsAtStart(w) == ~ started[w]

\* Reported once, so that the poll can go on until the drive comes back; a drive
\* already taken for unknown is not reported at all.
News(w) == current[w] # "unknown" \/ ~ started[w]

PollError(w) ==
    /\ Tick(w)
    /\ Status(w) = "error"
    /\ IF News(w) THEN emit(w, "error") ELSE Quiet
    /\ started' = [started EXCEPT ![w] = TRUE]
    /\ pending' = [pending EXCEPT ![w] = "unknown"]

\* The first reading always produces an event.
PollFirst(w) ==
    /\ Tick(w)
    /\ Status(w) # "error" /\ ~ started[w]
    /\ started' = [started EXCEPT ![w] = TRUE]
    /\ emit(w, Status(w))
    /\ pending' = [pending EXCEPT ![w] = Status(w)]

Changed(w) == started[w] /\ Status(w) # "error" /\ Status(w) # current[w]

PollSame(w) ==
    /\ Tick(w)
    /\ started[w] /\ Status(w) # "error" /\ Status(w) = current[w]
    /\ pending' = [pending EXCEPT ![w] = Status(w)]
    /\ Quiet /\ UNCHANGED started

Transient == {"not_ready", "unknown"}

\* A transient state is not believed at its first reading, nor until the drive has
\* answered the same for the settle time.
PollUnsettled(w) ==
    /\ Tick(w)
    /\ Changed(w) /\ Status(w) \in Transient
    /\ pending' = [pending EXCEPT ![w] = Status(w)]
    /\ Quiet /\ UNCHANGED started

PollChanged(w) ==
    /\ Tick(w)
    /\ Changed(w)
    /\ Status(w) \in Transient => pending[w] = Status(w)
    /\ pending' = [pending EXCEPT ![w] = Status(w)]
    /\ emit(w, Status(w))
    /\ UNCHANGED started

Poll(w) ==
    PollError(w) \/ PollFirst(w) \/ PollSame(w) \/ PollUnsettled(w) \/ PollChanged(w)

\* What Monitor.Run starts with.
FreshMonitor ==
    /\ started' = [w \in Drive |-> FALSE]
    /\ current' = [w \in Drive |-> "unknown"]
    /\ pending' = [w \in Drive |-> "unknown"]
    /\ blocked' = [w \in Drive |-> None]
    /\ events' = [w \in Drive |-> <<>>]
    /\ told' = [w \in Drive |-> None]

(***************************************************************************)
(* The person at the drive.                                                *)
(***************************************************************************)

Moves(w) ==
    /\ moves < MaxMoves
    /\ moves' = moves + 1
    /\ daemon = "up" => looked[w] \/ blocked[w] # None
    /\ looked' = [looked EXCEPT ![w] = FALSE]
    /\ UNCHANGED <<flickers, monitor, daemon, told>>

OpenTray(w) ==
    /\ ~ open[w]
    /\ Moves(w)
    /\ open' = [open EXCEPT ![w] = TRUE]
    /\ ready' = [ready EXCEPT ![w] = "no"]
    /\ UNCHANGED <<plugged, inside>>

\* The tray is pushed in with some disc on it, or with none.
CloseTray(w, d) ==
    /\ open[w]
    /\ Moves(w)
    /\ open' = [open EXCEPT ![w] = FALSE]
    /\ inside' = [inside EXCEPT ![w] = d]
    /\ UNCHANGED <<plugged, ready>>

\* The cable is pulled or put back, or the kernel drops the drive.
Replug(w) ==
    /\ Moves(w)
    /\ plugged' = [plugged EXCEPT ![w] = ~ @]
    /\ UNCHANGED <<open, inside, ready>>

\* The drive stops spinning up.
SpinUp(w) ==
    /\ ~ open[w] /\ ready[w] # "yes"
    /\ daemon = "up" => looked[w] \/ blocked[w] # None
    /\ ready' = [ready EXCEPT ![w] = "yes"]
    /\ looked' = [looked EXCEPT ![w] = FALSE]
    /\ UNCHANGED <<plugged, open, inside, moves, flickers, monitor, daemon, told>>

\* A closed drive is not ready for a moment, as drives are while a disc settles, or
\* answers with a sense that says nothing.
Flicker(w) ==
    /\ flickers < MaxFlickers
    /\ flickers' = flickers + 1
    /\ ~ open[w] /\ ready[w] = "yes"
    /\ \E r \in {"no", "odd"} : ready' = [ready EXCEPT ![w] = r]
    /\ looked' = [looked EXCEPT ![w] = FALSE]
    /\ UNCHANGED <<plugged, open, inside, moves, monitor, daemon, told>>

Person(w) ==
    OpenTray(w) \/ (\E d \in Disc \cup {None} : CloseTray(w, d)) \/ Replug(w)

(***************************************************************************)
(* The monitor on its own, with a worker that only takes events.           *)
(***************************************************************************)

Receive(w) ==
    /\ daemon # "down"
    /\ events[w] # <<>>
    /\ told' = [told EXCEPT ![w] = Head(events[w])]
    /\ events' = [events EXCEPT ![w] = Tail(@)]
    /\ UNCHANGED <<drive, started, current, pending, blocked, daemon>>

\* The daemon stops, at any moment, and starts again with fresh monitors.
Dies == /\ daemon # "down"
        /\ moves < MaxMoves
        /\ daemon' = "down"
        /\ FreshMonitor
        /\ moves' = moves + 1
        /\ UNCHANGED <<plugged, open, inside, ready, looked, flickers>>

Starts == /\ daemon = "down"
          /\ daemon' = "up"
          /\ UNCHANGED <<drive, monitor, told>>

DriveInit ==
    /\ plugged = [w \in Drive |-> TRUE]
    /\ open = [w \in Drive |-> TRUE]
    /\ inside = [w \in Drive |-> None]
    /\ ready = [w \in Drive |-> "no"]
    /\ looked = [w \in Drive |-> FALSE]
    /\ moves = 0 /\ flickers = 0
    /\ daemon = "down"
    /\ started = [w \in Drive |-> FALSE]
    /\ current = [w \in Drive |-> "unknown"]
    /\ pending = [w \in Drive |-> "unknown"]
    /\ blocked = [w \in Drive |-> None]
    /\ events = [w \in Drive |-> <<>>]
    /\ told = [w \in Drive |-> None]

MonitorNext ==
    \/ \E w \in Drive : Poll(w) \/ Deliver(w) \/ Receive(w) \/ Person(w) \/ SpinUp(w)
                          \/ Flicker(w)
    \/ Dies
    \/ Starts

MonitorSpec == DriveInit /\ [][MonitorNext]_monitorVars

\* The ticker fires again and again, a status that persists outlasts the settle
\* time, the worker returns to its channel, and a disc stops spinning up.
MonitorFairness ==
    /\ WF_monitorVars(Starts)
    /\ \A w \in Drive :
        /\ WF_monitorVars(PollError(w) \/ PollFirst(w) \/ PollChanged(w))
        /\ WF_monitorVars(Poll(w))
        /\ WF_monitorVars(Deliver(w))
        /\ WF_monitorVars(Receive(w))
        /\ WF_monitorVars(SpinUp(w))

FairMonitorSpec == MonitorSpec /\ MonitorFairness

(***************************************************************************)
(* Properties.                                                             *)
(***************************************************************************)

\* Every variable has its type, and the channel never exceeds its capacity.
MonitorTypeOK ==
    /\ plugged \in [Drive -> BOOLEAN]
    /\ open \in [Drive -> BOOLEAN]
    /\ inside \in [Drive -> Disc \cup {None}]
    /\ ready \in [Drive -> {"no", "odd", "yes"}]
    /\ looked \in [Drive -> BOOLEAN]
    /\ moves \in 0 .. MaxMoves /\ flickers \in 0 .. MaxFlickers
    /\ daemon \in {"up", "stopping", "down"}
    /\ started \in [Drive -> BOOLEAN]
    /\ current \in [Drive -> Statuses]
    /\ pending \in [Drive -> Statuses]
    /\ blocked \in [Drive -> Readings \cup {None}]
    /\ events \in [Drive -> Seq(Readings)]
    /\ told \in [Drive -> Readings \cup {None}]
    /\ \A w \in Drive : Len(events[w]) <= Buffer

\* What the worker has been told last, is about to be told, and will be told
\* once the channel has room.
Reports(w) ==
    (IF told[w] = None THEN <<>> ELSE <<told[w]>>) \o events[w]
        \o (IF blocked[w] = None THEN <<>> ELSE <<blocked[w]>>)

\* monitor.go emits an event "on every state transition" and on nothing else:
\* no two events in a row say the same, and the last one is what the monitor
\* takes the drive to be, so nothing is lost or doubled on its way through a
\* full channel.
EveryEventIsATransition ==
    \A w \in Drive :
        /\ \A i \in 1 .. Len(Reports(w)) - 1 : To(Reports(w)[i]) # To(Reports(w)[i + 1])
        /\ started[w] => Reports(w) # <<>> /\ To(Reports(w)[Len(Reports(w))]) = current[w]
        /\ ~ started[w] => Reports(w) = <<>>

\* A drive that is left alone is eventually known to its worker for what it is,
\* whatever happened while the channel was full, the drive was unplugged or the
\* daemon was down.  A drive that cannot be reached and one whose answer says
\* nothing are the same status (UnplugIsReported tells them apart).
SettledIsReported ==
    \A w \in Drive : \A s \in Readings :
        <>[](Status(w) = s) => <>[](daemon = "up" => To(told[w]) = To(s))

(***************************************************************************)
(* What the code's comments say and the code does not do.                  *)
(***************************************************************************)

\* "The drive vanished [...] Report once" (monitor.go:83): the error of a drive
\* that is gone for good reaches its worker.
UnplugIsReported ==
    \A w \in Drive :
        <>[](Status(w) = "error") => <>[](daemon = "up" => told[w] = "error")
=============================================================================
