---------------------------- MODULE EventStream -----------------------------
(***************************************************************************)
(* The event stream from the daemon to the catalog: the hub, the handler   *)
(* of GET /v1/events that replays from it and then follows it              *)
(* (internal/api/server.go), the connection, and the bridge that applies   *)
(* the events to the catalog and keeps a cursor (slay/bin/bridge,          *)
(* slay/lib/hellboxd/stream.rb, slay/app/models/bridge_cursor.rb).         *)
(*                                                                         *)
(* There is one bridge.  The connection may break, the bridge may be       *)
(* killed and the daemon may restart at any moment.  The cursor is in the  *)
(* bridge's database; the daemon's ids start again from 1.                 *)
(***************************************************************************)
EXTENDS EventHub

CONSTANTS
    SubBuffer, \* capacity of a subscriber's channel
    Wire,      \* frames the connection holds before a write blocks
    MaxBreaks, \* bound: connections broken and bridges killed
    MaxBoots,  \* bound: restarts of the daemon
    None

\* What the handler writes: an event, or the advice to reconcile, by a daemon.
Frame == [kind : {"event", "reconcile"}, id : Nat, boot : Nat]

ASSUME StreamConstants ==
    /\ None \notin Frame
    /\ SubBuffer \in Nat \ {0}
    /\ Wire \in Nat \ {0}
    /\ MaxBreaks \in Nat
    /\ MaxBoots \in Nat

VARIABLES
    conn,    \* the handler: "closed", "since", "behind", "replay" or "live"
    from,    \* the Last-Event-ID it was given
    ch,      \* its subscription
    missed,  \* what is left of its replay
    sent,    \* the last id it wrote
    wire,    \* frames written and not yet read
    hand,    \* the frame whose event is applied and not yet moved past
    cursor,  \* BridgeCursor.last_event_id
    handled, \* the events Ingest was called with, each <<boot, id>>
    told,    \* history: the daemon's boots that sent a reconcile the bridge read
    breaks,
    boots

handler == <<conn, from, ch, missed, sent>>
bridge == <<hand, cursor, handled, told>>
faults == <<breaks, boots>>
vars == <<hubVars, handler, wire, bridge, faults>>

\* Mutant: an event published before the replay is over is not queued.
SubscribedLate == conn = "live"

\* Subscribe comes before Since.
Subscribed == conn # "closed"

\* Recorded, and offered to the subscriber without waiting for it.
Publish ==
    /\ Record
    /\ ch' = IF Subscribed /\ Len(ch) < SubBuffer THEN Append(ch, nextID + 1) ELSE ch
    /\ UNCHANGED <<conn, from, missed, sent, wire, bridge, faults>>

(***************************************************************************)
(* Server.events.                                                          *)
(***************************************************************************)

\* The bridge, done with its last connection, asks to resume from its cursor.
Connect ==
    /\ conn = "closed" /\ wire = <<>> /\ hand = None
    /\ conn' = "since"
    /\ from' = cursor
    /\ UNCHANGED <<hubVars, ch, missed, sent, wire, bridge, faults>>

Replay ==
    /\ conn = "since"
    /\ missed' = Since(from)
    /\ sent' = from
    /\ conn' = IF Complete(from) THEN "replay" ELSE "behind"
    /\ UNCHANGED <<hubVars, from, ch, wire, bridge, faults>>

Write(kind, id) ==
    /\ Len(wire) < Wire
    /\ wire' = Append(wire, [kind |-> kind, id |-> id, boot |-> boots])

\* "A client that has fallen further behind ... is told so explicitly."
WriteReconcile ==
    /\ conn = "behind"
    /\ Write("reconcile", nextID)
    /\ conn' = "replay"
    /\ UNCHANGED <<hubVars, from, ch, missed, sent, bridge, faults>>

WriteMissed ==
    /\ conn = "replay" /\ missed # <<>>
    /\ Write("event", Head(missed))
    /\ sent' = Head(missed)
    /\ missed' = Tail(missed)
    /\ UNCHANGED <<hubVars, conn, from, ch, bridge, faults>>

Replayed ==
    /\ conn = "replay" /\ missed = <<>>
    /\ conn' = "live"
    /\ UNCHANGED <<hubVars, from, ch, missed, sent, wire, bridge, faults>>

\* Mutant: what the replay has sent is sent again.
AlwaysNew(id) == TRUE

\* "Replay and the live stream overlap by design."
New(id) == id > sent

WriteLive ==
    /\ conn = "live" /\ ch # <<>>
    /\ ch' = Tail(ch)
    /\ IF New(Head(ch))
       THEN Write("event", Head(ch)) /\ sent' = Head(ch)
       ELSE UNCHANGED <<wire, sent>>
    /\ UNCHANGED <<hubVars, conn, from, missed, bridge, faults>>

(***************************************************************************)
(* bin/bridge.                                                             *)
(***************************************************************************)

Advance(id) == cursor' = IF id > cursor THEN id ELSE cursor

\* The next frame of the connection.
Read(kind) ==
    /\ wire # <<>> /\ hand = None
    /\ Head(wire).kind = kind
    /\ wire' = Tail(wire)

\* The bridge does not reconcile, it says that somebody should.
Reconcile ==
    /\ Read("reconcile")
    /\ Advance(Head(wire).id)
    /\ told' = told \cup {Head(wire).boot}
    /\ UNCHANGED <<hubVars, handler, hand, handled, faults>>

\* Mutant: the cursor moves first.
AdvanceFirst ==
    /\ Read("event")
    /\ hand' = Head(wire)
    /\ Advance(Head(wire).id)
    /\ UNCHANGED <<hubVars, handler, handled, told, faults>>

\* An event that Ingest raises on is logged and skipped: it counts as handled.
Apply ==
    /\ Read("event")
    /\ hand' = Head(wire)
    /\ handled' = handled \cup {<<Head(wire).boot, Head(wire).id>>}
    /\ UNCHANGED <<hubVars, handler, cursor, told, faults>>

MovePast ==
    /\ hand # None
    /\ hand' = None
    /\ Advance(hand.id)
    /\ UNCHANGED <<hubVars, handler, wire, handled, told, faults>>

(***************************************************************************)
(* What may go wrong.                                                      *)
(***************************************************************************)

\* The handler returns and releases its subscription.
Released == conn' = "closed" /\ from' = 0 /\ ch' = <<>> /\ missed' = <<>> /\ sent' = 0

\* The bridge may still read some of what was on its way.
Cut == \E n \in 0 .. Len(wire) : wire' = SubSeq(wire, 1, n)

Break ==
    /\ conn # "closed" /\ breaks < MaxBreaks
    /\ breaks' = breaks + 1
    /\ Released /\ Cut
    /\ UNCHANGED <<hubVars, bridge, boots>>

\* The bridge dies, and what it had not read goes with it: also what it was still
\* reading of a connection that has broken.
Kill ==
    /\ conn # "closed" \/ wire # <<>> \/ hand # None
    /\ breaks < MaxBreaks
    /\ breaks' = breaks + 1
    /\ Released
    /\ wire' = <<>> /\ hand' = None
    /\ UNCHANGED <<hubVars, cursor, handled, told, boots>>

\* The daemon starts again with a new hub.
Restart ==
    /\ boots < MaxBoots
    /\ boots' = boots + 1
    /\ nextID' = 0 /\ ring' = <<>> /\ start' = 0 /\ full' = FALSE
    /\ Released /\ Cut
    /\ UNCHANGED <<bridge, breaks>>

Init ==
    /\ NewHub
    /\ conn = "closed" /\ from = 0 /\ ch = <<>> /\ missed = <<>> /\ sent = 0
    /\ wire = <<>> /\ hand = None /\ cursor = 0
    /\ handled = {} /\ told = {} /\ breaks = 0 /\ boots = 0

HandlerStep == Replay \/ WriteReconcile \/ WriteMissed \/ Replayed \/ WriteLive

BridgeStep == Connect \/ Reconcile \/ Apply \/ MovePast

Next == Publish \/ HandlerStep \/ BridgeStep \/ Break \/ Kill \/ Restart

Spec == Init /\ [][Next]_vars

\* The handler's goroutine and the bridge's loop run on; the bridge reconnects
\* three seconds after a connection ends.
Fairness == WF_vars(HandlerStep) /\ WF_vars(BridgeStep)

FairSpec == Spec /\ Fairness

(***************************************************************************)
(* Properties.                                                             *)
(***************************************************************************)

\* Every variable has its type and every buffer its bound.
TypeOK ==
    /\ HubTypeOK
    /\ conn \in {"closed", "since", "behind", "replay", "live"}
    /\ Len(ch) <= SubBuffer /\ Len(wire) <= Wire /\ Len(missed) <= RingSize
    /\ {from, sent, cursor} \subseteq 0 .. MaxEvents
    /\ handled \subseteq (0 .. boots) \X (1 .. MaxEvents)
    /\ told \subseteq 0 .. boots

\* "Skip what already went out rather than sending it twice" (server.go:207):
\* the events of one connection are in order and none is sent twice, although
\* the replay and the subscription overlap.
InOrderOnce ==
    \A i, j \in DOMAIN wire :
        i < j /\ wire[i].kind = "event" /\ wire[j].kind = "event" => wire[i].id < wire[j].id

HandledNow == {e \in 1 .. nextID : <<boots, e>> \in handled}

\* The bridge's cursor never stands past an event of the running daemon that
\* was not applied, unless the bridge was told to reconcile: not when the
\* connection breaks, the bridge is killed or the buffer wraps in between.
NoSilentGap ==
    boots \in told \/ \A e \in 1 .. nextID : e <= cursor => e \in HandledNow

\* "It is restartable at any moment because the cursor is only advanced after
\* an event has been applied" (slay/bin/bridge:5): when a bridge is about to
\* connect, it has applied every event up to its cursor that the daemon could
\* still replay.
ReplayableIsNotSkipped ==
    conn = "closed" /\ wire = <<>> /\ hand = None =>
        \A i \in DOMAIN ring : ring[i] <= cursor => ring[i] \in HandledNow

Feed == INSTANCE EventFeed WITH
            Kept <- RingSize, log <- nextID, given <- HandledNow,
            place <- cursor, told <- boots \in told

\* While one daemon runs and its subscriber keeps up, the stream is the feed
\* that the comments in Server.events promise: nothing is passed over before it
\* is applied, and a reader is sent to reconcile only when the buffer has wrapped.
IsAFeed == Feed!FeedSpec

\* An event is applied in the end, or its reader is told of the gap.
EventArrives ==
    \A e \in 1 .. MaxEvents : e <= nextID ~> e \in HandledNow \/ boots \in told
=============================================================================
