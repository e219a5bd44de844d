------------------------------ MODULE EventHub ------------------------------
(***************************************************************************)
(* The hub of the daemon's HTTP event stream (internal/api/hub.go): events *)
(* get consecutive ids, and a circular buffer keeps the latest ones for    *)
(* replay.  An event is its id.                                            *)
(***************************************************************************)
EXTENDS Integers, Sequences

CONSTANTS
    RingSize,  \* ringSize
    MaxEvents  \* bound: events published by one daemon

ASSUME HubConstants ==
    /\ RingSize \in Nat \ {0}
    /\ MaxEvents \in Nat

VARIABLES
    nextID, \* the id of the latest event
    ring,   \* the buffer,
    start,  \* the index of its oldest event once it has wrapped,
    full    \* which it has

hubVars == <<nextID, ring, start, full>>

NewHub == nextID = 0 /\ ring = <<>> /\ start = 0 /\ full = FALSE

Wrap(i) == (i + 1) % RingSize

append(ev) ==
    IF Len(ring) < RingSize
    THEN ring' = Append(ring, ev) /\ UNCHANGED <<start, full>>
    ELSE /\ full' = TRUE
         /\ ring' = [ring EXCEPT ![start + 1] = ev]
         /\ start' = Wrap(start)

\* The part of Publish that is about the buffer.
Record ==
    /\ nextID < MaxEvents
    /\ nextID' = nextID + 1
    /\ append(nextID + 1)

\* Oldest first.
orderedLocked ==
    IF full THEN SubSeq(ring, start + 1, Len(ring)) \o SubSeq(ring, 1, start) ELSE ring

\* Mutant: a reader that misses exactly one event is not told.
CompleteOffByOne(id) ==
    IF ring = <<>> THEN id = 0 \/ id = nextID
                   ELSE id + 2 >= orderedLocked[1] \/ id >= nextID

\* The two results of Since: whether the caller can trust that it missed
\* nothing,
Complete(id) ==
    IF ring = <<>> THEN id = 0 \/ id = nextID
                   ELSE id + 1 >= orderedLocked[1] \/ id >= nextID

\* and the events after id, as its loop collects them.
Since(id) ==
    LET events[n \in 0 .. Len(orderedLocked)] ==
            IF n = 0 THEN <<>>
            ELSE IF orderedLocked[n] > id THEN Append(events[n - 1], orderedLocked[n])
            ELSE events[n - 1]
    IN  events[Len(orderedLocked)]

(***************************************************************************)
(* Properties.                                                             *)
(***************************************************************************)

\* Every variable has its type.
HubTypeOK ==
    /\ nextID \in 0 .. MaxEvents
    /\ ring \in Seq(1 .. MaxEvents)
    /\ start \in 0 .. RingSize - 1
    /\ full \in BOOLEAN

Held == IF nextID < RingSize THEN nextID ELSE RingSize

\* The buffer, read oldest first, is the latest events without a gap, before
\* and after it wraps (append and orderedLocked).
RingIsTheLatest ==
    /\ Len(orderedLocked) = Held
    /\ \A i \in 1 .. Held : orderedLocked[i] = nextID - Held + i

\* "Whether the caller can trust that it missed nothing" (hub.go:122): for an
\* id of this daemon, Since is complete exactly when every later event is in
\* the buffer.
CompleteIsHonest ==
    \A id \in 0 .. nextID :
        Complete(id) <=> \A e \in id + 1 .. nextID : \E i \in 1 .. Len(ring) : ring[i] = e

\* What Since returns is every later event the buffer holds, in order.
SinceIsTheRest ==
    \A id \in 0 .. nextID :
        LET first == IF id > nextID - Held THEN id ELSE nextID - Held
        IN  Since(id) = [i \in 1 .. nextID - first |-> first + i]
=============================================================================
