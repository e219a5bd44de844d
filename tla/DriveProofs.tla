---------------------------- MODULE DriveProofs ----------------------------
(***************************************************************************)
(* What is known of a drive, for any drives and any number of movements,   *)
(* requests and restarts.  The events a worker is told are transitions,    *)
(* and the last of them is what the monitor takes the drive to be, for any *)
(* capacity of the event channel; and once a worker has handled them the   *)
(* drive shows what it is.                                                 *)
(*                                                                         *)
(* The first speaks of one sequence, of what was told, what is in the      *)
(* channel and what waits for room in it: its invariant speaks of the      *)
(* three and of where each meets the next, which is what a step changes.   *)
(* The second needs to know which report a worker acts on at each place,   *)
(* and that a disc reported as ready can only have left since the last     *)
(* poll.                                                                   *)
(***************************************************************************)
EXTENDS RipWorkerProofs

\* The empty sequence, and any other.
LEMMA EmptyIs ==
    ASSUME NEW S
    PROVE  /\ <<>> \in Seq(S) /\ Len(<<>>) = 0
           /\ \A s \in Seq(S) : s # <<>> => Len(s) \in Nat \ {0}
OBVIOUS

\* A sequence is a function on its places.
LEMMA LengthIs ==
    ASSUME NEW S, NEW s \in Seq(S)
    PROVE  Len(s) \in Nat /\ s \in [1 .. Len(s) -> S] /\ DOMAIN s = 1 .. Len(s)
OBVIOUS

\* A sequence with one more element.
LEMMA AppendedIs ==
    ASSUME NEW S, NEW s \in Seq(S), NEW e \in S
    PROVE  /\ Append(s, e) \in Seq(S) /\ Append(s, e) # <<>> /\ Len(Append(s, e)) = Len(s) + 1
           /\ \A i \in 1 .. Len(s) : Append(s, e)[i] = s[i]
           /\ Append(s, e)[Len(s) + 1] = e
OBVIOUS

\* A sequence that is not empty, without its first element.
LEMMA FirstAndRest ==
    ASSUME NEW S, NEW s \in Seq(S), s # <<>>
    PROVE  /\ Head(s) = s[1] /\ Head(s) \in S
           /\ Tail(s) \in Seq(S) /\ Len(Tail(s)) = Len(s) - 1
           /\ \A i \in 1 .. Len(Tail(s)) : Tail(s)[i] = s[i + 1]
OBVIOUS

\* Two sequences, one after the other.
LEMMA JoinedIs ==
    ASSUME NEW S, NEW s \in Seq(S), NEW t \in Seq(S)
    PROVE  /\ s \o t \in Seq(S) /\ Len(s \o t) = Len(s) + Len(t)
           /\ \A i \in 1 .. Len(s) + Len(t) :
                (s \o t)[i] = IF i <= Len(s) THEN s[i] ELSE t[i - Len(s)]
OBVIOUS

(***************************************************************************)
(* What the monitor reports.                                               *)
(***************************************************************************)

EventTypes ==
    /\ started \in [Drive -> BOOLEAN]
    /\ current \in [Drive -> Statuses]
    /\ blocked \in [Drive -> Readings \cup {None}]
    /\ events \in [Drive -> Seq(Readings)]
    /\ told \in [Drive -> Readings \cup {None}]

\* No two neighbours are the same status.
Alternates(s) == \A i \in 1 .. Len(s) - 1 : To(s[i]) # To(s[i + 1])

\* Where the three parts of what the worker is told meet.
Joins(t, s, b) ==
    /\ t # None /\ s # <<>> => To(t) # To(s[1])
    /\ b # None /\ s # <<>> => To(b) # To(s[Len(s)])
    /\ t # None /\ b # None /\ s = <<>> => To(t) # To(b)

\* The last of them.
Latest(t, s, b) == IF b # None THEN b ELSE IF s # <<>> THEN s[Len(s)] ELSE t

Told(w) ==
    /\ Alternates(events[w])
    /\ Joins(told[w], events[w], blocked[w])
    /\ started[w] => To(Latest(told[w], events[w], blocked[w])) = current[w]
    /\ ~ started[w] => told[w] = None /\ events[w] = <<>> /\ blocked[w] = None

EventInv == EventTypes /\ \A w \in Drive : Told(w)

LEMMA NoneIsNoStatus == None \notin Readings
BY MonitorConstants DEF Readings, Statuses

\* What an event says the drive has become.
LEMMA ToIs ==
    /\ \A reading \in Readings : To(reading) \in Statuses
    /\ \A status \in Statuses : To(status) = status
    /\ To(None) = None /\ None \notin Statuses
BY MonitorConstants DEF To, Readings, Statuses

LEMMA EventInit == DriveInit => EventInv
BY DEF DriveInit, EventInv, EventTypes, Told, Alternates, Joins, Latest, Readings, Statuses

\* A step that leaves the monitor's state and the worker's alone.
LEMMA EventUntouched ==
    ASSUME EventInv, UNCHANGED <<monitor, told>>
    PROVE  EventInv'
BY DEF EventInv, EventTypes, Told, monitor

\* An event that differs from the latest one, or is the first, is appended to
\* the channel or waits for room in it.
LEMMA Emitted ==
    ASSUME EventInv, NEW w \in Drive, NEW to \in Readings,
           blocked[w] = None, started[w] => To(to) # current[w],
           emit(w, to), UNCHANGED told, started' = [started EXCEPT ![w] = TRUE]
    PROVE  EventInv'
<1> USE NoneIsNoStatus DEF EventInv
<1>1. current' = [current EXCEPT ![w] = To(to)] /\ To(to) \in Statuses
  BY ToIs DEF emit
<1>2. CASE /\ events' = [events EXCEPT ![w] = Append(events[w], to)]
           /\ UNCHANGED blocked
  <2>1. EventTypes'
    BY <1>1, <1>2, AppendedIs DEF EventTypes
  <2>2. events[w] \in Seq(Readings) /\ events'[w] = Append(events[w], to)
    BY <1>2 DEF EventTypes
  <2>3. /\ Len(events'[w]) = Len(events[w]) + 1 /\ events'[w] # <<>>
        /\ \A i \in 1 .. Len(events[w]) : events'[w][i] = events[w][i]
        /\ events'[w][Len(events[w]) + 1] = to
        /\ Len(events[w]) \in Nat
        /\ events[w] # <<>> => Len(events[w]) > 0
    BY <2>2, AppendedIs, EmptyIs, LengthIs
  <2>4. events[w] # <<>> => To(events[w][Len(events[w])]) # To(to)
    BY DEF Told, Latest
  <2>5. events[w] = <<>> /\ told[w] # None => To(told[w]) # To(to)
    BY DEF Told, Latest
  <2>6. Len(events[w]) = 0 => events[w] = <<>>
    BY <2>2
  <2>7. Alternates(events'[w])
    <3>1. ASSUME NEW i \in 1 .. Len(events[w]) PROVE To(events'[w][i]) # To(events'[w][i + 1])
      <4>1. CASE i = Len(events[w])
        BY <2>3, <2>4, <3>1, <4>1
      <4>2. CASE i < Len(events[w])
        <5>1. i \in 1 .. Len(events[w]) - 1 /\ i + 1 \in 1 .. Len(events[w])
          BY <2>3, <3>1, <4>2
        <5>2. To(events[w][i]) # To(events[w][i + 1])
          BY <5>1 DEF Told, Alternates
        <5> QED BY <2>3, <5>1, <5>2
      <4> QED BY <2>3, <4>1, <4>2
    <3> QED BY <2>3, <3>1 DEF Alternates
  <2>8. Joins(told'[w], events'[w], blocked'[w])
    <3>1. told[w] # None => To(told[w]) # To(events'[w][1])
      BY <2>3, <2>5, <2>6 DEF Told, Joins
    <3> QED BY <1>2, <2>3, <3>1 DEF Joins
  <2>9. Latest(told'[w], events'[w], blocked'[w]) = to
    BY <1>2, <2>3 DEF Latest
  <2>10. Told(w)'
    BY <1>1, <2>7, <2>8, <2>9 DEF Told, EventTypes
  <2>11. ASSUME NEW v \in Drive, v # w PROVE Told(v)'
    BY <1>1, <1>2, <2>11 DEF Told, EventTypes
  <2> QED BY <2>1, <2>10, <2>11
<1>3. CASE /\ blocked' = [blocked EXCEPT ![w] = to]
           /\ UNCHANGED events
  <2>1. EventTypes'
    BY <1>1, <1>3 DEF EventTypes
  <2>2. blocked'[w] = to /\ to # None
    BY <1>3 DEF EventTypes
  <2>3. events[w] # <<>> => To(events[w][Len(events[w])]) # To(to)
    BY DEF Told, Latest
  <2>4. events[w] = <<>> /\ told[w] # None => To(told[w]) # To(to)
    BY DEF Told, Latest
  <2>5. Joins(told'[w], events'[w], blocked'[w])
    BY <1>3, <2>2, <2>3, <2>4 DEF Told, Joins
  <2>6. Told(w)'
    BY <1>1, <1>3, <2>2, <2>5 DEF Told, Latest, EventTypes
  <2>7. ASSUME NEW v \in Drive, v # w PROVE Told(v)'
    BY <1>1, <1>3, <2>7 DEF Told, EventTypes
  <2> QED BY <2>1, <2>6, <2>7
<1> QED BY <1>2, <1>3 DEF emit

\* The event that waited enters the channel.
LEMMA Delivered ==
    ASSUME EventInv, NEW w \in Drive, Deliver(w)
    PROVE  EventInv'
<1> USE NoneIsNoStatus DEF EventInv
<1> DEFINE b == blocked[w]
<1>1. /\ b \in Readings /\ events[w] \in Seq(Readings)
      /\ events' = [events EXCEPT ![w] = Append(events[w], b)]
      /\ blocked' = [blocked EXCEPT ![w] = None]
      /\ UNCHANGED <<started, current, told>>
  BY DEF Deliver, EventTypes
<1>2. EventTypes'
  BY <1>1, AppendedIs DEF EventTypes
<1>3. events'[w] = Append(events[w], b) /\ blocked'[w] = None
  BY <1>1 DEF EventTypes
<1>4. /\ Len(events'[w]) = Len(events[w]) + 1 /\ events'[w] # <<>>
      /\ \A i \in 1 .. Len(events[w]) : events'[w][i] = events[w][i]
      /\ events'[w][Len(events[w]) + 1] = b
      /\ Len(events[w]) \in Nat
      /\ events[w] # <<>> => Len(events[w]) > 0
      /\ Len(events[w]) = 0 => events[w] = <<>>
  BY <1>1, <1>3, AppendedIs, EmptyIs, LengthIs
<1>5. b # None
  BY <1>1
<1>6. Alternates(events'[w])
  BY <1>4, <1>5 DEF Told, Alternates, Joins
<1>7. Joins(told'[w], events'[w], blocked'[w])
  <2>1. told[w] # None => To(told[w]) # To(events'[w][1])
    BY <1>4, <1>5 DEF Told, Joins
  <2> QED BY <1>1, <1>3, <1>4, <2>1 DEF Joins
<1>8. Told(w)'
  BY <1>1, <1>3, <1>4, <1>5, <1>6, <1>7 DEF Told, Latest
<1>9. ASSUME NEW v \in Drive, v # w PROVE Told(v)'
  BY <1>1, <1>9 DEF Told, EventTypes
<1> QED BY <1>2, <1>8, <1>9

\* The worker takes the first event of the channel.
LEMMA Received ==
    ASSUME EventInv, NEW w \in Drive, Receive(w)
    PROVE  EventInv'
<1> USE NoneIsNoStatus DEF EventInv
<1>1. /\ events[w] \in Seq(Readings) /\ events[w] # <<>>
      /\ told' = [told EXCEPT ![w] = Head(events[w])]
      /\ events' = [events EXCEPT ![w] = Tail(events[w])]
      /\ UNCHANGED <<started, current, blocked>>
  BY DEF Receive, EventTypes
<1>2. /\ Head(events[w]) \in Readings /\ Tail(events[w]) \in Seq(Readings)
      /\ Len(Tail(events[w])) = Len(events[w]) - 1
      /\ \A i \in 1 .. Len(Tail(events[w])) : Tail(events[w])[i] = events[w][i + 1]
      /\ Head(events[w]) = events[w][1]
      /\ Len(events[w]) \in Nat \ {0}
      /\ Tail(events[w]) # <<>> => Len(Tail(events[w])) \in Nat \ {0}
      /\ Tail(events[w]) = <<>> => Len(Tail(events[w])) = 0
  <2>1. /\ Head(events[w]) \in Readings /\ Tail(events[w]) \in Seq(Readings)
        /\ Len(Tail(events[w])) = Len(events[w]) - 1
        /\ \A i \in 1 .. Len(Tail(events[w])) : Tail(events[w])[i] = events[w][i + 1]
    BY <1>1, FirstAndRest
  <2>2. /\ Len(events[w]) \in Nat \ {0}
        /\ Tail(events[w]) # <<>> => Len(Tail(events[w])) \in Nat \ {0}
        /\ Tail(events[w]) = <<>> => Len(Tail(events[w])) = 0
    BY <1>1, <2>1, EmptyIs, Zenon
  <2>3. Head(events[w]) = events[w][1]
    BY <1>1
  <2> QED BY <2>1, <2>2, <2>3
<1>3. EventTypes'
  BY <1>1, <1>2 DEF EventTypes
<1>4. events'[w] = Tail(events[w]) /\ told'[w] = events[w][1] /\ told'[w] # None
  BY <1>1, <1>2 DEF EventTypes
<1>5. Alternates(events'[w])
  BY <1>2, <1>4 DEF Told, Alternates
<1>6. Tail(events[w]) # <<>> => Tail(events[w])[Len(Tail(events[w]))] = events[w][Len(events[w])]
  BY <1>2
<1>7. Tail(events[w]) = <<>> => events[w][1] = events[w][Len(events[w])]
  BY <1>2
<1>8. Joins(told'[w], events'[w], blocked'[w])
  <2>1. events'[w] # <<>> => To(told'[w]) # To(events'[w][1])
    BY <1>2, <1>4 DEF Told, Alternates
  <2>2. blocked[w] # None => To(blocked[w]) # To(events[w][Len(events[w])])
    BY <1>1 DEF Told, Joins
  <2> QED BY <1>1, <1>4, <1>6, <1>7, <2>1, <2>2 DEF Joins
<1>9. Latest(told'[w], events'[w], blocked'[w]) = Latest(told[w], events[w], blocked[w])
  BY <1>1, <1>4, <1>6, <1>7 DEF Latest
<1>10. Told(w)'
  BY <1>1, <1>5, <1>8, <1>9 DEF Told
<1>11. ASSUME NEW v \in Drive, v # w PROVE Told(v)'
  BY <1>1, <1>11 DEF Told, EventTypes
<1> QED BY <1>3, <1>10, <1>11

LEMMA EventStep == EventInv /\ [MonitorNext]_monitorVars => EventInv'
<1> SUFFICES ASSUME EventInv, [MonitorNext]_monitorVars PROVE EventInv'
  OBVIOUS
<1>1. CASE UNCHANGED monitorVars
  BY <1>1, EventUntouched DEF monitorVars
<1>2. ASSUME NEW w \in Drive, Poll(w) PROVE EventInv'
  <2>1. Status(w) \in Readings /\ (Status(w) # "error" => To(Status(w)) = Status(w))
        /\ To("error") = "unknown" /\ "error" \in Readings
    BY DEF Status, Readings, Statuses, To
  <2>2. blocked[w] = None /\ UNCHANGED told
    BY <1>2 DEF Poll, PollError, PollFirst, PollSame, PollUnsettled, PollChanged, Tick
  <2>3. started \in [Drive -> BOOLEAN]
    BY DEF EventInv, EventTypes
  <2>4. CASE PollError(w)
    <3>1. CASE News(w)
      BY <2>1, <2>2, <2>4, <3>1, Emitted, Zenon DEF PollError, News
    <3>2. CASE ~ News(w)
      <4>1. UNCHANGED <<current, blocked, events>>
            /\ started' = [started EXCEPT ![w] = TRUE] /\ started[w]
        BY <2>4, <3>2 DEF PollError, News, Quiet
      <4>2. started' = started
        BY <4>1, <2>3
      <4> QED BY <2>2, <4>1, <4>2 DEF EventInv, EventTypes, Told
    <3> QED BY <3>1, <3>2
  <2>5. CASE PollFirst(w)
    BY <2>1, <2>2, <2>5, Emitted, Zenon DEF PollFirst
  <2>6. CASE PollSame(w) \/ PollUnsettled(w)
    BY <2>2, <2>6 DEF PollSame, PollUnsettled, Quiet, EventInv, EventTypes, Told
  <2>7. CASE PollChanged(w)
    <3>1. started' = [started EXCEPT ![w] = TRUE]
      BY <2>3, <2>7 DEF PollChanged, Changed
    <3> QED BY <2>1, <2>2, <2>7, <3>1, Emitted, Zenon DEF PollChanged, Changed
  <2> QED BY <1>2, <2>4, <2>5, <2>6, <2>7 DEF Poll
<1>3. ASSUME NEW w \in Drive, Deliver(w) PROVE EventInv'
  BY <1>3, Delivered
<1>4. ASSUME NEW w \in Drive, Receive(w) PROVE EventInv'
  BY <1>4, Received
<1>5. ASSUME NEW w \in Drive, Person(w) \/ SpinUp(w) \/ Flicker(w) PROVE EventInv'
  BY <1>5, EventUntouched DEF Person, OpenTray, CloseTray, Replug, Moves, SpinUp, Flicker
<1>6. CASE Dies
  BY <1>6 DEF Dies, FreshMonitor, EventInv, EventTypes, Told, Alternates, Joins, Latest, Readings,
    Statuses
<1>7. CASE Starts
  BY <1>7, EventUntouched DEF Starts
<1> QED BY <1>1, <1>2, <1>3, <1>4, <1>5, <1>6, <1>7 DEF MonitorNext

Together(t, s, b) ==
    (IF t = None THEN <<>> ELSE <<t>>) \o s \o (IF b = None THEN <<>> ELSE <<b>>)

\* Three parts that alternate and join make a sequence that alternates and ends
\* with the latest.
LEMMA Joined ==
    ASSUME NEW t \in Readings \cup {None}, NEW s \in Seq(Readings),
           NEW b \in Readings \cup {None}, Alternates(s), Joins(t, s, b)
    PROVE  /\ Alternates(Together(t, s, b))
           /\ Latest(t, s, b) # None =>
                /\ Together(t, s, b) # <<>>
                /\ Together(t, s, b)[Len(Together(t, s, b))] = Latest(t, s, b)
<1> DEFINE p == IF t = None THEN <<>> ELSE <<t>>
           q == IF b = None THEN <<>> ELSE <<b>>
           r == Together(t, s, b)
<1>1. /\ p \in Seq(Readings) /\ (t = None => Len(p) = 0)
      /\ (t # None => Len(p) = 1 /\ p[1] = t)
  OBVIOUS
<1>2. /\ q \in Seq(Readings) /\ (b = None => Len(q) = 0)
      /\ (b # None => Len(q) = 1 /\ q[1] = b)
  OBVIOUS
<1>3. /\ Len(s) \in Nat /\ Len(p) \in Nat /\ Len(q) \in Nat
      /\ s = <<>> => Len(s) = 0
      /\ s # <<>> => Len(s) > 0
  BY <1>1, <1>2, EmptyIs, LengthIs
<1> HIDE DEF p, q
<1>4. /\ p \o s \in Seq(Readings) /\ Len(p \o s) = Len(p) + Len(s)
      /\ \A i \in 1 .. Len(p) + Len(s) : (p \o s)[i] = IF i <= Len(p) THEN p[i] ELSE s[i - Len(p)]
  BY <1>1, JoinedIs
<1>5. /\ r \in Seq(Readings) /\ Len(r) = Len(p) + Len(s) + Len(q)
      /\ \A i \in 1 .. Len(p) + Len(s) + Len(q) :
            r[i] = IF i <= Len(p) + Len(s) THEN (p \o s)[i] ELSE q[i - (Len(p) + Len(s))]
  <2>1. r = (p \o s) \o q
    BY DEF Together, p, q
  <2> HIDE DEF r
  <2> QED BY <1>2, <1>4, <2>1, JoinedIs
<1> HIDE DEF r
<1>6. \A i \in 1 .. Len(r) :
        r[i] = IF i <= Len(p) THEN p[i]
               ELSE IF i <= Len(p) + Len(s) THEN s[i - Len(p)] ELSE q[i - (Len(p) + Len(s))]
  BY <1>3, <1>4, <1>5
<1>7. ASSUME NEW i \in 1 .. Len(r) - 1 PROVE To(r[i]) # To(r[i + 1])
  <2>1. i \in 1 .. Len(r) /\ i + 1 \in 1 .. Len(r)
    BY <1>3, <1>5
  <2>2. CASE i <= Len(p)
    <3>1. i = 1 /\ Len(p) = 1 /\ t # None /\ r[i] = t
      BY <1>1, <1>3, <1>6, <2>1, <2>2
    <3>2. CASE s # <<>>
      BY <1>3, <1>6, <2>1, <3>1, <3>2 DEF Joins
    <3>3. CASE s = <<>>
      <4>1. r[i + 1] = q[1] /\ Len(q) > 0
        BY <1>3, <1>5, <1>6, <2>1, <3>1, <3>3
      <4> QED BY <1>2, <3>1, <3>3, <4>1 DEF Joins
    <3> QED BY <3>2, <3>3
  <2>3. CASE i > Len(p) /\ i + 1 <= Len(p) + Len(s)
    <3>1. r[i] = s[i - Len(p)] /\ r[i + 1] = s[(i - Len(p)) + 1]
          /\ i - Len(p) \in 1 .. Len(s) - 1
      BY <1>3, <1>6, <2>1, <2>3
    <3> QED BY <3>1 DEF Alternates
  <2>4. CASE i > Len(p) /\ i + 1 > Len(p) + Len(s)
    <3>1. Len(q) > 0
      BY <1>3, <1>5, <2>1, <2>4
    <3>2. b # None /\ Len(q) = 1
      BY <1>2, <3>1
    <3>3. i = Len(p) + Len(s) /\ b # None /\ Len(q) = 1
      BY <1>3, <1>5, <2>1, <2>4, <3>2
    <3>4. i - Len(p) = Len(s) /\ (i + 1) - (Len(p) + Len(s)) = 1 /\ Len(s) > 0
      BY <1>3, <2>4, <3>3
    <3>5. r[i + 1] = q[1] /\ r[i] = s[Len(s)]
      BY <1>3, <1>6, <2>1, <2>4, <3>3, <3>4
    <3>6. s # <<>> /\ q[1] = b
      BY <1>2, <1>3, <3>3, <3>4
    <3> QED BY <3>3, <3>5, <3>6 DEF Joins
  <2> QED BY <1>3, <2>1, <2>2, <2>3, <2>4
<1>8. ASSUME Latest(t, s, b) # None PROVE r # <<>> /\ r[Len(r)] = Latest(t, s, b)
  <2>1. CASE b # None
    <3>1. Len(q) = 1
      BY <1>2, <2>1
    <3>2. Len(r) \in 1 .. Len(r) /\ Len(r) = Len(p) + Len(s) + 1
      BY <1>3, <1>5, <3>1
    <3>3. r[Len(r)] = b
      BY <1>2, <1>3, <1>6, <2>1, <3>2
    <3> QED BY <1>3, <2>1, <3>2, <3>3 DEF Latest
  <2>2. CASE b = None /\ s # <<>>
    <3>1. Len(r) \in 1 .. Len(r) /\ Len(r) = Len(p) + Len(s) /\ Len(s) > 0
      BY <1>2, <1>3, <1>5, <2>2
    <3>2. r[Len(r)] = s[Len(s)]
      BY <1>3, <1>6, <3>1
    <3> QED BY <1>3, <2>2, <3>1, <3>2 DEF Latest
  <2>3. CASE b = None /\ s = <<>>
    <3>1. t # None
      BY <1>8, <2>3 DEF Latest
    <3>2. Len(r) = 1 /\ r[1] = t
      BY <1>1, <1>2, <1>3, <1>5, <1>6, <2>3, <3>1
    <3> QED BY <2>3, <3>2 DEF Latest
  <2> QED BY <2>1, <2>2, <2>3
<1> QED BY <1>7, <1>8 DEF Alternates, r

\* The monitor emits an event on every state transition and on nothing else,
\* and nothing is lost or doubled on its way through a full channel
\* (Monitor.Run and emit).
THEOREM EveryEventIsATransitionHolds == MonitorSpec => []EveryEventIsATransition
<1>1. EventInv => EveryEventIsATransition
  <2> SUFFICES ASSUME EventInv, NEW w \in Drive
               PROVE  /\ \A i \in 1 .. Len(Reports(w)) - 1 :
                            To(Reports(w)[i]) # To(Reports(w)[i + 1])
                      /\ started[w] => Reports(w) # <<>>
                                       /\ To(Reports(w)[Len(Reports(w))]) = current[w]
                      /\ ~ started[w] => Reports(w) = <<>>
    BY Zenon DEF EveryEventIsATransition
  <2>1. Told(w) /\ EventTypes
    BY DEF EventInv
  <2>2. /\ told[w] \in Readings \cup {None} /\ events[w] \in Seq(Readings)
        /\ blocked[w] \in Readings \cup {None} /\ current[w] \in Statuses
    BY <2>1 DEF EventTypes
  <2>3. /\ Alternates(Reports(w))
        /\ Latest(told[w], events[w], blocked[w]) # None =>
              Reports(w) # <<>> /\ Reports(w)[Len(Reports(w))] = Latest(told[w], events[w], blocked[w])
    <3>1. Reports(w) = Together(told[w], events[w], blocked[w])
      BY DEF Reports, Together
    <3>2. Alternates(events[w]) /\ Joins(told[w], events[w], blocked[w])
      BY <2>1 DEF Told
    <3> DEFINE t == told[w]
               s == events[w]
               b == blocked[w]
    <3>3. /\ t \in Readings \cup {None} /\ s \in Seq(Readings) /\ b \in Readings \cup {None}
          /\ Alternates(s) /\ Joins(t, s, b)
      BY <2>2, <3>2
    <3> HIDE DEF t, s, b
    <3>4. /\ Alternates(Together(t, s, b))
          /\ Latest(t, s, b) # None =>
                /\ Together(t, s, b) # <<>>
                /\ Together(t, s, b)[Len(Together(t, s, b))] = Latest(t, s, b)
      BY <3>3, Joined, Zenon
    <3> QED BY <3>1, <3>4, Zenon DEF t, s, b
  <2>4. ~ started[w] => Reports(w) = <<>>
    BY <2>1 DEF Told, Reports
  <2> QED BY <2>1, <2>2, <2>3, <2>4, ToIs DEF Told, Alternates
<1> QED BY <1>1, EventInit, EventStep, PTL DEF MonitorSpec

(***************************************************************************)
(* What a drive shows.                                                     *)
(***************************************************************************)

\* A loaded drive stays ready, trays open when they are told to, and the
\* monitor never finds the channel full.
Calm == flickers' = flickers /\ jams' = jams /\ \A w \in Drive : blocked'[w] = None

DriveStates == Busy \cup Terminal \cup {"absent", "empty", "tray_open", "loading"}

ShownTypes ==
    /\ plugged \in [Drive -> BOOLEAN] /\ open \in [Drive -> BOOLEAN]
    /\ ready \in [Drive -> {"no", "odd", "yes"}] /\ looked \in [Drive -> BOOLEAN]
    /\ started \in [Drive -> BOOLEAN] /\ current \in [Drive -> Statuses]
    /\ events \in [Drive -> Seq(Readings)] /\ told \in [Drive -> Readings \cup {None}]
    /\ blocked = [w \in Drive |-> None]
    /\ shown \in [Drive -> DriveStates]
    /\ cancelWork \in [Drive -> BOOLEAN] /\ cancelled \in [Drive -> BOOLEAN]
    /\ flickers \in Nat /\ jams \in Nat

\* The last report is what the monitor takes the drive to be.
Heard(w) ==
    /\ ~ started[w] => events[w] = <<>> /\ told[w] = None
    /\ started[w] /\ events[w] = <<>> => To(told[w]) = current[w]
    /\ events[w] # <<>> => To(events[w][Len(events[w])]) = current[w]
    /\ daemon = "down" => ~ started[w]

\* A disc that is reported ready and is not has gone since the last poll.
Gone(w) ==
    daemon = "up" /\ started[w] /\ current[w] = "disc_ok" /\ Status(w) # "disc_ok"
        => ~ looked[w] /\ (open[w] \/ ~ plugged[w])

\* The disc the worker was told of last is done with, and still there.
Finished(w) ==
    /\ daemon = "up" /\ pc[w] = "idle"
    /\ told[w] = "disc_ok" /\ events[w] = <<>> /\ Status(w) = "disc_ok"

\* A worker is at work only on a disc it was told of, and shows how that ended
\* unless the disc is gone.  A status that is unknown changes nothing.
Showing(w) ==
    /\ told[w] # "disc_ok" => pc[w] = "idle"
    /\ told[w] \notin {None, "disc_ok", "unknown"} => shown[w] = Rest[told[w]]
    /\ Finished(w) => shown[w] \in Terminal
    /\ pc[w] \in {"idle", "slot", "queued", "kind", "probe"} => ~ cancelWork[w]
    /\ pc[w] = "probe" => ~ cancelled[w]

ShownInv == ShownTypes /\ \A w \in Drive : Heard(w) /\ Gone(w) /\ Showing(w)

LEMMA ShownInit == Init => ShownInv
<1> SUFFICES ASSUME Init PROVE ShownInv
  OBVIOUS
<1>1. ShownTypes
  BY DEF Init, DriveInit, ShownTypes, DriveStates, Readings, Statuses
<1>2. ASSUME NEW w \in Drive PROVE Heard(w) /\ Gone(w) /\ Showing(w)
  <2>1. /\ daemon = "down" /\ ~ started[w] /\ events[w] = <<>> /\ told[w] = None
        /\ pc[w] = "idle" /\ ~ cancelWork[w]
    BY DEF Init, DriveInit
  <2> QED BY <2>1 DEF Heard, Gone, Showing, Finished
<1> QED BY <1>1, <1>2 DEF ShownInv

LEMMA StatusIs ==
    ASSUME ShownInv, NEW w \in Drive
    PROVE  /\ Status(w) \in Readings
           /\ open[w] \/ ~ plugged[w] \/ ready[w] # "yes" => Status(w) # "disc_ok"
<1>1. ready[w] \in {"no", "odd", "yes"} /\ plugged[w] \in BOOLEAN /\ open[w] \in BOOLEAN
  BY DEF ShownInv, ShownTypes
<1> QED BY <1>1 DEF Status, Readings, Statuses

\* A drive that a step does not touch.
Untouched(w) ==
    /\ plugged'[w] = plugged[w] /\ open'[w] = open[w] /\ inside'[w] = inside[w]
    /\ ready'[w] = ready[w] /\ looked'[w] = looked[w] /\ started'[w] = started[w]
    /\ current'[w] = current[w] /\ events'[w] = events[w] /\ told'[w] = told[w]
    /\ pc'[w] = pc[w] /\ shown'[w] = shown[w]
    /\ cancelWork'[w] = cancelWork[w] /\ cancelled'[w] = cancelled[w]

LEMMA LeftAlone ==
    ASSUME ShownInv, NEW w \in Drive, Untouched(w), daemon' = daemon
    PROVE  Heard(w)' /\ Gone(w)' /\ Showing(w)'
<1>1. Status(w)' = Status(w)
  BY DEF Untouched, Status
<1>2. Heard(w) /\ Gone(w) /\ Showing(w)
  BY DEF ShownInv
<1> QED BY <1>1, <1>2, Zenon DEF Untouched, Heard, Gone, Showing, Finished

\* A step of a worker that touches neither its drive nor its monitor.
LEMMA ShownWorks ==
    ASSUME RipInv, ShownInv, NEW w \in Drive, Working(w), NEW p \in Places,
           pc' = [pc EXCEPT ![w] = p], UNCHANGED <<monitorVars, jams>>,
           NEW s \in DriveStates, NEW c \in BOOLEAN, NEW k \in BOOLEAN,
           shown' = [shown EXCEPT ![w] = s], cancelWork' = [cancelWork EXCEPT ![w] = c],
           cancelled' = [cancelled EXCEPT ![w] = k],
           p = "idle" /\ daemon = "up" /\ Status(w) = "disc_ok" => s \in Terminal,
           p \in {"idle", "slot", "queued", "kind", "probe"} => ~ c,
           p = "probe" => ~ k
    PROVE  ShownInv'
<1>1. UNCHANGED <<plugged, open, inside, ready, looked, flickers, started, current, events, blocked,
                  daemon, told>>
  BY DEF monitorVars, drive, monitor
<1>2. ShownTypes'
  BY <1>1 DEF ShownInv, ShownTypes
<1>3. ASSUME NEW v \in Drive, v # w PROVE Untouched(v)
  BY <1>1, <1>3, Zenon DEF Untouched, ShownInv, ShownTypes, RipInv, Types
<1>4. pc'[w] = p /\ shown'[w] = s /\ cancelWork'[w] = c /\ cancelled'[w] = k
  BY DEF ShownInv, ShownTypes, RipInv, Types
<1>5. told[w] = "disc_ok" /\ told'[w] = "disc_ok"
  BY <1>1, Zenon DEF ShownInv, Showing, Working
<1>6. Status(w)' = Status(w)
  BY <1>1 DEF Status
<1>7. Heard(w)' /\ Gone(w)'
  BY <1>1, <1>6, Zenon DEF ShownInv, Heard, Gone
<1>8. Showing(w)'
  BY <1>1, <1>4, <1>5, <1>6, Zenon DEF Showing, Finished
<1> QED BY <1>1, <1>2, <1>3, <1>7, <1>8, LeftAlone DEF ShownInv

\* It goes on.
LEMMA ShownGoesOn ==
    ASSUME RipInv, ShownInv, NEW w \in Drive, Working(w),
           NEW p \in Places \ {"idle", "slot", "queued", "kind", "probe"},
           pc' = [pc EXCEPT ![w] = p], UNCHANGED <<monitorVars, jams, cancelWork, cancelled>>,
           shown' = shown \/ \E s \in DriveStates : shown' = [shown EXCEPT ![w] = s]
    PROVE  ShownInv'
<1>1. /\ cancelWork[w] \in BOOLEAN /\ cancelWork' = [cancelWork EXCEPT ![w] = cancelWork[w]]
      /\ cancelled[w] \in BOOLEAN /\ cancelled' = [cancelled EXCEPT ![w] = cancelled[w]]
      /\ shown[w] \in DriveStates /\ shown = [shown EXCEPT ![w] = shown[w]]
  BY DEF ShownInv, ShownTypes
<1>2. PICK s \in DriveStates : shown' = [shown EXCEPT ![w] = s]
  BY <1>1
<1> QED BY <1>1, <1>2, ShownWorks, Zenon

\* It returns.
LEMMA ShownReturns ==
    ASSUME RipInv, ShownInv, NEW w \in Drive, Working(w), Return(w),
           UNCHANGED <<monitorVars, jams, cancelled>>,
           \/ /\ shown' = shown
              /\ daemon = "up" => Status(w) # "disc_ok"
           \/ \E s \in Terminal : Show(w, s)
    PROVE  ShownInv'
<1>1. /\ pc' = [pc EXCEPT ![w] = "idle"] /\ cancelWork' = [cancelWork EXCEPT ![w] = FALSE]
      /\ cancelled[w] \in BOOLEAN /\ cancelled' = [cancelled EXCEPT ![w] = cancelled[w]]
      /\ shown[w] \in DriveStates /\ shown = [shown EXCEPT ![w] = shown[w]]
      /\ "idle" \in Places
  BY DEF Return, Goto, ShownInv, ShownTypes, Places
<1>2. CASE shown' = shown /\ (daemon = "up" => Status(w) # "disc_ok")
  <2>1. PICK s \in DriveStates : shown' = [shown EXCEPT ![w] = s]
    BY <1>1, <1>2
  <2>2. PICK k \in BOOLEAN : cancelled' = [cancelled EXCEPT ![w] = k]
    BY <1>1, Zenon
  <2>3. daemon = "up" /\ Status(w) = "disc_ok" => s \in Terminal
    BY <1>2
  <2>4. UNCHANGED <<monitorVars, jams>>
    OBVIOUS
  <2> HIDE <1>2
  <2> QED BY <1>1, <2>1, <2>2, <2>3, <2>4, ShownWorks, Zenon
<1>3. ASSUME NEW s \in Terminal, Show(w, s) PROVE ShownInv'
  BY <1>1, <1>3, ShownWorks, Zenon DEF Show, DriveStates
<1> QED BY <1>2, <1>3

\* It fails or hands the disc back.
LEMMA ShownHandsBack ==
    ASSUME RipInv, ShownInv, NEW w \in Drive, Working(w), NEW s \in Terminal,
           Fail(w) \/ StartEject(w, s), UNCHANGED <<monitorVars, jams, cancelled>>
    PROVE  ShownInv'
<1>1. \/ Return(w) /\ \E t \in Terminal : Show(w, t)
      \/ Continue(w, "eject") /\ Show(w, "ejecting")
  BY DEF Fail, StartEject, Terminal
<1>2. CASE Return(w) /\ \E t \in Terminal : Show(w, t)
  BY <1>2, ShownReturns
<1>3. CASE Continue(w, "eject") /\ Show(w, "ejecting")
  <2>1. /\ pc' = [pc EXCEPT ![w] = "eject"] /\ UNCHANGED cancelWork
        /\ shown' = [shown EXCEPT ![w] = "ejecting"]
        /\ "eject" \in Places /\ "ejecting" \in DriveStates
    BY <1>3 DEF Continue, Goto, Show, Places, DriveStates, Busy
  <2> QED BY <2>1, ShownGoesOn, Zenon
<1> QED BY <1>1, <1>2, <1>3

LEMMA ShownHandleDisc ==
    ASSUME RipInv, ShownInv, NEW w \in Drive, handleDisc(w), jams' = jams
    PROVE  ShownInv'
<1> USE DEF Working, Places
<1>0. pc \in [Drive -> Places] /\ Showing(w) /\ ShownTypes
  BY DEF RipInv, Types, ShownInv
<1>1. CASE Kind(w)
  <2>1. /\ pc[w] = "kind" /\ UNCHANGED <<monitorVars, jams>>
        /\ shown' = [shown EXCEPT ![w] = "scanning"] /\ "scanning" \in DriveStates
        /\ cancelled' = [cancelled EXCEPT ![w] = FALSE]
    BY <1>1, Zenon DEF Kind, At, Show, DriveStates, Busy
  <2>2. ~ cancelWork[w] /\ cancelWork = [cancelWork EXCEPT ![w] = FALSE]
    BY <1>0, <2>1 DEF Showing, ShownTypes
  <2>3. \/ pc' = [pc EXCEPT ![w] = "probe"] /\ cancelWork' = [cancelWork EXCEPT ![w] = FALSE]
        \/ pc' = [pc EXCEPT ![w] = "scan"] /\ cancelWork' = [cancelWork EXCEPT ![w] = TRUE]
    BY <1>1, <2>2 DEF Kind, Goto
  <2>4. CASE pc' = [pc EXCEPT ![w] = "probe"] /\ cancelWork' = [cancelWork EXCEPT ![w] = FALSE]
    BY <2>1, <2>4, ShownWorks, Zenon
  <2>5. CASE pc' = [pc EXCEPT ![w] = "scan"] /\ cancelWork' = [cancelWork EXCEPT ![w] = TRUE]
    BY <2>1, <2>5, ShownWorks, Zenon
  <2> QED BY <2>3, <2>4, <2>5
<1>2. CASE Identify(w) \/ RipSource(w) \/ Decrypted(w) \/ Rescanned(w) \/ Begin(w)
  <2>1. /\ pc[w] \in {"scan", "probe", "prepare", "decrypt", "rescan", "begin"}
        /\ UNCHANGED <<monitorVars, jams, cancelWork, cancelled>>
    BY <1>2, Zenon DEF Identify, RipSource, Decrypted, Rescanned, Begin, At, Continue, Others
  <2>2. PICK p \in {"admit", "admitBluRay", "decrypt", "rescan", "begin", "rip"} :
            pc' = [pc EXCEPT ![w] = p]
    BY <1>2, Zenon DEF Identify, RipSource, Decrypted, Rescanned, Begin, Continue, Goto
  <2>3. shown' = shown \/ \E s \in DriveStates : shown' = [shown EXCEPT ![w] = s]
    BY <1>2, Zenon DEF Identify, RipSource, Decrypted, Rescanned, Begin, Show, DriveStates, Busy
  <2> QED BY <2>1, <2>2, <2>3, ShownGoesOn, Zenon
<1>3. CASE TitleWritten(w) \/ TitleFails(w) \/ TitleVerified(w) \/ RipFails(w) \/ RecordRip(w)
  <2>1. /\ pc[w] \in {"rip", "verify", "prepare", "rescan", "begin", "record"}
        /\ UNCHANGED <<monitorVars, jams, cancelWork, cancelled>>
    BY <1>3, Zenon DEF TitleWritten, TitleFails, TitleVerified, RipFails, RecordRip, At, Continue, Others
  <2>2. PICK p \in {"verify", "failing", "record", "rip", "complete"} : pc' = [pc EXCEPT ![w] = p]
    BY <1>3, Zenon DEF TitleWritten, TitleFails, TitleVerified, RipFails, RecordRip, Continue, Goto
  <2>3. shown' = shown \/ \E s \in DriveStates : shown' = [shown EXCEPT ![w] = s]
    BY <1>3, Zenon DEF TitleWritten, TitleFails, TitleVerified, RipFails, RecordRip, Show, DriveStates,
        Busy
  <2> QED BY <2>1, <2>2, <2>3, ShownGoesOn, Zenon
<1>4. CASE \/ RipComplete(w) \/ Encoded(w) \/ RecordBluRay(w) \/ CompleteBluRay(w)
           \/ HandOffBluRay(w)
  <2>1. /\ pc[w] \in {"complete", "encode", "recordBluRay", "completeBluRay", "handOffBluRay"}
        /\ UNCHANGED <<monitorVars, jams, cancelWork, cancelled>>
    BY <1>4, Zenon DEF RipComplete, Encoded, RecordBluRay, CompleteBluRay, HandOffBluRay, At, Continue,
        Others
  <2>2. PICK p \in {"handOff", "recordBluRay", "completeBluRay", "handOffBluRay", "fileBluRay"} :
            pc' = [pc EXCEPT ![w] = p]
    BY <1>4, Zenon DEF RipComplete, Encoded, RecordBluRay, CompleteBluRay, HandOffBluRay, Continue, Goto
  <2>3. shown' = shown \/ \E s \in DriveStates : shown' = [shown EXCEPT ![w] = s]
    BY <1>4, Zenon DEF RipComplete, Encoded, RecordBluRay, CompleteBluRay, HandOffBluRay, Show,
        DriveStates, Terminal
  <2> QED BY <2>1, <2>2, <2>3, ShownGoesOn, Zenon
<1>5. CASE ScanFails(w)
  <2>1. pc[w] = "scan" /\ UNCHANGED <<monitorVars, jams, cancelled>>
    BY <1>5, Zenon DEF ScanFails, At, Others
  <2>2. CASE Show(w, "cancelled") /\ Return(w)
    BY <2>1, <2>2, ShownReturns DEF Terminal
  <2>3. CASE Status(w) # "disc_ok" /\ UNCHANGED shown /\ Return(w)
    BY <2>1, <2>3, ShownReturns
  <2>4. CASE Fail(w)
    BY <2>1, <2>4, ShownHandsBack DEF Terminal
  <2>5. CASE Continue(w, "retry") /\ UNCHANGED shown
    BY <2>1, <2>5, ShownGoesOn, Zenon DEF Continue, Goto
  <2> QED BY <1>5, <2>2, <2>3, <2>4, <2>5 DEF ScanFails, ScanCancelled
<1>6. CASE ScanAgain(w)
  <2>1. pc[w] = "retry" /\ UNCHANGED <<monitorVars, jams, cancelled>>
    BY <1>6 DEF ScanAgain, At, Others
  <2>2. CASE Show(w, "cancelled") /\ Return(w)
    BY <2>1, <2>2, ShownReturns DEF Terminal
  <2>3. CASE Goto(w, "scan") /\ UNCHANGED <<shown, cancelWork>>
    BY <2>1, <2>3, ShownGoesOn, Zenon DEF Goto
  <2> QED BY <1>6, <2>2, <2>3 DEF ScanAgain, ScanCancelled
<1>7. CASE ProbeFails(w)
  <2>1. pc[w] = "probe" /\ UNCHANGED <<monitorVars, jams, cancelled>>
    BY <1>7 DEF ProbeFails, At, Others
  <2>2. CASE Dead(w) /\ UNCHANGED shown /\ Return(w)
    <3>1. daemon # "up"
      BY <1>0, <2>1, <2>2, Zenon DEF Dead, Showing
    <3> QED BY <2>1, <2>2, <3>1, ShownReturns
  <2>3. CASE Fail(w)
    BY <2>1, <2>3, ShownHandsBack DEF Terminal
  <2> QED BY <1>7, <2>2, <2>3 DEF ProbeFails
<1>8. CASE Admit(w)
  <2>1. pc[w] \in {"admit", "admitBluRay"} /\ UNCHANGED <<monitorVars, jams, cancelled>>
    BY <1>8, Zenon DEF Admit, At, Others
  <2>2. CASE Fail(w) \/ StartEject(w, "duplicate")
    BY <2>1, <2>2, ShownHandsBack DEF Terminal
  <2>3. CASE /\ \E p \in {"prepare", "encode"} : pc' = [pc EXCEPT ![w] = p]
             /\ shown' = shown \/ shown' = [shown EXCEPT ![w] = "ripping"]
             /\ UNCHANGED cancelWork
    BY <2>1, <2>3, ShownGoesOn, Zenon DEF DriveStates, Busy
  <2> QED BY <1>8, <2>2, <2>3 DEF Admit, Goto, Show
<1>9. CASE DecryptFails(w) \/ EncodeFails(w)
  <2>1. pc[w] \in {"decrypt", "encode"} /\ UNCHANGED <<monitorVars, jams, cancelled>>
    BY <1>9 DEF DecryptFails, EncodeFails, At, Others
  <2>2. CASE Show(w, "cancelled") /\ Return(w)
    BY <2>1, <2>2, ShownReturns DEF Terminal
  <2>3. CASE Continue(w, "failing") /\ UNCHANGED shown
    BY <2>1, <2>3, ShownGoesOn, Zenon DEF Continue, Goto
  <2> QED BY <1>9, <2>2, <2>3, Zenon DEF DecryptFails, EncodeFails, Cancelled
<1>10. CASE RecordFailure(w) \/ HandOff(w) \/ FileBluRay(w)
  <2>1. /\ pc[w] \in {"failing", "handOff", "fileBluRay"}
        /\ UNCHANGED <<monitorVars, jams, cancelled>>
        /\ Fail(w) \/ StartEject(w, "complete")
    BY <1>10, Zenon DEF RecordFailure, HandOff, FileBluRay, At, Others
  <2> QED BY <2>1, ShownHandsBack DEF Terminal
<1>11. CASE EjectFails(w)
  <2>1. /\ pc[w] = "eject" /\ Return(w) /\ UNCHANGED <<monitorVars, shown, cancelled>>
        /\ ~ plugged[w] \/ jams' = jams + 1
    BY <1>11, Zenon DEF EjectFails, At
  <2>2. ~ plugged[w]
    BY <1>0, <2>1 DEF ShownTypes
  <2> QED BY <2>1, <2>2, StatusIs, ShownReturns, Zenon
<1>12. CASE EjectOpens(w)
  <2>1. /\ pc[w] = "eject" /\ Return(w) /\ UNCHANGED cancelled
        /\ shown' = [shown EXCEPT ![w] = "tray_open"]
    BY <1>12, Zenon DEF EjectOpens, At, Show
  <2>2. CASE open[w] /\ UNCHANGED monitorVars
    <3>1. Status(w) # "disc_ok"
      BY <2>2, StatusIs, Zenon
    <3>2. PICK k \in BOOLEAN : cancelled' = [cancelled EXCEPT ![w] = k]
      BY <1>0, <2>1 DEF ShownTypes
    <3> QED BY <2>1, <2>2, <3>1, <3>2, ShownWorks, Zenon DEF Return, Goto, DriveStates
  <2>3. CASE Opened(w)
    <3>1. /\ open' = [open EXCEPT ![w] = TRUE] /\ ready' = [ready EXCEPT ![w] = "no"]
          /\ looked' = [looked EXCEPT ![w] = FALSE] /\ pc' = [pc EXCEPT ![w] = "idle"]
          /\ cancelWork' = [cancelWork EXCEPT ![w] = FALSE]
          /\ UNCHANGED <<plugged, inside, flickers, started, current, events, blocked, daemon,
                         told>>
      BY <2>1, <2>3 DEF Opened, Return, Goto, monitor
    <3>2. ShownTypes'
      BY <1>0, <2>1, <3>1 DEF ShownTypes, DriveStates
    <3>3. ASSUME NEW v \in Drive, v # w PROVE Untouched(v)
      BY <1>0, <2>1, <3>1, <3>3 DEF Untouched, ShownTypes
    <3>4. /\ open'[w] /\ ~ looked'[w] /\ ~ cancelWork'[w] /\ pc'[w] = "idle"
          /\ told'[w] = "disc_ok"
      BY <1>0, <2>1, <3>1 DEF ShownTypes, Showing
    <3>5. Status(w)' # "disc_ok"
      BY <3>4 DEF Status
    <3>6. Heard(w)'
      BY <3>1, Zenon DEF ShownInv, Heard
    <3>7. Gone(w)' /\ Showing(w)'
      BY <3>4, <3>5, Zenon DEF Gone, Showing, Finished
    <3> QED BY <3>1, <3>2, <3>3, <3>6, <3>7, LeftAlone DEF ShownInv
  <2> QED BY <1>12, <2>2, <2>3, Zenon DEF EjectOpens
<1> QED BY <1>1, <1>2, <1>3, <1>4, <1>5, <1>6, <1>7, <1>8, <1>9, <1>10, <1>11, <1>12
        DEF handleDisc

LEMMA ShownHandleEvent ==
    ASSUME RipInv, ShownInv, NEW w \in Drive, handleEvent(w)
    PROVE  ShownInv'
<1> DEFINE to == Head(events[w])
<1>0. ShownTypes /\ pc \in [Drive -> Places] /\ Heard(w) /\ Gone(w) /\ Showing(w)
  BY DEF RipInv, Types, ShownInv
<1>1. /\ pc[w] = "idle" /\ events[w] # <<>>
      /\ told' = [told EXCEPT ![w] = to] /\ events' = [events EXCEPT ![w] = Tail(events[w])]
      /\ UNCHANGED <<plugged, open, inside, ready, looked, flickers, started, current, blocked,
                     daemon, cancelWork, cancelled, jams>>
  BY DEF handleEvent, At, Receive, drive
<1>2. events[w] \in Seq(Readings)
  BY <1>0 DEF ShownTypes
<1>3. /\ to \in Readings /\ to = events[w][1] /\ Tail(events[w]) \in Seq(Readings)
      /\ Len(Tail(events[w])) = Len(events[w]) - 1 /\ Len(events[w]) \in Nat \ {0}
      /\ \A i \in 1 .. Len(events[w]) - 1 : Tail(events[w])[i] = events[w][i + 1]
  BY <1>1, <1>2, FirstAndRest, EmptyIs, LengthIs
<1> HIDE DEF to
<1>4. /\ to \notin {"disc_ok", "unknown"} => to \in DOMAIN Rest /\ Rest[to] \in DriveStates
      /\ "disc_ok" \notin DOMAIN Rest /\ "unknown" \notin DOMAIN Rest
  BY <1>3 DEF Rest, Readings, Statuses, DriveStates, Terminal
<1>4a. \/ to = "disc_ok" /\ pc' = [pc EXCEPT ![w] = "slot"] /\ UNCHANGED shown
       \/ /\ to \notin {"disc_ok", "unknown"} /\ UNCHANGED pc
          /\ shown' = [shown EXCEPT ![w] = Rest[to]]
       \/ to = "unknown" /\ UNCHANGED <<pc, shown>>
  BY <1>4 DEF handleEvent, Goto, Show, to
<1>5. ShownTypes'
  BY <1>0, <1>1, <1>3, <1>4, <1>4a, Zenon DEF ShownTypes
<1>6. told'[w] = to /\ events'[w] = Tail(events[w])
  BY <1>0, <1>1 DEF ShownTypes
<1>7. ASSUME NEW v \in Drive, v # w PROVE Untouched(v)
  BY <1>0, <1>1, <1>4a, <1>7 DEF Untouched, ShownTypes
<1>8. started[w] /\ To(events[w][Len(events[w])]) = current[w]
  BY <1>0, <1>1, Zenon DEF Heard
<1>9. Heard(w)'
  <2>1. CASE Len(events[w]) = 1
    <3>0. \A s \in Seq(Readings) : Len(s) = 0 => s = <<>>
      BY EmptyIs
    <3>1. events'[w] = <<>>
      <4>0. Len(Tail(events[w])) = Len(events[w]) - 1
        BY <1>3, Zenon
      <4>1. Len(Tail(events[w])) = 0
        BY <2>1, <4>0
      <4> QED BY <1>3, <1>6, <3>0, <4>1, Zenon
    <3>2. To(told'[w]) = current'[w]
      BY <1>1, <1>3, <1>6, <1>8, <2>1, Zenon
    <3> QED BY <1>0, <1>1, <1>8, <3>1, <3>2, Zenon DEF Heard
  <2>2. CASE Len(events[w]) # 1
    <3>1. Len(events'[w]) = Len(events[w]) - 1 /\ Len(events'[w]) \in 1 .. Len(events[w]) - 1
          /\ Len(events'[w]) + 1 = Len(events[w])
      <4>1. \A n \in Nat \ {0} : n # 1 =>
                n - 1 \in 1 .. n - 1 /\ (n - 1) + 1 = n
        OBVIOUS
      <4> QED BY <1>3, <1>6, <2>2, <4>1, Zenon
    <3>2. To(events'[w][Len(events'[w])]) = current'[w]
      BY <1>1, <1>3, <1>6, <1>8, <3>1, Zenon
    <3>3. events'[w] # <<>>
      BY <3>1
    <3> QED BY <1>0, <1>1, <1>8, <3>2, <3>3, Zenon DEF Heard
  <2> QED BY <2>1, <2>2
<1>10. Gone(w)'
  BY <1>0, <1>1 DEF Gone, Status
<1>11. Showing(w)'
  <2>1. CASE to = "disc_ok"
    BY <1>0, <1>1, <1>4a, <1>6, <2>1, Zenon DEF Showing, Finished, ShownTypes
  <2>2. CASE to # "disc_ok"
    <3>1. /\ to # "unknown" => shown'[w] = Rest[to]
          /\ pc'[w] = "idle" /\ ~ cancelWork'[w]
      BY <1>0, <1>1, <1>4a, <2>2, Zenon DEF ShownTypes, Showing
    <3> QED BY <1>6, <2>2, <3>1, Zenon DEF Showing, Finished
  <2> QED BY <2>1, <2>2
<1> QED BY <1>1, <1>5, <1>7, <1>9, <1>10, <1>11, LeftAlone DEF ShownInv

LEMMA ShownWaits ==
    ASSUME RipInv, ShownInv, NEW w \in Drive, TakeSlot(w) \/ AwaitSlot(w) \/ AbandonSlot(w)
    PROVE  ShownInv'
<1>0. ShownTypes /\ pc \in [Drive -> Places] /\ Heard(w) /\ Gone(w) /\ Showing(w)
  BY DEF RipInv, Types, ShownInv
<1>1. /\ pc[w] \in {"slot", "queued"} /\ UNCHANGED <<monitorVars, cancelWork, cancelled, jams>>
      /\ shown' = shown \/ shown' = [shown EXCEPT ![w] = "queued"]
  BY DEF TakeSlot, AwaitSlot, AbandonSlot, At, Elsewhere, Show
<1>2. UNCHANGED <<plugged, open, inside, ready, looked, flickers, started, current, events, blocked,
                  daemon, told>>
  BY <1>1 DEF monitorVars, drive, monitor
<1>3. PICK p \in {"kind", "queued", "idle"} :
          pc' = [pc EXCEPT ![w] = p] /\ (p = "idle" => daemon # "up")
  BY DEF TakeSlot, AwaitSlot, AbandonSlot, Goto
<1>4. ShownTypes'
  BY <1>0, <1>1, <1>2, Zenon DEF ShownTypes, DriveStates, Busy
<1>5. ASSUME NEW v \in Drive, v # w PROVE Untouched(v)
  BY <1>0, <1>1, <1>2, <1>3, <1>5, Zenon DEF Untouched, ShownTypes
<1>6. told[w] = "disc_ok" /\ ~ cancelWork[w]
  BY <1>0, <1>1, Zenon DEF Showing
<1>7. Heard(w)' /\ Gone(w)'
  BY <1>0, <1>2 DEF Heard, Gone, Status
<1>8. Showing(w)'
  BY <1>0, <1>1, <1>2, <1>3, <1>6, Zenon DEF Showing, Finished
<1> QED BY <1>2, <1>4, <1>5, <1>7, <1>8, LeftAlone DEF ShownInv

\* What an event that finds room leaves in the channel.
LEMMA Emits ==
    ASSUME ShownTypes, NEW w \in Drive, NEW to \in Readings, emit(w, to), blocked'[w] = None
    PROVE  /\ current' = [current EXCEPT ![w] = To(to)] /\ UNCHANGED blocked
           /\ events' = [events EXCEPT ![w] = Append(events[w], to)]
           /\ events' \in [Drive -> Seq(Readings)]
           /\ current'[w] = To(to) /\ events'[w] # <<>> /\ events'[w][Len(events'[w])] = to
<1>1. None \notin Readings
  BY NoneIsNoStatus
<1>2. Len(events[w]) < Buffer
  BY <1>1 DEF emit, ShownTypes
<1>3. /\ current' = [current EXCEPT ![w] = To(to)] /\ UNCHANGED blocked
      /\ events' = [events EXCEPT ![w] = Append(events[w], to)]
  BY <1>2 DEF emit
<1>4. events[w] \in Seq(Readings)
  BY DEF ShownTypes
<1>5. /\ Append(events[w], to) \in Seq(Readings) /\ Append(events[w], to) # <<>>
      /\ Append(events[w], to)[Len(Append(events[w], to))] = to
  <2>1. \A s \in Seq(Readings) : \A e \in Readings :
            /\ Append(s, e) \in Seq(Readings) /\ Append(s, e) # <<>>
            /\ Append(s, e)[Len(Append(s, e))] = e
    <3> TAKE s \in Seq(Readings)
    <3> TAKE e \in Readings
    <3>1. Len(s) \in Nat
      BY LengthIs
    <3>2. /\ Append(s, e) \in Seq(Readings)
          /\ Len(Append(s, e)) = Len(s) + 1
          /\ Append(s, e)[Len(s) + 1] = e
      BY AppendedIs
    <3>3. Append(s, e) # <<>>
      BY <3>1, <3>2, EmptyIs
    <3> QED BY <3>2, <3>3
  <2> QED BY <1>4, <2>1, Zenon
<1>6. events'[w] = Append(events[w], to) /\ current'[w] = To(to)
  BY <1>3 DEF ShownTypes
<1>7. events' \in [Drive -> Seq(Readings)]
  BY <1>3, <1>5 DEF ShownTypes
<1> QED BY <1>3, <1>5, <1>6, <1>7

LEMMA ShownPolls ==
    ASSUME ShownInv, NEW w \in Drive, Poll(w), UNCHANGED workerVars, blocked'[w] = None
    PROVE  ShownInv'
<1>0. ShownTypes /\ Heard(w) /\ Gone(w) /\ Showing(w)
  BY DEF ShownInv
<1>1. /\ daemon = "up" /\ looked' = [looked EXCEPT ![w] = TRUE]
      /\ UNCHANGED <<plugged, open, inside, ready, flickers, daemon, told>>
      /\ UNCHANGED <<pc, shown, cancelWork, cancelled, jams>>
  BY Zenon DEF Poll, PollError, PollFirst, PollSame, PollUnsettled, PollChanged, Tick, workerVars
<1>2. /\ Status(w) \in Readings /\ Status(w)' = Status(w)
      /\ To(Status(w)) \in Statuses /\ (To(Status(w)) = "disc_ok" => Status(w) = "disc_ok")
  BY <1>1, StatusIs, ToIs DEF Status, To
\* A change is reported,
<1>3. CASE emit(w, Status(w)) /\ started' = [started EXCEPT ![w] = TRUE]
  <2>1. /\ current' = [current EXCEPT ![w] = To(Status(w))] /\ UNCHANGED blocked
        /\ events' = [events EXCEPT ![w] = Append(events[w], Status(w))]
        /\ events' \in [Drive -> Seq(Readings)]
        /\ current'[w] = To(Status(w)) /\ events'[w] # <<>>
        /\ events'[w][Len(events'[w])] = Status(w)
    BY <1>0, <1>2, <1>3, Emits
  <2>2. ShownTypes'
    BY <1>0, <1>1, <1>2, <1>3, <2>1, Zenon DEF ShownTypes
  <2>3. ASSUME NEW v \in Drive, v # w PROVE Untouched(v)
    BY <1>0, <1>1, <1>3, <2>1, <2>3, Zenon DEF Untouched, ShownTypes
  <2>4. Heard(w)'
    BY <1>0, <1>1, <1>3, <2>1, Zenon DEF Heard, ShownTypes
  <2>5. Gone(w)'
    BY <1>2, <2>1, Zenon DEF Gone
  <2>6. Showing(w)'
    BY <1>0, <1>1, <2>1, Zenon DEF Showing, Finished
  <2> QED BY <1>1, <2>2, <2>3, <2>4, <2>5, <2>6, LeftAlone DEF ShownInv
\* and where there is none the drive is as it was last reported.
<1>4. CASE /\ started[w] /\ UNCHANGED <<started, current, events, blocked>>
           /\ current[w] = "disc_ok" => Status(w) = "disc_ok"
  <2>1. ShownTypes'
    BY <1>0, <1>1, <1>4, Zenon DEF ShownTypes
  <2>2. ASSUME NEW v \in Drive, v # w PROVE Untouched(v)
    BY <1>0, <1>1, <1>4, <2>2, Zenon DEF Untouched, ShownTypes
  <2>3. Heard(w)' /\ Gone(w)' /\ Showing(w)'
    BY <1>0, <1>1, <1>2, <1>4, Zenon DEF Heard, Gone, Showing, Finished
  <2> QED BY <1>1, <2>1, <2>2, <2>3, LeftAlone DEF ShownInv
<1>5. started[w] => started = [started EXCEPT ![w] = TRUE]
  BY <1>0 DEF ShownTypes
<1>6. CASE PollError(w)
  <2>1. CASE News(w)
    BY <1>3, <1>6, <2>1 DEF PollError
  <2>2. CASE ~ News(w)
    BY <1>4, <1>5, <1>6, <2>2, Zenon DEF PollError, News, Quiet
  <2> QED BY <2>1, <2>2
<1>7. CASE PollFirst(w)
  BY <1>3, <1>7 DEF PollFirst
<1>8. CASE PollSame(w)
  BY <1>4, <1>8, Zenon DEF PollSame, Quiet
<1>9. CASE PollUnsettled(w)
  <2>1. started[w] /\ Status(w) \in Transient /\ UNCHANGED <<started, current, events, blocked>>
    BY <1>9, Zenon DEF PollUnsettled, Changed, Quiet
  <2>2. ~ open[w] /\ plugged[w]
    BY <2>1 DEF Status, Transient
  <2>3. current[w] # "disc_ok"
    BY <1>0, <1>1, <2>1, <2>2, Zenon DEF Gone, Transient
  <2> QED BY <1>4, <2>1, <2>3
<1>10. CASE PollChanged(w)
  BY <1>3, <1>5, <1>10, Zenon DEF PollChanged, Changed
<1> QED BY <1>6, <1>7, <1>8, <1>9, <1>10 DEF Poll

\* Something happens to a drive, and it had been polled since the last time.
LEMMA ShownMoves ==
    ASSUME ShownInv, NEW w \in Drive,
           UNCHANGED <<flickers, started, current, events, blocked, daemon, told, pc, shown,
                       cancelWork, cancelled, jams>>,
           ShownTypes', \A v \in Drive : v # w => Untouched(v),
           daemon = "up" => looked[w], ~ looked'[w],
           Status(w) = "disc_ok" => open'[w] \/ ~ plugged'[w]
    PROVE  ShownInv'
<1>0. Heard(w) /\ Gone(w) /\ Showing(w)
  BY Zenon DEF ShownInv
<1>1. open'[w] \/ ~ plugged'[w] => Status(w)' # "disc_ok"
  BY DEF Status
<1>2. daemon = "up" /\ started[w] /\ current[w] = "disc_ok" => Status(w) = "disc_ok"
  BY <1>0, Zenon DEF Gone
<1>3. Heard(w)'
  BY <1>0, Zenon DEF Heard
<1>4. Gone(w)'
  BY <1>2, Zenon DEF Gone
<1>5. Finished(w)' => FALSE
  <2> SUFFICES ASSUME Finished(w)' PROVE FALSE
    BY Zenon
  <2>1. daemon = "up" /\ told[w] = "disc_ok" /\ events[w] = <<>> /\ Status(w)' = "disc_ok"
    BY Zenon DEF Finished
  <2>2. started[w] /\ current[w] = "disc_ok"
    <3>1. To("disc_ok") = "disc_ok" /\ None # "disc_ok"
      BY MonitorConstants DEF To
    <3> QED BY <1>0, <2>1, <3>1, Zenon DEF Heard
  <2> QED BY <1>1, <1>2, <2>1, <2>2, Zenon
<1>6. Showing(w)'
  BY <1>0, <1>5, Zenon DEF Showing
<1> QED BY <1>3, <1>4, <1>6, LeftAlone, Zenon DEF ShownInv

\* A tray opened by a worker's Eject or by hand, a disc put in, a cable pulled.
LEMMA ShownHandled ==
    ASSUME RipInv, ShownInv, NEW w \in Drive,
           Handles(w) \/ (SpinUp(w) /\ UNCHANGED workerVars) \/ EjectAct(w)
    PROVE  ShownInv'
<1>0. ShownTypes /\ pc \in [Drive -> Places] /\ blocked[w] = None
  BY Zenon DEF RipInv, Types, ShownInv, ShownTypes
<1>1. UNCHANGED <<flickers, started, current, events, blocked, daemon, told, pc, shown,
                  cancelWork, cancelled, jams>>
  <2>1. CASE Handles(w)
    BY <2>1, Zenon DEF Handles, Person, OpenTray, CloseTray, Replug, Moves, Idle, monitor
  <2>2. CASE SpinUp(w) /\ UNCHANGED workerVars
    BY <2>2, Zenon DEF SpinUp, workerVars, monitor
  <2>3. CASE EjectAct(w)
    BY <2>3, Zenon DEF EjectAct, Opened, Idle, monitorVars, drive, monitor
  <2> QED BY <2>1, <2>2, <2>3
<1>2. CASE UNCHANGED <<plugged, open, inside, ready, looked>>
  <2>1. ShownTypes' /\ \A v \in Drive : Untouched(v)
    BY <1>0, <1>1, <1>2, Zenon DEF ShownTypes, Untouched
  <2> QED BY <1>1, <2>1, LeftAlone DEF ShownInv
<1>3. ASSUME NEW p \in BOOLEAN, NEW o \in BOOLEAN, NEW d, NEW r \in {"no", "odd", "yes"},
             plugged' = [plugged EXCEPT ![w] = p], open' = [open EXCEPT ![w] = o],
             \A v \in Drive : v # w => inside'[v] = inside[v],
             ready' = [ready EXCEPT ![w] = r], looked' = [looked EXCEPT ![w] = FALSE]
      PROVE  /\ ShownTypes' /\ \A v \in Drive : v # w => Untouched(v)
             /\ plugged'[w] = p /\ open'[w] = o /\ ~ looked'[w]
  BY <1>0, <1>1, <1>3, Zenon DEF ShownTypes, Untouched
<1>4. /\ plugged = [plugged EXCEPT ![w] = plugged[w]] /\ open = [open EXCEPT ![w] = open[w]]
      /\ ready = [ready EXCEPT ![w] = ready[w]]
      /\ plugged[w] \in BOOLEAN /\ open[w] \in BOOLEAN /\ ready[w] \in {"no", "odd", "yes"}
      /\ inside \in [Drive -> Disc \cup {None}]
  BY <1>0 DEF RipInv, Types, ShownTypes
<1>5. CASE OpenTray(w)
  <2>1. /\ open' = [open EXCEPT ![w] = TRUE] /\ ready' = [ready EXCEPT ![w] = "no"]
        /\ UNCHANGED <<plugged, inside>> /\ looked' = [looked EXCEPT ![w] = FALSE]
        /\ daemon = "up" => looked[w]
    BY <1>0, <1>5 DEF OpenTray, Moves
  <2>2. ShownTypes' /\ (\A v \in Drive : v # w => Untouched(v)) /\ open'[w] /\ ~ looked'[w]
    BY <1>3, <1>4, <2>1, Zenon
  <2> QED BY <1>1, <2>1, <2>2, ShownMoves
<1>6. ASSUME NEW d \in Disc \cup {None}, CloseTray(w, d) PROVE ShownInv'
  <2>1. /\ open[w] /\ open' = [open EXCEPT ![w] = FALSE] /\ UNCHANGED <<plugged, ready>>
        /\ inside' = [inside EXCEPT ![w] = d] /\ looked' = [looked EXCEPT ![w] = FALSE]
        /\ daemon = "up" => looked[w]
    BY <1>0, <1>6 DEF CloseTray, Moves
  <2>2. \A v \in Drive : v # w => inside'[v] = inside[v]
    BY <1>4, <2>1
  <2>3. ShownTypes' /\ (\A v \in Drive : v # w => Untouched(v)) /\ ~ looked'[w]
    BY <1>3, <1>4, <2>1, <2>2, Zenon
  <2>4. Status(w) # "disc_ok"
    BY <2>1, StatusIs, Zenon
  <2> QED BY <1>1, <2>1, <2>3, <2>4, ShownMoves, Zenon
<1>7. CASE Replug(w)
  <2>1. /\ plugged' = [plugged EXCEPT ![w] = ~ plugged[w]] /\ UNCHANGED <<open, inside, ready>>
        /\ looked' = [looked EXCEPT ![w] = FALSE]
        /\ daemon = "up" => looked[w]
    BY <1>0, <1>7 DEF Replug, Moves
  <2>2. /\ ShownTypes' /\ (\A v \in Drive : v # w => Untouched(v))
        /\ plugged'[w] = ~ plugged[w] /\ ~ looked'[w]
    BY <1>3, <1>4, <2>1, Zenon
  <2>3. Status(w) = "disc_ok" => ~ plugged'[w]
    BY <2>2, StatusIs, Zenon
  <2> QED BY <1>1, <2>1, <2>2, <2>3, ShownMoves, Zenon
<1>8. CASE SpinUp(w)
  <2>1. /\ ready[w] # "yes" /\ ready' = [ready EXCEPT ![w] = "yes"] /\ UNCHANGED <<plugged, open, inside>>
        /\ looked' = [looked EXCEPT ![w] = FALSE]
        /\ daemon = "up" => looked[w]
    BY <1>0, <1>8, Zenon DEF SpinUp
  <2>2. ShownTypes' /\ (\A v \in Drive : v # w => Untouched(v)) /\ ~ looked'[w]
    BY <1>3, <1>4, <2>1, Zenon
  <2>3. Status(w) # "disc_ok"
    BY <2>1, StatusIs, Zenon
  <2> QED BY <1>1, <2>1, <2>2, <2>3, ShownMoves, Zenon
<1>9. CASE Opened(w)
  <2>1. /\ open' = [open EXCEPT ![w] = TRUE] /\ ready' = [ready EXCEPT ![w] = "no"]
        /\ UNCHANGED <<plugged, inside>> /\ looked' = [looked EXCEPT ![w] = FALSE]
    BY <1>9 DEF Opened
  <2>2. ShownTypes' /\ (\A v \in Drive : v # w => Untouched(v)) /\ open'[w] /\ ~ looked'[w]
    BY <1>3, <1>4, <2>1, Zenon
  <2>3. Status(w)' # "disc_ok"
    BY <2>2 DEF Status
  <2>4. Heard(w)' /\ Gone(w)' /\ Showing(w)'
    BY <1>1, <2>2, <2>3, Zenon DEF ShownInv, Heard, Gone, Showing, Finished
  <2> QED BY <1>1, <2>2, <2>4, LeftAlone, Zenon DEF ShownInv
<1>10. CASE EjectAct(w)
  BY <1>2, <1>9, <1>10, Zenon DEF EjectAct, monitorVars, drive
<1> QED BY <1>5, <1>6, <1>7, <1>8, <1>10, Zenon DEF Handles, Person

LEMMA ShownStep == RipInv /\ ShownInv /\ [Next]_vars /\ [Calm]_vars => ShownInv'
<1> SUFFICES ASSUME RipInv, ShownInv, [Next]_vars, [Calm]_vars PROVE ShownInv'
  OBVIOUS
<1>0. ShownTypes
  BY DEF ShownInv
<1>1. ASSUME UNCHANGED <<monitorVars, pc, shown, cancelWork, cancelled, jams>> PROVE ShownInv'
  <2>1. UNCHANGED <<plugged, open, inside, ready, looked, flickers, started, current, events, blocked,
                    daemon, told>>
    BY <1>1 DEF monitorVars, drive, monitor
  <2>2. ShownTypes' /\ \A v \in Drive : Untouched(v)
    BY <1>0, <1>1, <2>1, Zenon DEF ShownTypes, Untouched
  <2> QED BY <2>1, <2>2, LeftAlone DEF ShownInv
<1>2. CASE UNCHANGED vars
  BY <1>1, <1>2 DEF vars, workerVars
<1> SUFFICES ASSUME Next, Calm PROVE ShownInv'
  BY <1>2
<1>3. flickers' = flickers /\ jams' = jams /\ \A w \in Drive : blocked'[w] = None
  BY DEF Calm
<1>4. ASSUME NEW w \in Drive, WorkerStep(w) PROVE ShownInv'
  BY <1>3, <1>4, ShownHandleEvent, ShownWaits, ShownHandleDisc DEF WorkerStep
<1>5. ASSUME NEW w \in Drive, Handles(w) \/ EjectAct(w) PROVE ShownInv'
  BY <1>5, ShownHandled
<1>6. ASSUME NEW w \in Drive, Watches(w) PROVE ShownInv'
  <2>1. CASE Poll(w)
    BY <1>3, <1>6, <2>1, ShownPolls DEF Watches
  <2>2. CASE Deliver(w)
    BY <1>0, <2>2 DEF Deliver, ShownTypes
  <2>3. CASE SpinUp(w)
    BY <1>6, <2>3, ShownHandled DEF Watches
  <2>4. CASE Flicker(w)
    BY <1>0, <1>3, <2>4 DEF Flicker, ShownTypes
  <2> QED BY <1>6, <2>1, <2>2, <2>3, <2>4 DEF Watches
<1>7. ASSUME NEW w \in Drive, EjectCheck(w) \/ CancelCheck(w) \/ (CancelLate(w) /\ ~ Down)
      PROVE  ShownInv'
  BY <1>1, <1>7, Zenon DEF EjectCheck, CancelCheck, CancelLate, Idle
<1>8. ASSUME NEW d \in Disc, ForgetDisc(d) PROVE ShownInv'
  BY <1>1, <1>8 DEF ForgetDisc, Idle
<1>9. ASSUME NEW w \in Drive, CancelAct(w) PROVE ShownInv'
  <2>1. /\ cancelWork[w] /\ cancelled' = [cancelled EXCEPT ![w] = TRUE]
        /\ UNCHANGED <<monitorVars, pc, shown, cancelWork, jams>>
    BY <1>9, Zenon DEF CancelAct, Idle
  <2>2. UNCHANGED <<plugged, open, inside, ready, looked, flickers, started, current, events, blocked,
                    daemon, told>>
    BY <2>1 DEF monitorVars, drive, monitor
  <2>3. ShownTypes' /\ \A v \in Drive : v # w => Untouched(v)
    BY <1>0, <2>1, <2>2, Zenon DEF ShownTypes, Untouched
  <2>4. pc[w] # "probe"
    BY <2>1, Zenon DEF ShownInv, Showing
  <2>5. Heard(w)' /\ Gone(w)' /\ Showing(w)'
    BY <2>1, <2>2, <2>4 DEF ShownInv, Heard, Gone, Showing, Finished, Status
  <2> QED BY <2>2, <2>3, <2>5, LeftAlone DEF ShownInv
<1>10. CASE Boot
  <2>1. /\ daemon = "down"
        /\ UNCHANGED <<plugged, open, inside, ready, looked, flickers, started, current, events,
                       blocked, told, pc, shown, cancelWork, cancelled, jams>>
    BY <1>10 DEF Boot, drive, monitor
  <2>2. ShownTypes'
    BY <1>0, <2>1 DEF ShownTypes
  <2>3. ASSUME NEW w \in Drive PROVE Heard(w)' /\ Gone(w)' /\ Showing(w)'
    <3>1. ~ started[w] /\ told[w] = None /\ events[w] = <<>> /\ daemon' = "up"
      BY <1>10, <2>1, Zenon DEF ShownInv, Heard, Boot
    <3>2. None # "disc_ok"
      BY MonitorConstants
    <3> QED BY <2>1, <3>1, <3>2, Zenon DEF ShownInv, Heard, Gone, Showing, Finished
  <2> QED BY <2>2, <2>3 DEF ShownInv
<1>11. CASE Shutdown
  <2>1. /\ daemon' = "stopping"
        /\ UNCHANGED <<plugged, open, inside, ready, looked, flickers, started, current, events,
                       blocked, told, pc, shown, cancelWork, cancelled, jams>>
    BY <1>11, Zenon DEF Shutdown, Idle, drive, monitor
  <2>2. ShownTypes'
    BY <1>0, <2>1 DEF ShownTypes
  <2>3. ASSUME NEW w \in Drive PROVE Heard(w)' /\ Gone(w)' /\ Showing(w)'
    BY <2>1, Zenon DEF ShownInv, Heard, Gone, Showing, Finished
  <2> QED BY <2>2, <2>3 DEF ShownInv
<1>12. CASE Exit \/ Crash \/ Down
  <2>1. /\ daemon' = "down" /\ UNCHANGED <<plugged, open, inside, ready, looked, flickers, jams>>
        /\ started' = [w \in Drive |-> FALSE] /\ current' = [w \in Drive |-> "unknown"]
        /\ blocked' = [w \in Drive |-> None] /\ events' = [w \in Drive |-> <<>>]
        /\ told' = [w \in Drive |-> None] /\ pc' = [w \in Drive |-> "idle"]
        /\ shown' = [w \in Drive |-> "empty"] /\ cancelWork' = [w \in Drive |-> FALSE]
        /\ cancelled' = [w \in Drive |-> FALSE]
    BY <1>12, Zenon DEF Exit, Crash, Down, Volatile, FreshMonitor, drive
  <2>2. ShownTypes'
    BY <1>0, <2>1 DEF ShownTypes, DriveStates, Readings, Statuses
  <2>3. ASSUME NEW w \in Drive PROVE Heard(w)' /\ Gone(w)' /\ Showing(w)'
    BY <2>1, Zenon DEF Heard, Gone, Showing, Finished
  <2> QED BY <2>2, <2>3 DEF ShownInv
<1> QED BY <1>4, <1>5, <1>6, <1>7, <1>8, <1>9, <1>10, <1>11, <1>12
        DEF Next, Request, CancelLate

\* Once the events are handled a drive shows what it is: a disc that is there is
\* shown as the work on it ended, any other status of the medium for what it is,
\* and a drive that is gone as absent when its error was reported
\* (Worker.handleEvent and handleDisc, worker.go), as long as the drive does not
\* flicker, the tray does not jam and the monitor's channel has room.  Of a drive
\* whose status is unknown nothing is said: handleEvent has no case for it.
THEOREM SettledIsShownHolds == Spec /\ [][Calm]_vars => []SettledIsShown
<1>1. ShownInv => SettledIsShown
  <2> SUFFICES ASSUME ShownInv, NEW w \in Drive, Settled(w)
               PROVE  /\ Status(w) = "disc_ok" => shown[w] \in Terminal
                      /\ Status(w) \in DOMAIN Rest \ {"error"} => shown[w] = Rest[Status(w)]
                      /\ told[w] = "error" => shown[w] = "absent"
    BY Zenon DEF SettledIsShown
  <2>1. /\ daemon = "up" /\ pc[w] = "idle" /\ To(told[w]) = To(Status(w)) /\ events[w] = <<>>
        /\ Showing(w)
    BY Zenon DEF Settled, ShownInv, Heard
  <2>2. told[w] \in Readings \cup {None} /\ None \notin Readings
    BY NoneIsNoStatus, Zenon DEF ShownInv, ShownTypes
  <2>3. CASE Status(w) = "disc_ok"
    <3>1. told[w] = "disc_ok"
      BY <2>1, <2>2, <2>3 DEF To
    <3> QED BY <2>1, <2>3, <3>1 DEF Showing, Finished, Rest
  <2>4. CASE Status(w) \in DOMAIN Rest \ {"error"}
    <3>1. told[w] = Status(w) /\ Status(w) \notin {"error", "disc_ok", "unknown", None}
      BY <2>1, <2>2, <2>4, MonitorConstants DEF To, Rest
    <3> QED BY <2>1, <2>4, <3>1, Zenon DEF Showing
  <2>5. CASE told[w] = "error"
    <3>1. To(Status(w)) = "unknown" /\ "error" # None
      BY <2>1, <2>5, MonitorConstants DEF To
    <3>2. Status(w) # "disc_ok" /\ Status(w) \notin DOMAIN Rest \ {"error"}
      BY <3>1 DEF To, Rest
    <3>3. shown[w] = Rest["error"]
      BY <2>1, <2>5, <3>1, Zenon DEF Showing
    <3>4. Rest["error"] = "absent"
      BY DEF Rest
    <3> QED BY <2>5, <3>2, <3>3, <3>4, Zenon
  <2> QED BY <2>3, <2>4, <2>5, Zenon
<1> QED BY <1>1, ShownInit, ShownStep, RipInit, TraysStep, RipStep, PTL DEF Spec
=============================================================================
