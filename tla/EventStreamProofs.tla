------------------------- MODULE EventStreamProofs --------------------------
(***************************************************************************)
(* The event stream, for every size of the buffer, of the subscription and *)
(* of the connection, and any number of events, breaks and restarts.       *)
(***************************************************************************)
EXTENDS EventStream, WellFoundedInduction, TLAPS

\* The empty sequence, and any other.
LEMMA EmptyIs ==
    ASSUME NEW S
    PROVE  /\ <<>> \in Seq(S) /\ Len(<<>>) = 0
           /\ \A s \in Seq(S) : s # <<>> => Len(s) \in Nat \ {0}
OBVIOUS

\* A sequence is a function on its places.
LEMMA LengthIs ==
    ASSUME NEW S, NEW s \in Seq(S)
    PROVE  Len(s) \in Nat /\ s \in [1 .. Len(s) -> S] /\ DOMAIN s = 1 .. Len(s)
OBVIOUS

LEMMA ElementIs ==
    ASSUME NEW S, NEW s \in Seq(S), NEW n \in 1 .. Len(s)
    PROVE  s[n] \in S
OBVIOUS

\* A sequence with one more element.
LEMMA AppendedIs ==
    ASSUME NEW S, NEW s \in Seq(S), NEW e \in S
    PROVE  /\ Append(s, e) \in Seq(S) /\ Append(s, e) # <<>> /\ Len(Append(s, e)) = Len(s) + 1
           /\ \A i \in 1 .. Len(s) : Append(s, e)[i] = s[i]
           /\ Append(s, e)[Len(s) + 1] = e
OBVIOUS

\* A sequence that is not empty, without its first element.
LEMMA FirstAndRest ==
    ASSUME NEW S, NEW s \in Seq(S), s # <<>>
    PROVE  /\ Head(s) = s[1] /\ Head(s) \in S
           /\ Tail(s) \in Seq(S) /\ Len(Tail(s)) = Len(s) - 1
           /\ \A i \in 1 .. Len(Tail(s)) : Tail(s)[i] = s[i + 1]
OBVIOUS

\* Two sequences, one after the other.
LEMMA JoinedIs ==
    ASSUME NEW S, NEW s \in Seq(S), NEW t \in Seq(S)
    PROVE  /\ s \o t \in Seq(S) /\ Len(s \o t) = Len(s) + Len(t)
           /\ \A i \in 1 .. Len(s) + Len(t) :
                (s \o t)[i] = IF i <= Len(s) THEN s[i] ELSE t[i - Len(s)]
OBVIOUS

-----------------------------------------------------------------------------
(* The hub.  The invariant gives the id in every cell of the buffer: cell  *)
(* i holds the event that is i - start from the oldest, around its end.    *)

\* How far cell i is from the oldest event, counting from 1.
Rank(i) == IF i > start THEN i - start ELSE i - start + Held

Cells ==
    /\ nextID \in 0 .. MaxEvents
    /\ ring \in Seq(1 .. MaxEvents)
    /\ start \in 0 .. RingSize - 1
    /\ Len(ring) = Held
    /\ \A i \in 1 .. Held : ring[i] = nextID - Held + Rank(i)

Phase == full \in BOOLEAN /\ (~full => start = 0) /\ (full => nextID > RingSize)

HubInv == Cells /\ Phase

\* The index that append computes with a remainder.
LEMMA WrapIs ==
    ASSUME NEW i \in 0 .. RingSize - 1
    PROVE  Wrap(i) = IF i + 1 = RingSize THEN 0 ELSE i + 1
BY HubConstants DEF Wrap

LEMMA HubInit == NewHub => HubInv
<1> SUFFICES ASSUME NewHub PROVE HubInv
  OBVIOUS
<1>1. Held = 0 /\ Len(ring) = 0 /\ ring \in Seq(1 .. MaxEvents)
  BY HubConstants DEF NewHub, Held
<1>2. Cells
  BY <1>1, HubConstants DEF NewHub, Cells
<1>3. Phase
  BY Zenon DEF NewHub, Phase
<1> QED BY <1>2, <1>3 DEF HubInv

LEMMA HubStep == HubInv /\ [Record]_hubVars => HubInv'
<1> SUFFICES ASSUME HubInv, [Record]_hubVars PROVE HubInv'
  OBVIOUS
<1> USE HubConstants
<1>1. CASE UNCHANGED hubVars
  BY <1>1 DEF HubInv, Cells, Phase, Held, Rank, hubVars
<1>2. CASE Record /\ Len(ring) < RingSize
  <2>1. /\ nextID' = nextID + 1 /\ nextID' \in 0 .. MaxEvents
        /\ ring' = Append(ring, nextID + 1) /\ start' = start /\ full' = full
    BY <1>2 DEF Record, append, HubInv, Cells
  <2>2. Held = nextID /\ Held' = nextID + 1 /\ nextID < RingSize
    BY <1>2, <2>1 DEF HubInv, Cells, Held
  <2>3. ~full /\ start = 0 /\ full' \in BOOLEAN
    BY <2>1, <2>2 DEF HubInv, Cells, Phase
  <2>4. ring' \in Seq(1 .. MaxEvents) /\ Len(ring') = nextID + 1
    BY <2>1, <2>2 DEF HubInv, Cells
  <2>5. \A i \in 1 .. nextID + 1 : ring'[i] = i
    BY <2>1, <2>2, <2>3 DEF HubInv, Cells, Rank
  <2>6. Cells'
    BY <2>1, <2>2, <2>3, <2>4, <2>5 DEF HubInv, Cells, Rank
  <2>7. Phase'
    BY <2>1, <2>3 DEF Phase
  <2> QED BY <2>6, <2>7 DEF HubInv
<1>3. CASE Record /\ ~(Len(ring) < RingSize)
  <2>1. /\ nextID' = nextID + 1 /\ nextID' \in 0 .. MaxEvents
        /\ ring' = [ring EXCEPT ![start + 1] = nextID + 1] /\ full' = TRUE
        /\ start' = IF start + 1 = RingSize THEN 0 ELSE start + 1
    BY <1>3, WrapIs DEF Record, append, HubInv, Cells
  <2>2. Held = RingSize /\ Held' = RingSize /\ nextID >= RingSize /\ Len(ring) = RingSize
    BY <1>3, <2>1 DEF HubInv, Cells, Held
  <2>3. ring' \in Seq(1 .. MaxEvents) /\ Len(ring') = RingSize
    BY <2>1, <2>2 DEF HubInv, Cells
  <2>4. ASSUME NEW i \in 1 .. RingSize
        PROVE  ring'[i] = nextID + 1 - RingSize + Rank(i)'
    <3>1. CASE i = start + 1
      BY <2>1, <2>2, <3>1 DEF HubInv, Cells, Rank
    <3>2. CASE i # start + 1
      <4>1. ring'[i] = ring[i] /\ ring[i] = nextID - RingSize + Rank(i)
        BY <2>1, <2>2, <3>2 DEF HubInv, Cells
      <4>2. Rank(i) = Rank(i)' + 1
        BY <2>1, <2>2, <3>2 DEF HubInv, Cells, Rank
      <4>3. Rank(i)' \in Int
        BY <2>1, <2>2 DEF HubInv, Cells, Rank
      <4> QED BY <4>1, <4>2, <4>3, <2>1 DEF HubInv, Cells
    <3> QED BY <3>1, <3>2
  <2>5. start' \in 0 .. RingSize - 1
    BY <2>1 DEF HubInv, Cells
  <2>6. Cells'
    BY <2>1, <2>2, <2>3, <2>4, <2>5 DEF HubInv, Cells, Rank
  <2>7. Phase'
    BY <2>1, <2>2 DEF Phase, HubInv, Cells
  <2> QED BY <2>6, <2>7 DEF HubInv
<1> QED BY <1>1, <1>2, <1>3

\* What follows the first of two sequences that are joined is the second.
LEMMA JoinedAfter ==
    ASSUME NEW S, NEW s \in Seq(S), NEW t \in Seq(S), NEW i \in 1 .. Len(s) + Len(t),
           i > Len(s)
    PROVE  (s \o t)[i] = t[i - Len(s)]
BY JoinedIs

\* The buffer read oldest first, under the invariant.
LEMMA OrderedIs ==
    HubInv => /\ Len(orderedLocked) = Held
              /\ \A i \in 1 .. Held : orderedLocked[i] = nextID - Held + i
<1> SUFFICES ASSUME HubInv
             PROVE  /\ Len(orderedLocked) = Held
                    /\ \A i \in 1 .. Held : orderedLocked[i] = nextID - Held + i
  OBVIOUS
<1> USE HubConstants
<1>1. CASE ~full
  <2>1. start = 0 /\ orderedLocked = ring
    BY <1>1 DEF HubInv, Phase, orderedLocked
  <2> QED BY <2>1 DEF HubInv, Cells, Rank
<1>2. CASE full
  <2> DEFINE late == SubSeq(ring, start + 1, Len(ring))
             early == SubSeq(ring, 1, start)
  <2>1. Held = RingSize /\ Len(ring) = RingSize /\ start \in 0 .. RingSize - 1
    BY <1>2 DEF HubInv, Cells, Phase, Held
  <2>2. /\ late \in Seq(1 .. MaxEvents) /\ Len(late) = RingSize - start
        /\ \A i \in 1 .. RingSize - start : late[i] = ring[start + i]
    BY <2>1 DEF HubInv, Cells
  <2>3. /\ early \in Seq(1 .. MaxEvents) /\ Len(early) = start
        /\ \A i \in 1 .. start : early[i] = ring[i]
    BY <2>1 DEF HubInv, Cells
  <2>4. orderedLocked = late \o early
    BY <1>2, Zenon DEF orderedLocked
  <2> HIDE DEF late, early
  <2>5. Len(orderedLocked) = RingSize
    BY <2>1, <2>2, <2>3, <2>4
  <2>6. ASSUME NEW i \in 1 .. RingSize
        PROVE  orderedLocked[i] = nextID - RingSize + i
    <3>1. CASE i <= RingSize - start
      <4>1. orderedLocked[i] = ring[start + i]
        BY <2>1, <2>2, <2>3, <2>4, <3>1
      <4> QED BY <4>1, <2>1, <3>1 DEF HubInv, Cells, Rank
    <3>2. CASE ~(i <= RingSize - start)
      <4>1. i - (RingSize - start) \in 1 .. start /\ i > Len(late)
        BY <2>1, <2>2, <3>2
      <4>2. orderedLocked[i] = early[i - Len(late)]
        <5>1. i \in 1 .. Len(late) + Len(early)
          BY <2>1, <2>2, <2>3
        <5>2. (late \o early)[i] = early[i - Len(late)]
          BY <2>2, <2>3, <4>1, <5>1, JoinedAfter, Zenon
        <5> QED BY <2>4, <5>2, Zenon
      <4>3. orderedLocked[i] = ring[i - (RingSize - start)]
        BY <2>2, <2>3, <4>1, <4>2
      <4> QED BY <4>3, <2>1, <3>2 DEF HubInv, Cells, Rank
    <3> QED BY <3>1, <3>2
  <2> QED BY <2>1, <2>5, <2>6
<1> QED BY <1>1, <1>2 DEF HubInv, Phase

LEMMA Honest == HubInv => CompleteIsHonest
<1> SUFFICES ASSUME HubInv, NEW id \in 0 .. nextID
             PROVE  Complete(id) <=>
                    \A e \in id + 1 .. nextID : \E i \in 1 .. Len(ring) : ring[i] = e
  BY DEF CompleteIsHonest
<1> USE HubConstants
<1>1. /\ nextID \in Nat /\ start \in Nat /\ start < RingSize /\ Held \in Nat
      /\ Len(ring) = Held /\ (start >= Held => Held = 0 \/ start = 0)
      /\ \A i \in 1 .. Held : ring[i] = nextID - Held + Rank(i)
  BY DEF HubInv, Cells, Phase, Held
<1>2. CASE ring = <<>>
  BY <1>1, <1>2 DEF Complete, Held
<1>3. CASE ring # <<>>
  <2>1. Held >= 1 /\ nextID >= Held
    BY <1>1, <1>3 DEF Held, HubInv, Cells
  <2>2. Complete(id) <=> id + 1 >= nextID - Held + 1
    BY <1>1, <1>3, <2>1, OrderedIs DEF Complete
  <2>3. start < Held
    BY <1>1, <2>1
  <2>4. ASSUME id + 1 >= nextID - Held + 1, NEW e \in id + 1 .. nextID
        PROVE  \E i \in 1 .. Len(ring) : ring[i] = e
    <3> DEFINE k == e - (nextID - Held)
               c == IF k + start <= Held THEN k + start ELSE k + start - Held
    <3>1. c \in 1 .. Held /\ Rank(c) = k
      BY <1>1, <2>1, <2>3, <2>4 DEF Rank
    <3> QED BY <3>1, <1>1
  <2>5. ASSUME \A e \in id + 1 .. nextID : \E i \in 1 .. Len(ring) : ring[i] = e
        PROVE  id + 1 >= nextID - Held + 1
    <3> SUFFICES ASSUME id + 1 < nextID - Held + 1 PROVE FALSE
      BY <1>1
    <3>1. PICK i \in 1 .. Held : ring[i] = id + 1
      BY <2>5, <1>1, <2>1
    <3>2. Rank(i) >= 1
      BY <1>1, <2>3 DEF Rank
    <3>3. Rank(i) \in Int
      BY <1>1 DEF Rank
    <3> QED BY <3>1, <3>2, <3>3, <1>1
  <2> QED BY <2>2, <2>4, <2>5
<1> QED BY <1>2, <1>3

\* A set of numbers that is not empty has a least element: induction over the
\* buffer goes by the least place where a claim fails.
LEMMA LeastNumber ==
    ASSUME NEW T, T \subseteq Nat, T # {}
    PROVE  \E x \in T : \A y \in T : x <= y
<1> DEFINE R == OpToRel(<, Nat)
<1>1. \A x, y \in Nat : x > y => <<y, x>> \in R
  BY DEF OpToRel
<1>2. IsWellFoundedOn(R, Nat)
  BY NatLessThanWellFounded, Zenon
<1> HIDE DEF R
<1>3. \E x \in T : \A y \in T : ~(<<y, x>> \in R)
  BY <1>2, WFMin, Zenon
<1>4. PICK x \in T : \A y \in T : ~(<<y, x>> \in R)
  BY <1>3
<1>5. ASSUME NEW y \in T PROVE x <= y
  <2>1. x \in Nat /\ y \in Nat
    OBVIOUS
  <2>2. ~(x > y)
    BY <1>1, <1>4, <2>1, Zenon
  <2> QED BY <2>1, <2>2
<1> QED BY <1>5

\* The last event a reader at id does not get from the buffer.
First(id) == IF id > nextID - Held THEN id ELSE nextID - Held

\* What the loop of Since has collected is the later events among those it has
\* passed, so in the end it is all of them that the buffer holds, for any id.
LEMMA SinceIs ==
    ASSUME HubInv, NEW id \in Nat
    PROVE  Since(id) = [i \in 1 .. nextID - First(id) |-> First(id) + i]
<1> USE HubConstants
<1> DEFINE o == orderedLocked
           base == nextID - Held
           first == First(id)
           events[n \in 0 .. Len(o)] ==
               IF n = 0 THEN <<>>
               ELSE IF o[n] > id THEN Append(events[n - 1], o[n])
               ELSE events[n - 1]
           Loop(g) == [n \in 0 .. Len(o) |->
               IF n = 0 THEN <<>>
               ELSE IF o[n] > id THEN Append(g[n - 1], o[n])
               ELSE g[n - 1]]
           Closed(n) == [i \in 1 .. base + n - first |-> first + i]
<1>1. Since(id) = events[Len(o)]
  BY DEF Since
<1>2. events = CHOOSE g : g = Loop(g)
  BY DEF events
<1>3. /\ Len(o) = Held /\ Held \in Nat /\ base \in Nat /\ first \in Nat
      /\ \A n \in 1 .. Held : o[n] = base + n
      /\ first >= base /\ first >= id /\ (first = id \/ first = base)
  BY OrderedIs DEF HubInv, Cells, Held, First
<1> HIDE DEF o, base, first, events
<1>4. \A n \in Nat : Closed(n) \in Seq(Nat)
  BY <1>3
<1>5. ASSUME NEW n \in 1 .. Held
      PROVE  Closed(n) = IF o[n] > id THEN Append(Closed(n - 1), o[n]) ELSE Closed(n - 1)
  <2>1. CASE base + n > first
    <3>1. o[n] > id /\ o[n] = base + n
      BY <1>3, <2>1
    <3>2. Closed(n - 1) \in Seq(Nat) /\ Len(Closed(n - 1)) = base + n - 1 - first
      BY <1>3, <1>4, <2>1
    <3> QED BY <1>3, <2>1, <3>1, <3>2
  <2>2. CASE ~(base + n > first)
    <3>1. ~(o[n] > id)
      BY <1>3, <2>2
    <3>2. Closed(n) = <<>> /\ Closed(n - 1) = <<>>
      BY <1>3, <2>2
    <3> QED BY <3>1, <3>2, Zenon
  <2> QED BY <2>1, <2>2
<1>6. Closed(0) = <<>>
  BY <1>3
<1>7. [n \in 0 .. Len(o) |-> Closed(n)] = Loop([n \in 0 .. Len(o) |-> Closed(n)])
  <2> HIDE DEF Closed
  <2> QED BY <1>3, <1>5, <1>6
<1>8. events = Loop(events)
  <2> HIDE DEF Loop, Closed
  <2> QED BY <1>2, <1>7, Zenon
<1>9. events[0] = <<>>
      /\ \A n \in 1 .. Held :
             events[n] = IF o[n] > id THEN Append(events[n - 1], o[n]) ELSE events[n - 1]
  <2>1. /\ Loop(events)[0] = <<>>
        /\ \A n \in 1 .. Held : Loop(events)[n] =
               IF o[n] > id THEN Append(events[n - 1], o[n]) ELSE events[n - 1]
    BY <1>3
  <2> HIDE DEF Loop
  <2> QED BY <1>8, <2>1
<1> HIDE DEF Closed, Loop
<1>10. \A n \in 0 .. Held : events[n] = Closed(n)
  <2> DEFINE Wrong == {n \in 0 .. Held : events[n] # Closed(n)}
  <2>1. SUFFICES ASSUME Wrong # {} PROVE FALSE
    OBVIOUS
  <2>2. PICK n \in Wrong : \A m \in Wrong : n <= m
    <3>1. Wrong \subseteq Nat
      BY <1>3
    <3> HIDE DEF Wrong
    <3> QED BY <2>1, <3>1, LeastNumber, Zenon
  <2>3. n \in 1 .. Held
    BY <1>3, <1>6, <1>9
  <2>4. events[n - 1] = Closed(n - 1)
    BY <1>3, <2>2, <2>3
  <2> QED BY <1>5, <1>9, <2>3, <2>4, Zenon
<1>11. Since(id) = Closed(Held)
  BY <1>1, <1>3, <1>10
<1>12. base + Held - first = nextID - first
  BY <1>3 DEF base, HubInv, Cells
<1>13. Since(id) = [i \in 1 .. nextID - first |-> first + i]
  BY <1>11, <1>12, Zenon DEF Closed
<1> QED BY <1>13 DEF first

-----------------------------------------------------------------------------
(* The stream: types, and the order of a connection's events.              *)

StreamTypes ==
    /\ conn \in {"closed", "since", "behind", "replay", "live"}
    /\ from \in Nat /\ sent \in Nat /\ cursor \in Nat /\ boots \in Nat
    /\ ch \in Seq(Nat) /\ missed \in Seq(Nat) /\ wire \in Seq(Frame)
    /\ hand \in Frame \cup {None}

\* Until the replay starts nothing is on the wire; from then on what is there
\* was sent, and what is left of the replay is later, in order.
Ascending ==
    /\ conn \in {"since", "behind"} => wire = <<>>
    /\ conn # "closed" =>
        \A i \in DOMAIN wire : wire[i].kind = "event" => wire[i].id <= sent
    /\ conn \in {"behind", "replay", "live"} =>
        /\ \A i \in DOMAIN missed : missed[i] > sent
        /\ \A i, j \in DOMAIN missed : i < j => missed[i] < missed[j]
    /\ conn = "live" => missed = <<>>

OrderInv == HubInv /\ StreamTypes /\ Ascending /\ InOrderOnce

\* A reader that takes the first frame and a connection that loses the last
\* ones leave a stretch of the wire.
Stretch(t, s) ==
    \E k \in Nat : \A i \in DOMAIN t : i + k \in DOMAIN s /\ t[i] = s[i + k]

LEMMA TailIsAStretch ==
    ASSUME NEW S, NEW s \in Seq(S), s # <<>>
    PROVE  /\ Tail(s) \in Seq(S) /\ Head(s) \in S /\ Head(s) = s[1] /\ 1 \in DOMAIN s
           /\ Len(Tail(s)) = Len(s) - 1
           /\ \A i \in DOMAIN Tail(s) : i + 1 \in DOMAIN s /\ Tail(s)[i] = s[i + 1]
           /\ Stretch(Tail(s), s)
<1>1. /\ Tail(s) \in Seq(S) /\ Head(s) \in S /\ Head(s) = s[1] /\ 1 \in DOMAIN s
      /\ Len(Tail(s)) = Len(s) - 1
      /\ \A i \in DOMAIN Tail(s) : i + 1 \in DOMAIN s /\ Tail(s)[i] = s[i + 1]
  BY FirstAndRest, EmptyIs, LengthIs
<1>2. Stretch(Tail(s), s)
  BY <1>1 DEF Stretch
<1> QED BY <1>1, <1>2

LEMMA CutIsAStretch ==
    ASSUME NEW S, NEW s \in Seq(S), NEW n \in 0 .. Len(s)
    PROVE  /\ SubSeq(s, 1, n) \in Seq(S) /\ Len(SubSeq(s, 1, n)) = n
           /\ \A i \in 1 .. n : i \in DOMAIN s /\ SubSeq(s, 1, n)[i] = s[i]
           /\ Stretch(SubSeq(s, 1, n), s)
<1>1. /\ SubSeq(s, 1, n) \in Seq(S) /\ Len(SubSeq(s, 1, n)) = n
      /\ \A i \in 1 .. n : i \in DOMAIN s /\ SubSeq(s, 1, n)[i] = s[i]
  BY LengthIs
<1>2. DOMAIN SubSeq(s, 1, n) = 1 .. n
  BY <1>1, LengthIs
<1>3. Stretch(SubSeq(s, 1, n), s)
  <2>1. \A i \in DOMAIN SubSeq(s, 1, n) : i + 0 \in DOMAIN s /\ SubSeq(s, 1, n)[i] = s[i + 0]
    BY <1>1, <1>2
  <2> QED BY <2>1 DEF Stretch
<1> QED BY <1>1, <1>3

LEMMA AppendedAtTheEnd ==
    ASSUME NEW S, NEW s \in Seq(S), NEW x \in S
    PROVE  /\ Append(s, x) \in Seq(S) /\ Len(Append(s, x)) = Len(s) + 1
           /\ DOMAIN Append(s, x) = 1 .. Len(s) + 1 /\ DOMAIN s = 1 .. Len(s)
           /\ Append(s, x)[Len(s) + 1] = x /\ Append(s, x) # <<>> /\ Len(s) \in Nat
           /\ \A i \in 1 .. Len(s) : Append(s, x)[i] = s[i]
BY AppendedIs, LengthIs

LEMMA StretchIsInOrder ==
    ASSUME StreamTypes, InOrderOnce, wire' \in Seq(Frame), Stretch(wire', wire)
    PROVE  InOrderOnce'
<1>1. PICK k \in Nat : \A i \in DOMAIN wire' : i + k \in DOMAIN wire /\ wire'[i] = wire[i + k]
  BY DEF Stretch
<1>2. DOMAIN wire' \subseteq Nat
  BY LengthIs
<1> QED BY <1>1, <1>2 DEF InOrderOnce

LEMMA WrittenInOrder ==
    ASSUME StreamTypes, InOrderOnce, NEW f \in Frame, wire' = Append(wire, f),
           f.kind = "event" =>
               \A i \in DOMAIN wire : wire[i].kind = "event" => wire[i].id < f.id
    PROVE  InOrderOnce'
<1>1. wire \in Seq(Frame)
  BY DEF StreamTypes
<1>2. /\ DOMAIN wire' = 1 .. Len(wire) + 1 /\ DOMAIN wire = 1 .. Len(wire)
      /\ wire'[Len(wire) + 1] = f /\ Len(wire) \in Nat
      /\ \A i \in 1 .. Len(wire) : wire'[i] = wire[i]
  BY <1>1, AppendedAtTheEnd
<1>3. SUFFICES ASSUME NEW i \in 1 .. Len(wire) + 1, NEW j \in 1 .. Len(wire) + 1, i < j,
                      wire'[i].kind = "event", wire'[j].kind = "event"
               PROVE  wire'[i].id < wire'[j].id
  BY <1>2 DEF InOrderOnce
<1>4. i \in 1 .. Len(wire) /\ wire'[i] = wire[i]
  BY <1>2, <1>3
<1>5. CASE j = Len(wire) + 1
  BY <1>2, <1>3, <1>4, <1>5
<1>6. CASE j \in 1 .. Len(wire)
  BY <1>2, <1>3, <1>4, <1>6 DEF InOrderOnce
<1> QED BY <1>2, <1>3, <1>5, <1>6

\* Consecutive numbers are a sequence.
LEMMA RunIsASeq ==
    ASSUME NEW a \in Nat, NEW k \in Int
    PROVE  LET run == [i \in 1 .. k |-> a + i] IN
           /\ run \in Seq(Nat) /\ DOMAIN run = 1 .. k
           /\ \A i \in DOMAIN run : run[i] = a + i
           /\ Len(run) = IF k > 0 THEN k ELSE 0
<1> DEFINE run == [i \in 1 .. k |-> a + i]
<1>1. CASE k > 0
  BY <1>1
<1>2. CASE ~(k > 0)
  <2>1. run = <<>>
    BY <1>2
  <2>2. DOMAIN run = 1 .. k /\ \A i \in DOMAIN run : run[i] = a + i
    OBVIOUS
  <2>3. run \in Seq(Nat) /\ Len(run) = 0
    <3> HIDE DEF run
    <3> QED BY <2>1, EmptyIs
  <2> QED BY <1>2, <2>2, <2>3, Zenon
<1> QED BY <1>1, <1>2, Zenon

LEMMA HubNext == HubInv /\ [Next]_vars => HubInv'
<1>1. NewHub' => HubInv'
  BY HubInit, PTL
<1>2. SUFFICES ASSUME HubInv, [Next]_vars PROVE HubInv'
  OBVIOUS
<1>3. CASE Restart
  BY <1>1, <1>3 DEF Restart, NewHub
<1>4. CASE Publish
  BY <1>2, <1>4, HubStep DEF Publish
<1>5. CASE UNCHANGED hubVars
  BY <1>2, <1>5, HubStep
<1> QED BY <1>2, <1>3, <1>4, <1>5 DEF Next, HandlerStep, BridgeStep, Connect, Replay,
           WriteReconcile, WriteMissed, Replayed, WriteLive, Reconcile, Apply, MovePast,
           Break, Kill, vars

LEMMA OrderInit == Init => OrderInv
<1> SUFFICES ASSUME Init PROVE OrderInv
  OBVIOUS
<1>1. HubInv
  BY HubInit DEF Init
<1>2. StreamTypes
  BY DEF Init, StreamTypes
<1>3. Ascending /\ InOrderOnce
  BY DEF Init, Ascending, InOrderOnce
<1> QED BY <1>1, <1>2, <1>3 DEF OrderInv

\* The handler is gone; what it wrote is cut short.
LEMMA ReleasedInOrder ==
    ASSUME StreamTypes, InOrderOnce, Released, Cut \/ wire' = <<>>,
           hand' \in {hand, None}, UNCHANGED cursor, boots' \in Nat
    PROVE  StreamTypes' /\ Ascending' /\ InOrderOnce'
<1>1. wire \in Seq(Frame)
  BY DEF StreamTypes
<1>2. wire' \in Seq(Frame) /\ Stretch(wire', wire)
  <2>1. CASE Cut
    BY <1>1, <2>1, CutIsAStretch DEF Cut
  <2>2. CASE wire' = <<>>
    BY <2>2 DEF Stretch
  <2> QED BY <2>1, <2>2
<1>3. InOrderOnce'
  BY <1>2, StretchIsInOrder
<1>4. StreamTypes'
  BY <1>2 DEF Released, StreamTypes
<1>5. Ascending'
  BY DEF Released, Ascending
<1> QED BY <1>3, <1>4, <1>5

\* A frame is read.
LEMMA ReadInOrder ==
    ASSUME StreamTypes, Ascending, InOrderOnce, NEW kind, Read(kind), UNCHANGED handler,
           hand' \in Frame \cup {None}, cursor' \in Nat, UNCHANGED boots
    PROVE  StreamTypes' /\ Ascending' /\ InOrderOnce'
<1>1. wire \in Seq(Frame) /\ wire # <<>> /\ wire' = Tail(wire)
  BY DEF StreamTypes, Read
<1>2. /\ wire' \in Seq(Frame) /\ Stretch(wire', wire)
      /\ \A i \in DOMAIN wire' : i + 1 \in DOMAIN wire /\ wire'[i] = wire[i + 1]
  BY <1>1, TailIsAStretch
<1>3. UNCHANGED <<conn, from, ch, missed, sent>>
  BY DEF handler
<1>4. StreamTypes'
  BY <1>2, <1>3 DEF StreamTypes
<1>5. Ascending'
  BY <1>1, <1>2, <1>3 DEF Ascending
<1>6. InOrderOnce'
  BY <1>2, StretchIsInOrder
<1> QED BY <1>4, <1>5, <1>6

LEMMA OrderStep == OrderInv /\ [Next]_vars => OrderInv'
<1> SUFFICES ASSUME HubInv, StreamTypes, Ascending, InOrderOnce, [Next]_vars
             PROVE  StreamTypes' /\ Ascending' /\ InOrderOnce'
  BY HubNext DEF OrderInv
<1>0. nextID \in Nat /\ wire \in Seq(Frame) /\ ch \in Seq(Nat) /\ missed \in Seq(Nat)
  BY HubConstants DEF HubInv, Cells, StreamTypes
<1>1. CASE UNCHANGED vars
  BY <1>1 DEF vars, handler, bridge, faults, StreamTypes, Ascending, InOrderOnce
<1>2. CASE Publish
  <2>1. UNCHANGED <<conn, from, missed, sent, wire, hand, cursor, boots>>
    BY <1>2 DEF Publish, bridge, faults
  <2>2. ch' \in Seq(Nat)
    BY <1>0, <1>2, AppendedAtTheEnd DEF Publish
  <2> QED BY <2>1, <2>2 DEF StreamTypes, Ascending, InOrderOnce
<1>3. CASE Connect
  <2>1. /\ conn' = "since" /\ from' = cursor /\ wire = <<>>
        /\ UNCHANGED <<ch, missed, sent, wire, hand, cursor, boots>>
    BY <1>3 DEF Connect, bridge, faults
  <2> QED BY <2>1 DEF StreamTypes, Ascending, InOrderOnce
<1>4. CASE Replay
  <2>1. /\ conn = "since" /\ missed' = Since(from) /\ sent' = from
        /\ conn' \in {"replay", "behind"}
        /\ UNCHANGED <<from, ch, wire, hand, cursor, boots>>
    BY <1>4 DEF Replay, bridge, faults
  <2>2. wire = <<>> /\ from \in Nat
    BY <2>1 DEF Ascending, StreamTypes
  <2>3. missed' = [i \in 1 .. nextID - First(from) |-> First(from) + i]
    BY <2>1, <2>2, SinceIs
  <2>4. First(from) \in Nat /\ First(from) >= from
    BY <1>0, <2>2, HubConstants DEF First, Held
  <2>5. missed' \in Seq(Nat) /\ DOMAIN missed' = 1 .. nextID - First(from)
        /\ \A i \in DOMAIN missed' : missed'[i] = First(from) + i
    <3>1. nextID - First(from) \in Int
      BY <1>0, <2>4
    <3> QED BY <2>3, <2>4, <3>1, RunIsASeq
  <2>6. StreamTypes'
    BY <2>1, <2>2, <2>5 DEF StreamTypes
  <2>7. Ascending'
    BY <1>0, <2>1, <2>2, <2>4, <2>5 DEF Ascending
  <2> QED BY <2>1, <2>6, <2>7 DEF InOrderOnce
<1>5. CASE WriteReconcile
  <2> DEFINE f == [kind |-> "reconcile", id |-> nextID, boot |-> boots]
  <2>1. /\ conn = "behind" /\ conn' = "replay" /\ wire' = Append(wire, f)
        /\ UNCHANGED <<from, ch, missed, sent, hand, cursor, boots>>
    BY <1>5 DEF WriteReconcile, Write, bridge, faults
  <2>2. f \in Frame /\ f.kind # "event" /\ wire = <<>>
    BY <1>0, <2>1 DEF Frame, StreamTypes, Ascending
  <2> HIDE DEF f
  <2>3. /\ wire' \in Seq(Frame) /\ DOMAIN wire' = 1 .. Len(wire) + 1
        /\ wire'[Len(wire) + 1] = f /\ Len(wire) = 0
    BY <1>0, <2>1, <2>2, AppendedAtTheEnd
  <2>4. StreamTypes'
    BY <2>1, <2>3 DEF StreamTypes
  <2>5. Ascending'
    BY <2>1, <2>2, <2>3 DEF Ascending
  <2>6. InOrderOnce'
    BY <2>1, <2>2, WrittenInOrder
  <2> QED BY <2>4, <2>5, <2>6
<1>6. ASSUME NEW x \in Nat, Write("event", x), sent' = x, x > sent, conn # "closed",
             conn \notin {"since", "behind"}, missed' \in Seq(Nat), ch' \in Seq(Nat),
             conn \in {"replay", "live"} =>
                 /\ \A i \in DOMAIN missed' : missed'[i] > x
                 /\ \A i, j \in DOMAIN missed' : i < j => missed'[i] < missed'[j],
             conn = "live" => missed' = <<>>,
             UNCHANGED <<conn, from, hand, cursor, boots>>
      PROVE  StreamTypes' /\ Ascending' /\ InOrderOnce'
  <2> DEFINE f == [kind |-> "event", id |-> x, boot |-> boots]
  <2>1. wire' = Append(wire, f)
    BY <1>6 DEF Write
  <2>2. f \in Frame /\ f.kind = "event" /\ f.id = x
    BY DEF Frame, StreamTypes
  <2> HIDE DEF f
  <2>3. /\ wire' \in Seq(Frame) /\ DOMAIN wire' = 1 .. Len(wire) + 1 /\ Len(wire) \in Nat
        /\ wire'[Len(wire) + 1] = f /\ DOMAIN wire = 1 .. Len(wire)
        /\ \A i \in 1 .. Len(wire) : wire'[i] = wire[i]
    BY <1>0, <2>1, <2>2, AppendedAtTheEnd
  <2>4. \A i \in DOMAIN wire : wire[i].kind = "event" => wire[i].id \in Nat /\ wire[i].id <= sent
    <3>1. \A i \in DOMAIN wire : wire[i] \in Frame
      BY <1>0, ElementIs, LengthIs
    <3>2. \A i \in DOMAIN wire : wire[i].id \in Nat
      BY <3>1 DEF Frame
    <3> QED BY <1>6, <3>2 DEF Ascending
  <2>5. StreamTypes'
    BY <1>6, <2>3 DEF StreamTypes
  <2>6. \A i \in DOMAIN wire' : wire'[i].kind = "event" => wire'[i].id <= x
    <3> SUFFICES ASSUME NEW i \in 1 .. Len(wire) + 1, wire'[i].kind = "event"
                 PROVE  wire'[i].id <= x
      BY <2>3
    <3>1. CASE i = Len(wire) + 1
      BY <2>2, <2>3, <3>1
    <3>2. CASE i \in 1 .. Len(wire)
      <4>1. wire'[i] = wire[i] /\ wire[i].id \in Nat /\ wire[i].id <= sent /\ sent \in Nat
        BY <2>3, <2>4, <3>2, Zenon DEF StreamTypes
      <4> QED BY <1>6, <4>1
    <3> QED BY <2>3, <3>1, <3>2
  <2>7. Ascending'
    BY <1>6, <2>6 DEF Ascending
  <2>8. InOrderOnce'
    <3>1. \A i \in DOMAIN wire : wire[i].kind = "event" => wire[i].id < f.id
      BY <1>6, <2>2, <2>4 DEF StreamTypes
    <3> QED BY <2>1, <2>2, <3>1, WrittenInOrder
  <2> QED BY <2>5, <2>7, <2>8
<1>7. CASE WriteMissed
  <2>1. /\ conn = "replay" /\ missed # <<>> /\ Write("event", Head(missed))
        /\ sent' = Head(missed) /\ missed' = Tail(missed)
        /\ UNCHANGED <<conn, from, ch, hand, cursor, boots>>
    BY <1>7 DEF WriteMissed, bridge, faults
  <2>2. /\ Head(missed) \in Nat /\ Head(missed) = missed[1] /\ missed' \in Seq(Nat)
        /\ 1 \in DOMAIN missed
        /\ \A i \in DOMAIN missed' : i + 1 \in DOMAIN missed /\ missed'[i] = missed[i + 1]
    BY <1>0, <2>1, TailIsAStretch
  <2>3. DOMAIN missed' \subseteq Nat \ {0}
    BY <2>2, LengthIs
  <2>4. Head(missed) > sent /\ \A i \in DOMAIN missed' : missed'[i] > Head(missed)
    BY <2>1, <2>2, <2>3 DEF Ascending
  <2>5. \A i, j \in DOMAIN missed' : i < j => missed'[i] < missed'[j]
    BY <2>1, <2>2, <2>3 DEF Ascending
  <2> QED BY <1>0, <1>6, <2>1, <2>2, <2>4, <2>5
<1>8. CASE Replayed
  <2>1. /\ conn = "replay" /\ conn' = "live" /\ missed = <<>>
        /\ UNCHANGED <<from, ch, missed, sent, wire, hand, cursor, boots>>
    BY <1>8 DEF Replayed, bridge, faults
  <2> QED BY <2>1 DEF StreamTypes, Ascending, InOrderOnce
<1>9. CASE WriteLive
  <2>1. /\ conn = "live" /\ ch # <<>> /\ ch' = Tail(ch)
        /\ UNCHANGED <<conn, from, missed, hand, cursor, boots>>
    BY <1>9 DEF WriteLive, bridge, faults
  <2>2. ch' \in Seq(Nat) /\ Head(ch) \in Nat /\ missed = <<>>
    BY <1>0, <2>1, TailIsAStretch DEF Ascending
  <2>3. CASE New(Head(ch))
    <3>1. Write("event", Head(ch)) /\ sent' = Head(ch) /\ Head(ch) > sent
      BY <1>9, <2>3 DEF WriteLive, New
    <3> QED BY <1>0, <1>6, <2>1, <2>2, <3>1
  <2>4. CASE ~New(Head(ch))
    <3>1. UNCHANGED <<wire, sent>>
      BY <1>9, <2>4 DEF WriteLive
    <3> QED BY <2>1, <2>2, <3>1 DEF StreamTypes, Ascending, InOrderOnce
  <2> QED BY <2>3, <2>4
<1>10. CASE Reconcile
  <2>1. Read("reconcile") /\ UNCHANGED <<handler, hand, boots>> /\ Advance(Head(wire).id)
    BY <1>10 DEF Reconcile, faults
  <2>2. Head(wire) \in Frame
    BY <1>0, <2>1, TailIsAStretch DEF Read
  <2>3. hand' \in Frame \cup {None} /\ cursor' \in Nat
    BY <2>1, <2>2 DEF StreamTypes, Advance, Frame
  <2> QED BY <2>1, <2>3, ReadInOrder
<1>11. CASE Apply
  <2>1. Read("event") /\ UNCHANGED <<handler, cursor, boots>> /\ hand' = Head(wire)
    BY <1>11 DEF Apply, faults
  <2>2. Head(wire) \in Frame
    BY <1>0, <2>1, TailIsAStretch DEF Read
  <2> QED BY <2>1, <2>2, ReadInOrder DEF StreamTypes
<1>12. CASE MovePast
  <2>1. /\ hand \in Frame /\ hand' = None /\ Advance(hand.id)
        /\ UNCHANGED <<conn, from, ch, missed, sent, wire, boots>>
    BY <1>12 DEF MovePast, StreamTypes, handler, faults
  <2>2. cursor' \in Nat
    BY <2>1 DEF StreamTypes, Advance, Frame
  <2> QED BY <2>1, <2>2 DEF StreamTypes, Ascending, InOrderOnce
<1>13. CASE Break \/ Kill \/ Restart
  <2>1. /\ Released /\ (Cut \/ wire' = <<>>) /\ hand' \in {hand, None}
        /\ UNCHANGED cursor /\ boots' \in {boots, boots + 1}
    BY <1>13 DEF Break, Kill, Restart, bridge
  <2>2. boots' \in Nat
    BY <2>1 DEF StreamTypes
  <2> QED BY <2>1, <2>2, ReleasedInOrder
<1> QED BY <1>1, <1>2, <1>3, <1>4, <1>5, <1>7, <1>8, <1>9, <1>10, <1>11, <1>12, <1>13
        DEF Next, HandlerStep, BridgeStep

\* For any buffers, breaks and restarts, the events of one connection are in
\* order and none is sent twice, although the replay and the subscription
\* overlap (server.go, events).
THEOREM InOrderOnceHolds == Spec => []InOrderOnce
<1>1. OrderInv => InOrderOnce
  BY DEF OrderInv
<1> QED BY <1>1, OrderInit, OrderStep, PTL DEF Spec

\* The buffer of a running daemon, read oldest first, is its latest events
\* without a gap, before and after it wraps (hub.go, append and orderedLocked).
THEOREM BufferIsTheLatest == Spec => []RingIsTheLatest
<1>1. OrderInv => RingIsTheLatest
  BY OrderedIs DEF OrderInv, RingIsTheLatest
<1> QED BY <1>1, OrderInit, OrderStep, PTL DEF Spec

\* Since tells a reader that it missed nothing exactly when nothing it missed
\* has left the buffer (hub.go, Since).
THEOREM CompletenessIsHonest == Spec => []CompleteIsHonest
<1>1. OrderInv => CompleteIsHonest
  BY Honest DEF OrderInv
<1> QED BY <1>1, OrderInit, OrderStep, PTL DEF Spec

\* What Since returns to a reader is every later event that the buffer holds,
\* in order (hub.go, the loop of Since).
THEOREM SinceReturnsTheRest == Spec => []SinceIsTheRest
<1>1. HubInv => SinceIsTheRest
  <2> SUFFICES ASSUME HubInv, NEW id \in 0 .. nextID
               PROVE  Since(id) = [i \in 1 .. nextID - First(id) |-> First(id) + i]
    BY DEF SinceIsTheRest, First
  <2>1. id \in Nat
    BY DEF HubInv, Cells
  <2> QED BY <2>1, SinceIs
<1>2. OrderInv => SinceIsTheRest
  BY <1>1 DEF OrderInv
<1> QED BY <1>2, OrderInit, OrderStep, PTL DEF Spec

-----------------------------------------------------------------------------
(* One daemon whose subscriber keeps up.                                   *)

\* The daemon does not restart, and no event finds the subscription full.
KeepsUp == boots' = boots /\ (nextID' # nextID /\ Subscribed => Len(ch) < SubBuffer)

\* Where the cursor will stand once the event in hand is moved past,
Reached == IF hand # None /\ hand.id > cursor THEN hand.id ELSE cursor

Advised == wire # <<>> /\ wire[1].kind = "reconcile"

\* and once the advice on the wire, if there is any, is taken.
Ahead == IF Advised /\ wire[1].id > cursor THEN wire[1].id ELSE Reached

Bounds ==
    /\ boots = 0 /\ cursor <= nextID /\ sent <= nextID /\ from <= nextID
    /\ \A i \in DOMAIN wire : wire[i].id <= nextID /\ wire[i].boot = 0
    /\ \A i \in DOMAIN wire : wire[i].kind = "event" => wire[i].id >= 1
    /\ \A i \in DOMAIN missed : missed[i] \in 1 .. nextID
    /\ hand # None => hand.id \in 1 .. nextID
    /\ handled \subseteq {0} \X (1 .. nextID)

\* The bridge: what its cursor is past was applied, or it knows that something
\* is missing; it has in hand no event but the next, or an earlier one.
Applied ==
    /\ 0 \in told \/ \A e \in 1 .. cursor : <<0, e>> \in handled
    /\ hand # None => hand.id <= cursor + 1 /\ <<0, hand.id>> \in handled

\* The wire: advice comes first and is not read while an event is in hand, and
\* the events follow each other from one the bridge may move on to.
Gapless ==
    /\ \A i \in DOMAIN wire : wire[i].kind = "reconcile" => i = 1
    /\ \A i \in DOMAIN wire : wire[i].kind = "event" /\ i + 1 \in DOMAIN wire
            => wire[i + 1].id = wire[i].id + 1
    /\ \A i \in DOMAIN wire : i <= 2 /\ wire[i].kind = "event" /\ (i = 1 \/ Advised)
            => wire[i].id <= Ahead + 1

\* Advice is given to a bridge that the buffer has left behind.
Advice ==
    /\ Advised => hand = None /\ nextID - cursor > RingSize
    /\ conn \in {"since", "behind"} => hand = None /\ from = cursor /\ wire = <<>>
    /\ conn = "behind" => nextID - cursor > RingSize

\* The event x may be written next.
Fits(x) ==
    IF wire # <<>> /\ wire[Len(wire)].kind = "event" THEN x = wire[Len(wire)].id + 1
                                                    ELSE x <= Ahead + 1

\* The subscription holds the latest events,
Queue ==
    /\ Len(ch) <= nextID /\ (conn = "closed" => ch = <<>>)
    /\ \A i \in DOMAIN ch : ch[i] = nextID - Len(ch) + i

\* the replay reaches up to the first of them, and what comes next may be
\* written next.
ReplayEnd == IF missed = <<>> THEN sent ELSE missed[Len(missed)]

Coming == IF missed = <<>> THEN sent + 1 ELSE missed[1]

Supply ==
    /\ \A i \in DOMAIN missed : missed[i] = missed[1] + i - 1
    /\ conn \in {"behind", "replay", "live"} => ReplayEnd >= nextID - Len(ch)
    /\ conn \in {"replay", "live"} => Fits(Coming)

FeedInv == Bounds /\ Applied /\ Gapless /\ Advice /\ Queue /\ Supply

LEMMA FeedInit == Init => FeedInv
<1> SUFFICES ASSUME Init PROVE FeedInv
  OBVIOUS
<1>1. nextID = 0 /\ wire = <<>> /\ missed = <<>> /\ ch = <<>> /\ hand = None /\ cursor = 0
      /\ sent = 0 /\ from = 0 /\ boots = 0 /\ handled = {} /\ conn = "closed"
  BY DEF Init, NewHub
<1>2. DOMAIN wire = {} /\ DOMAIN missed = {} /\ DOMAIN ch = {} /\ Len(ch) = 0
  BY <1>1
<1>3. Bounds /\ Applied
  BY <1>1, <1>2 DEF Bounds, Applied
<1>4. Gapless /\ Advice
  BY <1>1, <1>2 DEF Gapless, Advice, Advised
<1>5. Queue /\ Supply
  BY <1>1, <1>2 DEF Queue, Supply
<1> QED BY <1>3, <1>4, <1>5 DEF FeedInv

\* What the invariants say of the frames on the wire and of the numbers.
LEMMA StreamFacts ==
    ASSUME OrderInv, FeedInv
    PROVE  /\ nextID \in Nat /\ cursor \in Nat /\ sent \in Nat /\ from \in Nat
           /\ ch \in Seq(Nat) /\ missed \in Seq(Nat) /\ wire \in Seq(Frame)
           /\ Len(ch) \in Nat /\ Len(missed) \in Nat /\ Len(wire) \in Nat
           /\ DOMAIN ch = 1 .. Len(ch) /\ DOMAIN missed = 1 .. Len(missed)
           /\ DOMAIN wire = 1 .. Len(wire)
           /\ (wire = <<>> <=> Len(wire) = 0) /\ (missed = <<>> <=> Len(missed) = 0)
           /\ \A i \in 1 .. Len(wire) :
                  /\ wire[i] \in Frame /\ wire[i].id \in Nat
                  /\ wire[i].kind \in {"event", "reconcile"}
           /\ hand # None => hand \in Frame /\ hand.id \in Nat
           /\ Reached \in Nat /\ Ahead \in Nat /\ Reached >= cursor /\ Ahead >= cursor
           /\ ~Advised => Ahead = Reached
<1>1. /\ nextID \in Nat /\ cursor \in Nat /\ sent \in Nat /\ from \in Nat
      /\ ch \in Seq(Nat) /\ missed \in Seq(Nat) /\ wire \in Seq(Frame)
      /\ hand # None => hand \in Frame
  BY HubConstants DEF OrderInv, HubInv, Cells, StreamTypes
<1>2. /\ Len(ch) \in Nat /\ Len(missed) \in Nat /\ Len(wire) \in Nat
      /\ DOMAIN ch = 1 .. Len(ch) /\ DOMAIN missed = 1 .. Len(missed)
      /\ DOMAIN wire = 1 .. Len(wire)
      /\ (wire = <<>> <=> Len(wire) = 0) /\ (missed = <<>> <=> Len(missed) = 0)
  BY <1>1, LengthIs, EmptyIs
<1>3. \A i \in 1 .. Len(wire) : wire[i] \in Frame
  BY <1>1, ElementIs
<1>4. \A f \in Frame : f.id \in Nat /\ f.kind \in {"event", "reconcile"}
  BY DEF Frame
<1>5. hand # None => hand.id \in Nat
  BY <1>1, <1>4
<1>6. Reached \in Nat /\ Reached >= cursor
  BY <1>1, <1>5 DEF Reached
<1>7. Advised => wire[1].id \in Nat
  BY <1>2, <1>3, <1>4 DEF Advised
<1>8. Ahead \in Nat /\ Ahead >= cursor /\ (~Advised => Ahead = Reached)
  BY <1>1, <1>6, <1>7 DEF Ahead
<1> QED BY <1>1, <1>2, <1>3, <1>4, <1>5, <1>6, <1>8

\* Since is complete for an id from which the buffer has every event on, and a
\* reader it is not complete for is more than a buffer behind.
LEMMA CompleteIs ==
    ASSUME HubInv, NEW id \in 0 .. nextID
    PROVE  /\ Complete(id) => First(id) = id
           /\ ~Complete(id) => nextID - id > RingSize
<1>1. /\ nextID \in Nat /\ Held \in Nat /\ Len(ring) = Held /\ ring \in Seq(1 .. MaxEvents)
      /\ nextID >= Held /\ (Held = nextID \/ Held = RingSize) /\ RingSize \in Nat
  BY HubConstants DEF HubInv, Cells, Held
<1>2. CASE ring = <<>>
  <2>1. Held = 0 /\ nextID = 0 /\ id = 0
    BY <1>1, <1>2, HubConstants DEF Held
  <2> QED BY <1>2, <2>1 DEF Complete, First
<1>3. CASE ring # <<>>
  <2>1. Held >= 1
    BY <1>1, <1>3, EmptyIs
  <2>2. Complete(id) <=> id >= nextID - Held
    BY <1>1, <1>3, <2>1, OrderedIs DEF Complete
  <2> QED BY <1>1, <2>1, <2>2 DEF First
<1> QED BY <1>2, <1>3

\* An event that may be written next is: those on the wire follow each other as
\* before, and the one after it may be written next.
LEMMA EventWritten ==
    ASSUME OrderInv, FeedInv, NEW x \in 1 .. nextID, Fits(x), Write("event", x),
           UNCHANGED <<cursor, hand>>
    PROVE  /\ Gapless' /\ (Advised' <=> Advised) /\ Ahead' = Ahead
           /\ Fits(x + 1)'
           /\ wire' # <<>> /\ (wire # <<>> \/ ~Advised')
           /\ \A i \in DOMAIN wire' : \/ i \in DOMAIN wire /\ wire'[i] = wire[i]
                                      \/ /\ wire'[i].id = x /\ wire'[i].boot = boots
                                         /\ wire'[i].kind = "event"
<1> DEFINE f == [kind |-> "event", id |-> x, boot |-> boots]
<1>1. wire' = Append(wire, f)
  BY DEF Write
<1>2. f \in Frame /\ f.kind = "event" /\ f.id = x /\ f.boot = boots /\ x \in Nat
  BY StreamFacts DEF Frame, OrderInv, StreamTypes
<1> HIDE DEF f
<1>3. /\ Len(wire) \in Nat /\ DOMAIN wire = 1 .. Len(wire) /\ Ahead \in Nat
      /\ (wire = <<>> <=> Len(wire) = 0)
      /\ \A i \in 1 .. Len(wire) : wire[i].id \in Nat /\ wire[i].kind \in {"event", "reconcile"}
  BY StreamFacts, Zenon
<1>4. /\ Len(wire') = Len(wire) + 1 /\ DOMAIN wire' = 1 .. Len(wire) + 1 /\ wire' # <<>>
      /\ wire'[Len(wire) + 1] = f
      /\ \A i \in 1 .. Len(wire) : wire'[i] = wire[i]
  BY <1>1, <1>2, StreamFacts, AppendedAtTheEnd
<1>5. Reached' = Reached
  BY DEF Reached
<1>6. wire # <<>> => wire'[1] = wire[1]
  BY <1>3, <1>4
<1>7. wire = <<>> => wire'[1] = f
  BY <1>3, <1>4
<1>8. Advised' <=> Advised
  BY <1>2, <1>4, <1>6, <1>7 DEF Advised
<1>9. Ahead' = Ahead
  BY <1>5, <1>6, <1>8 DEF Ahead, Advised
<1>10. /\ \A i \in 1 .. Len(wire) : wire[i].kind = "reconcile" => i = 1
       /\ \A i \in 1 .. Len(wire) : wire[i].kind = "event" /\ i + 1 \in 1 .. Len(wire)
            => wire[i + 1].id = wire[i].id + 1
       /\ \A i \in 1 .. Len(wire) : i <= 2 /\ wire[i].kind = "event" /\ (i = 1 \/ Advised)
            => wire[i].id <= Ahead + 1
  BY <1>3, Zenon DEF FeedInv, Gapless
<1>11. /\ wire = <<>> => x <= Ahead + 1
       /\ wire # <<>> /\ wire[Len(wire)].kind = "event" => x = wire[Len(wire)].id + 1
       /\ wire # <<>> /\ wire[Len(wire)].kind # "event" => x <= Ahead + 1
  BY DEF Fits
<1>12. ASSUME NEW i \in 1 .. Len(wire) + 1, wire'[i].kind = "reconcile" PROVE i = 1
  BY <1>2, <1>3, <1>4, <1>10, <1>12
<1>13. ASSUME NEW i \in 1 .. Len(wire) + 1, wire'[i].kind = "event",
              i + 1 \in 1 .. Len(wire) + 1
       PROVE  wire'[i + 1].id = wire'[i].id + 1
  <2>1. i \in 1 .. Len(wire) /\ wire'[i] = wire[i]
    BY <1>3, <1>4, <1>13
  <2>2. CASE i = Len(wire)
    BY <1>2, <1>3, <1>4, <1>11, <1>13, <2>1, <2>2
  <2>3. CASE i + 1 \in 1 .. Len(wire)
    BY <1>4, <1>10, <1>13, <2>1, <2>3
  <2>4. i = Len(wire) \/ i + 1 \in 1 .. Len(wire)
    <3>1. \A n \in Nat : \A k \in 1 .. n : k = n \/ k + 1 \in 1 .. n
      OBVIOUS
    <3> QED BY <1>3, <2>1, <3>1, Zenon
  <2> QED BY <2>2, <2>3, <2>4
<1>14. ASSUME NEW i \in 1 .. Len(wire) + 1, i <= 2, wire'[i].kind = "event",
              i = 1 \/ Advised'
       PROVE  wire'[i].id <= Ahead' + 1
  <2>1. CASE i \in 1 .. Len(wire)
    BY <1>4, <1>8, <1>9, <1>10, <1>14, <2>1
  <2>2. CASE i = Len(wire) + 1
    <3>1. wire = <<>> \/ (Len(wire) = 1 /\ wire[Len(wire)].kind # "event")
      BY <1>3, <1>8, <1>14, <2>2 DEF Advised
    <3> QED BY <1>2, <1>3, <1>4, <1>9, <1>11, <2>2, <3>1
  <2> QED BY <1>3, <2>1, <2>2
<1>15. Gapless'
  BY <1>4, <1>12, <1>13, <1>14 DEF Gapless
<1>16. Fits(x + 1)'
  BY <1>2, <1>4 DEF Fits
<1>17. wire # <<>> \/ ~Advised'
  BY <1>8 DEF Advised
<1>18. ASSUME NEW i \in DOMAIN wire'
       PROVE  \/ i \in DOMAIN wire /\ wire'[i] = wire[i]
              \/ /\ wire'[i].id = x /\ wire'[i].boot = boots
                 /\ wire'[i].kind = "event"
  BY <1>2, <1>3, <1>4
<1> QED BY <1>4, <1>8, <1>9, <1>15, <1>16, <1>17, <1>18

\* The first frame is read, and the bridge reaches as far as it takes it: the
\* rest follow each other as before, and what may be written next still may.
LEMMA FrameRead ==
    ASSUME OrderInv, FeedInv, wire # <<>>, wire' = Tail(wire), Reached' \in Nat,
           wire[1].kind = "event" => Reached' >= wire[1].id,
           wire[1].kind # "event" => Reached' >= Ahead
    PROVE  /\ Gapless' /\ ~Advised'
           /\ \A x \in Nat : Fits(x) => Fits(x)'
           /\ \A i \in DOMAIN wire' : i + 1 \in DOMAIN wire /\ wire'[i] = wire[i + 1]
<1>1. /\ Len(wire) \in Nat /\ DOMAIN wire = 1 .. Len(wire) /\ Ahead \in Nat /\ Len(wire) # 0
      /\ \A i \in 1 .. Len(wire) : wire[i].id \in Nat /\ wire[i].kind \in {"event", "reconcile"}
  BY StreamFacts, Zenon
<1>2. /\ wire' \in Seq(Frame) /\ Len(wire') = Len(wire) - 1
      /\ \A i \in DOMAIN wire' : i + 1 \in DOMAIN wire /\ wire'[i] = wire[i + 1]
  BY StreamFacts, TailIsAStretch, Zenon
<1>3. DOMAIN wire' = 1 .. Len(wire) - 1 /\ (wire' = <<>> <=> Len(wire) = 1)
  <2>1. DOMAIN wire' = 1 .. Len(wire') /\ (wire' = <<>> <=> Len(wire') = 0)
    BY <1>2, LengthIs, EmptyIs, Zenon
  <2> QED BY <1>1, <1>2, <2>1
<1>4. \A i \in 1 .. Len(wire) - 1 : i + 1 \in 1 .. Len(wire) /\ wire'[i] = wire[i + 1]
  BY <1>1, <1>2, <1>3
<1>5. /\ \A i \in 1 .. Len(wire) : wire[i].kind = "reconcile" => i = 1
      /\ \A i \in 1 .. Len(wire) : wire[i].kind = "event" /\ i + 1 \in 1 .. Len(wire)
            => wire[i + 1].id = wire[i].id + 1
      /\ \A i \in 1 .. Len(wire) : i <= 2 /\ wire[i].kind = "event" /\ (i = 1 \/ Advised)
            => wire[i].id <= Ahead + 1
  BY <1>1, Zenon DEF FeedInv, Gapless
<1>6. \A i \in 1 .. Len(wire) - 1 : wire'[i].kind = "event"
  <2> SUFFICES ASSUME NEW i \in 1 .. Len(wire) - 1 PROVE wire'[i].kind = "event"
    OBVIOUS
  <2>1. i + 1 \in 1 .. Len(wire) /\ i + 1 # 1
    BY <1>1
  <2> QED BY <1>1, <1>4, <1>5, <2>1
<1>7. ~Advised' /\ Ahead' = Reached'
  <2>1. ~Advised'
    <3>1. wire' # <<>> => 1 \in 1 .. Len(wire) - 1
      BY <1>1, <1>3
    <3> QED BY <1>6, <3>1 DEF Advised
  <2> QED BY <2>1 DEF Ahead
<1>8. ASSUME NEW i \in 1 .. Len(wire) - 1, i + 1 \in 1 .. Len(wire) - 1
      PROVE  wire'[i + 1].id = wire'[i].id + 1
  <2>1. /\ i + 1 \in 1 .. Len(wire) /\ i + 1 + 1 \in 1 .. Len(wire)
        /\ wire'[i] = wire[i + 1] /\ wire'[i + 1] = wire[i + 1 + 1]
    BY <1>4, <1>8
  <2>2. wire[i + 1].kind = "event"
    BY <1>6, <2>1
  <2> QED BY <1>5, <2>1, <2>2
<1>9. ASSUME 1 \in 1 .. Len(wire) - 1 PROVE wire'[1].id <= Reached' + 1
  <2>1. 1 \in 1 .. Len(wire) /\ 2 \in 1 .. Len(wire) /\ wire'[1] = wire[2] /\ wire[2].kind = "event"
    <3>1. 1 + 1 \in 1 .. Len(wire) /\ wire'[1] = wire[1 + 1] /\ wire'[1].kind = "event"
      BY <1>4, <1>6, <1>9, Zenon
    <3>2. 1 \in 1 .. Len(wire)
      BY <1>1
    <3> QED BY <3>1, <3>2
  <2>2. CASE wire[1].kind = "event"
    <3>1. wire[2].id = wire[1].id + 1
      BY <1>5, <2>1, <2>2
    <3> QED BY <1>1, <2>1, <2>2, <3>1
  <2>3. CASE wire[1].kind # "event"
    <3>1. Advised
      BY <1>1, <2>1, <2>3 DEF Advised
    <3>2. wire[2].id <= Ahead + 1
      BY <1>5, <2>1, <3>1
    <3> QED BY <1>1, <2>1, <2>3, <3>2
  <2> QED BY <2>2, <2>3, Zenon
<1>10. Gapless'
  <2>1. \A i \in DOMAIN wire' : wire'[i].kind # "reconcile"
    BY <1>3, <1>6
  <2>2. \A i \in DOMAIN wire' : i + 1 \in DOMAIN wire' => wire'[i + 1].id = wire'[i].id + 1
    BY <1>3, <1>8
  <2>3. \A i \in DOMAIN wire' : i = 1 => wire'[i].id <= Ahead' + 1
    BY <1>3, <1>7, <1>9
  <2> QED BY <1>7, <2>1, <2>2, <2>3 DEF Gapless
<1>11. ASSUME NEW x \in Nat, Fits(x) PROVE Fits(x)'
  <2>1. CASE Len(wire) = 1
    <3>1. wire' = <<>> /\ 1 \in 1 .. Len(wire)
      BY <1>3, <2>1
    <3>2. x <= Reached' + 1
      <4>1. CASE wire[1].kind = "event"
        <5>1. x = wire[1].id + 1
          BY <1>11, <2>1, <4>1 DEF Fits
        <5> QED BY <1>1, <3>1, <4>1, <5>1
      <4>2. CASE wire[1].kind # "event"
        <5>1. x <= Ahead + 1
          BY <1>11, <2>1, <4>2 DEF Fits
        <5>2. Reached' >= Ahead /\ Ahead \in Nat
          BY <1>1, <4>2
        <5>3. \A a, b, c \in Nat : c <= a + 1 /\ b >= a => c <= b + 1
          OBVIOUS
        <5> QED BY <5>1, <5>2, <5>3, Zenon
      <4> QED BY <4>1, <4>2, Zenon
    <3> QED BY <1>7, <3>1, <3>2, Zenon DEF Fits
  <2>2. CASE Len(wire) # 1
    <3>1. /\ wire' # <<>> /\ Len(wire') \in 1 .. Len(wire) - 1 /\ Len(wire') + 1 = Len(wire)
          /\ wire'[Len(wire')] = wire[Len(wire') + 1]
      BY <1>1, <1>2, <1>3, <1>4, <2>2
    <3>2. wire'[Len(wire')].kind = "event" /\ wire'[Len(wire')] = wire[Len(wire)]
      BY <1>6, <3>1
    <3> QED BY <1>11, <3>1, <3>2 DEF Fits
  <2> QED BY <2>1, <2>2
<1> QED BY <1>2, <1>7, <1>10, <1>11

LEMMA FeedPublishes ==
    ASSUME OrderInv, FeedInv, KeepsUp, Publish PROVE FeedInv'
<1>0. /\ nextID \in Nat /\ cursor \in Nat /\ sent \in Nat /\ from \in Nat /\ ch \in Seq(Nat)
      /\ Len(ch) \in Nat /\ DOMAIN ch = 1 .. Len(ch) /\ RingSize \in Nat
  BY StreamFacts, HubConstants
<1>1. /\ nextID' = nextID + 1
      /\ UNCHANGED <<conn, from, missed, sent, wire, hand, cursor, handled, told, boots>>
  BY DEF Publish, Record, bridge, faults
<1>4. Bounds'
  <2>1. /\ boots = 0 /\ cursor <= nextID /\ sent <= nextID /\ from <= nextID
        /\ \A i \in DOMAIN wire : wire[i].id <= nextID /\ wire[i].boot = 0
        /\ \A i \in DOMAIN wire : wire[i].kind = "event" => wire[i].id >= 1
        /\ \A i \in DOMAIN missed : missed[i] \in 1 .. nextID
        /\ hand # None => hand.id \in 1 .. nextID
        /\ handled \subseteq {0} \X (1 .. nextID)
    BY DEF FeedInv, Bounds
  <2>2. \A i \in DOMAIN wire : wire[i].id <= nextID + 1
    BY <1>0, <2>1, StreamFacts
  <2>3. 1 .. nextID \subseteq 1 .. nextID + 1
    BY <1>0
  <2>4. handled \subseteq {0} \X (1 .. nextID + 1)
    BY <2>1, <2>3
  <2>5. cursor <= nextID + 1 /\ sent <= nextID + 1 /\ from <= nextID + 1
    BY <1>0, <2>1
  <2> QED BY <1>1, <2>1, <2>2, <2>3, <2>4, <2>5 DEF Bounds
<1>2. CASE conn = "closed"
  <2>1. ch = <<>> /\ ch' = <<>>
    BY <1>2 DEF Publish, Subscribed, FeedInv, Queue
  <2>2. Queue'
    BY <1>0, <1>1, <2>1 DEF Queue
  <2>3. Supply'
    BY <1>1, <1>2 DEF Supply, FeedInv
  <2>5. Advice'
    BY <1>0, <1>1 DEF Advice, Advised, FeedInv
  <2>6. Applied' /\ Gapless'
    BY <1>1 DEF Applied, Gapless, Advised, Ahead, Reached, FeedInv
  <2> QED BY <1>4, <2>2, <2>3, <2>5, <2>6 DEF FeedInv
<1>3. CASE conn # "closed"
  <2>1. ch' = Append(ch, nextID + 1)
    BY <1>0, <1>1, <1>3 DEF Publish, Subscribed, KeepsUp
  <2>2. /\ Len(ch') = Len(ch) + 1 /\ DOMAIN ch' = 1 .. Len(ch) + 1
        /\ ch'[Len(ch) + 1] = nextID + 1
        /\ \A i \in 1 .. Len(ch) : ch'[i] = ch[i]
    BY <1>0, <2>1, AppendedAtTheEnd
  <2>3. /\ Len(ch) <= nextID
        /\ \A i \in 1 .. Len(ch) : ch[i] = nextID - Len(ch) + i
    BY <1>0 DEF FeedInv, Queue
  <2>4. ASSUME NEW i \in 1 .. Len(ch) + 1 PROVE ch'[i] = nextID' - Len(ch') + i
    <3>1. CASE i = Len(ch) + 1
      BY <1>0, <1>1, <2>2, <3>1
    <3>2. CASE i \in 1 .. Len(ch)
      BY <1>0, <1>1, <2>2, <2>3, <3>2
    <3> QED BY <1>0, <3>1, <3>2
  <2>5. Queue'
    BY <1>0, <1>1, <1>3, <2>2, <2>3, <2>4 DEF Queue
  <2>6. Supply'
    <3>1. nextID' - Len(ch') = nextID - Len(ch)
      BY <1>0, <1>1, <2>2
    <3>2. /\ \A x : Fits(x)' <=> Fits(x)
          /\ ReplayEnd' = ReplayEnd /\ Coming' = Coming
      BY <1>1 DEF Fits, Ahead, Advised, Reached, ReplayEnd, Coming
    <3>3. Fits(Coming)' <=> Fits(Coming)
      BY <1>1, <3>2 DEF Fits, Ahead, Advised, Reached
    <3> QED BY <1>1, <3>1, <3>2, <3>3 DEF Supply, FeedInv
  <2>8. Advice'
    BY <1>0, <1>1 DEF Advice, Advised, FeedInv
  <2>9. Applied' /\ Gapless'
    BY <1>1 DEF Applied, Gapless, Advised, Ahead, Reached, FeedInv
  <2> QED BY <1>4, <2>5, <2>6, <2>8, <2>9 DEF FeedInv
<1> QED BY <1>2, <1>3

LEMMA FeedReplays ==
    ASSUME OrderInv, FeedInv, Replay PROVE FeedInv'
<1>0. /\ nextID \in Nat /\ cursor \in Nat /\ from \in Nat /\ Len(ch) \in Nat
      /\ Reached \in Nat /\ Reached >= cursor /\ RingSize \in Nat
  BY StreamFacts, HubConstants
<1>1. /\ conn = "since" /\ missed' = Since(from) /\ sent' = from
      /\ conn' = IF Complete(from) THEN "replay" ELSE "behind"
      /\ UNCHANGED <<nextID, from, ch, wire, hand, cursor, handled, told, boots>>
  BY DEF Replay, bridge, faults, hubVars
<1>2. hand = None /\ from = cursor /\ wire = <<>> /\ from \in 0 .. nextID
  BY <1>0, <1>1 DEF FeedInv, Advice, Bounds
<1>3. HubInv
  BY DEF OrderInv
<1>4. missed' = [i \in 1 .. nextID - First(from) |-> First(from) + i]
  BY <1>0, <1>1, <1>3, SinceIs
<1>5. First(from) \in Nat /\ First(from) >= from /\ First(from) <= nextID
  BY <1>0, <1>2, HubConstants DEF First, Held
<1>6. /\ DOMAIN missed' = 1 .. nextID - First(from) /\ Len(missed') = nextID - First(from)
      /\ \A i \in DOMAIN missed' : missed'[i] = First(from) + i
      /\ missed' \in Seq(Nat)
  <2>1. nextID - First(from) \in Nat
    BY <1>0, <1>5
  <2> QED BY <1>4, <1>5, <2>1, RunIsASeq
<1>7. missed' = <<>> <=> First(from) = nextID
  BY <1>0, <1>5, <1>6, EmptyIs
<1>8. Bounds'
  BY <1>0, <1>1, <1>2, <1>5, <1>6 DEF Bounds, FeedInv
<1>9. Applied' /\ Gapless' /\ Queue'
  BY <1>1 DEF Applied, Gapless, Advised, Ahead, Reached, Queue, FeedInv
<1>10. Advice'
  BY <1>0, <1>1, <1>2, <1>3, CompleteIs DEF Advice, Advised, FeedInv
<1>11. ReplayEnd' = nextID
  <2>1. CASE missed' = <<>>
    <3>1. Complete(from) \/ nextID - from > RingSize
      BY <1>2, <1>3, CompleteIs
    <3>2. from = nextID
      BY <1>0, <1>2, <1>5, <1>7, <2>1, HubConstants DEF First, Held
    <3> QED BY <1>1, <2>1, <3>2 DEF ReplayEnd
  <2>2. CASE missed' # <<>>
    <3>1. Len(missed') \in DOMAIN missed'
      BY <1>0, <1>5, <1>6, <1>7, <2>2
    <3>2. missed'[Len(missed')] = First(from) + (nextID - First(from))
      BY <1>6, <3>1
    <3> QED BY <1>0, <1>5, <2>2, <3>2 DEF ReplayEnd
  <2> QED BY <2>1, <2>2
<1>12. Complete(from) => Fits(Coming)'
  <2> SUFFICES ASSUME Complete(from) PROVE Fits(Coming)'
    OBVIOUS
  <2>1. First(from) = from
    BY <1>2, <1>3, CompleteIs
  <2>2. Coming' = from + 1
    <3>1. CASE missed' = <<>>
      BY <1>1, <3>1 DEF Coming
    <3>2. CASE missed' # <<>>
      <4>1. 1 \in DOMAIN missed'
        BY <1>0, <1>5, <1>6, <1>7, <3>2
      <4> QED BY <1>6, <2>1, <3>2, <4>1 DEF Coming
    <3> QED BY <3>1, <3>2
  <2>3. Ahead' = cursor
    BY <1>1, <1>2 DEF Ahead, Advised, Reached
  <2> QED BY <1>0, <1>1, <1>2, <2>2, <2>3 DEF Fits
<1>13. \A i \in DOMAIN missed' : missed'[i] = missed'[1] + i - 1
  <2> SUFFICES ASSUME NEW i \in DOMAIN missed' PROVE missed'[i] = missed'[1] + i - 1
    OBVIOUS
  <2>1. 1 \in DOMAIN missed'
    BY <1>0, <1>5, <1>6
  <2>2. missed'[1] = First(from) + 1 /\ missed'[i] = First(from) + i
    BY <1>6, <2>1
  <2> QED BY <1>0, <1>5, <1>6, <2>2
<1>14. Supply'
  <2>1. conn' # "live" /\ (conn' = "replay" => Complete(from))
    BY <1>1
  <2>2. ReplayEnd' >= nextID' - Len(ch')
    BY <1>0, <1>1, <1>11
  <2> QED BY <1>12, <1>13, <2>1, <2>2 DEF Supply
<1> QED BY <1>8, <1>9, <1>10, <1>14 DEF FeedInv

LEMMA FeedAdvises ==
    ASSUME OrderInv, FeedInv, WriteReconcile PROVE FeedInv'
<1> DEFINE f == [kind |-> "reconcile", id |-> nextID, boot |-> boots]
<1>0. /\ nextID \in Nat /\ cursor \in Nat /\ sent \in Nat /\ wire \in Seq(Frame)
      /\ DOMAIN missed = 1 .. Len(missed) /\ Len(missed) \in Nat /\ RingSize \in Nat
      /\ (missed = <<>> <=> Len(missed) = 0)
  BY StreamFacts, HubConstants
<1>1. /\ conn = "behind" /\ conn' = "replay" /\ wire' = Append(wire, f)
      /\ UNCHANGED <<nextID, from, ch, missed, sent, hand, cursor, handled, told, boots>>
  BY DEF WriteReconcile, Write, bridge, faults, hubVars
<1>2. f \in Frame /\ f.kind = "reconcile" /\ f.id = nextID /\ f.boot = boots
  BY <1>0 DEF Frame, OrderInv, StreamTypes
<1> HIDE DEF f
<1>3. hand = None /\ wire = <<>> /\ nextID - cursor > RingSize
  BY <1>1 DEF FeedInv, Advice
<1>4. DOMAIN wire' = {1} /\ wire'[1] = f /\ wire' # <<>> /\ Len(wire') = 1
  <2>1. Len(wire) = 0
    BY <1>3
  <2>2. DOMAIN wire' = 1 .. 1 /\ wire'[1] = f /\ wire' # <<>> /\ Len(wire') = 1
    BY <1>0, <1>1, <1>2, <2>1, AppendedAtTheEnd
  <2> QED BY <2>2
<1>5. Advised' /\ Ahead' = nextID
  BY <1>0, <1>1, <1>2, <1>3, <1>4 DEF Advised, Ahead
<1>6. Bounds'
  BY <1>0, <1>1, <1>2, <1>4 DEF FeedInv, Bounds
<1>7. Applied' /\ Queue'
  BY <1>1 DEF Applied, Queue, FeedInv
<1>8. Gapless'
  BY <1>2, <1>4 DEF Gapless
<1>9. Advice'
  BY <1>1, <1>3 DEF Advice
<1>10. Fits(Coming)'
  <2>1. Coming' <= nextID + 1
    <3>1. CASE missed = <<>>
      BY <1>0, <1>1, <3>1 DEF Coming, FeedInv, Bounds
    <3>2. CASE missed # <<>>
      <4>1. 1 \in DOMAIN missed
        BY <1>0, <3>2
      <4>2. missed[1] \in 1 .. nextID
        BY <4>1 DEF FeedInv, Bounds
      <4> QED BY <1>0, <1>1, <3>2, <4>2 DEF Coming
    <3> QED BY <3>1, <3>2
  <2> QED BY <1>2, <1>4, <1>5, <2>1 DEF Fits
<1>11. Supply'
  <2>1. ReplayEnd' = ReplayEnd
    BY <1>1 DEF ReplayEnd
  <2> QED BY <1>1, <1>10, <2>1 DEF Supply, FeedInv
<1> QED BY <1>6, <1>7, <1>8, <1>9, <1>11 DEF FeedInv

\* An event is written, from the replay or from the subscription, and the
\* supply behind it is as the invariant says.
LEMMA FeedWrites ==
    ASSUME OrderInv, FeedInv, NEW x \in 1 .. nextID, Fits(x), Write("event", x),
           conn \in {"replay", "live"}, sent' = x,
           UNCHANGED <<nextID, conn, from, hand, cursor, handled, told, boots>>,
           \A i \in DOMAIN missed' : missed'[i] \in 1 .. nextID,
           \A i \in DOMAIN missed' : missed'[i] = missed'[1] + i - 1,
           ReplayEnd' >= nextID - Len(ch'), Coming' = x + 1, Queue'
    PROVE  FeedInv'
<1>0. /\ nextID \in Nat /\ cursor \in Nat /\ from \in Nat /\ x \in Nat
      /\ DOMAIN wire = 1 .. Len(wire)
  BY StreamFacts
<1>1. /\ Gapless' /\ (Advised' <=> Advised) /\ Fits(x + 1)'
      /\ \A i \in DOMAIN wire' : \/ i \in DOMAIN wire /\ wire'[i] = wire[i]
                                 \/ /\ wire'[i].id = x /\ wire'[i].boot = boots
                                    /\ wire'[i].kind = "event"
  BY EventWritten
<1>2. \A i \in DOMAIN wire' : /\ wire'[i].id <= nextID /\ wire'[i].boot = 0
                              /\ wire'[i].kind = "event" => wire'[i].id >= 1
  BY <1>0, <1>1 DEF FeedInv, Bounds
<1>3. Bounds'
  BY <1>0, <1>2 DEF FeedInv, Bounds
<1>4. Applied'
  BY DEF FeedInv, Applied
<1>5. Advice'
  BY <1>1 DEF FeedInv, Advice
<1>6. Fits(Coming)'
  BY <1>1 DEF Fits
<1>7. Supply'
  BY <1>6 DEF Supply
<1> QED BY <1>1, <1>3, <1>4, <1>5, <1>7 DEF FeedInv

LEMMA FeedSendsMissed ==
    ASSUME OrderInv, FeedInv, WriteMissed PROVE FeedInv'
<1>0. /\ nextID \in Nat /\ missed \in Seq(Nat) /\ Len(missed) \in Nat
      /\ DOMAIN missed = 1 .. Len(missed) /\ (missed = <<>> <=> Len(missed) = 0)
  BY StreamFacts
<1>1. /\ conn = "replay" /\ missed # <<>> /\ missed' = Tail(missed)
      /\ Write("event", Head(missed)) /\ sent' = Head(missed)
      /\ UNCHANGED <<nextID, conn, from, ch, hand, cursor, handled, told, boots>>
  BY DEF WriteMissed, bridge, faults, hubVars
<1>2. /\ Head(missed) = missed[1] /\ missed' \in Seq(Nat) /\ Len(missed') = Len(missed) - 1
      /\ \A i \in DOMAIN missed' : i + 1 \in DOMAIN missed /\ missed'[i] = missed[i + 1]
  BY <1>0, <1>1, TailIsAStretch
<1>3. DOMAIN missed' = 1 .. Len(missed) - 1 /\ (missed' = <<>> <=> Len(missed) = 1)
  <2>1. DOMAIN missed' = 1 .. Len(missed') /\ (missed' = <<>> <=> Len(missed') = 0)
    BY <1>2, LengthIs, EmptyIs
  <2> QED BY <1>0, <1>2, <2>1
<1>4. /\ \A i \in DOMAIN missed : missed[i] \in 1 .. nextID
      /\ \A i \in DOMAIN missed : missed[i] = missed[1] + i - 1
      /\ ReplayEnd >= nextID - Len(ch) /\ Fits(Coming)
  BY <1>1 DEF FeedInv, Bounds, Supply
<1>5. PICK x \in 1 .. nextID : x = missed[1]
  BY <1>0, <1>1, <1>4
<1>6. Fits(x)
  BY <1>1, <1>4, <1>5 DEF Fits, Coming
<1>7. Write("event", x) /\ sent' = x
  BY <1>1, <1>2, <1>5
<1>8. \A i \in DOMAIN missed' : missed'[i] \in 1 .. nextID /\ missed'[i] = x + i
  <2> SUFFICES ASSUME NEW i \in DOMAIN missed'
               PROVE  missed'[i] \in 1 .. nextID /\ missed'[i] = x + i
    OBVIOUS
  <2>1. missed'[i] \in 1 .. nextID /\ missed'[i] = missed[1] + (i + 1) - 1
    BY <1>2, <1>4
  <2>2. i \in Int
    BY <1>3
  <2> QED BY <1>0, <1>5, <2>1, <2>2
<1>9. missed' # <<>> => 1 \in DOMAIN missed' /\ missed'[1] = x + 1
  <2>1. missed' # <<>> => 1 \in DOMAIN missed'
    BY <1>0, <1>1, <1>3
  <2> QED BY <1>8, <2>1
<1>10. \A i \in DOMAIN missed' : missed'[i] = missed'[1] + i - 1
  <2> SUFFICES ASSUME NEW i \in DOMAIN missed' PROVE missed'[i] = missed'[1] + i - 1
    OBVIOUS
  <2>1. missed' # <<>>
    BY <1>0, <1>3
  <2> QED BY <1>0, <1>3, <1>5, <1>8, <1>9, <2>1
<1>11. Coming' = x + 1
  BY <1>7, <1>9 DEF Coming
<1>12. ReplayEnd' = ReplayEnd
  <2>1. CASE Len(missed) = 1
    BY <1>1, <1>3, <1>5, <1>7, <2>1 DEF ReplayEnd
  <2>2. CASE Len(missed) # 1
    <3>1. Len(missed') \in DOMAIN missed' /\ Len(missed') + 1 = Len(missed)
      BY <1>0, <1>1, <1>2, <1>3, <2>2
    <3>2. missed'[Len(missed')] = missed[Len(missed)]
      BY <1>2, <3>1
    <3> QED BY <1>1, <1>3, <2>2, <3>2 DEF ReplayEnd
  <2> QED BY <2>1, <2>2
<1>13. Queue'
  BY <1>1 DEF Queue, FeedInv
<1> QED BY <1>1, <1>4, <1>6, <1>7, <1>8, <1>10, <1>11, <1>12, <1>13, FeedWrites

LEMMA FeedSendsLive ==
    ASSUME OrderInv, FeedInv, WriteLive PROVE FeedInv'
<1>0. /\ nextID \in Nat /\ sent \in Nat /\ ch \in Seq(Nat) /\ Len(ch) \in Nat
      /\ DOMAIN ch = 1 .. Len(ch)
  BY StreamFacts
<1>1. /\ conn = "live" /\ ch # <<>> /\ ch' = Tail(ch)
      /\ UNCHANGED <<nextID, conn, from, missed, hand, cursor, handled, told, boots>>
  BY DEF WriteLive, bridge, faults, hubVars
<1>2. /\ Head(ch) = ch[1] /\ 1 \in DOMAIN ch /\ ch' \in Seq(Nat) /\ Len(ch') = Len(ch) - 1
      /\ \A i \in DOMAIN ch' : i + 1 \in DOMAIN ch /\ ch'[i] = ch[i + 1]
  BY <1>0, <1>1, TailIsAStretch
<1>3. DOMAIN ch' = 1 .. Len(ch) - 1
  BY <1>2, LengthIs
<1>4. /\ Len(ch) <= nextID /\ \A i \in DOMAIN ch : ch[i] = nextID - Len(ch) + i
      /\ missed = <<>> /\ ReplayEnd >= nextID - Len(ch) /\ Fits(Coming)
  BY <1>1 DEF FeedInv, Queue, Supply, OrderInv, Ascending
<1>5. PICK x \in 1 .. nextID : x = ch[1] /\ x = nextID - Len(ch')
  <2>1. ch[1] = nextID - Len(ch) + 1
    BY <1>2, <1>4
  <2>2. nextID - Len(ch) + 1 \in 1 .. nextID
    BY <1>0, <1>2, <1>4
  <2>3. nextID - Len(ch') = nextID - Len(ch) + 1
    BY <1>0, <1>2
  <2> QED BY <2>1, <2>2, <2>3
<1>6. Queue'
  <2>1. ASSUME NEW i \in DOMAIN ch' PROVE ch'[i] = nextID - Len(ch') + i
    <3>1. ch'[i] = nextID - Len(ch) + (i + 1)
      BY <1>2, <1>4
    <3> QED BY <1>0, <1>2, <1>3, <3>1
  <2> QED BY <1>0, <1>1, <1>2, <1>4, <2>1 DEF Queue
<1>7. x \in Nat /\ x <= sent + 1
  <2>1. sent >= nextID - Len(ch)
    BY <1>4 DEF ReplayEnd
  <2>2. x \in Nat
    BY <1>0
  <2> QED BY <1>0, <1>2, <1>5, <2>1, <2>2
<1>8. CASE x > sent
  <2>1. Write("event", x) /\ sent' = x
    BY <1>2, <1>5, <1>8 DEF WriteLive, New
  <2>2. x = sent + 1
    <3>1. sent \in Nat
      BY <1>0
    <3> QED BY <1>7, <1>8, <3>1
  <2>3. Fits(x)
    BY <1>4, <2>2 DEF Fits, Coming
  <2>4. DOMAIN missed' = {} /\ missed' = <<>>
    BY <1>1, <1>4
  <2>5. ReplayEnd' >= nextID - Len(ch') /\ Coming' = x + 1
    BY <1>5, <2>1, <2>4 DEF ReplayEnd, Coming
  <2> QED BY <1>1, <1>6, <2>1, <2>3, <2>4, <2>5, FeedWrites
<1>9. CASE ~(x > sent)
  <2>1. UNCHANGED <<wire, sent>>
    BY <1>2, <1>5, <1>9 DEF WriteLive, New
  <2>2. Bounds' /\ Applied' /\ Gapless' /\ Advice'
    BY <1>1, <2>1, Zenon DEF FeedInv, Bounds, Applied, Gapless, Advice, Advised, Ahead, Reached
  <2>3. ReplayEnd' >= nextID' - Len(ch')
    BY <1>0, <1>1, <1>4, <1>5, <1>9, <2>1 DEF ReplayEnd
  <2>4. Fits(Coming)'
    BY <1>1, <1>4, <2>1 DEF Fits, Coming, Advised, Ahead, Reached
  <2>5. Supply'
    BY <1>1, <2>3, <2>4 DEF Supply, FeedInv
  <2> QED BY <1>6, <2>2, <2>5 DEF FeedInv
<1> QED BY <1>8, <1>9

\* What is read was there, and is within its bounds.
LEMMA FeedReads ==
    ASSUME OrderInv, FeedInv, wire # <<>>, wire' = Tail(wire), Reached' \in Nat,
           wire[1].kind = "event" => Reached' >= wire[1].id,
           wire[1].kind # "event" => Reached' >= Ahead,
           UNCHANGED <<nextID, conn, from, ch, missed, sent, boots>>
    PROVE  /\ Gapless' /\ Advice' /\ Queue' /\ Supply'
           /\ \A i \in DOMAIN wire' : /\ wire'[i].id <= nextID /\ wire'[i].boot = 0
                                      /\ wire'[i].kind = "event" => wire'[i].id >= 1
<1>0. /\ sent \in Nat /\ missed \in Seq(Nat) /\ DOMAIN missed = 1 .. Len(missed)
      /\ Len(missed) \in Nat /\ (missed = <<>> <=> Len(missed) = 0)
  BY StreamFacts
<1>1. /\ Gapless' /\ ~Advised' /\ \A x \in Nat : Fits(x) => Fits(x)'
      /\ \A i \in DOMAIN wire' : i + 1 \in DOMAIN wire /\ wire'[i] = wire[i + 1]
  BY FrameRead
<1>2. Advice'
  BY <1>1 DEF Advice, FeedInv
<1>3. Queue'
  BY DEF Queue, FeedInv
<1>4. Coming \in Nat
  <2>1. missed # <<>> => missed[1] \in Nat
    <3>1. missed # <<>> => 1 \in 1 .. Len(missed)
      BY <1>0
    <3> QED BY <1>0, <3>1, ElementIs
  <2> QED BY <1>0, <2>1 DEF Coming
<1>5. PICK c \in Nat : c = Coming
  BY <1>4
<1>6. Coming' = c /\ ReplayEnd' = ReplayEnd
  BY <1>5 DEF Coming, ReplayEnd
<1>7. Fits(Coming) => Fits(Coming)'
  <2>1. Fits(Coming) => Fits(c)
    BY <1>5 DEF Fits
  <2>2. Fits(c)' => Fits(Coming)'
    BY <1>6 DEF Fits
  <2> QED BY <1>1, <2>1, <2>2
<1>8. Supply'
  BY <1>6, <1>7 DEF Supply, FeedInv
<1> QED BY <1>1, <1>2, <1>3, <1>8 DEF FeedInv, Bounds

LEMMA FeedTakesAdvice ==
    ASSUME OrderInv, FeedInv, Reconcile PROVE FeedInv'
<1>0. /\ nextID \in Nat /\ cursor \in Nat /\ wire \in Seq(Frame) /\ Reached = cursor
      /\ wire # <<>> /\ wire' = Tail(wire) /\ hand = None /\ hand' = None
  BY StreamFacts DEF Reconcile, Read, Reached
<1>1. Head(wire) = wire[1] /\ 1 \in DOMAIN wire /\ wire[1].id \in Nat
  BY <1>0, TailIsAStretch, StreamFacts
<1>2. /\ cursor' = (IF wire[1].id > cursor THEN wire[1].id ELSE cursor)
      /\ told' = told \cup {wire[1].boot} /\ wire[1].kind = "reconcile"
      /\ UNCHANGED <<nextID, conn, from, ch, missed, sent, handled, boots>>
  BY <1>1 DEF Reconcile, Read, Advance, handler, faults, hubVars
<1>3. Ahead = cursor'
  BY <1>0, <1>2 DEF Ahead, Advised
<1>4. cursor' \in Nat /\ cursor' <= nextID /\ 0 \in told'
  BY <1>0, <1>1, <1>2 DEF FeedInv, Bounds
<1>5. Reached' = cursor'
  BY <1>0 DEF Reached
<1>6. Reached' \in Nat /\ Reached' >= Ahead
  BY <1>3, <1>4, <1>5
<1>7. /\ Gapless' /\ Advice' /\ Queue' /\ Supply'
      /\ \A i \in DOMAIN wire' : /\ wire'[i].id <= nextID /\ wire'[i].boot = 0
                                 /\ wire'[i].kind = "event" => wire'[i].id >= 1
  BY <1>0, <1>2, <1>6, FeedReads
<1>8. Bounds'
  BY <1>0, <1>2, <1>4, <1>7 DEF Bounds, FeedInv
<1>9. Applied'
  BY <1>0, <1>4 DEF Applied
<1> QED BY <1>7, <1>8, <1>9 DEF FeedInv

LEMMA FeedApplies ==
    ASSUME OrderInv, FeedInv, Apply PROVE FeedInv'
<1>0. /\ nextID \in Nat /\ cursor \in Nat /\ wire \in Seq(Frame) /\ Reached = cursor
      /\ wire # <<>> /\ wire' = Tail(wire) /\ hand = None
  BY StreamFacts DEF Apply, Read, Reached
<1>1. Head(wire) = wire[1] /\ 1 \in DOMAIN wire /\ wire[1].id \in Nat /\ wire[1] \in Frame
  BY <1>0, TailIsAStretch, StreamFacts
<1>2. /\ hand' = wire[1] /\ wire[1].kind = "event"
      /\ handled' = handled \cup {<<wire[1].boot, wire[1].id>>}
      /\ UNCHANGED <<nextID, conn, from, ch, missed, sent, cursor, told, boots>>
  BY <1>1, Zenon DEF Apply, Read, handler, faults, hubVars
<1>3. wire[1].boot = 0 /\ wire[1].id \in 1 .. nextID
  BY <1>0, <1>1, <1>2 DEF FeedInv, Bounds
<1>4. wire[1].id <= cursor + 1
  <2>1. ~Advised
    BY <1>2 DEF Advised
  <2>2. wire[1].id <= Ahead + 1
    BY <1>1, <1>2 DEF FeedInv, Gapless
  <2> QED BY <1>0, <2>1, <2>2 DEF Ahead
<1>5. hand' # None
  BY <1>1, <1>2, StreamConstants
<1>6. Reached' \in Nat /\ Reached' >= wire[1].id
  BY <1>0, <1>1, <1>2, <1>5 DEF Reached
<1>7. /\ Gapless' /\ Advice' /\ Queue' /\ Supply'
      /\ \A i \in DOMAIN wire' : /\ wire'[i].id <= nextID /\ wire'[i].boot = 0
                                 /\ wire'[i].kind = "event" => wire'[i].id >= 1
  BY <1>0, <1>2, <1>6, FeedReads
<1>8. handled' \subseteq {0} \X (1 .. nextID)
  BY <1>2, <1>3 DEF FeedInv, Bounds
<1>9. Bounds'
  BY <1>0, <1>2, <1>3, <1>7, <1>8 DEF Bounds, FeedInv
<1>10. Applied'
  BY <1>2, <1>3, <1>4 DEF Applied, FeedInv
<1> QED BY <1>7, <1>9, <1>10 DEF FeedInv

LEMMA FeedMovesPast ==
    ASSUME OrderInv, FeedInv, MovePast PROVE FeedInv'
<1>0. /\ nextID \in Nat /\ cursor \in Nat /\ hand # None /\ hand.id \in Nat /\ hand' = None
  BY StreamFacts DEF MovePast
<1>1. /\ cursor' = (IF hand.id > cursor THEN hand.id ELSE cursor)
      /\ UNCHANGED <<nextID, conn, from, ch, missed, sent, wire, handled, told, boots>>
  BY DEF MovePast, Advance, handler, faults, hubVars
<1>2. ~Advised /\ conn \notin {"since", "behind"}
  BY <1>0 DEF FeedInv, Advice
<1>3. ~Advised' /\ conn' \notin {"since", "behind"}
  BY <1>1, <1>2 DEF Advised
<1>4. Ahead' = Ahead
  BY <1>0, <1>1, <1>2, <1>3 DEF Ahead, Reached
<1>5. Gapless'
  BY <1>1, <1>2, <1>3, <1>4 DEF Gapless, FeedInv
<1>6. Advice'
  BY <1>3 DEF Advice
<1>7. Queue'
  BY <1>1 DEF Queue, FeedInv
<1>8. Fits(Coming) => Fits(Coming)'
  BY <1>1, <1>4 DEF Fits, Coming
<1>9. Supply'
  BY <1>1, <1>8 DEF Supply, ReplayEnd, FeedInv
<1>10. Bounds'
  BY <1>0, <1>1 DEF Bounds, FeedInv
<1>11. Applied'
  <2>1. CASE 0 \in told
    BY <1>0, <1>1, <2>1 DEF Applied
  <2>2. CASE 0 \notin told
    <3>1. /\ \A e \in 1 .. cursor : <<0, e>> \in handled
          /\ hand.id <= cursor + 1 /\ <<0, hand.id>> \in handled
      BY <1>0, <2>2 DEF Applied, FeedInv
    <3>2. \A e \in 1 .. cursor' : e \in 1 .. cursor \/ e = hand.id
      BY <1>0, <1>1, <3>1
    <3> QED BY <1>0, <1>1, <3>1, <3>2 DEF Applied
  <2> QED BY <2>1, <2>2
<1> QED BY <1>5, <1>6, <1>7, <1>9, <1>10, <1>11 DEF FeedInv

\* The connection ends: the bridge may still read a beginning of what was
\* written, with what it has in hand or, restarted, with nothing.
LEMMA FeedBreaks ==
    ASSUME OrderInv, FeedInv, NEW n \in 0 .. Len(wire), wire' = SubSeq(wire, 1, n), Released,
           hand' = hand \/ (n = 0 /\ hand' = None),
           UNCHANGED <<nextID, cursor, handled, told, boots>>
    PROVE  FeedInv'
<1>0. /\ nextID \in Nat /\ cursor \in Nat /\ wire \in Seq(Frame) /\ Len(wire) \in Nat
      /\ DOMAIN wire = 1 .. Len(wire)
  BY StreamFacts
<1>1. /\ wire' \in Seq(Frame) /\ Len(wire') = n
      /\ \A i \in 1 .. n : i \in DOMAIN wire /\ wire'[i] = wire[i]
  BY <1>0, CutIsAStretch
<1>2. DOMAIN wire' = 1 .. n /\ (wire' = <<>> <=> n = 0)
  BY <1>1, LengthIs, EmptyIs
<1>3. conn' = "closed" /\ from' = 0 /\ ch' = <<>> /\ missed' = <<>> /\ sent' = 0
  BY DEF Released
<1>4. DOMAIN missed' = {} /\ DOMAIN ch' = {} /\ Len(ch') = 0
  BY <1>3
<1>5. Queue' /\ Supply'
  BY <1>0, <1>3, <1>4 DEF Queue, Supply
<1>6. Bounds'
  BY <1>0, <1>1, <1>2, <1>3, <1>4 DEF Bounds, FeedInv
<1>7. Applied'
  BY DEF Applied, FeedInv
<1>8. CASE n = 0
  <2>1. DOMAIN wire' = {} /\ ~Advised'
    BY <1>2, <1>8 DEF Advised
  <2>2. Gapless' /\ Advice'
    BY <1>3, <2>1, Zenon DEF Gapless, Advice
  <2> QED BY <1>5, <1>6, <1>7, <2>2 DEF FeedInv
<1>9. CASE n # 0
  <2>1. hand' = hand /\ 1 \in 1 .. n /\ wire' # <<>> /\ wire # <<>> /\ wire'[1] = wire[1]
    BY <1>0, <1>1, <1>2, <1>9
  <2>2. (Advised' <=> Advised) /\ Ahead' = Ahead
    BY <2>1 DEF Advised, Ahead, Reached
  <2>3. Advice'
    BY <1>3, <2>1, <2>2 DEF Advice, FeedInv
  <2>4. Gapless'
    BY <1>1, <1>2, <2>2 DEF Gapless, FeedInv
  <2> QED BY <1>5, <1>6, <1>7, <2>3, <2>4 DEF FeedInv
<1> QED BY <1>8, <1>9

LEMMA FeedStep == OrderInv /\ FeedInv /\ [Next]_vars /\ [KeepsUp]_vars => FeedInv'
<1> SUFFICES ASSUME OrderInv, FeedInv, [Next]_vars, [KeepsUp]_vars PROVE FeedInv'
  OBVIOUS
<1>0. /\ wire \in Seq(Frame) /\ Len(wire) \in Nat
  BY StreamFacts
<1>1. CASE UNCHANGED vars
  <2>1. UNCHANGED <<nextID, conn, from, ch, missed, sent, wire, hand, cursor, handled, told, boots>>
    BY <1>1 DEF vars, hubVars, handler, bridge, faults
  <2> QED BY <2>1, Zenon DEF FeedInv, Bounds, Applied, Gapless, Advice, Queue, Supply, Fits, Coming,
             ReplayEnd, Ahead, Advised, Reached
<1>2. CASE Publish
  <2>1. nextID' # nextID
    BY <1>2, StreamFacts DEF Publish, Record
  <2>2. KeepsUp
    BY <2>1 DEF vars, hubVars
  <2> QED BY <1>2, <2>2, FeedPublishes
<1>3. CASE Replay
  BY <1>3, FeedReplays
<1>4. CASE WriteReconcile
  BY <1>4, FeedAdvises
<1>5. CASE WriteMissed
  BY <1>5, FeedSendsMissed
<1>6. CASE Replayed
  <2>1. /\ conn = "replay" /\ missed = <<>> /\ conn' = "live"
        /\ UNCHANGED <<nextID, from, ch, missed, sent, wire, hand, cursor, handled, told, boots>>
    BY <1>6 DEF Replayed, hubVars, bridge, faults
  <2> QED BY <2>1, Zenon DEF FeedInv, Bounds, Applied, Gapless, Advice, Queue, Supply, Fits, Coming,
             ReplayEnd, Ahead, Advised, Reached
<1>7. CASE WriteLive
  BY <1>7, FeedSendsLive
<1>8. CASE Connect
  <2>1. /\ conn = "closed" /\ wire = <<>> /\ hand = None /\ conn' = "since" /\ from' = cursor
        /\ UNCHANGED <<nextID, ch, missed, sent, wire, hand, cursor, handled, told, boots>>
    BY <1>8 DEF Connect, hubVars, bridge, faults
  <2> QED BY <2>1, Zenon DEF FeedInv, Bounds, Applied, Gapless, Advice, Queue, Supply, Ahead, Advised,
             Reached
<1>9. CASE Reconcile
  BY <1>9, FeedTakesAdvice
<1>10. CASE Apply
  BY <1>10, FeedApplies
<1>11. CASE MovePast
  BY <1>11, FeedMovesPast
<1>12. CASE Break
  <2>1. PICK n \in 0 .. Len(wire) : wire' = SubSeq(wire, 1, n)
    BY <1>12 DEF Break, Cut
  <2>2. /\ Released /\ hand' = hand
        /\ UNCHANGED <<nextID, cursor, handled, told, boots>>
    BY <1>12 DEF Break, bridge, hubVars
  <2> QED BY <2>1, <2>2, FeedBreaks
<1>13. CASE Kill
  <2>1. /\ Released /\ wire' = <<>> /\ hand' = None
        /\ UNCHANGED <<nextID, cursor, handled, told, boots>>
    BY <1>13 DEF Kill, hubVars
  <2>2. 0 \in 0 .. Len(wire) /\ wire' = SubSeq(wire, 1, 0)
    BY <1>0, <2>1
  <2> QED BY <2>1, <2>2, FeedBreaks
<1>14. CASE Restart
  <2>1. boots' = boots + 1 /\ boots \in Nat
    BY <1>14 DEF Restart, OrderInv, StreamTypes
  <2>2. boots' # boots
    BY <2>1
  <2> QED BY <2>2 DEF KeepsUp, vars, faults
<1> QED BY <1>1, <1>2, <1>3, <1>4, <1>5, <1>6, <1>7, <1>8, <1>9, <1>10, <1>11, <1>12, <1>13,
           <1>14 DEF Next, HandlerStep, BridgeStep

\* The bridge's cursor never stands past an event that was not applied, unless
\* the bridge was told to reconcile, however the connection breaks and the
\* bridge is killed, for every size of the buffer and of the connection: while
\* one daemon runs (the ids start again with the next) and the subscription is
\* not full when an event comes (Publish drops what does not fit).
THEOREM NoSilentGapHolds == Spec /\ [][KeepsUp]_vars => []NoSilentGap
<1>1. FeedInv /\ OrderInv => NoSilentGap
  <2> SUFFICES ASSUME FeedInv, OrderInv, 0 \notin told, NEW e \in 1 .. nextID, e <= cursor
               PROVE  <<0, e>> \in handled
    BY DEF NoSilentGap, HandledNow, FeedInv, Bounds
  <2>1. e \in 1 .. cursor
    BY StreamFacts
  <2> QED BY <2>1 DEF FeedInv, Applied
<1> QED BY <1>1, OrderInit, OrderStep, FeedInit, FeedStep, PTL DEF Spec

\* What a step of the stream is to the reader of the feed.
LEMMA FeedSimulation ==
    OrderInv /\ FeedInv /\ FeedInv' /\ [Next]_vars /\ [KeepsUp]_vars
        => [Feed!FeedNext]_(Feed!feedVars)
<1> DEFINE log == nextID
           given == HandledNow
           place == cursor
           tell == boots \in told
<1> SUFFICES ASSUME OrderInv, FeedInv, FeedInv', [Next]_vars, [KeepsUp]_vars
             PROVE  [Feed!FeedNext]_(Feed!feedVars)
  OBVIOUS
<1>0. /\ nextID \in Nat /\ cursor \in Nat /\ boots = 0 /\ boots' = 0
      /\ given = {e \in 1 .. nextID : <<0, e>> \in handled}
      /\ given' = {e \in 1 .. nextID' : <<0, e>> \in handled'}
  BY StreamFacts, Zenon DEF FeedInv, Bounds, HandledNow
<1>1. ASSUME UNCHANGED <<log, given, place, tell>> PROVE UNCHANGED Feed!feedVars
  BY <1>1 DEF Feed!feedVars
<1>2. ASSUME UNCHANGED <<nextID, cursor, handled, told>> PROVE UNCHANGED Feed!feedVars
  BY <1>0, <1>2 DEF Feed!feedVars
<1>3. CASE Publish
  <2>1. nextID' = nextID + 1 /\ UNCHANGED <<cursor, handled, told>>
    BY <1>3 DEF Publish, Record, bridge
  <2>2. <<0, nextID + 1>> \notin handled
    <3>1. handled \subseteq {0} \X (1 .. nextID)
      BY Zenon DEF FeedInv, Bounds
    <3>2. nextID + 1 \notin 1 .. nextID
      BY <1>0
    <3> QED BY <3>1, <3>2
  <2>3. \A e \in 1 .. nextID + 1 : e \in 1 .. nextID \/ e = nextID + 1
    BY <1>0
  <2>4. 1 .. nextID \subseteq 1 .. nextID + 1
    BY <1>0
  <2>5. given' = given
    BY <1>0, <2>1, <2>2, <2>3, <2>4
  <2> QED BY <1>0, <2>1, <2>5 DEF Feed!FeedNext, Feed!FeedPublish
<1>4. CASE Apply
  <2>1. /\ wire \in Seq(Frame) /\ wire # <<>>
        /\ handled' = handled \cup {<<Head(wire).boot, Head(wire).id>>}
        /\ UNCHANGED <<nextID, cursor, told>> /\ Head(wire).kind = "event"
    BY <1>4, StreamFacts DEF Apply, Read, hubVars
  <2>2. Head(wire) = wire[1] /\ 1 \in DOMAIN wire /\ wire[1].id \in Nat
    BY <2>1, TailIsAStretch, StreamFacts
  <2>3. wire[1].boot = 0 /\ wire[1].id \in 1 .. nextID
    BY <1>0, <2>1, <2>2 DEF FeedInv, Bounds
  <2>4. given' = given \cup {wire[1].id}
    BY <1>0, <2>1, <2>2, <2>3
  <2> QED BY <1>0, <2>1, <2>3, <2>4 DEF Feed!FeedNext, Feed!FeedGive
<1>5. CASE MovePast
  <2>1. /\ hand # None /\ hand.id \in Nat
        /\ cursor' = (IF hand.id > cursor THEN hand.id ELSE cursor)
        /\ UNCHANGED <<nextID, handled, told>>
    BY <1>5, StreamFacts DEF MovePast, Advance, hubVars
  <2>2. CASE hand.id > cursor
    <3>1. hand.id = cursor + 1 /\ <<0, hand.id>> \in handled /\ hand.id \in 1 .. nextID
      BY <1>0, <2>1, <2>2 DEF FeedInv, Applied, Bounds
    <3>2. given' = given
      BY <1>0, <2>1
    <3>3. cursor + 1 \in given
      BY <1>0, <3>1
    <3> QED BY <1>0, <2>1, <2>2, <3>1, <3>2, <3>3 DEF Feed!FeedNext, Feed!FeedFinish
  <2>3. CASE ~(hand.id > cursor)
    BY <1>2, <2>1, <2>3
  <2> QED BY <2>2, <2>3
<1>6. CASE Reconcile
  <2>1. /\ wire \in Seq(Frame) /\ wire # <<>> /\ Head(wire).kind = "reconcile"
        /\ cursor' = (IF Head(wire).id > cursor THEN Head(wire).id ELSE cursor)
        /\ told' = told \cup {Head(wire).boot}
        /\ UNCHANGED <<nextID, handled>>
    BY <1>6, StreamFacts DEF Reconcile, Read, Advance, hubVars
  <2>2. Head(wire) = wire[1] /\ 1 \in DOMAIN wire /\ wire[1].id \in Nat
    BY <2>1, TailIsAStretch, StreamFacts
  <2>3. nextID - cursor > RingSize
    BY <2>1, <2>2 DEF FeedInv, Advice, Advised
  <2>4. wire[1].boot = 0 /\ cursor' \in cursor .. nextID
    BY <1>0, <2>1, <2>2 DEF FeedInv, Bounds
  <2>5. boots' \in told'
    BY <1>0, <2>1, <2>2, <2>4
  <2>6. given' = given
    BY <1>0, <2>1
  <2> QED BY <2>1, <2>3, <2>4, <2>5, <2>6 DEF Feed!FeedNext, Feed!FeedTell
<1>7. CASE Restart
  <2>1. boots' = boots + 1
    BY <1>7 DEF Restart
  <2> QED BY <1>0, <2>1
<1>8. CASE UNCHANGED <<nextID, cursor, handled, told>>
  BY <1>2, <1>8
<1> QED BY <1>3, <1>4, <1>5, <1>6, <1>7, <1>8, Zenon DEF Next, HandlerStep, BridgeStep, Connect, Replay,
           WriteReconcile, WriteMissed, Replayed, WriteLive, Break, Kill, vars, hubVars, bridge

\* While one daemon runs and its subscriber keeps up, the hub, the handler, the
\* connection and the bridge together implement the feed that the comments in
\* Server.events promise, whatever breaks and for every size of the buffers.
THEOREM FeedRefinement == Spec /\ [][KeepsUp]_vars => IsAFeed
<1>1. Init => Feed!FeedInit
  BY HubConstants DEF Init, NewHub, Feed!FeedInit, HandledNow
<1> QED BY <1>1, OrderInit, OrderStep, FeedInit, FeedStep, FeedSimulation, PTL
        DEF Spec, IsAFeed, Feed!FeedSpec

=============================================================================
