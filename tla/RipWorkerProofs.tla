--------------------------- MODULE RipWorkerProofs ---------------------------
(***************************************************************************)
(* For any drives, any discs and any number of requests, failures and      *)
(* restarts: one disc is worked on at a time, no disc with a rip is ripped *)
(* again, and a disc with a rip is whole; an unfinished job has a worker,  *)
(* and a tray opens on what is done.                                       *)
(*                                                                         *)
(* The slot is what the rest stands on.  A worker looks a disc up long     *)
(* before it records a rip of it, and what it saw is still true because no *)
(* other worker is past the slot meanwhile.  That a rip is whole needs the *)
(* count of the titles marked so far, and for a Blu-ray, which records one *)
(* title, that what was probed is still what is in the drive.              *)
(***************************************************************************)
EXTENDS RipWorker, TLAPS

Types ==
    /\ pc \in [Drive -> Places]
    /\ disc \in [Drive -> Disc \cup {None}]
    /\ title \in [Drive -> Nat]
    /\ moved \in [Drive -> BOOLEAN]
    /\ inside \in [Drive -> Disc \cup {None}]
    /\ marked \in [Disc -> SUBSET Nat]
    /\ ripDir \subseteq Disc

\* What a worker has established about its disc at each place.
Doing(w) ==
    /\ pc[w] \notin {"rip", "verify", "record", "complete", "handOff", "failing", "eject"}
        => title[w] = 0
    /\ pc[w] = "probe" /\ ~ moved[w] => inside[w] \in BluRay
    /\ pc[w] = "admitBluRay" => disc[w] \in BluRay
    /\ pc[w] = "admit" => disc[w] \in Disc
    /\ pc[w] \in {"prepare", "decrypt", "rescan", "begin", "rip", "verify", "record",
                  "encode", "recordBluRay"}
        => disc[w] \in Disc \ ripDir
    /\ pc[w] \in {"encode", "recordBluRay"} => disc[w] \in BluRay
    /\ pc[w] \in {"rip", "verify"}
        => title[w] < TitleCount[disc[w]] /\ 1 .. title[w] \subseteq marked[disc[w]]
    /\ pc[w] = "record" => marked[disc[w]] = 1 .. TitleCount[disc[w]]

\* The titles that are marked exist, and all of them are where there is a rip.
Marks ==
    /\ \A d \in Disc : marked[d] \subseteq 1 .. TitleCount[d]
    /\ \A d \in ripDir : marked[d] = 1 .. TitleCount[d]

RipInv == Types /\ OneDiscAtATime /\ Marks /\ \A w \in Drive : Doing(w)

\* Whether each tray is open, which is what a person who changes a disc changes,
\* and whether the drive has spun up.
Trays == open \in [Drive -> BOOLEAN] /\ ready \in [Drive -> {"no", "odd", "yes"}]

LEMMA RipInit == Init => Trays /\ RipInv
BY WorkerConstants DEF Init, DriveInit, Trays, RipInv, Types, OneDiscAtATime, Working, Marks, Doing,
    Places

\* A worker past the slot is the only one.
LEMMA Alone ==
    ASSUME RipInv, NEW w \in Drive, Working(w), NEW v \in Drive, v # w
    PROVE  ~ Working(v)
BY DEF RipInv, OneDiscAtATime

\* A step of the worker that holds the slot keeps the invariant when it keeps
\* the worker's own part of it: the others have established nothing.
LEMMA Works ==
    ASSUME RipInv, NEW w \in Drive, Working(w), NEW p \in Places,
           pc' = [pc EXCEPT ![w] = p],
           UNCHANGED slot \/ p = "idle",
           Types', Marks', Doing(w)',
           \A v \in Drive : v # w => title'[v] = title[v]
    PROVE  RipInv'
<1>1. ASSUME NEW v \in Drive, v # w PROVE pc'[v] = pc[v] /\ ~ Working(v) /\ ~ Working(v)'
  BY <1>1, Alone DEF RipInv, Types, Working
<1>2. OneDiscAtATime'
  <2>1. Working(w)' => slot' = w
    BY DEF RipInv, Types, OneDiscAtATime, Working
  <2> QED BY <1>1, <2>1 DEF OneDiscAtATime
<1>3. ASSUME NEW v \in Drive, v # w PROVE Doing(v)'
  BY <1>1, <1>3 DEF RipInv, Doing, Working
<1> QED BY <1>2, <1>3 DEF RipInv

\* One that changes neither the marks nor the disc in the drive.
LEMMA Proceeds ==
    ASSUME RipInv, NEW w \in Drive, Working(w), NEW p \in Places,
           pc' = [pc EXCEPT ![w] = p], UNCHANGED slot,
           UNCHANGED <<disc, title, inside, marked, ripDir>>,
           moved' \in [Drive -> BOOLEAN],
           Doing(w)'
    PROVE  RipInv'
BY Works, Zenon DEF RipInv, Types, Marks

\* handleDisc returns, with or without having opened the tray.
LEMMA Returns ==
    ASSUME RipInv, NEW w \in Drive, Working(w), Return(w),
           UNCHANGED <<inside, marked, ripDir>>, moved' \in [Drive -> BOOLEAN]
    PROVE  RipInv'
<1>1. /\ pc' = [pc EXCEPT ![w] = "idle"]
      /\ disc' = [disc EXCEPT ![w] = None]
      /\ title' = [title EXCEPT ![w] = 0]
  BY DEF Return, Goto
<1>2. Types'
  BY <1>1 DEF RipInv, Types, Places
<1>3. Doing(w)'
  BY <1>1 DEF RipInv, Types, Doing
<1>4. Marks'
  BY DEF RipInv, Marks
<1> QED BY <1>1, <1>2, <1>3, <1>4, Works, Zenon DEF RipInv, Types, Places

\* It fails or hands the disc back: at "eject" nothing is established any more.
LEMMA HandsBack ==
    ASSUME RipInv, NEW w \in Drive, Working(w), NEW s,
           Fail(w) \/ StartEject(w, s),
           UNCHANGED <<inside, moved, marked, ripDir>>
    PROVE  RipInv'
<1>1. Return(w) \/ Continue(w, "eject")
  BY DEF Fail, StartEject
<1>2. CASE Return(w)
  BY <1>2, Returns DEF RipInv, Types
<1>3. CASE Continue(w, "eject")
  <2>1. pc' = [pc EXCEPT ![w] = "eject"] /\ UNCHANGED <<slot, disc, title>>
    BY <1>3 DEF Continue, Goto, work
  <2>2. Doing(w)'
    BY <2>1 DEF RipInv, Types, Doing
  <2> QED BY <2>1, <2>2, Proceeds, Zenon DEF RipInv, Types, Places
<1> QED BY <1>1, <1>2, <1>3

\* A step of someone else: the disc in a drive changes only where it has moved.
LEMMA Bystands ==
    ASSUME RipInv, UNCHANGED <<pc, slot, disc, title, marked>>,
           ripDir' \subseteq ripDir,
           inside' \in [Drive -> Disc \cup {None}], moved' \in [Drive -> BOOLEAN],
           \A w \in Drive : ~ moved'[w] => ~ moved[w] /\ inside'[w] = inside[w]
    PROVE  RipInv'
<1>1. Types' /\ OneDiscAtATime' /\ Marks'
  BY DEF RipInv, Types, OneDiscAtATime, Working, Marks
<1>2. ASSUME NEW w \in Drive PROVE Doing(w)'
  BY <1>2 DEF RipInv, Doing
<1> QED BY <1>1, <1>2 DEF RipInv

\* A drive that answers that a disc is ready holds one.
LEMMA ReadyHasADisc ==
    ASSUME Trays, Types, NEW w \in Drive, Status(w) = "disc_ok"
    PROVE  inside[w] \in Disc
BY DEF Trays, Types, Status

LEMMA HandleDiscStep ==
    ASSUME Trays, RipInv, NEW w \in Drive, handleDisc(w)
    PROVE  RipInv'
<1> USE DEF RipInv
<1>1. CASE Kind(w)
  <2>1. /\ At(w, "kind") /\ moved' = [moved EXCEPT ![w] = FALSE]
        /\ UNCHANGED <<slot, disc, title, inside, marked, ripDir>>
    BY <1>1 DEF Kind, Tables, discs, monitorVars, drive
  <2>2. \/ Goto(w, "probe") /\ inside[w] \in BluRay
        \/ Goto(w, "scan")
    BY <1>1 DEF Kind
  <2>3. CASE Goto(w, "probe") /\ inside[w] \in BluRay
    <3>1. Doing(w)'
      BY <2>1, <2>3, Zenon DEF At, Goto, Types, Doing
    <3> QED BY <2>1, <2>3, <3>1, Proceeds, Zenon DEF At, Goto, Types, Working, Places
  <2>4. CASE Goto(w, "scan")
    <3>1. Doing(w)'
      BY <2>1, <2>4, Zenon DEF At, Goto, Types, Doing
    <3> QED BY <2>1, <2>4, <3>1, Proceeds, Zenon DEF At, Goto, Types, Working, Places
  <2> QED BY <2>2, <2>3, <2>4
<1>2. CASE Identify(w)
  <2>1. /\ CanRead(w) /\ disc' = [disc EXCEPT ![w] = inside[w]]
        /\ UNCHANGED <<slot, title, inside, moved, marked, ripDir>>
    BY <1>2 DEF Identify, Tables, Others, discs, monitorVars, drive
  <2>2. inside[w] \in Disc /\ ~ moved[w]
    BY <2>1, ReadyHasADisc DEF CanRead
  <2>3. Types' /\ Marks'
    BY <1>2, <2>1, <2>2 DEF Identify, Goto, Types, Marks, Places
  <2>4. CASE pc[w] = "probe"
    <3>1. pc' = [pc EXCEPT ![w] = "admitBluRay"] /\ inside[w] \in BluRay
      BY <1>2, <2>2, <2>4 DEF Identify, Goto, Doing
    <3>2. Doing(w)'
      BY <2>1, <2>2, <2>3, <2>4, <3>1, Zenon DEF Types, Doing
    <3> QED BY <2>1, <2>2, <2>3, <2>4, <3>1, <3>2, Works, Zenon DEF Types, Working, Places
  <2>5. CASE pc[w] = "scan"
    <3>1. pc' = [pc EXCEPT ![w] = "admit"]
      BY <1>2, <2>5 DEF Identify, Goto
    <3>2. Doing(w)'
      BY <2>1, <2>2, <2>3, <2>5, <3>1, Zenon DEF Types, Doing
    <3> QED BY <2>1, <2>2, <2>3, <2>5, <3>1, <3>2, Works, Zenon DEF Types, Working, Places
  <2> QED BY <1>2, <2>4, <2>5 DEF Identify, At
<1>3. CASE ScanFails(w) \/ ProbeFails(w)
  <2>1. pc[w] \in {"scan", "probe"} /\ UNCHANGED <<inside, moved, marked, ripDir>>
    BY <1>3 DEF ScanFails, ProbeFails, At, Tables, Others, discs, monitorVars, drive
  <2>2. Return(w) \/ Fail(w) \/ (pc[w] = "scan" /\ Continue(w, "retry"))
    BY <1>3 DEF ScanFails, ProbeFails, At
  <2>3. CASE Return(w)
    BY <2>1, <2>3, Returns DEF Working, Types
  <2>4. CASE Fail(w)
    BY <2>1, <2>4, HandsBack DEF Working
  <2>5. CASE pc[w] = "scan" /\ Continue(w, "retry")
    <3>1. Doing(w)'
      BY <2>1, <2>5, Zenon DEF Continue, Goto, work, Types, Doing
    <3> QED BY <2>1, <2>5, <3>1, Proceeds, Zenon DEF Continue, Goto, work, Types, Working, Places
  <2> QED BY <2>2, <2>3, <2>4, <2>5
<1>4. CASE ScanAgain(w)
  <2>1. pc[w] = "retry" /\ UNCHANGED <<inside, marked, ripDir>>
    BY <1>4 DEF ScanAgain, At, Tables, Others, discs, monitorVars, drive
  <2>2. \/ Return(w) /\ UNCHANGED moved
        \/ /\ Goto(w, "scan") /\ moved' = [moved EXCEPT ![w] = FALSE]
           /\ UNCHANGED <<slot, disc, title>>
    BY <1>4 DEF ScanAgain
  <2>3. CASE Return(w) /\ UNCHANGED moved
    BY <2>1, <2>3, Returns DEF Working, Types
  <2>4. CASE /\ Goto(w, "scan") /\ moved' = [moved EXCEPT ![w] = FALSE]
             /\ UNCHANGED <<slot, disc, title>>
    <3>1. Doing(w)'
      BY <2>1, <2>4, Zenon DEF Goto, Types, Doing
    <3> QED BY <2>1, <2>4, <3>1, Proceeds, Zenon DEF Goto, Types, Working, Places
  <2> QED BY <2>2, <2>3, <2>4
<1>5. CASE Admit(w)
  <2>1. pc[w] \in {"admit", "admitBluRay"} /\ UNCHANGED <<inside, moved, marked, ripDir>>
    BY <1>5 DEF Admit, At, Others, monitorVars, drive
  <2>2. \/ Fail(w) \/ StartEject(w, "duplicate")
        \/ /\ ~ Recognised(disc[w]) /\ UNCHANGED <<slot, disc, title>>
           /\ pc' = [pc EXCEPT ![w] = IF pc[w] = "admit" THEN "prepare" ELSE "encode"]
    BY <1>5, <2>1 DEF Admit, Goto
  <2>3. CASE Fail(w) \/ StartEject(w, "duplicate")
    BY <2>1, <2>3, HandsBack DEF Working
  <2>4. CASE /\ ~ Recognised(disc[w]) /\ UNCHANGED <<slot, disc, title>>
             /\ pc' = [pc EXCEPT ![w] = IF pc[w] = "admit" THEN "prepare" ELSE "encode"]
    <3>1. disc[w] \in Disc \ ripDir
      BY <2>1, <2>4, WorkerConstants DEF Recognised, Doing
    <3>2. CASE pc[w] = "admit"
      <4>1. pc' = [pc EXCEPT ![w] = "prepare"]
        BY <2>4, <3>2
      <4>2. Doing(w)'
        BY <2>1, <2>4, <3>1, <3>2, <4>1, Zenon DEF Types, Doing
      <4> QED BY <2>1, <2>4, <3>1, <3>2, <4>1, <4>2, Proceeds, Zenon DEF Types, Working, Places
    <3>3. CASE pc[w] = "admitBluRay"
      <4>1. pc' = [pc EXCEPT ![w] = "encode"]
        BY <2>4, <3>3
      <4>2. Doing(w)'
        BY <2>1, <2>4, <3>1, <3>3, <4>1 DEF Types, Doing
      <4> QED BY <2>1, <2>4, <3>1, <3>3, <4>1, <4>2, Proceeds, Zenon DEF Types, Working, Places
    <3> QED BY <2>1, <3>2, <3>3
  <2> QED BY <2>2, <2>3, <2>4
<1>6. CASE RipSource(w) \/ Decrypted(w) \/ Rescanned(w)
  <2>1. /\ pc[w] \in {"prepare", "decrypt", "rescan"}
        /\ UNCHANGED <<slot, disc, title, inside, moved, marked, ripDir>>
    BY <1>6, Zenon DEF RipSource, Decrypted, Rescanned, At, Continue, work, Tables, Others, discs,
        monitorVars, drive
  <2>2. PICK p \in {"decrypt", "rescan", "begin"} : pc' = [pc EXCEPT ![w] = p]
    BY <1>6 DEF RipSource, Decrypted, Rescanned, Continue, Goto
  <2>3. Doing(w)'
    BY <2>1, <2>2 DEF Types, Doing
  <2> QED BY <2>1, <2>2, <2>3, Proceeds, Zenon DEF Types, Working, Places
<1>7. CASE Begin(w)
  <2>1. /\ pc[w] = "begin" /\ pc' = [pc EXCEPT ![w] = "rip"]
        /\ UNCHANGED <<slot, disc, title, inside, moved, marked, ripDir>>
    BY <1>7 DEF Begin, At, Continue, Goto, work, Others, discs, monitorVars, drive
  <2>2. disc[w] \in Disc \ ripDir /\ title[w] = 0 /\ TitleCount[disc[w]] \in Nat \ {0}
    BY <2>1, WorkerConstants DEF Doing
  <2>3. 1 .. title[w] = {}
    BY <2>2
  <2>4. Doing(w)'
    BY <2>1, <2>2, <2>3 DEF Types, Doing
  <2> QED BY <2>1, <2>2, <2>3, <2>4, Proceeds, Zenon DEF Types, Working, Places
<1>8. CASE TitleWritten(w)
  <2>1. /\ pc[w] = "rip" /\ pc' = [pc EXCEPT ![w] = "verify"]
        /\ UNCHANGED <<slot, disc, title, inside, moved, marked, ripDir>>
    BY <1>8 DEF TitleWritten, At, Continue, Goto, work, Tables, Others, discs, monitorVars,
        drive
  <2>2. Doing(w)'
    BY <2>1 DEF Types, Doing
  <2> QED BY <2>1, <2>2, Proceeds, Zenon DEF Types, Working, Places
<1>9. CASE TitleVerified(w)
  <2> DEFINE d == disc[w]
             n == title[w]
  <2>1. /\ pc[w] = "verify"
        /\ marked' = [marked EXCEPT ![d] = marked[d] \cup {n + 1}]
        /\ title' = [title EXCEPT ![w] = n + 1]
        /\ pc' = [pc EXCEPT ![w] = IF LastTitle(w) THEN "record" ELSE "rip"]
        /\ UNCHANGED <<slot, disc, inside, moved, ripDir>>
    BY <1>9 DEF TitleVerified, At, Goto, Others, discs, monitorVars, drive
  <2>2. /\ d \in Disc \ ripDir /\ n \in Nat /\ TitleCount[d] \in Nat
        /\ n < TitleCount[d] /\ 1 .. n \subseteq marked[d] /\ marked[d] \subseteq 1 .. TitleCount[d]
    BY <2>1, WorkerConstants, Zenon DEF Types, Doing, Marks
  <2>3. Types'
    BY <2>1, <2>2 DEF Types, Places
  <2>4. marked'[d] = marked[d] \cup {n + 1} /\ title'[w] = n + 1
    BY <2>1, <2>2 DEF Types
  <2>5. marked'[d] \subseteq 1 .. TitleCount[d] /\ 1 .. (n + 1) \subseteq marked'[d]
    BY <2>2, <2>4
  <2>6. Marks'
    BY <2>1, <2>2, <2>5 DEF Types, Marks
  <2>7. CASE LastTitle(w)
    <3>1. marked'[d] = 1 .. TitleCount[d] /\ pc' = [pc EXCEPT ![w] = "record"]
      BY <2>1, <2>2, <2>5, <2>7, Zenon DEF LastTitle
    <3>2. Doing(w)'
      BY <2>1, <2>2, <3>1 DEF Types, Doing
    <3> QED BY <2>1, <2>3, <2>6, <3>1, <3>2, Works, Zenon DEF Types, Working, Places
  <2>8. CASE ~ LastTitle(w)
    <3>1. n + 1 < TitleCount[d] /\ pc' = [pc EXCEPT ![w] = "rip"]
      BY <2>1, <2>2, <2>8 DEF LastTitle
    <3>2. Doing(w)'
      BY <2>1, <2>2, <2>4, <2>5, <3>1 DEF Types, Doing
    <3> QED BY <2>1, <2>3, <2>6, <3>1, <3>2, Works, Zenon DEF Types, Working, Places
  <2> QED BY <2>7, <2>8
<1>10. CASE DecryptFails(w) \/ EncodeFails(w)
  <2>1. pc[w] \in {"decrypt", "encode"} /\ UNCHANGED <<inside, moved, marked, ripDir>>
    BY <1>10 DEF DecryptFails, EncodeFails, At, Others, discs, monitorVars, drive
  <2>2. Return(w) \/ Continue(w, "failing")
    BY <1>10, Zenon DEF DecryptFails, EncodeFails, Cancelled
  <2>3. CASE Return(w)
    BY <2>1, <2>3, Returns DEF Working, Types
  <2>4. CASE Continue(w, "failing")
    <3>1. Doing(w)'
      BY <2>1, <2>4 DEF Continue, Goto, work, Types, Doing
    <3> QED BY <2>1, <2>4, <3>1, Proceeds, Zenon DEF Continue, Goto, work, Types, Working, Places
  <2> QED BY <2>2, <2>3, <2>4
<1>11. CASE TitleFails(w) \/ RipFails(w)
  <2>1. /\ pc[w] \in {"rip", "prepare", "rescan", "begin", "verify"}
        /\ pc' = [pc EXCEPT ![w] = "failing"]
        /\ UNCHANGED <<slot, disc, title, inside, moved, marked, ripDir>>
    BY <1>11 DEF TitleFails, RipFails, At, Continue, Goto, work, Tables, Others, discs,
        monitorVars, drive
  <2>2. Doing(w)'
    BY <2>1 DEF Types, Doing
  <2> QED BY <2>1, <2>2, Proceeds, Zenon DEF Types, Working, Places
<1>12. CASE RecordFailure(w)
  <2>1. pc[w] = "failing" /\ Fail(w) /\ UNCHANGED <<inside, moved, marked, ripDir>>
    BY <1>12 DEF RecordFailure, At, Others, discs, monitorVars, drive
  <2> QED BY <2>1, HandsBack DEF Working
<1>13. CASE RecordRip(w)
  <2>1. pc[w] = "record" /\ UNCHANGED <<slot, disc, title, inside, moved, marked>>
    BY <1>13 DEF RecordRip, At, Continue, work, Others, monitorVars, drive
  <2>2. \/ pc' = [pc EXCEPT ![w] = "failing"] /\ UNCHANGED ripDir
        \/ pc' = [pc EXCEPT ![w] = "complete"] /\ ripDir' = ripDir \cup {disc[w]}
    BY <1>13 DEF RecordRip, Continue, Goto
  <2>3. disc[w] \in Disc /\ marked[disc[w]] = 1 .. TitleCount[disc[w]]
    BY <2>1 DEF Doing
  <2>4. CASE pc' = [pc EXCEPT ![w] = "failing"] /\ UNCHANGED ripDir
    <3>1. Doing(w)'
      BY <2>1, <2>4 DEF Types, Doing
    <3> QED BY <2>1, <2>4, <3>1, Proceeds, Zenon DEF Types, Working, Places
  <2>5. CASE pc' = [pc EXCEPT ![w] = "complete"] /\ ripDir' = ripDir \cup {disc[w]}
    <3>1. Types' /\ Marks'
      BY <2>1, <2>3, <2>5 DEF Types, Marks, Places
    <3>2. Doing(w)'
      BY <2>5 DEF Types, Doing
    <3> QED BY <2>1, <2>5, <3>1, <3>2, Works, Zenon DEF Working, Places
  <2> QED BY <2>2, <2>4, <2>5
<1>14. CASE \/ RipComplete(w) \/ Encoded(w) \/ CompleteBluRay(w) \/ HandOffBluRay(w)
  <2>1. /\ pc[w] \in {"complete", "encode", "completeBluRay", "handOffBluRay"}
        /\ UNCHANGED <<slot, disc, title, inside, moved, marked, ripDir>>
    BY <1>14, Zenon DEF RipComplete, Encoded, CompleteBluRay, HandOffBluRay, At, Continue, work, Tables,
        Others, discs, monitorVars, drive
  <2>2. \/ pc[w] = "complete" /\ pc' = [pc EXCEPT ![w] = "handOff"]
        \/ pc[w] = "encode" /\ pc' = [pc EXCEPT ![w] = "recordBluRay"]
        \/ pc[w] = "completeBluRay" /\ pc' = [pc EXCEPT ![w] = "handOffBluRay"]
        \/ pc[w] = "handOffBluRay" /\ pc' = [pc EXCEPT ![w] = "fileBluRay"]
    BY <1>14, Zenon DEF RipComplete, Encoded, CompleteBluRay, HandOffBluRay, At, Continue, Goto
  <2>3. Doing(w)'
    BY <2>1, <2>2, Zenon DEF Types, Doing
  <2> QED BY <2>1, <2>2, <2>3, Proceeds DEF Types, Working, Places
<1>15. CASE RecordBluRay(w)
  <2> DEFINE d == disc[w]
  <2>1. /\ pc[w] = "recordBluRay" /\ pc' = [pc EXCEPT ![w] = "completeBluRay"]
        /\ UNCHANGED <<slot, disc, title, inside, moved>>
    BY <1>15 DEF RecordBluRay, At, Continue, Goto, work, Others, monitorVars, drive
  <2>2. \/ UNCHANGED <<marked, ripDir>>
        \/ marked' = [marked EXCEPT ![d] = marked[d] \cup {1}] /\ ripDir' = ripDir \cup {d}
    BY <1>15 DEF RecordBluRay
  <2>3. d \in Disc /\ TitleCount[d] = 1 /\ marked[d] \subseteq 1 .. 1 /\ title[w] = 0
    BY <2>1, WorkerConstants, Zenon DEF Doing, Marks
  <2>4. Doing(w)'
    BY <2>1, <2>3 DEF Types, Doing
  <2>5. CASE UNCHANGED <<marked, ripDir>>
    BY <2>1, <2>4, <2>5, Proceeds, Zenon DEF Types, Working, Places
  <2>6. CASE marked' = [marked EXCEPT ![d] = marked[d] \cup {1}] /\ ripDir' = ripDir \cup {d}
    <3>1. marked'[d] = 1 .. TitleCount[d]
      <4>1. marked'[d] = marked[d] \cup {1}
        BY <2>3, <2>6 DEF Types
      <4>2. marked[d] \cup {1} = 1 .. 1
        BY <2>3
      <4> QED BY <2>3, <4>1, <4>2, Zenon
    <3>2. Types'
      BY <2>1, <2>3, <2>6 DEF Types, Places
    <3>3. \A e \in Disc : e # d => marked'[e] = marked[e]
      BY <2>6 DEF Types
    <3>4. Marks'
      BY <2>3, <2>6, <3>1, <3>3, Zenon DEF Marks, Types
    <3> QED BY <2>1, <2>4, <3>2, <3>4, Works, Zenon DEF Working, Places
  <2> QED BY <2>2, <2>5, <2>6
<1>16. CASE HandOff(w) \/ FileBluRay(w)
  <2>1. /\ pc[w] \in {"handOff", "fileBluRay"} /\ StartEject(w, "complete")
        /\ UNCHANGED <<inside, moved, marked, ripDir>>
    BY <1>16, Zenon DEF HandOff, FileBluRay, At, Tables, Others, discs, monitorVars, drive
  <2> QED BY <2>1, HandsBack DEF Working
<1>17. CASE EjectOpens(w) \/ EjectFails(w)
  <2>1. /\ pc[w] = "eject" /\ Return(w) /\ UNCHANGED <<inside, marked, ripDir>>
        /\ moved' = moved \/ moved' = [moved EXCEPT ![w] = TRUE]
    BY <1>17, Zenon DEF EjectOpens, EjectFails, Opened, At, Tables, discs, monitorVars, drive
  <2> QED BY <2>1, Returns, Zenon DEF Working, Types
<1> QED BY Zenon, <1>1, <1>2, <1>3, <1>4, <1>5, <1>6, <1>7, <1>8, <1>9, <1>10, <1>11, <1>12, <1>13,
           <1>14, <1>15, <1>16, <1>17 DEF handleDisc

LEMMA TraysStep == Trays /\ [Next]_vars => Trays'
<1> SUFFICES ASSUME Trays, [Next]_vars PROVE Trays'
  OBVIOUS
<1>1. CASE UNCHANGED vars
  BY <1>1 DEF vars, monitorVars, drive, Trays
<1>2. ASSUME NEW w \in Drive, WorkerStep(w), ~ EjectOpens(w) PROVE Trays'
  <2>1. UNCHANGED <<open, ready>>
    BY <1>2, Zenon DEF WorkerStep, handleDisc, handleEvent, Receive, TakeSlot, AwaitSlot, AbandonSlot,
        Elsewhere, Kind, Identify, ScanFails, ScanAgain, ProbeFails, Admit, RipSource, Decrypted,
        DecryptFails, Rescanned, Begin, TitleWritten, TitleFails, TitleVerified, RipFails,
        RecordFailure, RecordRip, RipComplete, HandOff, Encoded, EncodeFails, RecordBluRay,
        CompleteBluRay, HandOffBluRay, FileBluRay, EjectFails, Others, monitorVars, drive
  <2> QED BY <2>1 DEF Trays
<1>3. ASSUME NEW w \in Drive, EjectOpens(w) \/ Request(w) PROVE Trays'
  <2>1. \/ UNCHANGED <<open, ready>>
        \/ /\ open' = [open EXCEPT ![w] = TRUE]
           /\ ready' = [ready EXCEPT ![w] = "no"]
    BY <1>3, Zenon DEF EjectOpens, Request, EjectCheck, EjectAct, CancelCheck, CancelAct, CancelLate,
        Down, Opened, monitorVars, drive
  <2> QED BY <2>1 DEF Trays
<1>4. ASSUME NEW w \in Drive, Handles(w) \/ Watches(w) PROVE Trays'
  <2>1. /\ open' = open \/ \E o \in BOOLEAN : open' = [open EXCEPT ![w] = o]
        /\ \/ ready' = ready
           \/ \E r \in {"no", "odd", "yes"} : ready' = [ready EXCEPT ![w] = r]
    BY <1>4, Zenon DEF Handles, Person, OpenTray, CloseTray, Replug, Watches, Poll, PollError, PollFirst,
        PollSame, PollUnsettled, PollChanged, Tick, Deliver, SpinUp, Flicker, drive
  <2> QED BY <2>1 DEF Trays
<1>5. CASE (\E d \in Disc : ForgetDisc(d)) \/ Boot \/ Shutdown \/ Exit \/ Crash
  BY <1>5, Zenon DEF ForgetDisc, Boot, Shutdown, Exit, Crash, Down, monitorVars, drive, Trays
<1> QED BY <1>1, <1>2, <1>3, <1>4, <1>5 DEF Next, WorkerStep, handleDisc

LEMMA RipStep == Trays /\ RipInv /\ [Next]_vars => RipInv'
<1> SUFFICES ASSUME Trays, RipInv, [Next]_vars PROVE RipInv'
  OBVIOUS
<1>1. CASE UNCHANGED vars
  BY <1>1, Bystands DEF vars, workerVars, monitorVars, drive, discs, work, RipInv, Types
<1>2. ASSUME NEW w \in Drive, handleDisc(w) PROVE RipInv'
  BY <1>2, HandleDiscStep
<1>3. ASSUME NEW w \in Drive, handleEvent(w) \/ AwaitSlot(w) \/ AbandonSlot(w) PROVE RipInv'
  <2>1. /\ ~ Working(w) /\ UNCHANGED <<slot, disc, title, inside, moved, marked, ripDir>>
    BY <1>3 DEF handleEvent, AwaitSlot, AbandonSlot, At, Working, Elsewhere, Receive, monitorVars,
        drive, discs, work
  <2>2. PICK p \in {pc[w], "slot", "queued", "idle"} : pc' = [pc EXCEPT ![w] = p]
    <3>1. pc = [pc EXCEPT ![w] = pc[w]]
      BY DEF RipInv, Types
    <3> QED BY <1>3, <3>1 DEF handleEvent, AwaitSlot, AbandonSlot, Goto
  <2>3. Types' /\ Marks'
    BY <2>1, <2>2, Zenon DEF RipInv, Types, Marks, Places
  <2>4. p \in {"slot", "queued", "idle"}
    BY <2>1, <2>2 DEF Working
  <2>5. OneDiscAtATime'
    BY <2>1, <2>2, <2>4 DEF RipInv, Types, OneDiscAtATime, Working
  <2>6. Doing(w)'
    BY <2>1, <2>2, <2>4 DEF RipInv, Types, Doing, Working
  <2>7. ASSUME NEW v \in Drive, v # w PROVE Doing(v)'
    BY <2>1, <2>2, <2>7 DEF RipInv, Types, Doing
  <2> QED BY <2>3, <2>5, <2>6, <2>7 DEF RipInv
<1>4. ASSUME NEW w \in Drive, TakeSlot(w) PROVE RipInv'
  <2>1. /\ pc[w] \in {"slot", "queued"} /\ slot = None /\ slot' = w
        /\ pc' = [pc EXCEPT ![w] = "kind"]
        /\ UNCHANGED <<disc, title, inside, moved, marked, ripDir>>
    BY <1>4 DEF TakeSlot, SlotFree, At, Goto, Elsewhere, monitorVars, drive, discs, work
  <2>2. Types' /\ Marks'
    BY <2>1 DEF RipInv, Types, Marks, Places
  <2>3. ASSUME NEW v \in Drive, v # w PROVE ~ Working(v)' /\ pc'[v] = pc[v]
    BY <2>1, <2>3, WorkerConstants DEF RipInv, Types, OneDiscAtATime, Working
  <2>4. OneDiscAtATime'
    BY <2>1, <2>3 DEF OneDiscAtATime
  <2>5. Doing(w)'
    BY <2>1, Zenon DEF RipInv, Types, Doing
  <2>6. ASSUME NEW v \in Drive, v # w PROVE Doing(v)'
    BY <2>1, <2>3, <2>6, Zenon DEF RipInv, Doing
  <2> QED BY <2>2, <2>4, <2>5, <2>6 DEF RipInv
<1>5. ASSUME NEW w \in Drive,
             EjectCheck(w) \/ CancelCheck(w) \/ CancelAct(w) \/ (CancelLate(w) /\ ~ Down) \/ Watches(w)
      PROVE  RipInv'
  <2>1. UNCHANGED <<pc, slot, disc, title, inside, moved, marked, ripDir>>
    BY <1>5, Zenon DEF EjectCheck, CancelCheck, CancelAct, CancelLate, Watches, Poll, PollError, PollFirst, PollSame, PollUnsettled,
        PollChanged, Tick, Deliver, SpinUp, Flicker, Tables, Idle, monitorVars, drive, discs,
        work, workerVars
  <2> QED BY <2>1, Bystands DEF RipInv, Types
<1>6. ASSUME NEW w \in Drive, EjectAct(w) PROVE RipInv'
  <2>1. /\ UNCHANGED <<pc, slot, disc, title, inside, marked, ripDir>>
        /\ moved' = moved \/ moved' = [moved EXCEPT ![w] = TRUE]
    BY <1>6 DEF EjectAct, Opened, Tables, Idle, monitorVars, drive, discs, work
  <2> QED BY <2>1, Bystands, Zenon DEF RipInv, Types
<1>7. ASSUME NEW w \in Drive, Handles(w) PROVE RipInv'
  <2>1. UNCHANGED <<pc, slot, disc, title, marked, ripDir>>
    BY <1>7 DEF Handles, Tables, Idle, discs, work
  <2>2. moved' = [moved EXCEPT ![w] = moved[w] \/ open'[w] # open[w] \/ plugged'[w] # plugged[w]]
    BY <1>7, Zenon DEF Handles
  <2>3. CASE UNCHANGED inside
    <3>1. moved' \in [Drive -> BOOLEAN]
      BY <2>2, Zenon DEF RipInv, Types
    <3>2. ASSUME NEW v \in Drive, ~ moved'[v] PROVE ~ moved[v]
      BY <2>2, <3>2, Zenon DEF RipInv, Types
    <3> QED BY <2>1, <2>3, <3>1, <3>2, Bystands DEF RipInv, Types
  <2>4. ASSUME NEW d \in Disc \cup {None}, CloseTray(w, d) PROVE RipInv'
    <3>1. /\ inside' = [inside EXCEPT ![w] = d] /\ open[w]
          /\ open' = [open EXCEPT ![w] = FALSE]
      BY <2>4 DEF CloseTray
    <3>2. moved' \in [Drive -> BOOLEAN] /\ inside' \in [Drive -> Disc \cup {None}]
      BY <2>2, <3>1, Zenon DEF RipInv, Types
    <3>3. open'[w] # open[w]
      BY <3>1 DEF Trays
    <3>4. ASSUME NEW v \in Drive, ~ moved'[v] PROVE ~ moved[v] /\ inside'[v] = inside[v]
      BY <2>2, <3>1, <3>3, <3>4, Zenon DEF RipInv, Types
    <3> QED BY <2>1, <3>2, <3>4, Bystands, Zenon
  <2> QED BY <1>7, <2>3, <2>4 DEF Handles, Person, OpenTray, Replug
<1>8. ASSUME NEW d \in Disc, ForgetDisc(d) PROVE RipInv'
  <2>1. UNCHANGED <<pc, slot, disc, title, inside, moved, marked>> /\ ripDir' \subseteq ripDir
    BY <1>8 DEF ForgetDisc, Idle, monitorVars, drive, work
  <2> QED BY <2>1, Bystands DEF RipInv, Types
<1>9. CASE Boot \/ Shutdown
  <2>1. UNCHANGED <<pc, slot, disc, title, inside, moved, marked, ripDir>>
    BY <1>9 DEF Boot, Shutdown, Tables, Idle, drive, discs, work
  <2> QED BY <2>1, Bystands DEF RipInv, Types
<1>10. CASE Exit \/ Crash \/ Down
  <2>1. /\ pc' = [w \in Drive |-> "idle"] /\ moved' = [w \in Drive |-> FALSE]
        /\ disc' = [w \in Drive |-> None] /\ title' = [w \in Drive |-> 0]
        /\ UNCHANGED <<inside, marked, ripDir>>
    BY <1>10 DEF Exit, Crash, Down, Volatile, Tables, drive, discs
  <2> QED BY <2>1, Zenon DEF RipInv, Types, OneDiscAtATime, Working, Marks, Doing, Places
<1> QED BY <1>1, <1>2, <1>3, <1>4, <1>5, <1>6, <1>7, <1>8, <1>9, <1>10
        DEF Next, WorkerStep, Request, CancelLate

\* One disc is worked on at a time across every drive (discSlot).
THEOREM OneDiscAtATimeHolds == Spec => []OneDiscAtATime
<1>1. RipInv => OneDiscAtATime
  BY DEF RipInv
<1> QED BY <1>1, RipInit, TraysStep, RipStep, PTL DEF Spec

\* A disc with a rip is never ripped again, whichever drives hold copies of it:
\* handleDisc's look at the store is still right when the rip is recorded.
THEOREM NoDoubleRipHolds == Spec => []NoDoubleRip
<1>1. RipInv => NoDoubleRip
  BY Zenon DEF RipInv, Doing, NoDoubleRip
<1> QED BY <1>1, RipInit, TraysStep, RipStep, PTL DEF Spec

\* Every title of a disc with a rip_dir was written and verified, across failed
\* attempts, cancellations, forgotten discs and crashes.
THEOREM RippedIsWholeHolds == Spec => []RippedIsWhole
<1>1. RipInv => RippedIsWhole
  BY DEF RipInv, Marks, RippedIsWhole
<1> QED BY <1>1, RipInit, TraysStep, RipStep, PTL DEF Spec

(***************************************************************************)
(* Jobs.                                                                   *)
(***************************************************************************)

\* Over, or not to be finished by the worker it was opened by.
Over(i) == jobState[i] \notin {"pending", "ripping"} \/ i \in stopped

JobTypes ==
    /\ jobs \in Nat
    /\ jobState \in [JobIds -> JobStates \cup {"none"}]
    /\ job \in [Drive -> JobIds \cup {0}]
    /\ cancelled \in [Drive -> BOOLEAN]

\* A worker has a job from Admit on, a cancelled one is known to be, and it is
\* over before the worker may forget it.
JobOf(w) ==
    /\ pc[w] \in {"idle", "slot", "queued", "kind", "scan", "retry", "probe", "admit",
                  "admitBluRay"}
        => job[w] = 0
    /\ daemon = "up" /\ job[w] # 0 =>
        /\ cancelled[w] => job[w] \in stopped
        /\ pc[w] \in {"handOff", "handOffBluRay", "fileBluRay", "eject"} => Over(job[w])

JobInv ==
    /\ JobTypes
    /\ UnfinishedJobHasAWorker
    /\ \A w \in Drive : JobOf(w)
    /\ daemon = "down" => \A w \in Drive : pc[w] = "idle"

LEMMA JobInit == Init => JobInv
BY WorkerConstants DEF Init, DriveInit, JobInv, JobTypes, JobOf, UnfinishedJobHasAWorker, JobIds

\* The worker that holds the slot is the only one with a job: its step keeps the
\* invariant when it keeps the worker's own part and drops no job that is not over.
LEMMA JobWorks ==
    ASSUME RipInv, JobInv, NEW w \in Drive, Working(w), NEW p \in Places,
           NEW j \in JobIds \cup {0},
           pc' = [pc EXCEPT ![w] = p], job' = [job EXCEPT ![w] = j],
           UNCHANGED <<daemon, stopped>>, JobTypes', JobOf(w)',
           daemon = "up" =>
               \A i \in JobIds : Over(i)' \/ i = j \/ (i # job[w] /\ ~ Over(i))
    PROVE  JobInv'
<1>1. ASSUME NEW v \in Drive, v # w PROVE pc'[v] = pc[v] /\ job'[v] = job[v] /\ ~ Working(v)
  BY <1>1, Alone DEF RipInv, Types, JobInv, JobTypes
<1>2. ASSUME NEW v \in Drive, v # w PROVE JobOf(v)'
  <2>1. job'[v] = 0
    BY <1>1, <1>2 DEF JobInv, JobOf, Working
  <2> QED BY <2>1 DEF JobOf
<1>3. UnfinishedJobHasAWorker'
  <2> SUFFICES ASSUME NEW i \in JobIds, daemon' = "up", ~ Over(i)'
               PROVE  \E v \in Drive : job'[v] = i
    BY DEF UnfinishedJobHasAWorker, Over
  <2>1. CASE i = j
    BY <2>1 DEF JobInv, JobTypes
  <2>2. CASE i # job[w] /\ ~ Over(i)
    <3>1. PICK v \in Drive : job[v] = i
      BY <2>2 DEF JobInv, UnfinishedJobHasAWorker, Over
    <3> QED BY <1>1, <2>2, <3>1
  <2> QED BY <2>1, <2>2
<1>4. daemon' # "down"
  BY DEF JobInv, Working
<1> QED BY <1>2, <1>3, <1>4 DEF JobInv

\* A step to another place: nothing is written, or the worker's own job is.
LEMMA JobKeeps ==
    ASSUME RipInv, JobInv, NEW w \in Drive, Working(w), NEW p \in Places,
           pc' = [pc EXCEPT ![w] = p], UNCHANGED <<daemon, stopped, jobs, job, cancelled>>,
           \/ jobState' = jobState
           \/ \E s \in JobStates : jobState' = [jobState EXCEPT ![job[w]] = s],
           p \in {"idle", "slot", "queued", "kind", "scan", "retry", "probe", "admit",
                  "admitBluRay"} => job[w] = 0,
           p \in {"handOff", "handOffBluRay", "fileBluRay", "eject"} /\ daemon = "up"
                /\ job[w] # 0 => Over(job[w])'
    PROVE  JobInv'
<1>1. job[w] \in JobIds \cup {0} /\ job' = [job EXCEPT ![w] = job[w]]
  BY DEF JobInv, JobTypes
<1>2. JobTypes'
  BY DEF JobInv, JobTypes
<1>3. JobOf(w)'
  BY DEF JobInv, JobTypes, JobOf, RipInv, Types, Over
<1>4. ASSUME NEW i \in JobIds PROVE Over(i)' \/ i = job[w] \/ (i # job[w] /\ ~ Over(i))
  BY DEF JobInv, JobTypes, Over
<1> QED BY <1>1, <1>2, <1>3, <1>4, JobWorks, Zenon

\* handleDisc returns, having finished the job if there was one.
LEMMA JobReturns ==
    ASSUME RipInv, JobInv, NEW w \in Drive, Working(w), Return(w),
           UNCHANGED <<daemon, stopped, jobs, cancelled>>,
           \/ jobState' = jobState
           \/ \E s \in JobStates : jobState' = [jobState EXCEPT ![job[w]] = s],
           \A i \in JobIds : daemon = "up" /\ i = job[w] => Over(i)'
    PROVE  JobInv'
<1>1. pc' = [pc EXCEPT ![w] = "idle"] /\ job' = [job EXCEPT ![w] = 0] /\ "idle" \in Places
  BY DEF Return, Goto, Places
<1>2. JobTypes'
  BY <1>1 DEF JobInv, JobTypes
<1>3. JobOf(w)'
  BY <1>1, <1>2 DEF JobInv, JobTypes, JobOf
<1>4. ASSUME NEW i \in JobIds, daemon = "up" PROVE Over(i)' \/ (i # job[w] /\ ~ Over(i))
  <2>1. CASE i = job[w]
    BY <1>4, <2>1
  <2>2. CASE i # job[w]
    BY <2>2 DEF JobInv, JobTypes, Over
  <2> QED BY <2>1, <2>2
<1> QED BY <1>1, <1>2, <1>3, <1>4, JobWorks, Zenon

\* It fails or hands the disc back.
LEMMA JobHandsBack ==
    ASSUME RipInv, JobInv, NEW w \in Drive, Working(w), NEW s,
           Fail(w) \/ StartEject(w, s),
           UNCHANGED <<daemon, stopped, jobs, cancelled>>,
           \/ jobState' = jobState
           \/ \E t \in JobStates : jobState' = [jobState EXCEPT ![job[w]] = t],
           \A i \in JobIds : daemon = "up" /\ i = job[w] => Over(i)'
    PROVE  JobInv'
<1>1. Return(w) \/ Continue(w, "eject")
  BY DEF Fail, StartEject
<1>2. CASE Return(w)
  BY <1>2, JobReturns
<1>3. CASE Continue(w, "eject")
  <2>1. pc' = [pc EXCEPT ![w] = "eject"] /\ UNCHANGED job /\ "eject" \in Places
    BY <1>3 DEF Continue, Goto, work, Places
  <2>2. daemon = "up" /\ job[w] # 0 => Over(job[w])'
    BY <2>1 DEF JobInv, JobTypes, Over
  <2> QED BY <2>1, <2>2, JobKeeps, Zenon
<1> QED BY <1>1, <1>2, <1>3

\* A job is over once its last state is written, or its context is cancelled
\* and nothing can be.
LEMMA JobSettled ==
    ASSUME JobInv, NEW w \in Drive, UNCHANGED <<daemon, stopped>>,
           NEW ctxDone \in BOOLEAN, ctxDone => Dead(w),
           NEW s \in {"complete", "failed", "cancelled"}, SetJobState(job[w], s, ctxDone)
    PROVE  /\ \A i \in JobIds : daemon = "up" /\ i = job[w] => Over(i)'
           /\ \/ jobState' = jobState
              \/ \E t \in JobStates : jobState' = [jobState EXCEPT ![job[w]] = t]
           /\ UNCHANGED jobs
<1>1. UNCHANGED jobs
  BY DEF SetJobState
<1>2. CASE ctxDone
  <2>1. Dead(w) /\ jobState' = jobState
    BY <1>2 DEF SetJobState
  <2>2. 0 \notin JobIds
    BY WorkerConstants DEF JobIds
  <2>3. ASSUME NEW i \in JobIds, daemon = "up", i = job[w] PROVE i \in stopped
    BY <2>1, <2>2, <2>3 DEF JobInv, JobTypes, JobOf, Dead
  <2> QED BY <1>1, <2>1, <2>3 DEF Over
<1>3. CASE ~ ctxDone
  <2>1. jobState' = [jobState EXCEPT ![job[w]] = s]
    BY <1>3 DEF SetJobState
  <2>2. ASSUME NEW i \in JobIds, i = job[w] PROVE Over(i)'
    BY <2>1, <2>2 DEF Over, JobInv, JobTypes
  <2> QED BY <1>1, <2>1, <2>2, Zenon DEF JobStates
<1> QED BY <1>2, <1>3

\* Before Admit there is no job to finish, and after the last write it is over.
LEMMA NothingToFinish ==
    ASSUME JobInv, NEW w \in Drive, UNCHANGED <<daemon, stopped, jobState>>,
           pc[w] \in {"scan", "retry", "probe", "admit", "admitBluRay", "handOff",
                      "fileBluRay", "eject"}
    PROVE  \A i \in JobIds : daemon = "up" /\ i = job[w] => Over(i)'
<1>1. 0 \notin JobIds
  BY WorkerConstants DEF JobIds
<1> QED BY <1>1 DEF JobInv, JobOf, Over

LEMMA JobOpens ==
    ASSUME RipInv, JobInv, NEW w \in Drive, pc[w] \in {"admit", "admitBluRay"}, ~ Dead(w),
           NEW d, CreateJob(d), job' = [job EXCEPT ![w] = jobs + 1],
           NEW p \in {"prepare", "encode"}, pc' = [pc EXCEPT ![w] = p],
           UNCHANGED <<daemon, stopped, cancelled>>
    PROVE  JobInv'
<1>1. /\ jobs \in Nat /\ jobs + 1 \in JobIds /\ jobs' = jobs + 1 /\ job[w] = 0
      /\ jobState' = [jobState EXCEPT ![jobs + 1] = "pending"]
  BY WorkerConstants DEF JobInv, JobTypes, JobOf, CreateJob, JobIds
<1>2. JobTypes'
  BY <1>1 DEF JobInv, JobTypes, JobStates
<1>3. JobOf(w)'
  BY <1>1 DEF JobOf, Dead, RipInv, Types
<1>4. ASSUME NEW i \in JobIds PROVE Over(i)' \/ i = jobs + 1 \/ (i # job[w] /\ ~ Over(i))
  <2>1. i # 0
    BY WorkerConstants DEF JobIds
  <2> QED BY <1>1, <2>1 DEF JobInv, JobTypes, Over
<1> QED BY <1>1, <1>2, <1>3, <1>4, JobWorks, Zenon DEF Working, Places

LEMMA JobHandleDisc ==
    ASSUME RipInv, JobInv, NEW w \in Drive, handleDisc(w)
    PROVE  JobInv'
<1> USE DEF Places, Working
<1>0. /\ pc \in [Drive -> Places] /\ job[w] \in JobIds \cup {0} /\ Dead(w) \in BOOLEAN
      /\ JobOf(w)
  BY DEF RipInv, Types, JobInv, JobTypes, Dead
<1>1. CASE Kind(w)
  <2>1. /\ pc[w] = "kind" /\ cancelled' = [cancelled EXCEPT ![w] = FALSE]
        /\ UNCHANGED <<daemon, stopped, jobs, jobState, job>>
    BY <1>1, Zenon DEF Kind, At, Tables, jobTable, monitorVars
  <2>2. PICK p \in {"probe", "scan"} : pc' = [pc EXCEPT ![w] = p]
    BY <1>1 DEF Kind, Goto
  <2>3. job[w] = 0 /\ job' = [job EXCEPT ![w] = 0]
    BY <1>0, <2>1 DEF JobOf, JobInv, JobTypes
  <2>4. JobTypes'
    BY <2>1 DEF JobInv, JobTypes
  <2>5. JobOf(w)'
    BY <2>1, <2>3 DEF JobOf
  <2>6. ASSUME NEW i \in JobIds PROVE Over(i)' \/ (i # job[w] /\ ~ Over(i))
    <3>1. 0 \notin JobIds
      BY WorkerConstants DEF JobIds
    <3> QED BY <2>1, <2>3, <3>1 DEF Over
  <2> QED BY <2>1, <2>2, <2>3, <2>4, <2>5, <2>6, JobWorks, Zenon
<1>2. CASE Identify(w)
  <2>1. /\ pc[w] \in {"scan", "probe"}
        /\ UNCHANGED <<daemon, stopped, jobs, jobState, job, cancelled>>
    BY <1>2, Zenon DEF Identify, At, Tables, Others, jobTable, monitorVars
  <2>2. PICK p \in {"admit", "admitBluRay"} : pc' = [pc EXCEPT ![w] = p]
    BY <1>2, Zenon DEF Identify, Goto
  <2> QED BY <1>0, <2>1, <2>2, JobKeeps, Zenon DEF JobOf
<1>3. CASE ScanFails(w) \/ ScanAgain(w) \/ ProbeFails(w)
  <2>1. /\ pc[w] \in {"scan", "retry", "probe"}
        /\ UNCHANGED <<daemon, stopped, jobs, jobState, cancelled>>
    BY <1>3, Zenon DEF ScanFails, ScanAgain, ProbeFails, At, Tables, Others, jobTable, monitorVars
  <2>2. \/ Return(w) \/ Fail(w)
        \/ UNCHANGED job /\ \E p \in {"scan", "retry"} : pc' = [pc EXCEPT ![w] = p]
    BY <1>3 DEF ScanFails, ScanAgain, ProbeFails, Continue, Goto, work
  <2>3. CASE Return(w)
    BY <2>1, <2>3, NothingToFinish, JobReturns, Zenon
  <2>4. CASE Fail(w)
    BY <2>1, <2>4, NothingToFinish, JobHandsBack, Zenon
  <2>5. ASSUME UNCHANGED job, NEW p \in {"scan", "retry"}, pc' = [pc EXCEPT ![w] = p]
        PROVE  JobInv'
    BY <1>0, <2>1, <2>5, JobKeeps, Zenon DEF JobOf
  <2> QED BY <2>2, <2>3, <2>4, <2>5
<1>4. CASE Admit(w)
  <2>1. pc[w] \in {"admit", "admitBluRay"} /\ UNCHANGED <<daemon, stopped, cancelled>>
    BY <1>4, Zenon DEF Admit, At, Others, monitorVars
  <2>2. CASE (Fail(w) \/ StartEject(w, "duplicate")) /\ UNCHANGED jobTable
    BY <2>1, <2>2, NothingToFinish, JobHandsBack, Zenon DEF jobTable
  <2>3. CASE /\ ~ Dead(w) /\ CreateJob(disc[w]) /\ job' = [job EXCEPT ![w] = jobs + 1]
             /\ \E p \in {"prepare", "encode"} : pc' = [pc EXCEPT ![w] = p]
    BY <2>1, <2>3, JobOpens, Zenon
  <2> QED BY <1>4, <2>2, <2>3, Zenon DEF Admit, Goto
<1>5. CASE \/ RipSource(w) \/ Decrypted(w) \/ Rescanned(w) \/ TitleWritten(w) \/ TitleVerified(w)
           \/ RipFails(w) \/ RecordRip(w) \/ Encoded(w) \/ RecordBluRay(w)
  <2>1. /\ pc[w] \in {"prepare", "decrypt", "rescan", "rip", "verify", "begin", "record",
                      "encode", "recordBluRay"}
        /\ UNCHANGED <<daemon, stopped, jobs, jobState, job, cancelled>>
    BY <1>5, Zenon DEF RipSource, Decrypted, Rescanned, TitleWritten, TitleVerified, RipFails, RecordRip,
        Encoded, RecordBluRay, At, Continue, Tables, Others, jobTable, monitorVars, work
  <2>2. PICK p \in {"rescan", "decrypt", "begin", "verify", "record", "rip", "failing",
                    "complete", "recordBluRay", "completeBluRay"} : pc' = [pc EXCEPT ![w] = p]
    BY <1>5, Zenon DEF RipSource, Decrypted, Rescanned, TitleWritten, TitleVerified, RipFails, RecordRip,
        Encoded, RecordBluRay, Continue, Goto
  <2> QED BY <2>1, <2>2, JobKeeps, Zenon
<1>6. CASE Begin(w) \/ TitleFails(w)
  <2>1. /\ pc[w] \in {"begin", "rip"}
        /\ UNCHANGED <<daemon, stopped, jobs, job, cancelled>>
    BY <1>6, Zenon DEF Begin, TitleFails, CancelRecorded, SetJobState, At, Continue, Others, jobTable,
        monitorVars, work
  <2>2. PICK p \in {"rip", "failing"} : pc' = [pc EXCEPT ![w] = p]
    BY <1>6 DEF Begin, TitleFails, Continue, Goto
  <2>3. \/ jobState' = jobState
        \/ \E s \in JobStates : jobState' = [jobState EXCEPT ![job[w]] = s]
    BY <1>6 DEF Begin, TitleFails, CancelRecorded, SetJobState, jobTable, JobStates
  <2> QED BY <2>1, <2>2, <2>3, JobKeeps, Zenon
<1>7. CASE DecryptFails(w) \/ EncodeFails(w)
  <2>1. pc[w] \in {"decrypt", "encode"} /\ UNCHANGED <<daemon, stopped, cancelled>>
    BY <1>7 DEF DecryptFails, EncodeFails, At, Others, monitorVars
  <2>2. CASE Cancelled(w)
    <3>1. SetJobState(job[w], "cancelled", FALSE) /\ Return(w)
      BY <2>2, Zenon DEF Cancelled
    <3>2. /\ \A i \in JobIds : daemon = "up" /\ i = job[w] => Over(i)'
          /\ \/ jobState' = jobState
             \/ \E t \in JobStates : jobState' = [jobState EXCEPT ![job[w]] = t]
          /\ UNCHANGED jobs
      BY <2>1, <3>1, JobSettled, Zenon
    <3> QED BY <2>1, <3>1, <3>2, JobReturns, Zenon
  <2>3. CASE Continue(w, "failing") /\ UNCHANGED jobTable
    BY <2>1, <2>3, JobKeeps, Zenon DEF Continue, Goto, work, jobTable
  <2> QED BY <1>7, <2>2, <2>3 DEF DecryptFails, EncodeFails
<1>8. CASE RecordFailure(w)
  <2>1. /\ pc[w] = "failing" /\ UNCHANGED <<daemon, stopped, cancelled>>
        /\ SetJobState(job[w], "failed", Dead(w)) /\ Fail(w)
    BY <1>8, Zenon DEF RecordFailure, At, Others, monitorVars
  <2>2. /\ \A i \in JobIds : daemon = "up" /\ i = job[w] => Over(i)'
        /\ \/ jobState' = jobState
           \/ \E t \in JobStates : jobState' = [jobState EXCEPT ![job[w]] = t]
        /\ UNCHANGED jobs
    BY <1>0, <2>1, JobSettled
  <2> QED BY <2>1, <2>2, JobHandsBack, Zenon
<1>9. CASE RipComplete(w) \/ CompleteBluRay(w)
  <2>1. /\ pc[w] \in {"complete", "completeBluRay"} /\ UNCHANGED <<daemon, stopped, cancelled, job>>
        /\ SetJobState(job[w], "complete", Dead(w))
    BY <1>9, Zenon DEF RipComplete, CompleteBluRay, At, Others, Continue, work, monitorVars
  <2>2. PICK p \in {"handOff", "handOffBluRay"} : pc' = [pc EXCEPT ![w] = p]
    BY <1>9 DEF RipComplete, CompleteBluRay, Continue, Goto
  <2>3. /\ \A i \in JobIds : daemon = "up" /\ i = job[w] => Over(i)'
        /\ \/ jobState' = jobState
           \/ \E t \in JobStates : jobState' = [jobState EXCEPT ![job[w]] = t]
        /\ UNCHANGED jobs
    BY <1>0, <2>1, JobSettled
  <2>4. daemon = "up" /\ job[w] # 0 => Over(job[w])'
    BY <1>0, <2>1, <2>3 DEF Over
  <2> QED BY <2>1, <2>2, <2>3, <2>4, JobKeeps, Zenon
<1>10. CASE HandOffBluRay(w)
  <2>1. /\ pc[w] = "handOffBluRay" /\ pc' = [pc EXCEPT ![w] = "fileBluRay"]
        /\ UNCHANGED <<daemon, stopped, jobs, jobState, job, cancelled>>
    BY <1>10 DEF HandOffBluRay, At, Others, Continue, Goto, work, monitorVars, jobTable
  <2>2. daemon = "up" /\ job[w] # 0 => Over(job[w])'
    BY <1>0, <2>1, Zenon DEF JobOf, Over
  <2> QED BY <2>1, <2>2, JobKeeps, Zenon
<1>11. CASE HandOff(w) \/ FileBluRay(w)
  <2>1. /\ pc[w] \in {"handOff", "fileBluRay"} /\ StartEject(w, "complete")
        /\ UNCHANGED <<daemon, stopped, jobs, jobState, cancelled>>
    BY <1>11, Zenon DEF HandOff, FileBluRay, At, Tables, Others, monitorVars, jobTable
  <2> QED BY <2>1, NothingToFinish, JobHandsBack, Zenon
<1>12. CASE EjectOpens(w) \/ EjectFails(w)
  <2>1. /\ pc[w] = "eject" /\ Return(w)
        /\ UNCHANGED <<daemon, stopped, jobs, jobState, cancelled>>
    BY <1>12, Zenon DEF EjectOpens, EjectFails, Opened, At, Tables, monitorVars, jobTable
  <2> QED BY <2>1, NothingToFinish, JobReturns, Zenon
<1> QED BY <1>1, <1>2, <1>3, <1>4, <1>5, <1>6, <1>7, <1>8, <1>9, <1>10, <1>11, <1>12
        DEF handleDisc

\* No job changes hands, and nothing that was over is not.
LEMMA JobBystands ==
    ASSUME JobInv, UNCHANGED <<pc, daemon, jobs, jobState, job>>,
           cancelled' \in [Drive -> BOOLEAN], stopped \subseteq stopped',
           \A w \in Drive : job[w] # 0 /\ cancelled'[w] => cancelled[w] \/ job[w] \in stopped'
    PROVE  JobInv'
<1>1. ASSUME NEW i \in JobIds PROVE Over(i) => Over(i)'
  BY Zenon DEF Over
<1>2. ASSUME NEW w \in Drive PROVE JobOf(w)'
  BY <1>2 DEF JobInv, JobTypes, JobOf, Over
<1>3. UnfinishedJobHasAWorker'
  BY <1>1, Zenon DEF JobInv, UnfinishedJobHasAWorker, Over
<1>4. JobTypes'
  BY DEF JobInv, JobTypes
<1> QED BY <1>2, <1>3, <1>4, Zenon DEF JobInv

LEMMA JobStep == RipInv /\ JobInv /\ [Next]_vars => JobInv'
<1> SUFFICES ASSUME RipInv, JobInv, [Next]_vars PROVE JobInv'
  OBVIOUS
<1>1. CASE UNCHANGED vars
  BY <1>1, JobBystands, Zenon DEF vars, workerVars, monitorVars, jobTable, work, JobInv, JobTypes
<1>2. ASSUME NEW w \in Drive, handleDisc(w) PROVE JobInv'
  BY <1>2, JobHandleDisc
<1>3. ASSUME NEW w \in Drive,
             handleEvent(w) \/ TakeSlot(w) \/ AwaitSlot(w) \/ AbandonSlot(w)
      PROVE  JobInv'
  <2>1. /\ ~ Working(w) /\ daemon # "down"
        /\ UNCHANGED <<daemon, jobs, jobState, job, cancelled, stopped>>
    BY <1>3, Zenon DEF handleEvent, TakeSlot, AwaitSlot, AbandonSlot, At, Working, Elsewhere, Receive,
        monitorVars, jobTable, work
  <2>2. PICK p \in {"slot", "queued", "idle", "kind"} : pc' = [pc EXCEPT ![w] = p]
    <3>1. pc = [pc EXCEPT ![w] = pc[w]]
      BY DEF RipInv, Types
    <3> QED BY <1>3, <2>1, <3>1 DEF handleEvent, TakeSlot, AwaitSlot, AbandonSlot, Goto, Working
  <2>3. job[w] = 0
    BY <2>1, Zenon DEF JobInv, JobOf, Working
  <2>4. ASSUME NEW v \in Drive PROVE JobOf(v)'
    BY <2>1, <2>2, <2>3, Zenon DEF JobInv, JobOf, RipInv, Types, Over
  <2>5. JobTypes' /\ UnfinishedJobHasAWorker'
    BY <2>1 DEF JobInv, JobTypes, UnfinishedJobHasAWorker
  <2> QED BY <2>1, <2>4, <2>5, Zenon DEF JobInv
<1>4. ASSUME NEW w \in Drive,
             \/ EjectCheck(w) \/ EjectAct(w) \/ CancelCheck(w) \/ (CancelLate(w) /\ ~ Down)
             \/ Handles(w) \/ Watches(w)
      PROVE  JobInv'
  <2>1. ASSUME EjectCheck(w) \/ EjectAct(w) \/ CancelCheck(w) \/ (CancelLate(w) /\ ~ Down)
        PROVE  UNCHANGED <<pc, daemon, jobs, jobState, job, cancelled, stopped>>
    BY <2>1, Zenon DEF EjectCheck, EjectAct, CancelCheck, CancelLate, Opened, Tables, Idle, monitorVars, jobTable, work
  <2>2. ASSUME Handles(w) PROVE UNCHANGED <<pc, daemon, jobs, jobState, job, cancelled, stopped>>
    <3>1. UNCHANGED daemon
      BY <2>2, Zenon DEF Handles, Person, OpenTray, CloseTray, Replug, Moves
    <3> QED BY <2>2, <3>1, Zenon DEF Handles, Tables, Idle, jobTable, work
  <2>3. ASSUME Watches(w) PROVE UNCHANGED <<pc, daemon, jobs, jobState, job, cancelled, stopped>>
    <3>1. UNCHANGED daemon
      BY <2>3, Zenon DEF Watches, Poll, PollError, PollFirst, PollSame, PollUnsettled, PollChanged, Tick,
          Deliver, SpinUp, Flicker
    <3> QED BY <2>3, <3>1 DEF Watches, workerVars, jobTable, work
  <2> QED BY <1>4, <2>1, <2>2, <2>3, JobBystands, Zenon DEF JobInv, JobTypes
<1>5. ASSUME NEW d \in Disc, ForgetDisc(d) PROVE JobInv'
  <2>1. UNCHANGED <<pc, daemon, jobs, jobState, job, cancelled, stopped>>
    BY <1>5 DEF ForgetDisc, Idle, monitorVars, jobTable, work
  <2> QED BY <2>1, JobBystands DEF JobInv, JobTypes
<1>6. ASSUME NEW w \in Drive, CancelAct(w) PROVE JobInv'
  <2>1. /\ UNCHANGED <<pc, daemon, jobs, jobState, job>>
        /\ cancelled' = [cancelled EXCEPT ![w] = TRUE]
        /\ stopped' = stopped \cup ({job[w]} \ {0})
    BY <1>6, Zenon DEF CancelAct, Tables, Idle, monitorVars, jobTable, work
  <2> QED BY <2>1, JobBystands DEF JobInv, JobTypes
<1>7. CASE Boot
  <2>1. /\ daemon = "down" /\ jobState' = ReclaimUnfinishedJobs
        /\ UNCHANGED <<pc, jobs, job, cancelled, stopped>>
    BY <1>7 DEF Boot, work
  <2>2. JobTypes' /\ \A i \in JobIds : Over(i)'
    BY <2>1 DEF JobInv, JobTypes, ReclaimUnfinishedJobs, Over, JobStates
  <2>3. UnfinishedJobHasAWorker'
    BY <2>2 DEF UnfinishedJobHasAWorker, Over
  <2>4. ASSUME NEW w \in Drive PROVE JobOf(w)'
    BY <2>1, Zenon DEF JobInv, JobOf
  <2>5. daemon' = "up"
    BY <1>7 DEF Boot
  <2> QED BY <2>2, <2>3, <2>4, <2>5, Zenon DEF JobInv
<1>8. CASE Shutdown
  <2>1. daemon' = "stopping" /\ UNCHANGED <<pc, jobs, jobState, job, cancelled>>
    BY <1>8 DEF Shutdown, Tables, Idle, jobTable, work
  <2> QED BY <2>1 DEF JobInv, JobTypes, JobOf, UnfinishedJobHasAWorker
<1>9. CASE Exit \/ Crash \/ Down
  <2>1. /\ daemon' = "down" /\ pc' = [w \in Drive |-> "idle"] /\ job' = [w \in Drive |-> 0]
        /\ cancelled' = [w \in Drive |-> FALSE] /\ UNCHANGED <<jobs, jobState>>
    BY <1>9 DEF Exit, Crash, Down, Volatile, Tables, jobTable
  <2> QED BY <2>1 DEF JobInv, JobTypes, JobOf, UnfinishedJobHasAWorker
<1> QED BY <1>1, <1>2, <1>3, <1>4, <1>5, <1>6, <1>7, <1>8, <1>9
        DEF Next, WorkerStep, Request, CancelLate

\* A job that is not finished has a worker, unless its context was cancelled
\* under it: a restart leaves no phantom attempt behind
\* (ReclaimUnfinishedJobs), with any number of drives, discs and restarts.
THEOREM UnfinishedJobHasAWorkerHolds == Spec => []UnfinishedJobHasAWorker
<1>1. JobInv => UnfinishedJobHasAWorker
  BY DEF JobInv
<1> QED BY <1>1, RipInit, TraysStep, RipStep, JobInit, JobStep, PTL DEF Spec

(***************************************************************************)
(* The tray.                                                               *)
(***************************************************************************)

\* What a worker that is done with a disc has on record of it.
Kept(w) ==
    /\ pc[w] \in {"complete", "handOff"} => disc[w] \in ripDir \cup owed
    /\ pc[w] \in {"completeBluRay", "handOffBluRay", "fileBluRay"} => disc[w] \in BluRay
    /\ pc[w] = "eject" /\ ~ EjectOnFailure => disc[w] \in ripDir \cup owed \cup BluRay

KeptInv == \A w \in Drive : Kept(w)


LEMMA KeptInit == Init => KeptInv
BY Zenon DEF Init, KeptInv, Kept

\* The worker that holds the slot is the only one that is done with a disc.
LEMMA KeptWorks ==
    ASSUME RipInv, NEW w \in Drive, Working(w), NEW p \in Places,
           pc' = [pc EXCEPT ![w] = p], Kept(w)'
    PROVE  KeptInv'
<1>1. ASSUME NEW v \in Drive, v # w PROVE Kept(v)'
  <2>1. pc'[v] = pc[v] /\ ~ Working(v)
    BY <1>1, Alone DEF RipInv, Types
  <2> QED BY <2>1 DEF Working, Kept
<1> QED BY <1>1 DEF KeptInv

LEMMA KeptAt ==
    ASSUME RipInv, NEW w \in Drive, Working(w), NEW p \in Places, pc' = [pc EXCEPT ![w] = p],
           p \in {"complete", "handOff"} => disc'[w] \in ripDir' \cup owed',
           p \in {"completeBluRay", "handOffBluRay", "fileBluRay"} => disc'[w] \in BluRay,
           p = "eject" /\ ~ EjectOnFailure => disc'[w] \in ripDir' \cup owed' \cup BluRay
    PROVE  KeptInv'
<1>1. pc'[w] = p
  BY DEF RipInv, Types
<1>2. Kept(w)'
  BY <1>1 DEF Kept
<1> QED BY <1>2, KeptWorks, Zenon

LEMMA KeptBystands ==
    ASSUME KeptInv, UNCHANGED <<pc, disc>>, ripDir \cup owed \subseteq ripDir' \cup owed'
    PROVE  KeptInv'
BY Zenon DEF KeptInv, Kept

LEMMA KeptStep == RipInv /\ KeptInv /\ [Next]_vars => KeptInv'
<1> SUFFICES ASSUME RipInv, KeptInv, [Next]_vars PROVE KeptInv'
  OBVIOUS
<1> USE DEF Places, Working
<1>0. pc \in [Drive -> Places] /\ \A w \in Drive : Doing(w) /\ Kept(w)
  BY DEF RipInv, Types, KeptInv
<1>1. CASE UNCHANGED vars
  BY <1>1, KeptBystands DEF vars, workerVars, discs, work
<1>2. ASSUME NEW w \in Drive, handleDisc(w) PROVE KeptInv'
  \* Most steps lead to a place where nothing is kept yet.
  <2>1. ASSUME pc[w] \notin {"idle", "slot", "queued"},
               NEW p \in Places \ {"complete", "handOff", "completeBluRay", "handOffBluRay",
                                   "fileBluRay", "eject"},
               pc' = [pc EXCEPT ![w] = p]
        PROVE  KeptInv'
    BY <2>1, KeptAt, Zenon
  <2>2. ASSUME pc[w] \notin {"idle", "slot", "queued"}, Return(w) PROVE KeptInv'
    BY <2>1, <2>2, Zenon DEF Return, Goto
  <2>3. ASSUME pc[w] \notin {"idle", "slot", "queued"}, Continue(w, "eject"),
               disc[w] \in ripDir \cup owed \cup BluRay \/ EjectOnFailure,
               ripDir' = ripDir, owed' = owed
        PROVE  KeptInv'
    <3>1. pc' = [pc EXCEPT ![w] = "eject"] /\ disc' = disc
      BY <2>3, Zenon DEF Continue, Goto, work
    <3> QED BY <2>3, <3>1, KeptAt, Zenon
  <2>4. ASSUME pc[w] \notin {"idle", "slot", "queued"}, Fail(w), ripDir' = ripDir, owed' = owed
        PROVE  KeptInv'
    BY <2>2, <2>3, <2>4, Zenon DEF Fail, StartEject
  <2>5. CASE Kind(w) \/ Identify(w) \/ RipSource(w) \/ Decrypted(w) \/ Rescanned(w) \/ Begin(w)
    <3>1. /\ pc[w] \notin {"idle", "slot", "queued"}
          /\ \E p \in {"probe", "scan", "admit", "admitBluRay", "decrypt", "rescan", "begin",
                       "rip"} : pc' = [pc EXCEPT ![w] = p]
      BY <2>5, Zenon DEF Kind, Identify, RipSource, Decrypted, Rescanned, Begin, At, Continue, Goto
    <3> QED BY <2>1, <3>1, Zenon
  <2>6. CASE TitleWritten(w) \/ TitleFails(w) \/ TitleVerified(w) \/ RipFails(w) \/ Encoded(w)
    <3>1. /\ pc[w] \notin {"idle", "slot", "queued"}
          /\ \E p \in {"verify", "failing", "record", "rip", "recordBluRay"} :
                 pc' = [pc EXCEPT ![w] = p]
      BY <2>6, Zenon DEF TitleWritten, TitleFails, TitleVerified, RipFails, Encoded, At, Continue, Goto
    <3> QED BY <2>1, <3>1, Zenon
  <2>7. CASE ScanFails(w) \/ ScanAgain(w) \/ ProbeFails(w) \/ RecordFailure(w)
    <3>1. pc[w] \notin {"idle", "slot", "queued"} /\ ripDir' = ripDir /\ owed' = owed
      BY <2>7, Zenon DEF ScanFails, ScanAgain, ProbeFails, RecordFailure, At, Tables, discs
    <3>2. \/ Return(w) \/ Fail(w)
          \/ \E p \in {"scan", "retry"} : pc' = [pc EXCEPT ![w] = p]
      BY <2>7, Zenon DEF ScanFails, ScanAgain, ProbeFails, RecordFailure, Continue, Goto
    <3> QED BY <2>1, <2>2, <2>4, <3>1, <3>2
  <2>8. CASE DecryptFails(w) \/ EncodeFails(w) \/ EjectOpens(w) \/ EjectFails(w)
    <3>1. /\ pc[w] \notin {"idle", "slot", "queued"}
          /\ Return(w) \/ pc' = [pc EXCEPT ![w] = "failing"]
      BY <2>8, Zenon DEF DecryptFails, EncodeFails, Cancelled, EjectOpens, EjectFails, At, Continue, Goto
    <3> QED BY <2>1, <2>2, <3>1
  <2>9. CASE Admit(w)
    <3>1. pc[w] \in {"admit", "admitBluRay"} /\ ripDir' = ripDir
      BY <2>9, Zenon DEF Admit, At
    <3>2. \/ Fail(w) /\ owed' = owed
          \/ Recognised(disc[w]) /\ StartEject(w, "duplicate") /\ owed' = owed
          \/ \E p \in {"prepare", "encode"} : pc' = [pc EXCEPT ![w] = p]
      BY <2>9, Zenon DEF Admit, Goto
    <3>3. CASE Recognised(disc[w]) /\ StartEject(w, "duplicate") /\ owed' = owed
      BY <2>2, <2>3, <3>1, <3>3, Zenon DEF Recognised, StartEject
    <3> QED BY <2>1, <2>4, <3>1, <3>2, <3>3, Zenon
  <2>10. CASE RecordRip(w)
    <3>1. /\ pc[w] = "record" /\ disc' = disc /\ owed' = owed
          /\ \/ pc' = [pc EXCEPT ![w] = "failing"]
             \/ pc' = [pc EXCEPT ![w] = "complete"] /\ ripDir' = ripDir \cup {disc[w]}
      BY <2>10, Zenon DEF RecordRip, At, Continue, Goto, work
    <3>2. CASE pc' = [pc EXCEPT ![w] = "complete"] /\ ripDir' = ripDir \cup {disc[w]}
      BY <3>1, <3>2, KeptAt, Zenon
    <3> QED BY <2>1, <3>1, <3>2, Zenon
  <2>11. CASE RipComplete(w)
    <3>1. /\ pc[w] = "complete" /\ pc' = [pc EXCEPT ![w] = "handOff"]
          /\ UNCHANGED <<disc, ripDir, owed>>
      BY <2>11 DEF RipComplete, At, Continue, Goto, work, discs
    <3>2. disc[w] \in ripDir \cup owed
      BY <1>0, <3>1 DEF Kept
    <3> QED BY <3>1, <3>2, KeptAt, Zenon
  <2>12. CASE RecordBluRay(w) \/ CompleteBluRay(w) \/ HandOffBluRay(w)
    <3>1. pc[w] \in {"recordBluRay", "completeBluRay", "handOffBluRay"} /\ disc' = disc
      BY <2>12, Zenon DEF RecordBluRay, CompleteBluRay, HandOffBluRay, At, Continue, work
    <3>2. PICK p \in {"completeBluRay", "handOffBluRay", "fileBluRay"} :
              pc' = [pc EXCEPT ![w] = p]
      BY <2>12, Zenon DEF RecordBluRay, CompleteBluRay, HandOffBluRay, Continue, Goto
    <3>3. disc[w] \in BluRay
      BY <1>0, <3>1, Zenon DEF Doing, Kept
    <3> QED BY <3>1, <3>2, <3>3, KeptAt, Zenon
  <2>13. CASE HandOff(w) \/ FileBluRay(w)
    <3>1. /\ pc[w] \in {"handOff", "fileBluRay"} /\ StartEject(w, "complete")
          /\ ripDir' = ripDir /\ owed' = owed
      BY <2>13, Zenon DEF HandOff, FileBluRay, At, Tables, discs
    <3>2. disc[w] \in ripDir \cup owed \cup BluRay
      BY <1>0, <3>1 DEF Kept
    <3> QED BY <2>2, <2>3, <3>1, <3>2, Zenon DEF StartEject
  <2> QED BY <1>2, <2>5, <2>6, <2>7, <2>8, <2>9, <2>10, <2>11, <2>12, <2>13, Zenon DEF handleDisc
<1>3. ASSUME NEW w \in Drive,
             handleEvent(w) \/ TakeSlot(w) \/ AwaitSlot(w) \/ AbandonSlot(w)
      PROVE  KeptInv'
  <2>1. ~ Working(w) /\ UNCHANGED <<disc, ripDir, owed>>
    BY <1>3, Zenon DEF handleEvent, TakeSlot, AwaitSlot, AbandonSlot, At, Elsewhere, discs, work
  <2>2. PICK p \in {"slot", "queued", "idle", "kind"} : pc' = [pc EXCEPT ![w] = p]
    <3>1. pc = [pc EXCEPT ![w] = pc[w]]
      BY <1>0
    <3> QED BY <1>3, <2>1, <3>1 DEF handleEvent, TakeSlot, AwaitSlot, AbandonSlot, Goto
  <2> QED BY <1>0, <2>1, <2>2 DEF KeptInv, Kept
<1>4. ASSUME NEW w \in Drive, Request(w) \/ Handles(w) \/ Watches(w), ~ Down PROVE KeptInv'
  <2>1. UNCHANGED <<pc, disc, ripDir, owed>>
    BY <1>4, Zenon DEF Request, EjectCheck, EjectAct, CancelCheck, CancelAct, CancelLate, Handles, Watches, Tables, Idle, discs, work,
        workerVars
  <2> QED BY <2>1, KeptBystands
<1>5. ASSUME NEW d \in Disc, ForgetDisc(d) PROVE KeptInv'
  <2>1. UNCHANGED <<pc, disc>> /\ ripDir' = ripDir \ {d} /\ owed' = owed \cup {d}
    BY <1>5 DEF ForgetDisc, Idle, work
  <2> QED BY <2>1, KeptBystands
<1>6. CASE Boot \/ Shutdown
  <2>1. UNCHANGED <<pc, disc, ripDir, owed>>
    BY <1>6, Zenon DEF Boot, Shutdown, Tables, Idle, discs, work
  <2> QED BY <2>1, KeptBystands
<1>7. CASE Exit \/ Crash \/ Down
  BY <1>7, Zenon DEF Exit, Crash, Down, Volatile, KeptInv, Kept
<1> QED BY <1>1, <1>2, <1>3, <1>4, <1>5, <1>6, <1>7 DEF Next, WorkerStep

\* A worker about to open the tray on a DVD it did not fail has a rip of it on
\* record, or had until a person forgot the disc: the disc is not handed back
\* unread (eject_on_failure is off).
THEOREM EjectingIsDoneHolds == Spec => []EjectingIsDone
<1>1. KeptInv => EjectingIsDone
  BY Zenon DEF KeptInv, Kept, EjectingIsDone
<1> QED BY <1>1, RipInit, TraysStep, RipStep, KeptInit, KeptStep, PTL DEF Spec

=============================================================================
