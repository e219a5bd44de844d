------------------------ MODULE TranscodeQueueProofs ------------------------
(***************************************************************************)
(* Proofs that the transcode queue keeps its safety invariants for any set *)
(* of jobs, any attempt budget and any number of requests and restarts.    *)
(***************************************************************************)
EXTENDS TranscodeQueue, TLAPS

\* A goroutine in the middle of something has a job in hand.
JobInHand ==
    /\ Encoding => job \in Job
    /\ \A f \in Filers : fstep[f] # "idle" => fjob[f] \in Job

Typed == TypeOK /\ JobInHand

-----------------------------------------------------------------------------

\* The state in which TypeOK is proved to hold first: nothing queued, nothing
\* filed, the daemon not yet started.
LEMMA TypedInit == Init => Typed
<1> SUFFICES ASSUME Init PROVE Typed
  OBVIOUS
<1>1. libSame \in [Path -> BOOLEAN] /\ due \in [Disc -> BOOLEAN]
  BY DEF Init
<1>2. \A f \in Filers : fstep[f] = "idle"
  BY DEF Init
<1>3. /\ attempt \in [Job -> 0..MaxAttempts] /\ created \in [Job -> 0..MaxNow]
      /\ spent \in [Job -> 0..(MaxAttempts + 1)]
  BY QueueConstants DEF Init
<1>4. now \in 0..MaxNow /\ requests \in 0..MaxRequests /\ restarts \in 0..MaxRestarts
  BY QueueConstants DEF Init
<1>5. /\ state \in [Job -> States] /\ libBy \in [Path -> Job \union {None, "hand"}]
      /\ fstep \in [Filers -> {"idle", "ripDir", "row", "stat", "link", "record"}]
      /\ fjob \in [Filers -> Job \union {None}]
      /\ left \in [Disc -> SUBSET Job]
      /\ retry \in [Job -> {"idle", "checked", "reset"}]
  BY DEF Init, States
<1> QED BY <1>1, <1>2, <1>3, <1>4, <1>5, Zenon DEF Init, Typed, TypeOK, JobInHand, Encoding

\* Every step of the runner keeps the types.
LEMMA TypedRunner == Typed /\ RunnerStep => Typed'
<1> SUFFICES ASSUME Typed, RunnerStep PROVE Typed'
  OBVIOUS
<1> USE QueueConstants
    DEF table, files, run, filing, queueing, history, env, Typed, TypeOK, JobInHand, Encoding,
        Goto
<1>1. CASE Reclaim
  BY <1>1 DEF Reclaim, ReclaimRunningTranscodes, GiveBack, States
<1>2. CASE Claim
  BY <1>2 DEF Claim, NextTranscode, Claimable, States
<1>3. CASE Drained
  BY <1>3 DEF Drained, UnfiledTranscodes
<1>4. CASE EncodeEnds
  <2>1. libSame' \in [Path -> BOOLEAN]
    BY <1>4, Zenon DEF EncodeEnds, NewOutput
  <2>2. out' \subseteq Job
    BY <1>4 DEF EncodeEnds, NewOutput
  <2> QED BY <1>4, <2>1, <2>2, Zenon DEF EncodeEnds
<1>5. CASE Judge
  <2>1. state' \in [Job -> States] /\ attempt' \in [Job -> 0..MaxAttempts]
        /\ created' \in [Job -> 0..MaxNow]
    BY <1>5 DEF Judge, RequeueTranscode, GiveBack, States
  <2> QED BY <1>5, <2>1, Zenon DEF Judge, Return
<1>6. CASE RecordFailure
  <2>1. state' \in [Job -> States] /\ attempt' = attempt /\ created' = created
    BY <1>6 DEF RecordFailure, FailTranscode, States
  <2>2. spent' \in [Job -> 0..(MaxAttempts + 1)]
    BY <1>6 DEF RecordFailure, Spend
  <2> QED BY <1>6, <2>1, <2>2, Zenon DEF RecordFailure, Return
<1>7. CASE RecordSuccess
  BY <1>7 DEF RecordSuccess, FinishTranscode, Spend, StartFiling, States, Filers
<1>8. CASE FiledOne
  BY <1>8, Zenon DEF FiledOne, Return
<1>9. CASE SweepOne
  BY <1>9 DEF SweepOne, StartFiling, Filers
<1>10. CASE SweepEnds
  BY <1>10 DEF SweepEnds
<1>11. CASE Wait
  BY <1>11, Zenon DEF Wait
<1>12. CASE Stop
  BY <1>12 DEF Stop
<1> QED BY <1>1, <1>2, <1>3, <1>4, <1>5, <1>6, <1>7, <1>8, <1>9, <1>10, <1>11, <1>12, Zenon DEF RunnerStep

\* So does every step of a fileTitle call.
LEMMA TypedFiler == ASSUME Typed, NEW f \in Filers, FileTitle(f) PROVE Typed'
<1> USE QueueConstants
    DEF table, files, run, filing, queueing, history, env, Typed, TypeOK, JobInHand, Encoding,
        Step
<1>1. CASE FileStat(f)
  BY <1>1 DEF FileStat
<1>2. CASE FileLink(f)
  <2>1. libSame' \in [Path -> BOOLEAN]
    BY <1>2, Zenon DEF FileLink
  <2>2. libBy' \in [Path -> Job \union {None, "hand"}]
    BY <1>2 DEF FileLink
  <2>3. /\ fstep' \in [Filers -> {"idle", "ripDir", "row", "stat", "link", "record"}]
        /\ fjob' \in [Filers -> Job \union {None}]
    BY <1>2 DEF FileLink
  <2>4. \A g \in Filers : fstep'[g] # "idle" => fjob'[g] \in Job
    BY <1>2 DEF FileLink
  <2> QED BY <1>2, <2>1, <2>2, <2>3, <2>4 DEF FileLink
<1>3. CASE FileRecord(f)
  BY <1>3 DEF FileRecord
<1> QED BY <1>1, <1>2, <1>3 DEF FileTitle

\* And of a worker that records the Blu-ray it encoded.
LEMMA TypedBluRay == Typed /\ (BluRayDir \/ BluRayRow) => Typed'
<1> SUFFICES ASSUME Typed, BluRayDir \/ BluRayRow PROVE Typed'
  OBVIOUS
<1> USE QueueConstants
    DEF table, files, run, filing, queueing, history, env, Typed, TypeOK, JobInHand, Encoding
<1>1. /\ fstep' \in [Filers -> {"idle", "ripDir", "row", "stat", "link", "record"}]
      /\ fjob' \in [Filers -> Job \union {None}]
      /\ \A g \in Filers : fstep'[g] # "idle" => fjob'[g] \in Job
      /\ fjob["worker"] \in Job
  BY DEF BluRayDir, BluRayRow, Step, Filers
<1>2. CASE BluRayDir
  <2>1. ripped' \subseteq Disc
    BY <1>1, <1>2 DEF BluRayDir
  <2> QED BY <1>1, <1>2, <2>1 DEF BluRayDir
<1>3. CASE BluRayRow
  <2>1. state' \in [Job -> States] /\ attempt' = attempt /\ created' \in [Job -> 0..MaxNow]
    BY <1>1, <1>3 DEF BluRayRow, RecordTranscode, States
  <2>2. overtaken' \subseteq Job
    BY <1>1, <1>3 DEF BluRayRow, Overtake
  <2> QED BY <1>1, <1>3, <2>1, <2>2 DEF BluRayRow
<1> QED BY <1>2, <1>3

\* And every step of a request in progress.
LEMMA TypedClient == Typed /\ ClientStep => Typed'
<1> SUFFICES ASSUME Typed, ClientStep PROVE Typed'
  OBVIOUS
<1> USE QueueConstants
    DEF table, files, run, filing, queueing, history, env, Typed, TypeOK, JobInHand, Encoding
<1>1. ASSUME NEW d \in Disc, QueueTitle(d) PROVE Typed'
  <2>1. due' \in [Disc -> BOOLEAN]
    BY <1>1, Zenon DEF QueueTitle
  <2>2. left' \in [Disc -> SUBSET Job]
    BY <1>1 DEF QueueTitle
  <2>3. state' \in [Job -> States] /\ attempt' = attempt /\ created' \in [Job -> 0..MaxNow]
    BY <1>1 DEF QueueTitle, QueueTranscode, States
  <2>4. overtaken' \subseteq Job
    BY <1>1 DEF QueueTitle, Overtake
  <2> QED BY <1>1, <2>1, <2>2, <2>3, <2>4 DEF QueueTitle
<1>2. ASSUME NEW d \in Disc, QueueDone(d) PROVE Typed'
  BY <1>2 DEF QueueDone, NudgeTranscoder
<1>3. ASSUME NEW j \in Job, RetryReset(j) PROVE Typed'
  BY <1>3 DEF RetryReset, ResetTranscodeAttempts, States
<1>4. ASSUME NEW j \in Job, RetryNudge(j) PROVE Typed'
  BY <1>4 DEF RetryNudge, NudgeTranscoder
<1>5. CASE CancelCall
  BY <1>5 DEF CancelCall
<1> QED BY <1>1, <1>2, <1>3, <1>4, <1>5 DEF ClientStep

\* And the arrival of a request, of a rip or of a Blu-ray.
LEMMA TypedArrival == Typed /\ Arrival => Typed'
<1> SUFFICES ASSUME Typed, Arrival PROVE Typed'
  OBVIOUS
<1> USE QueueConstants
    DEF table, files, run, filing, queueing, history, env, Typed, TypeOK, JobInHand, Encoding,
        Request, TitlesOf
<1>1. ASSUME NEW d \in Disc, RipFinished(d) PROVE Typed'
  BY <1>1 DEF RipFinished
<1>2. ASSUME NEW d \in Disc, RequeueDisc(d) PROVE Typed'
  BY <1>2 DEF RequeueDisc
<1>3. ASSUME NEW j \in Job, BluRayEncoded(j) PROVE Typed'
  BY <1>3 DEF BluRayEncoded, NewOutput, Filers
<1>4. ASSUME NEW j \in Job, RetryCheck(j) PROVE Typed'
  BY <1>4 DEF RetryCheck
<1>5. CASE CancelRead
  BY <1>5 DEF CancelRead
<1> QED BY <1>1, <1>2, <1>3, <1>4, <1>5 DEF Arrival

\* And everything else that can happen, stuttering included.
LEMMA TypedStep == Typed /\ [Next]_vars => Typed'
<1> SUFFICES ASSUME Typed, [Next]_vars PROVE Typed'
  OBVIOUS
<1> USE QueueConstants
    DEF table, files, run, filing, queueing, history, env
<1>1. CASE RunnerStep
  BY <1>1, TypedRunner
<1>2. CASE FilerStep
  BY <1>2, TypedFiler, TypedBluRay DEF FilerStep
<1>3. CASE ClientStep
  BY <1>3, TypedClient
<1>4. CASE Arrival
  BY <1>4, TypedArrival
<1>5. CASE Boot
  <2>1. due' \in [Disc -> BOOLEAN] /\ left' \in [Disc -> SUBSET Job]
    BY <1>5 DEF Boot, Volatile
  <2>2. JobInHand'
    BY <1>5 DEF Boot, Volatile, JobInHand, Encoding, Filers
  <2>3. /\ fstep' \in [Filers -> {"idle", "ripDir", "row", "stat", "link", "record"}]
        /\ fjob' \in [Filers -> Job \union {None}]
        /\ retry' \in [Job -> {"idle", "checked", "reset"}]
    BY <1>5 DEF Boot, Volatile
  <2>4. job' = None /\ ok' = FALSE /\ cancelled' = FALSE /\ sweep' = {} /\ wake' = FALSE
        /\ cancel' = "idle"
    BY <1>5 DEF Boot, Volatile
  <2> QED BY <1>5, <2>1, <2>2, <2>3, <2>4, Zenon DEF Boot, Typed, TypeOK
<1>6. CASE Shutdown
  BY <1>6 DEF Shutdown, Typed, TypeOK, JobInHand, Encoding
<1>7. CASE Crash
  <2>1. due' \in [Disc -> BOOLEAN] /\ left' \in [Disc -> SUBSET Job]
    BY <1>7 DEF Crash, Volatile
  <2>2. JobInHand'
    BY <1>7 DEF Crash, Volatile, JobInHand, Encoding, Filers
  <2>3. /\ fstep' \in [Filers -> {"idle", "ripDir", "row", "stat", "link", "record"}]
        /\ fjob' \in [Filers -> Job \union {None}]
        /\ retry' \in [Job -> {"idle", "checked", "reset"}]
    BY <1>7 DEF Crash, Volatile
  <2>4. job' = None /\ ok' = FALSE /\ cancelled' = FALSE /\ sweep' = {} /\ wake' = FALSE
        /\ cancel' = "idle"
    BY <1>7 DEF Crash, Volatile
  <2>5. restarts' \in 0..MaxRestarts
    BY <1>7 DEF Crash, Typed, TypeOK
  <2> QED BY <1>7, <2>1, <2>2, <2>3, <2>4, <2>5, Zenon DEF Crash, Typed, TypeOK
<1>8. CASE Tick
  BY <1>8 DEF Tick, Typed, TypeOK, JobInHand, Encoding
<1>9. CASE LibraryLost
  <2>1. requests' \in 0..MaxRequests
    BY <1>9 DEF LibraryLost, Request, Typed, TypeOK
  <2>2. JobInHand'
    BY <1>9 DEF LibraryLost, Typed, JobInHand, Encoding
  <2> QED BY <1>9, <2>1, <2>2, ZenonT(60) DEF LibraryLost, Typed, TypeOK
<1>10. CASE LibraryBack
  BY <1>10 DEF LibraryBack, Typed, TypeOK, JobInHand, Encoding
<1>11. CASE HandEdit
  <2>1. requests' \in 0..MaxRequests
    BY <1>11 DEF HandEdit, Request, Typed, TypeOK
  <2>2. libBy' \in [Path -> Job \union {None, "hand"}] /\ out' \subseteq Job
    BY <1>11 DEF HandEdit, Typed, TypeOK
  <2>3. libSame' \in [Path -> BOOLEAN]
    BY <1>11, Zenon DEF HandEdit, Typed, TypeOK
  <2> QED BY <1>11, <2>1, <2>2, <2>3 DEF HandEdit, Typed, TypeOK, JobInHand, Encoding
<1>12. CASE UNCHANGED vars
  BY <1>12 DEF vars, Typed, TypeOK, JobInHand, Encoding
<1> QED BY <1>1, <1>2, <1>3, <1>4, <1>5, <1>6, <1>7, <1>8, <1>9, <1>10, <1>11, <1>12 DEF Next

\* The variables keep their types and no job is charged more attempts than
\* maxTranscodeAttempts, whatever the interleaving.
THEOREM TypeCorrect == Spec => []TypeOK
<1>1. Typed => TypeOK
  BY DEF Typed
<1> QED BY TypedInit, TypedStep, <1>1, PTL DEF Spec

-----------------------------------------------------------------------------

\* NoOrphanedClaim is inductive: only the runner moves pc, and it leaves
\* "encode", "judge" and "record" by a write that takes the row out of
\* "running" unless the context is cancelled.
LEMMA OrphanStep == Typed /\ NoOrphanedClaim /\ [Next]_vars => NoOrphanedClaim'
<1> SUFFICES ASSUME Typed, NoOrphanedClaim, [Next]_vars PROVE NoOrphanedClaim'
  OBVIOUS
<1> USE QueueConstants DEF table, run, NoOrphanedClaim, Goto, Typed, TypeOK
<1>1. CASE RunnerStep
  <2>1. CASE Reclaim
    BY <2>1 DEF Reclaim, ReclaimRunningTranscodes
  <2>2. CASE Claim
    BY <2>2 DEF Claim, NextTranscode
  <2>3. CASE Drained
    BY <2>3 DEF Drained
  <2>4. CASE EncodeEnds
    BY <2>4 DEF EncodeEnds
  <2>5. CASE Judge
    BY <2>5 DEF Judge, RequeueTranscode, Return
  <2>6. CASE RecordFailure
    BY <2>6 DEF RecordFailure, FailTranscode, Return
  <2>7. CASE RecordSuccess
    BY <2>7 DEF RecordSuccess, FinishTranscode
  <2>8. CASE FiledOne
    BY <2>8 DEF FiledOne, Return
  <2>9. CASE SweepOne
    BY <2>9 DEF SweepOne
  <2>10. CASE SweepEnds
    BY <2>10 DEF SweepEnds
  <2>11. CASE Wait
    BY <2>11 DEF Wait
  <2>12. CASE Stop
    BY <2>12 DEF Stop
  <2> QED BY <1>1, <2>1, <2>2, <2>3, <2>4, <2>5, <2>6, <2>7, <2>8, <2>9, <2>10, <2>11, <2>12
          DEF RunnerStep
<1>2. CASE FilerStep
  <2>1. ASSUME NEW f \in Filers, FileTitle(f) PROVE NoOrphanedClaim'
    BY <2>1 DEF FileTitle, FileStat, FileLink, FileRecord
  <2>2. CASE BluRayDir
    BY <2>2 DEF BluRayDir
  <2>3. CASE BluRayRow
    BY <2>3 DEF BluRayRow, RecordTranscode
  <2> QED BY <1>2, <2>1, <2>2, <2>3 DEF FilerStep
<1>3. CASE ClientStep
  <2>1. ASSUME NEW d \in Disc, QueueTitle(d) PROVE NoOrphanedClaim'
    BY <2>1 DEF QueueTitle, QueueTranscode
  <2>2. ASSUME NEW d \in Disc, QueueDone(d) PROVE NoOrphanedClaim'
    BY <2>2 DEF QueueDone
  <2>3. ASSUME NEW j \in Job, RetryReset(j) PROVE NoOrphanedClaim'
    BY <2>3 DEF RetryReset, ResetTranscodeAttempts
  <2>4. ASSUME NEW j \in Job, RetryNudge(j) PROVE NoOrphanedClaim'
    BY <2>4 DEF RetryNudge
  <2>5. CASE CancelCall
    BY <2>5 DEF CancelCall
  <2> QED BY <1>3, <2>1, <2>2, <2>3, <2>4, <2>5 DEF ClientStep
<1>4. CASE Arrival
  <2>1. ASSUME NEW j \in Job, BluRayEncoded(j) PROVE NoOrphanedClaim'
    BY <2>1 DEF BluRayEncoded
  <2>2. ASSUME NEW d \in Disc, RipFinished(d) \/ RequeueDisc(d) PROVE NoOrphanedClaim'
    BY <2>2 DEF RipFinished, RequeueDisc
  <2>3. ASSUME NEW j \in Job, RetryCheck(j) PROVE NoOrphanedClaim'
    BY <2>3 DEF RetryCheck
  <2>4. CASE CancelRead
    BY <2>4 DEF CancelRead
  <2> QED BY <1>4, <2>1, <2>2, <2>3, <2>4 DEF Arrival
<1>5. CASE Boot \/ Crash \/ Shutdown
  BY <1>5 DEF Boot, Crash, Shutdown
<1>6. CASE Tick \/ LibraryLost \/ LibraryBack \/ HandEdit
  BY <1>6 DEF Tick, LibraryLost, LibraryBack, HandEdit
<1>7. CASE UNCHANGED vars
  BY <1>7 DEF vars
<1> QED BY <1>1, <1>2, <1>3, <1>4, <1>5, <1>6, <1>7 DEF Next

\* No claim is left behind, for any number of jobs, requests and restarts: a
\* running row is the one the runner is encoding.
THEOREM ClaimsAreHeld == Spec => []NoOrphanedClaim
<1>1. Init => NoOrphanedClaim
  BY DEF Init, NoOrphanedClaim
<1> QED BY TypedInit, TypedStep, OrphanStep, <1>1, PTL DEF Spec

-----------------------------------------------------------------------------

Owed ==
    \/ wake
    \/ \E d \in Disc : due[d]
    \/ \E j \in Job : retry[j] = "reset"

\* NoLostWakeup has to hold from the moment NextTranscode found nothing: work
\* that arrives while the runner is still sweeping must wake it later.
WakeInv ==
    (~ ctxDone /\ pc \in {"sweep", "wait"} /\ \E j \in Job : Claimable(j)) => Owed

\* Only a re-queue and a reset make a row claimable while the runner sweeps or
\* waits, and each owes a nudge until transcodeWake holds a token.
LEMMA WakeStep == Typed /\ WakeInv /\ [Next]_vars => WakeInv'
<1> SUFFICES ASSUME Typed, WakeInv, [Next]_vars PROVE WakeInv'
  OBVIOUS
<1> USE QueueConstants DEF table, run, queueing, WakeInv, Owed, Goto, Typed, TypeOK
<1>1. CASE RunnerStep
  <2>1. CASE Reclaim
    BY <2>1 DEF Reclaim
  <2>2. CASE Claim
    BY <2>2 DEF Claim
  <2>3. CASE Drained
    BY <2>3 DEF Drained, Claimable
  <2>4. CASE EncodeEnds
    BY <2>4 DEF EncodeEnds
  <2>5. CASE Judge
    BY <2>5 DEF Judge, Return
  <2>6. CASE RecordFailure
    BY <2>6 DEF RecordFailure, Return
  <2>7. CASE RecordSuccess
    BY <2>7 DEF RecordSuccess
  <2>8. CASE FiledOne
    BY <2>8 DEF FiledOne, Return
  <2>9. CASE SweepOne
    BY <2>9 DEF SweepOne, Claimable
  <2>10. CASE SweepEnds
    BY <2>10 DEF SweepEnds, Claimable
  <2>11. CASE Wait
    BY <2>11 DEF Wait
  <2>12. CASE Stop
    BY <2>12 DEF Stop
  <2> QED BY <1>1, <2>1, <2>2, <2>3, <2>4, <2>5, <2>6, <2>7, <2>8, <2>9, <2>10, <2>11, <2>12, Zenon
          DEF RunnerStep
<1>2. CASE FilerStep
  <2>1. ASSUME NEW f \in Filers, FileTitle(f) PROVE WakeInv'
    BY <2>1 DEF FileTitle, FileStat, FileLink, FileRecord, Claimable
  <2>2. CASE BluRayDir
    BY <2>2 DEF BluRayDir, Claimable
  <2>3. CASE BluRayRow
    BY <2>3 DEF BluRayRow, RecordTranscode, Claimable
  <2> QED BY <1>2, <2>1, <2>2, <2>3 DEF FilerStep
<1>3. CASE ClientStep
  <2>1. ASSUME NEW d \in Disc, QueueTitle(d) PROVE WakeInv'
    BY <2>1 DEF QueueTitle
  <2>2. ASSUME NEW d \in Disc, QueueDone(d) PROVE WakeInv'
    BY <2>2 DEF QueueDone, NudgeTranscoder
  <2>3. ASSUME NEW j \in Job, RetryReset(j) PROVE WakeInv'
    BY <2>3 DEF RetryReset
  <2>4. ASSUME NEW j \in Job, RetryNudge(j) PROVE WakeInv'
    BY <2>4 DEF RetryNudge, NudgeTranscoder
  <2>5. CASE CancelCall
    BY <2>5 DEF CancelCall, Claimable
  <2> QED BY <1>3, <2>1, <2>2, <2>3, <2>4, <2>5 DEF ClientStep
<1>4. CASE Arrival
  <2>1. ASSUME NEW j \in Job, BluRayEncoded(j) PROVE WakeInv'
    BY <2>1 DEF BluRayEncoded, Claimable
  <2>2. ASSUME NEW d \in Disc, RipFinished(d) \/ RequeueDisc(d) PROVE WakeInv'
    BY <2>2 DEF RipFinished, RequeueDisc, Claimable
  <2>3. ASSUME NEW j \in Job, RetryCheck(j) PROVE WakeInv'
    BY <2>3 DEF RetryCheck, Claimable
  <2>4. CASE CancelRead
    BY <2>4 DEF CancelRead, Claimable
  <2> QED BY <1>4, <2>1, <2>2, <2>3, <2>4 DEF Arrival
<1>5. CASE Boot \/ Crash \/ Shutdown
  BY <1>5 DEF Boot, Crash, Shutdown
<1>6. CASE Tick \/ LibraryLost \/ LibraryBack \/ HandEdit
  BY <1>6 DEF Tick, LibraryLost, LibraryBack, HandEdit, Claimable
<1>7. CASE UNCHANGED vars
  BY <1>7 DEF vars, Claimable
<1> QED BY <1>1, <1>2, <1>3, <1>4, <1>5, <1>6, <1>7 DEF Next

\* The runner never sleeps on work it could claim unless a nudge is on its way.
THEOREM WakeupsArrive == Spec => []NoLostWakeup
<1>1. Init => WakeInv
  BY DEF Init, WakeInv
<1>2. WakeInv => NoLostWakeup
  BY DEF WakeInv, NoLostWakeup, Owed
<1> QED BY TypedInit, TypedStep, WakeStep, <1>1, <1>2, PTL DEF Spec

-----------------------------------------------------------------------------

\* The history variable counts only encodes the store has recorded, and the
\* claim of a running row is the one attempt it does not count yet.
LEMMA SpentStep == Typed /\ AttemptsAreSpent /\ [Next]_vars => AttemptsAreSpent'
<1> SUFFICES ASSUME Typed, AttemptsAreSpent, [Next]_vars PROVE AttemptsAreSpent'
  OBVIOUS
<1> USE QueueConstants DEF table, history, AttemptsAreSpent, Typed, TypeOK, GiveBack
<1>1. CASE RunnerStep
  <2>1. CASE Reclaim
    BY <2>1 DEF Reclaim, ReclaimRunningTranscodes
  <2>2. CASE Claim
    BY <2>2 DEF Claim, NextTranscode, Claimable
  <2>3. CASE Judge
    BY <2>3 DEF Judge, RequeueTranscode
  <2>4. CASE RecordFailure
    BY <2>4 DEF RecordFailure, FailTranscode, Spend
  <2>5. CASE RecordSuccess
    BY <2>5 DEF RecordSuccess, FinishTranscode, Spend
  <2>6. CASE Drained \/ EncodeEnds \/ FiledOne \/ SweepOne \/ SweepEnds \/ Wait \/ Stop
    BY <2>6, Zenon DEF Drained, EncodeEnds, FiledOne, SweepOne, SweepEnds, Wait, Stop
  <2> QED BY <1>1, <2>1, <2>2, <2>3, <2>4, <2>5, <2>6 DEF RunnerStep
<1>2. CASE FilerStep
  <2>1. ASSUME NEW f \in Filers, FileTitle(f) PROVE AttemptsAreSpent'
    BY <2>1 DEF FileTitle, FileStat, FileLink, FileRecord
  <2>2. CASE BluRayDir
    BY <2>2 DEF BluRayDir
  <2>3. CASE BluRayRow
    BY <2>3 DEF BluRayRow, RecordTranscode, Overtake
  <2> QED BY <1>2, <2>1, <2>2, <2>3 DEF FilerStep
<1>3. CASE ClientStep
  <2>1. ASSUME NEW d \in Disc, QueueTitle(d) PROVE AttemptsAreSpent'
    BY <2>1 DEF QueueTitle, QueueTranscode, Overtake
  <2>2. ASSUME NEW j \in Job, RetryReset(j) PROVE AttemptsAreSpent'
    BY <2>2 DEF RetryReset, ResetTranscodeAttempts
  <2>3. ASSUME NEW d \in Disc, QueueDone(d) PROVE AttemptsAreSpent'
    BY <2>3 DEF QueueDone
  <2>4. ASSUME NEW j \in Job, RetryNudge(j) PROVE AttemptsAreSpent'
    BY <2>4 DEF RetryNudge
  <2>5. CASE CancelCall
    BY <2>5 DEF CancelCall
  <2> QED BY <1>3, <2>1, <2>2, <2>3, <2>4, <2>5 DEF ClientStep
<1>4. CASE Arrival
  <2>1. ASSUME NEW j \in Job, BluRayEncoded(j) PROVE AttemptsAreSpent'
    BY <2>1 DEF BluRayEncoded
  <2>2. ASSUME NEW d \in Disc, RipFinished(d) \/ RequeueDisc(d) PROVE AttemptsAreSpent'
    BY <2>2 DEF RipFinished, RequeueDisc
  <2>3. ASSUME NEW j \in Job, RetryCheck(j) PROVE AttemptsAreSpent'
    BY <2>3 DEF RetryCheck
  <2>4. CASE CancelRead
    BY <2>4 DEF CancelRead
  <2> QED BY <1>4, <2>1, <2>2, <2>3, <2>4 DEF Arrival
<1>5. CASE Boot \/ Crash \/ Shutdown
  BY <1>5 DEF Boot, Crash, Shutdown
<1>6. CASE Tick \/ LibraryLost \/ LibraryBack \/ HandEdit
  BY <1>6 DEF Tick, LibraryLost, LibraryBack, HandEdit
<1>7. CASE UNCHANGED vars
  BY <1>7 DEF vars
<1> QED BY <1>1, <1>2, <1>3, <1>4, <1>5, <1>6, <1>7 DEF Next

\* An encode that a cancel, a shutdown or a crash interrupted is never charged
\* to a job that was not re-queued meanwhile.
THEOREM InterruptionsAreFree == Spec => []AttemptsAreSpent
<1>1. Init => AttemptsAreSpent
  BY DEF Init, AttemptsAreSpent
<1> QED BY TypedInit, TypedStep, SpentStep, <1>1, PTL DEF Spec

-----------------------------------------------------------------------------

\* A step that changes who holds a library name in use is a person clearing it:
\* fileTitle writes a name only through CanLink, which wants it free.
LEMMA ClobberStep ==
    ASSUME Typed, [Next]_vars
    PROVE  \A p \in Path : libBy[p] # None => libBy'[p] \in {libBy[p], None}
<1> USE QueueConstants DEF files, Typed, TypeOK
<1>1. CASE RunnerStep
  BY <1>1, Zenon DEF RunnerStep, Reclaim, Claim, Drained, EncodeEnds, Judge, RecordFailure,
     RecordSuccess, FiledOne, SweepOne, SweepEnds, Wait, Stop
<1>2. CASE FilerStep
  BY <1>2 DEF FilerStep, FileTitle, FileStat, FileLink, FileRecord, CanLink, BluRayDir, BluRayRow
<1>3. CASE ClientStep
  BY <1>3, Zenon DEF ClientStep, QueueTitle, QueueDone, RetryReset, RetryNudge, CancelCall
<1>4. CASE Arrival
  BY <1>4, Zenon DEF Arrival, RipFinished, RequeueDisc, BluRayEncoded, RetryCheck, CancelRead
<1>5. CASE Boot \/ Crash \/ Shutdown \/ Tick \/ LibraryLost \/ LibraryBack
  BY <1>5 DEF Boot, Crash, Shutdown, Tick, LibraryLost, LibraryBack
<1>6. CASE HandEdit
  BY <1>6 DEF HandEdit
<1>7. CASE UNCHANGED vars
  BY <1>7 DEF vars
<1> QED BY <1>1, <1>2, <1>3, <1>4, <1>5, <1>6, <1>7 DEF Next

\* Nothing hellbox does takes over a library name that is in use.
THEOREM FilingNeverClobbers == Spec => NeverClobbers
<1>1. Typed /\ [Next]_vars =>
        [\A p \in Path : libBy[p] # None => libBy'[p] \in {libBy[p], None}]_libBy
  BY ClobberStep
<1> QED BY TypedInit, TypedStep, <1>1, PTL DEF Spec, NeverClobbers
=============================================================================
