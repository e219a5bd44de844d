----------------------------- MODULE EventFeed ------------------------------
(***************************************************************************)
(* What the event stream promises its reader (internal/api/server.go, the  *)
(* comments in events): every event is handed over before the reader's     *)
(* place moves past it, unless the reader is told that it is too far       *)
(* behind, which is so only when more events wait than the daemon keeps.   *)
(***************************************************************************)
EXTENDS Integers

CONSTANT Kept  \* how many events the daemon keeps for replay

VARIABLES
    log,   \* the id of the latest event
    given, \* the events the reader was given
    place, \* the last event the reader has finished with
    told   \* the reader has been told that it missed events

feedVars == <<log, given, place, told>>

FeedInit == log = 0 /\ given = {} /\ place = 0 /\ told = FALSE

FeedPublish == log' = log + 1 /\ UNCHANGED <<given, place, told>>

FeedGive ==
    /\ \E e \in 1 .. log : given' = given \cup {e}
    /\ UNCHANGED <<log, place, told>>

FeedFinish ==
    /\ place + 1 \in given
    /\ place' = place + 1
    /\ UNCHANGED <<log, given, told>>

FeedTell ==
    /\ log - place > Kept
    /\ told' = TRUE
    /\ place' \in place .. log
    /\ UNCHANGED <<log, given>>

FeedNext == FeedPublish \/ FeedGive \/ FeedFinish \/ FeedTell

FeedSpec == FeedInit /\ [][FeedNext]_feedVars
=============================================================================
