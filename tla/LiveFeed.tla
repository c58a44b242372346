------------------------------ MODULE LiveFeed -------------------------------
(***************************************************************************)
(* The pollers with those they tell.  Pages and cards do not touch each    *)
(* other, so a behaviour follows a page or the cards, chosen at the start, *)
(* and the other stands still.                                             *)
(***************************************************************************)
EXTENDS ChangeStream, LockScreen

CONSTANTS
    CardTop,        \* the last score played while the cards are followed
    Completing      \* whether the draw is completed while the page, or the cards, are

ASSUME FeedAssumption == CardTop \in 0 .. Top /\ Completing \subseteq {"page", "cards"}

VARIABLE watched

vars == <<watched, scoreVars, streamVars, cardVars>>

Init ==
    /\ ScoreInit /\ StreamInit /\ CardsInit
    /\ watched \in {"page", "cards"}
    /\ watched = "page" \/ (key = "draw" /\ ~line)

Page(A)      == watched = "page" /\ A
OnCards(A)   == watched = "cards" /\ A
ScoreStands  == UNCHANGED scoreVars
PageStands   == UNCHANGED streamVars
CardsStand   == UNCHANGED cardVars

\* Only the pages are told by the id of a tournament.
TournamentGoes == Page(Forgets) /\ PageStands /\ CardsStand

\* The poller publishes and enqueues, the sweep publishes.
Tells == PollTells /\ \/ Page(Publish) /\ CardsStand
                      \/ OnCards(Enqueue) /\ PageStands
SweepTellsPages == SweepTells /\ CardsStand /\ \/ Page(Publish)
                                               \/ OnCards(PageStands)
SweepTellsNobody == SweepLeaves /\ CardsStand /\ \/ Page(NotTold)
                                                 \/ OnCards(PageStands)

Fails    == /\ mishaps < Mishaps /\ mishaps' = mishaps + 1
            /\ OnCards(WorkerFails)
            /\ UNCHANGED <<play, over, live, age, held, winner, drawDone, pollers, lastRead>>

\* The event streams end with the process.
Restart  == /\ ScoreRestart
            /\ \/ Page(LineDrops \/ (~line /\ PageStands)) /\ CardsStand
               \/ OnCards(WorkerRestarts) /\ PageStands

Next ==
    /\ \/ /\ ScoreMoves /\ PageStands /\ CardsStand
          /\ watched = "page" \/ play' <= CardTop
          /\ drawDone' => drawDone \/ watched \in Completing
       \/ TournamentGoes \/ Tells \/ SweepTellsPages \/ SweepTellsNobody \/ Restart
       \/ Page(StreamMoves) /\ ScoreStands /\ CardsStand
       \/ OnCards(CardMoves) /\ ScoreStands /\ PageStands
       \/ Fails /\ PageStands
    /\ UNCHANGED watched

\* The worker's rounds go on, in every thirty seconds one of them reaps; a
\* registration needs no promise: there are only so many of them.
Round   == OnCards(Worker) /\ ScoreStands /\ PageStands /\ UNCHANGED watched
Reaping == OnCards(WorkerReaps) /\ ScoreStands /\ PageStands /\ UNCHANGED watched
Fair    == WF_vars(Round) /\ SF_vars(Reaping)

Spec == Init /\ [][Next]_vars /\ Fair

-----------------------------------------------------------------------------

\* Each part keeps the shape the code gives it.
LiveTypeOK == ScoreTypeOK /\ StreamTypeOK /\ CardTypeOK
=============================================================================
