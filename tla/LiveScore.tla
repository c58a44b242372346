------------------------------ MODULE LiveScore ------------------------------
(***************************************************************************)
(* One match on court, as Sofascore's feed lets the site see it: the live  *)
(* snapshot, and the result.                                               *)
(*                                                                         *)
(* poll_once reads the live list every ten seconds, and by its id an event *)
(* that the list has dropped; it commits what changed and only then tells  *)
(* the pages and the Lock Screens.  sweep_once records the winner.  Either *)
(* may be answered by a cache node that holds an older copy.               *)
(*                                                                         *)
(* A definition named A_B just before A is A gone wrong in the way B says: *)
(* no behaviour uses it, and each property is known to catch one of them.  *)
(***************************************************************************)
EXTENDS Naturals

CONSTANTS
    Top,        \* the last score of the match; scores are 0 .. Top
    Columns,    \* score -> the sets begun
    None,       \* no snapshot, no read
    Mishaps     \* bound on restarts and failed rounds of the push worker

ASSUME ScoreAssumption ==
    /\ Top \in Nat /\ Mishaps \in Nat
    /\ None \notin 0 .. Top
    /\ Columns \in [0 .. Top -> Nat]

VARIABLES
    play,       \* the score on court
    over,       \* the match has been won
    live,       \* sofa_live_json, and live_scores_json that is promoted from it
    age,        \* how long ago it was confirmed
    held,       \* _HELD: the read held back
    winner,     \* winner_id is set
    drawDone,   \* the draw's status is "completed"
    poll,       \* where the poller stands
    read,       \* what it read: a score, or None if the match is not there
    sweep,      \* where the results sweep stands
    mapped,     \* _tournament_of knows the draw's tournament
    mishaps,
    lastRead    \* history: the last score read, if it had lost a set

scoreVars == <<play, over, live, age, held, winner, drawDone, poll, read, sweep,
               mapped, mishaps, lastRead>>

court   == <<play, over, drawDone>>
stored  == <<live, age, winner>>
pollers == <<poll, read, sweep, mapped>>

Scores == 0 .. Top
Ages   == <<"new", "due", "stale", "gone">>     \* 22.5 s, FRESH_SECONDS, GONE_AFTER

ScoreInit ==
    /\ play = 0 /\ over = FALSE /\ winner = FALSE /\ drawDone = FALSE
    /\ live = None /\ age = "new" /\ held = None
    /\ poll = "idle" /\ read = None /\ sweep = "idle"
    /\ mapped = TRUE /\ mishaps = 0 /\ lastRead = None

-----------------------------------------------------------------------------
(* The world.                                                              *)

PointPlayed ==
    /\ ~over /\ play < Top
    /\ play' = play + 1
    /\ UNCHANGED <<over, drawDone, stored, held, pollers, mishaps, lastRead>>

MatchWon ==
    /\ ~over /\ over' = TRUE
    /\ UNCHANGED <<play, drawDone, stored, held, pollers, mishaps, lastRead>>

\* A scrape finds a champion on the page, who may be there before the match is over.
DrawCompleted ==
    /\ ~drawDone /\ drawDone' = TRUE
    /\ UNCHANGED <<play, over, stored, held, pollers, mishaps, lastRead>>

TimePasses ==
    /\ live # None
    /\ \E i \in 1 .. 3 : age = Ages[i] /\ age' = Ages[i + 1]
    /\ UNCHANGED <<court, live, winner, held, pollers, mishaps, lastRead>>

-----------------------------------------------------------------------------
(* SofascoreLiveMonitor.                                                   *)

\* A completed draw is tracked while a match of it has no result.
Tracked == ~drawDone \/ ~winner

\* Whether the round is spent at all (_anything_on_court) ESPN's scoreboard may decide,
\* so any round may come.  The match is listed, or found by its id, or neither; the
\* copy may be an old one, and the list of a match that is over too.
PollReads ==
    /\ poll = "idle" /\ Tracked
    /\ read' \in 0 .. play \cup {None}
    /\ poll' = "writing" /\ mapped' = TRUE
    /\ UNCHANGED <<court, stored, held, sweep, mishaps, lastRead>>

\* A round, of the poller or of the sweep, that finds the draw done with reads nothing,
\* and forgets its tournament.
Forgets ==
    /\ ~Tracked /\ (poll = "idle" \/ sweep = "idle")
    /\ mapped /\ mapped' = FALSE
    /\ UNCHANGED <<court, stored, held, poll, read, sweep, mishaps, lastRead>>

LostASet(v) == live # None /\ Columns[v] < Columns[live]

\* "Held for ONE read: a shrink that comes back identical is a correction."
Keeps(v) == LostASet(v) /\ held # v

\* What is held is forgotten when the match reads right again.
Reset_Never(v) == held
Reset(v)       == None

PollTakes(v) ==
    IF Keeps(v)
    THEN held' = v /\ poll' = "idle" /\ UNCHANGED <<live, age>>
    ELSE /\ held' = Reset(v)
         /\ IF v # live \/ age # "new"
            THEN live' = v /\ age' = "new" /\ poll' = "telling"
            ELSE poll' = "idle" /\ UNCHANGED <<live, age>>

\* "Missing from one poll is not the same as over": a result clears it, or GONE_AFTER.
PollMisses ==
    /\ IF live # None /\ (winner \/ age = "gone")
       THEN live' = None /\ age' = "new" /\ poll' = "telling"
       ELSE poll' = "idle" /\ UNCHANGED <<live, age>>
    /\ UNCHANGED held

PollWrites ==
    /\ poll = "writing"
    /\ IF read = None THEN PollMisses ELSE PollTakes(read)
    /\ read' = None
    /\ lastRead' = IF read = None THEN lastRead ELSE IF LostASet(read) THEN read ELSE None
    /\ UNCHANGED <<court, winner, sweep, mapped, mishaps>>

\* After the commit; who is told, the other modules say.
PollTells ==
    /\ poll = "telling" /\ poll' = "idle"
    /\ UNCHANGED <<court, stored, held, read, sweep, mapped, mishaps, lastRead>>

-----------------------------------------------------------------------------
(* SofascoreResultsMonitor, with Sofascore as the source of record.        *)

\* Each page of results is committed; then the next is asked for, and the next draw's.
SweepRecords ==
    /\ sweep = "idle" /\ over /\ ~winner
    /\ winner' = TRUE /\ sweep' = "telling" /\ mapped' = TRUE
    /\ UNCHANGED <<court, live, age, held, poll, read, mishaps, lastRead>>

SweepEnds ==
    /\ sweep = "telling" /\ sweep' = "idle"
    /\ UNCHANGED <<court, stored, held, poll, read, mapped, mishaps, lastRead>>

\* After the last page.  The pages of the site are told; the Lock Screens are not.
SweepTells == SweepEnds

\* A refusal, or a commit that fails, at a later page: the sweep tells nobody, and the
\* next one finds nothing to write.
SweepLeaves == SweepEnds

\* A restart keeps what is stored.
ScoreRestart ==
    /\ mishaps < Mishaps /\ mishaps' = mishaps + 1
    /\ poll' = "idle" /\ read' = None /\ held' = None /\ sweep' = "idle"
    /\ mapped' = FALSE
    /\ UNCHANGED <<court, stored, lastRead>>

ScoreMoves == PointPlayed \/ MatchWon \/ DrawCompleted \/ TimePasses
              \/ PollReads \/ PollWrites \/ SweepRecords

-----------------------------------------------------------------------------
(* Properties.                                                             *)

\* The snapshot, the reads and the pollers keep the shape the code gives them, and a
\* winner is only of a match that was won.
ScoreTypeOK ==
    /\ play \in Scores /\ live \in Scores \cup {None} /\ read \in Scores \cup {None}
    /\ held \in Scores \cup {None} /\ lastRead \in Scores \cup {None}
    /\ over \in BOOLEAN /\ winner \in BOOLEAN /\ drawDone \in BOOLEAN
    /\ age \in {"new", "due", "stale", "gone"}
    /\ poll \in {"idle", "writing", "telling"} /\ sweep \in {"idle", "telling"}
    /\ mapped \in BOOLEAN /\ mishaps \in 0 .. Mishaps
    /\ winner => over

\* "A read that loses a set is stale, not a correction": the score goes back a set
\* only if the read before says the same, whatever came, aged or was cleared between.
ASetIsNotTakenBack ==
    [][live' # None /\ LostASet(live') => lastRead = live']_scoreVars
=============================================================================
