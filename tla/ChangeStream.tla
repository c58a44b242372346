---------------------------- MODULE ChangeStream -----------------------------
(***************************************************************************)
(* A page that shows the match, and the bare nudges that tell it to ask    *)
(* again: a bounded queue for each subscriber, which the publisher fills   *)
(* without waiting and drops into when it is full.  A page subscribes by   *)
(* the id it happens to hold, of the draw or of the tournament.            *)
(***************************************************************************)
EXTENDS LiveScore

CONSTANT Room       \* maxsize of a subscriber's queue

ASSUME StreamAssumption == Room \in Nat \ {0}

VARIABLES
    key,        \* the id the page holds
    line,       \* its event stream is open
    queue,      \* nudges waiting
    asked,      \* it is about to fetch
    view,       \* what it shows
    lapsed      \* history: since it last fetched its stream was down, or of a change
                \* nobody with its id was told

streamVars == <<key, line, queue, asked, view, lapsed>>

Shown == <<live, winner>>

StreamInit ==
    /\ key \in {"draw", "tournament"}
    /\ line \in BOOLEAN /\ lapsed = ~line
    /\ queue = 0 /\ asked = FALSE
    /\ view = Shown

\* "Publishers now pass every id that identifies what changed."
Ids_TournamentOnly == {"tournament"}
Ids                == {"draw"} \cup (IF mapped THEN {"tournament"} ELSE {})

HasRoom_Always == TRUE
HasRoom        == queue < Room

\* The tournament may have been forgotten since.
Forgotten == key = "tournament" /\ ~mapped

Publish ==
    /\ queue' = IF line /\ key \in Ids /\ HasRoom THEN queue + 1 ELSE queue
    /\ lapsed' = (lapsed \/ (Forgotten /\ view # Shown))
    /\ UNCHANGED <<key, line, asked, view>>

\* A sweep that leaves early.
NotTold ==
    /\ lapsed' = (lapsed \/ view # Shown)
    /\ UNCHANGED <<key, line, queue, asked, view>>

TakeNudge ==
    /\ line /\ queue > 0
    /\ queue' = queue - 1 /\ asked' = TRUE
    /\ UNCHANGED <<key, line, view, lapsed>>

\* refetchInterval, "the safety net for a dropped connection".
IntervalEnds ==
    /\ ~asked /\ asked' = TRUE
    /\ UNCHANGED <<key, line, queue, view, lapsed>>

\* A nudge during a fetch cancels it and fetches again, so only the last one counts.
Fetch ==
    /\ asked /\ asked' = FALSE
    /\ view' = Shown
    /\ lapsed' = ~line
    /\ UNCHANGED <<key, line, queue>>

\* The stream breaks, and the browser opens it again without fetching.
LineDrops ==
    /\ line
    /\ line' = FALSE /\ queue' = 0 /\ lapsed' = TRUE
    /\ UNCHANGED <<key, asked, view>>

LineReopens ==
    /\ ~line /\ line' = TRUE
    /\ UNCHANGED <<key, queue, asked, view, lapsed>>

StreamMoves == TakeNudge \/ IntervalEnds \/ Fetch \/ LineDrops \/ LineReopens

-----------------------------------------------------------------------------
(* Properties.                                                             *)

\* Queue and page keep the shape the code gives them.
StreamTypeOK ==
    /\ key \in {"draw", "tournament"}
    /\ line \in BOOLEAN /\ asked \in BOOLEAN /\ lapsed \in BOOLEAN
    /\ queue \in 0 .. Room
    /\ view \in (Scores \cup {None}) \X BOOLEAN

\* A dropped nudge loses nothing: a page whose stream has held since it last fetched,
\* and that does not show what is stored, has a nudge waiting, is about to fetch, or is
\* about to be told, whichever of the two pollers wrote and whichever id it holds.  Two
\* changes wait for its interval instead: those of a sweep that leaves before it tells,
\* and, for a page that holds the tournament's id, those of a draw forgotten meanwhile.
NudgeIsComing ==
    line /\ ~lapsed /\ view # Shown =>
        queue > 0 \/ asked \/ poll = "telling" \/ sweep = "telling"
=============================================================================
