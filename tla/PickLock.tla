----------------------------- MODULE PickLock ------------------------------
(***************************************************************************)
(* When a draw's picks may still change, and what a save does about it.    *)
(*                                                                         *)
(* One draw row, its match rows' evidence of play, the users' stored picks *)
(* and the saves in flight.  The backend is one asyncio process over       *)
(* SQLite: a handler is interrupted at its awaits, so a save is a sequence *)
(* of steps between which the feeds, the scraper, the clock, admins and    *)
(* other saves run.  From a transaction's first write to its commit nobody *)
(* else can write, so that stretch is one step.                            *)
(*                                                                         *)
(* A definition named A_B just before A is A gone wrong in the way B says: *)
(* no behaviour uses it, and each property is known to catch one of them.  *)
(***************************************************************************)
EXTENDS Bracket, FiniteSets

CONSTANTS
    Users, Requests,
    Owner,              \* request -> the user whose bracket it saves
    Bodies,             \* what a client may post: contest -> entrant, or Nobody to clear it
    Attempts,           \* tries save_predictions makes before it answers 503
    Late,               \* positions whose entry has no name yet when the draw comes out
    Sheets,             \* what a scrape may read (see Scrape)
    SofaAuthoritative,  \* Sofascore promotes what it sees into the scoring columns
    StartStamps,        \* whether a Sofascore event carries a start time
    EspnFeed, SofaFeed, \* which feeds report on this draw
    LockLead,           \* LOCK_LEAD_DAYS
    LockTrail,          \* espn_monitor._LOCK_TRAIL_DAYS
    OpenWindow,         \* days before start_date from which a released draw reads open
    Backstop,           \* days after start_date at which a draw reads completed
    FirstDay, LastDay,  \* bounds on start_date - today
    SiteDefault,        \* the site-wide mode before any admin sets it
    AdminMay            \* which admin endpoints are used

VARIABLES
    draw,       \* the draw row
    siteMode,   \* the site-wide pick_lock_mode setting
    evidence,   \* contest -> the columns of its row that show play
    named,      \* entrants whose entry carries a name
    picks,      \* user -> match -> predicted winner, or Nobody for no row
    req,        \* request -> where its handler stands
    shown       \* history: others' brackets were served under match-by-match locking

vars == <<draw, siteMode, evidence, named, picks, req, shown>>

DrawStart   == "draw_start"
Progressive == "r1_progressive"
LockModes   == {DrawStart, Progressive}
Begun       == {"active", "completed"}

Columns == {"winner", "live", "sofa_started", "sofa_live", "sofa_winner"}
Body    == UNION {[D -> Slot] : D \in SUBSET Contests}
Empty   == [m \in {} |-> Nobody]

ASSUME PickLockAssumption ==
    /\ Owner \in [Requests -> Users]
    /\ Bodies \subseteq Body
    /\ Attempts \in Nat \ {0}
    /\ Late \subseteq Entrants
    /\ SofaAuthoritative \in BOOLEAN /\ StartStamps \subseteq BOOLEAN
    /\ EspnFeed \in BOOLEAN /\ SofaFeed \in BOOLEAN
    /\ LockLead \in Nat /\ LockTrail \in Nat /\ OpenWindow \in Nat /\ Backstop \in Nat
    /\ FirstDay \in Int /\ LastDay \in Int /\ FirstDay <= 0 /\ FirstDay <= LastDay
    /\ Sheets \subseteq
         [complete : BOOLEAN, dated : BOOLEAN, start : FirstDay .. LastDay,
          dayIndex : SUBSET (FirstDay .. LastDay), carriesResults : BOOLEAN,
          played : {"none", "scores", "some", "all"}, names : SUBSET Entrants]
    /\ SiteDefault \in LockModes
    /\ AdminMay \subseteq {"unlock", "draw_mode", "site_mode"}

DrawRow ==
    [mode : LockModes \cup {"unset"}, lockedAt : BOOLEAN, unlocked : BOOLEAN,
     status : {"upcoming"} \cup Begun, released : BOOLEAN,
     day : FirstDay .. LastDay,      \* start_date - today
     closing : BOOLEAN]              \* closing_time has passed

Request ==
    [pc : {"idle", "open", "join", "joining", "check", "read", "commit"},
     body : Bodies \cup {Empty},
     fresh : BOOLEAN,                \* history: the user had no pick when it was posted
     locked : SUBSET Matches,        \* lock.locked_match_ids
     seen : [Matches -> Slot],       \* the stored picks it last read
     gone : SUBSET Matches,          \* rows it read that were deleted since
     tries : 0 .. Attempts - 1,
     answer : {"none", "saved", "locked", "refused", "busy", "error"}]

Idle(answer) ==
    [pc |-> "idle", body |-> Empty, fresh |-> FALSE, locked |-> {}, seen |-> NoPicks,
     gone |-> {}, tries |-> 0, answer |-> answer]

Init ==
    /\ draw \in {d \in DrawRow : /\ d.mode = "unset" /\ ~d.lockedAt /\ ~d.unlocked
                                 /\ d.status = "upcoming" /\ ~d.released
                                 /\ d.day = LastDay /\ ~d.closing}
    /\ siteMode = SiteDefault
    /\ evidence = [m \in Contests |-> {}]
    /\ named = Entrants \ Late
    /\ picks = [u \in Users |-> NoPicks]
    /\ req = [r \in Requests |-> Idle("none")]
    /\ shown = FALSE

-----------------------------------------------------------------------------
(* What the draw row says (models/tournament.py).                          *)

\* ESPN saw play, at most LOCK_LEAD_DAYS before the draw's start_date.
SeenAhead_Strict(d) == d.lockedAt /\ d.day < LockLead
SeenAhead(d)        == d.lockedAt /\ d.day <= LockLead

\* Draw.computed_status.  A completed draw reads "active" until its end_date;
\* every reader here treats the two alike, so end_date is left out.
ComputedStatus(d) ==
    IF d.mode = Progressive /\ ~d.lockedAt /\ d.released /\ d.status \notin Begun THEN "open"
    ELSE IF d.day > 0 THEN
        IF SeenAhead(d) THEN "active"
        ELSE IF d.released /\ d.day <= OpenWindow THEN "open" ELSE "upcoming"
    ELSE IF d.status = "completed" \/ -d.day > Backstop THEN "completed"
    ELSE IF \/ d.lockedAt
            \/ d.day < 0 /\ (d.closing \/ d.released)
            \/ d.released /\ d.status = "active" /\ d.closing
         THEN "active"
    ELSE IF d.released THEN "open" ELSE "upcoming"

\* Draw.is_locked
IsLocked(d) ==
    /\ ~d.unlocked
    /\ IF d.mode = Progressive THEN d.lockedAt ELSE ComputedStatus(d) \in Begun

-----------------------------------------------------------------------------
(* Which picks may change (services/locking.py).                           *)

\* match_in_play: any evidence of play counts, whichever feed saw it.
InPlay_PrimaryColumns(m) == evidence[m] \cap {"winner", "live"} # {}
InPlay(m)                == evidence[m] # {}

\* resolve_draw_lock_mode: the draw's own rule, stamped from the site default.
Stamped(d) == IF d.mode \in LockModes THEN d ELSE [d EXCEPT !.mode = siteMode]

RoundOneStarted_Any == \E m \in RoundOne : InPlay(m)
RoundOneStarted     == RoundOne # {} /\ \A m \in RoundOne : InPlay(m)

\* _locked_with_downstream: byes, and whatever a match in play has settled.
FrozenMatches_Alone == Byes \cup {k \in Contests : InPlay(k)}
FrozenMatches ==
    Byes \cup UNION {PathToFinal(m) : m \in {k \in Contests : InPlay(k)}}

\* draw_lock_state, as its answer and what it leaves on the row.
RoundOver(d) ==
    /\ ~d.unlocked /\ Stamped(d).mode = Progressive
    /\ d.status = "completed" \/ RoundOneStarted

Closed(d) ==
    /\ ~d.unlocked
    /\ \/ RoundOver(d)
       \/ Stamped(d).mode = DrawStart /\ IsLocked(Stamped(d))

LockedIds(d) ==
    IF d.unlocked \/ Stamped(d).mode = DrawStart THEN {} ELSE FrozenMatches

Resolved_Unstamped(d) == Stamped(d)
Resolved(d) ==
    IF RoundOver(d) THEN [Stamped(d) EXCEPT !.lockedAt = TRUE] ELSE Stamped(d)

\* predictions_visible: may one user read another's bracket?
PredictionsVisible_FirstBall ==
    draw.status = "completed" \/ Stamped(draw).mode # Progressive \/ RoundOneStarted_Any
PredictionsVisible ==
    draw.status = "completed" \/ Stamped(draw).mode # Progressive \/ RoundOneStarted

-----------------------------------------------------------------------------
(* PUT /predictions/{draw} (routers/predictions.py).                       *)

Answer(r, a) == req' = [req EXCEPT ![r] = Idle(a)]

\* A failed attempt starts over in a fresh session, four times at most.
Again(r, tries) ==
    req' = [req EXCEPT ![r].pc = "open", ![r].tries = tries, ![r].locked = {},
                       ![r].seen = NoPicks, ![r].gone = {}]

Retry_OnceMore(r) ==
    IF req[r].tries = Attempts THEN Answer(r, "busy") ELSE Again(r, req[r].tries + 1)
Retry_Forever(r) == Again(r, 0)
Retry(r) ==
    IF req[r].tries + 1 = Attempts THEN Answer(r, "busy")
    ELSE Again(r, req[r].tries + 1)

Post(r, body) ==
    /\ req[r].pc = "idle"
    /\ req' = [req EXCEPT ![r] =
                 [Idle("none") EXCEPT !.pc = "open", !.body = body,
                                      !.fresh = (picks[Owner[r]] = NoPicks)]]
    /\ UNCHANGED <<draw, siteMode, evidence, named, picks, shown>>

\* draw_lock_state, and the 403 for a closed draw.
ReadLock(r) ==
    /\ req[r].pc = "open"
    /\ draw' = Resolved(draw)
    /\ IF Closed(draw) THEN Answer(r, "locked")
       ELSE req' = [req EXCEPT ![r].locked = LockedIds(draw),
                               ![r].pc = IF LockedIds(draw) = {} THEN "read" ELSE "join"]
    /\ UNCHANGED <<siteMode, evidence, named, picks, shown>>

\* fill_missing_picks(restrict_to=locked) reads what the user has stored ...
JoinRead(r) ==
    /\ req[r].pc = "join"
    /\ req' = [req EXCEPT ![r].seen = picks[Owner[r]], ![r].pc = "joining"]
    /\ UNCHANGED <<draw, siteMode, evidence, named, picks, shown>>

\* ... and inserts the favourite where nothing was, committed on its own.  A row
\* somebody else inserted meanwhile fails the unique constraint, which no
\* handler catches.
JoinCommit(r) ==
    LET u     == Owner[r]
        new   == FillMissing(req[r].seen, req[r].locked, named)
        added == {m \in Matches : new[m] # req[r].seen[m]}
    IN  /\ req[r].pc = "joining"
        /\ IF \E m \in added : picks[u][m] # Nobody
           THEN Answer(r, "error") /\ UNCHANGED picks
           ELSE /\ picks' = [picks EXCEPT ![u] =
                                [m \in Matches |-> IF m \in added THEN new[m] ELSE @[m]]]
                /\ req' = [req EXCEPT ![r].pc = "check", ![r].seen = NoPicks]
        /\ UNCHANGED <<draw, siteMode, evidence, named, shown>>

\* rejected_changes, against what is stored now.
Rejected_InPlayOnly(r) ==
    {m \in DOMAIN req[r].body \cap req[r].locked :
        m \in Contests /\ InPlay(m) /\ picks[Owner[r]][m] # req[r].body[m]}
Rejected(r) ==
    {m \in DOMAIN req[r].body \cap req[r].locked : picks[Owner[r]][m] # req[r].body[m]}

Check(r) ==
    /\ req[r].pc = "check"
    /\ IF Rejected(r) # {} THEN Answer(r, "refused")
       ELSE req' = [req EXCEPT ![r].pc = "read"]
    /\ UNCHANGED <<draw, siteMode, evidence, named, picks, shown>>

\* existing_preds
Read(r) ==
    /\ req[r].pc = "read"
    /\ req' = [req EXCEPT ![r].seen = picks[Owner[r]], ![r].pc = "commit"]
    /\ UNCHANGED <<draw, siteMode, evidence, named, picks, shown>>

\* A bracket with the favourite on everything its owner left blank.
Completed_Never(stored, names) == stored
Completed_FirstTime(stored, names) ==
    IF stored = NoPicks THEN FillMissing(stored, Matches, names) ELSE stored
Completed_Apart(stored, names) ==
    [m \in Matches |-> IF stored[m] # Nobody \/ m \in Byes THEN stored[m]
                       ELSE ProjectBracket(NoPicks, names)[m]]
Completed_Over(stored, names) == FillMissing(NoPicks, Matches, names)
Completed(stored, names)      == FillMissing(stored, Matches, names)

\* The body applied to the rows read - only what differs is written - then the
\* favourite on every contest still without a pick, all in one transaction.
Commit(r) ==
    LET u       == Owner[r]
        body    == req[r].body
        seen    == req[r].seen
        gone    == req[r].gone
        changed == {m \in DOMAIN body : body[m] # seen[m]}
        updated == {m \in changed : seen[m] # Nobody /\ body[m] # Nobody}
        added   == {m \in changed : seen[m] = Nobody}
        deleted == {m \in changed : body[m] = Nobody} \ gone
        applied == [m \in Matches |-> IF m \in added \cup updated THEN body[m]
                                      ELSE IF m \in deleted THEN Nobody ELSE picks[u][m]]
    IN  /\ req[r].pc = "commit"
        /\ \/ /\ updated \cap gone # {}                     \* StaleDataError
              /\ Retry(r) /\ UNCHANGED picks
           \/ /\ updated \cap gone = {}                     \* IntegrityError
              /\ \E m \in added : picks[u][m] # Nobody
              /\ Answer(r, "error") /\ UNCHANGED picks
           \/ /\ updated \cap gone = {}
              /\ \A m \in added : picks[u][m] = Nobody
              /\ picks' = [picks EXCEPT ![u] = Completed(applied, named)]
              /\ req' = [q \in Requests |->
                            IF q = r THEN Idle("saved")
                            ELSE IF Owner[q] = u /\ req[q].pc = "commit"
                            THEN [req[q] EXCEPT !.gone =
                                    @ \cup {m \in deleted : req[q].seen[m] # Nobody}]
                            ELSE req[q]]
        /\ UNCHANGED <<draw, siteMode, evidence, named, shown>>

\* SQLite hands the writer to somebody else: "database is locked" at any write.
Busy(r) ==
    /\ req[r].pc \in {"open", "joining", "commit"}
    /\ Retry(r)
    /\ UNCHANGED <<draw, siteMode, evidence, named, picks, shown>>

SaveStep(r) ==
    ReadLock(r) \/ JoinRead(r) \/ JoinCommit(r) \/ Check(r) \/ Read(r) \/ Commit(r)

-----------------------------------------------------------------------------
(* Readers of the lock, and the admin endpoints.                           *)

\* The draw endpoint and the chances warmer ask draw_lock_state too.
ReadLockState ==
    /\ draw' = Resolved(draw)
    /\ UNCHANGED <<siteMode, evidence, named, picks, req, shown>>

\* The only reader on a schedule is the warmer, and it looks at a draw once one of its
\* matches is over.
MatchOver   == \E m \in Contests : "winner" \in evidence[m]
WarmerReads == MatchOver /\ ReadLockState

\* GET /predictions/{draw}?user_id=: somebody else's bracket, when it is visible.
ReadBracket ==
    /\ PredictionsVisible
    /\ draw' = IF draw.status = "completed" THEN draw ELSE Stamped(draw)
    /\ shown' = (shown \/ Stamped(draw).mode = Progressive)
    /\ UNCHANGED <<siteMode, evidence, named, picks, req>>

ToggleUnlock ==
    /\ "unlock" \in AdminMay
    /\ draw' = [draw EXCEPT !.unlocked = ~@]
    /\ UNCHANGED <<siteMode, evidence, named, picks, req, shown>>

\* Only before play, and a cleared mode is stamped again at once.
SetDrawMode(mode) ==
    /\ "draw_mode" \in AdminMay
    /\ ComputedStatus(draw) \in {"upcoming", "open"}
    /\ draw' = Stamped([draw EXCEPT !.mode = mode])
    /\ UNCHANGED <<siteMode, evidence, named, picks, req, shown>>

SetSiteMode(mode) ==
    /\ "site_mode" \in AdminMay
    /\ siteMode' = mode
    /\ UNCHANGED <<draw, evidence, named, picks, req, shown>>

-----------------------------------------------------------------------------
(* The feeds.  A match has its two players once its feeders are decided.   *)

Paired(m) ==
    \A side \in {1, 2} :
        LET f == Feeder(m, side) IN f \in Contests => "winner" \in evidence[f]

EspnWatches == EspnFeed /\ draw.released /\ draw.status # "completed"

\* A completed draw is polled for as long as a match in it has no winner.
SofaTracks ==
    /\ SofaFeed
    /\ \/ draw.status # "completed"
       \/ \E m \in Contests : Paired(m) /\ "winner" \notin evidence[m]

Promoted(column) == IF SofaAuthoritative THEN {column} ELSE {}
Started(stamped) == IF stamped THEN {"sofa_started"} ELSE {}

See(m, columns) ==
    /\ evidence' = [evidence EXCEPT ![m] = columns]
    /\ UNCHANGED <<draw, siteMode, named, picks, req, shown>>

\* _sync_live: an undecided match on court gets live scores, one that left the
\* scoreboard loses them, and a decided one never keeps them.
EspnSyncLive(m) ==
    /\ EspnWatches
    /\ \/ Paired(m) /\ "winner" \notin evidence[m] /\ See(m, evidence[m] \cup {"live"})
       \/ "live" \in evidence[m] /\ See(m, evidence[m] \ {"live"})

\* _sync_results
EspnSyncResults(m) ==
    /\ EspnWatches /\ Paired(m) /\ "winner" \notin evidence[m]
    /\ See(m, (evidence[m] \cup {"winner"}) \ {"live"})

\* poll_once on an event on court.  One joined with games already on the board
\* and no start time is not stamped as started.
SofaPoll(m, stamped) ==
    /\ SofaTracks /\ Paired(m)
    /\ See(m, evidence[m] \cup {"sofa_live"} \cup Started(stamped) \cup Promoted("live"))

\* poll_once on a snapshot whose match is decided or has not been seen for minutes.
SofaRetire(m) ==
    /\ SofaTracks /\ "sofa_live" \in evidence[m]
    /\ See(m, evidence[m] \ ({"sofa_live"} \cup Promoted("live")))

\* The results sweep's _record.
SofaRecord(m, stamped) ==
    /\ SofaTracks /\ Paired(m)
    /\ See(m, evidence[m] \cup {"sofa_winner"} \cup Started(stamped) \cup Promoted("winner"))

\* _on_match_start: ESPN sees main-draw play in a draw on its lock watch.
EspnDetectsStart ==
    /\ EspnFeed
    /\ ~draw.lockedAt /\ draw.released /\ draw.status # "completed"
    /\ draw.day \in -LockTrail .. LockLead
    /\ draw' = IF Stamped(draw).mode = Progressive THEN Stamped(draw)
               ELSE [Stamped(draw) EXCEPT !.lockedAt = TRUE, !.closing = TRUE]
    /\ UNCHANGED <<siteMode, evidence, named, picks, req, shown>>

\* _refine_closing_time: the published order of play dates day one, at most a day
\* from start_date; start_date follows unless that would read as started.
RefineClosing(day1, passed) ==
    /\ EspnFeed
    /\ ~draw.lockedAt /\ draw.released /\ draw.status \notin Begun /\ draw.day >= 0
    /\ day1 \in draw.day - 1 .. draw.day + 1 /\ day1 \in FirstDay .. LastDay
    /\ draw' = [draw EXCEPT !.day = IF day1 >= 0 THEN day1 ELSE @, !.closing = passed]
    /\ UNCHANGED <<siteMode, evidence, named, picks, req, shown>>

\* _fill_unnamed_slots: an opponent we know names the other side.
EspnNamesSlot(p) ==
    /\ EspnFeed /\ draw.released /\ draw.status # "completed"
    /\ p \in Entrants \ named
    /\ \E q \in named : q # p /\ (p + 1) \div 2 = (q + 1) \div 2
    /\ named' = named \cup {p}
    /\ UNCHANGED <<draw, siteMode, evidence, picks, req, shown>>

-----------------------------------------------------------------------------
(* A scrape (_do_scrape), as far as it bears on picks: the dates, the      *)
(* release stamp, the status, names arriving, and the entrants' brackets   *)
(* completed.  A sheet is a parse of the whole bracket.                    *)

\* A released draw's start never moves back to a day that would make it look
\* started.  A source of the bracket's shape alone carries no dates, and a draw
\* whose tour publishes them takes none from a page.
Backdated_OnceLocked(d, sheet) == d.lockedAt /\ sheet.start < d.day /\ sheet.start <= 0
Backdated(d, sheet)            == d.released /\ sheet.start < d.day /\ sheet.start <= 0

Dated(d, sheet, passed) ==
    IF d.status \in Begun THEN d
    ELSE [d EXCEPT !.day = IF ~sheet.dated \/ Backdated(d, sheet) THEN @ ELSE sheet.start,
                   !.closing = IF d.lockedAt THEN @ ELSE passed]

Released(d, sheet) ==
    IF sheet.complete THEN [d EXCEPT !.released = TRUE]
    ELSE IF d.status \in Begun THEN d ELSE [d EXCEPT !.released = FALSE]

\* The US Open's own day index states when play begins, and is believed as it is.
Indexed(d, sheet) ==
    IF sheet.dayIndex = {} THEN d ELSE [d EXCEPT !.day = CHOOSE day \in sheet.dayIndex : TRUE]

\* start_date snaps to today on the first sign of main-draw play.
Snapped(d, sheet) ==
    IF sheet.played # "none" /\ d.day > 0 /\ d.released THEN [d EXCEPT !.day = 0] ELSE d

\* A source that carries no results leaves it to the rows in the database.
Status(d, sheet) ==
    LET decided == {m \in Contests : "winner" \in evidence[m]}
        some == IF sheet.carriesResults THEN sheet.played \in {"some", "all"} ELSE decided # {}
        all  == IF sheet.carriesResults THEN sheet.played = "all" ELSE decided = Contests
    IN  [d EXCEPT !.status = IF all THEN "completed"
                             ELSE IF some /\ d.day <= 0 THEN "active" ELSE "upcoming"]

ScrapedDraw(sheet, passed) ==
    Status(Snapped(Indexed(Released(Dated(draw, sheet, passed), sheet), sheet), sheet), sheet)

\* `announced`: some entry changed in a way the draw's followers are told of.
Scrape(sheet, passed, announced) ==
    /\ draw' = ScrapedDraw(sheet, passed)
    /\ named' = named \cup sheet.names
    /\ picks' = IF announced /\ ~IsLocked(draw')
                THEN [u \in Users |-> IF picks[u] = NoPicks THEN NoPicks
                                      ELSE Completed(picks[u], named')]
                ELSE picks
    /\ UNCHANGED <<siteMode, evidence, req, shown>>

-----------------------------------------------------------------------------
(* The clock.                                                              *)

NextDay ==
    /\ draw.day > FirstDay
    /\ draw' = [draw EXCEPT !.day = @ - 1]
    /\ UNCHANGED <<siteMode, evidence, named, picks, req, shown>>

ClosingPasses ==
    /\ ~draw.closing
    /\ draw' = [draw EXCEPT !.closing = TRUE]
    /\ UNCHANGED <<siteMode, evidence, named, picks, req, shown>>

-----------------------------------------------------------------------------
Save  == \E r \in Requests : SaveStep(r) \/ Busy(r) \/ \E body \in Bodies : Post(r, body)

Admin == \/ ToggleUnlock
         \/ \E mode \in LockModes : SetSiteMode(mode)
         \/ \E mode \in LockModes \cup {"unset"} : SetDrawMode(mode)

Play  == \E m \in Contests :
            \/ EspnSyncLive(m) \/ EspnSyncResults(m) \/ SofaRetire(m)
            \/ \E stamped \in StartStamps : SofaPoll(m, stamped) \/ SofaRecord(m, stamped)

Watch == \/ EspnDetectsStart
         \/ \E day1 \in FirstDay .. LastDay, passed \in BOOLEAN : RefineClosing(day1, passed)
         \/ \E p \in Late : EspnNamesSlot(p)

Next == \/ Save \/ ReadLockState \/ ReadBracket \/ Admin \/ Play \/ Watch
        \/ \E sheet \in Sheets, passed \in BOOLEAN, announced \in BOOLEAN :
              Scrape(sheet, passed, announced)
        \/ NextDay \/ ClosingPasses

\* A handler the event loop has started is resumed until it answers, and the chances
\* warmer comes by a draw with a finished match every five minutes.  Nobody has to
\* open a page.
Fairness == /\ \A r \in Requests : WF_vars(SaveStep(r))
            /\ WF_vars(WarmerReads)

Spec == Init /\ [][Next]_vars /\ Fairness

-----------------------------------------------------------------------------
(* Properties.                                                             *)

\* Every row, setting, pick and request has the shape the code gives it.
TypeOK ==
    /\ draw \in DrawRow
    /\ siteMode \in LockModes
    /\ evidence \in [Contests -> SUBSET Columns]
    /\ named \subseteq Entrants
    /\ picks \in [Users -> [Matches -> Slot]]
    /\ req \in [Requests -> Request]
    /\ shown \in BOOLEAN

\* A started match locks itself and exactly the matches its winner can still
\* reach: those whose part of the bracket contains its own
\* (_locked_with_downstream, stated over positions instead of climbing parents).
LockReachesFinal ==
    FrozenMatches \ Byes =
        {m \in Contests :
            \E k \in Contests : InPlay(k) /\ k[1] <= m[1] /\ Span[k] \subseteq Span[m]}

\* Closing the bracket when the last first-round match starts takes no pick away
\* that was still open (_r1_all_started: "there is no pick left that could
\* legally change"), in a bracket where no two byes meet.
ClosingFreezesEverything == RoundOneStarted => FrozenMatches = Matches

\* The rule the row states (Draw.is_locked) and the rule a save is held to
\* (draw_lock_state) never disagree in the dangerous direction: a draw that
\* looks closed does not take a change.
ReadersAgree == draw.mode \in LockModes /\ IsLocked(draw) => Closed(draw)

\* Once others' brackets were served under match-by-match locking, nobody's picks
\* are editable under it any more, short of an admin reopening the draw.
NoCrib == shown /\ draw.mode = Progressive /\ ~draw.unlocked => Closed(draw)

\* Whoever's last save was accepted has a pick on every contest, through later
\* saves, renamed entries and scrapes ("AND NOW NOTHING IS LEFT BLANK").
NoHoles ==
    \A r \in Requests : req[r].answer = "saved" =>
        \A m \in Contests : picks[Owner[r]][m] # Nobody

Committing(r) == req[r].pc = "commit" /\ req'[r].answer = "saved"

\* A pick once stored changes only by its owner's own save, and to the value posted
\* (or, where it was cleared, to the favourite): no fill, scrape, name, feed or
\* clock ever rewrites a bracket ("Nothing already stored is ever overwritten").
OnlyItsOwnerChangesIt ==
    [][\A u \in Users, m \in Matches :
          picks[u][m] # Nobody /\ picks'[u][m] # picks[u][m] =>
            \E r \in Requests :
                /\ Owner[r] = u /\ Committing(r)
                /\ m \in DOMAIN req[r].body
                /\ req[r].body[m] \in {picks'[u][m], Nobody}]_vars

\* No save changes a pick on a match that its own reading of the lock had frozen,
\* although it goes on for four more steps after it compared the two
\* (rejected_changes).
ChangeWasOpen ==
    [][\A r \in Requests : Committing(r) =>
          \A m \in req[r].locked :
              picks[Owner[r]][m] # Nobody => picks'[Owner[r]][m] = picks[Owner[r]][m]]_vars

\* A save answered 200 left every pick it posted in the table, whatever ran
\* between its reads and its commit.
SavedIsPosted ==
    [][\A r \in Requests : Committing(r) =>
          \A m \in DOMAIN req[r].body :
              req[r].body[m] # Nobody => picks'[Owner[r]][m] = req[r].body[m]]_vars

\* No default names a player the user has just knocked out: of the players who
\* come through a match the user decided, only the one chosen there is defaulted
\* any further.
NoneReturns(r) ==
    LET body == req[r].body
        mine == picks'[Owner[r]]
    IN  \A m \in Contests \ DOMAIN body, k \in DOMAIN body :
          /\ body[k] # Nobody /\ m # k /\ m \in PathToFinal(k)
          /\ mine[m] \in Span[k]
          => mine[m] = body[k]

\* A first save made before anything started keeps its upsets: the favourites
\* around it never include a player it knocked out (save_predictions applies the
\* body before it fills).
KnockedOutStaysOut ==
    [][\A r \in Requests :
          Committing(r) /\ req[r].fresh /\ req[r].locked = {} => NoneReturns(r)]_vars

\* The same of every first save, a late joiner's too, as the comment in the save
\* has it: "the player they knocked out does not come back in the second holding
\* their pick".
KnockedOutNeverReturns ==
    [][\A r \in Requests : Committing(r) /\ req[r].fresh => NoneReturns(r)]_vars

\* What closes a released draw that is open is play, the calendar turning over or
\* the US Open's own day index: never a date read off a page or a deadline the
\* monitor predicted (the 2026 US Open "sat locked on release day carrying 24
\* August").
OnlyPlayOrTheDayCloses ==
    [][draw.released /\ ~IsLocked(draw) /\ IsLocked(draw')
          /\ draw'.unlocked = draw.unlocked /\ draw'.mode = draw.mode
       => \/ draw'.lockedAt \/ draw'.status \in Begun
          \/ draw' = [draw EXCEPT !.day = @ - 1]
          \/ \E sheet \in Sheets : draw'.day \in sheet.dayIndex]_vars

\* A draw that play has closed stays closed: only an admin reopens it.  (Status,
\* dates and release flap under it as the sheet is edited.)
LockIsFinal ==
    [][draw.lockedAt /\ IsLocked(draw) /\ draw'.unlocked = draw.unlocked
          /\ draw'.mode = draw.mode => IsLocked(draw')]_vars

\* Every save is answered: retries, refusals and races all end in a reply.
EverySaveAnswered ==
    \A r \in Requests : req[r].pc # "idle" ~> req[r].pc = "idle"

\* A match-by-match draw whose first round is under way and one of whose matches is over
\* gets closed on its row (picks_locked_at), which is all the dashboard and is_locked go
\* by, although nothing but a reader of the lock ever stamps it and nobody need look.
\* (Until a match is over no reader is due, and the stamp waits for a visitor.)
ClosesEventually ==
    (draw.mode = Progressive /\ ~draw.unlocked /\ RoundOneStarted /\ MatchOver)
        ~> (draw.lockedAt \/ draw.unlocked \/ draw.mode = DrawStart)

\* No save ends in a bare 500: "if it really cannot get through, it says so".
NoBareError == \A r \in Requests : req[r].answer # "error"
=============================================================================
