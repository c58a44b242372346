--------------------------- MODULE PickLockProofs ---------------------------
(***************************************************************************)
(* What holds of PickLock for every bracket, every set of users, requests, *)
(* bodies and sheets, and every bound.                                     *)
(***************************************************************************)
EXTENDS PickLock, FiniteSetTheorems, WellFoundedInduction, TLAPS

-----------------------------------------------------------------------------
(* The operators.                                                          *)

\* Byes and contests are matches, and entrants fill slots.
LEMMA Subsets == Byes \subseteq Matches /\ Contests \subseteq Matches /\ RoundOne \subseteq Contests
BY DEF Byes, Contests, RoundOne

\* Completing a bracket yields a bracket, keeps every stored pick, and writes
\* nothing outside the contests it was asked about.
LEMMA FillKeeps ==
    ASSUME NEW stored \in [Matches -> Slot], NEW within, NEW names
    PROVE  /\ FillMissing(stored, within, names) \in [Matches -> Slot]
           /\ \A m \in Matches :
                 /\ stored[m] # Nobody => FillMissing(stored, within, names)[m] = stored[m]
                 /\ FillMissing(stored, within, names)[m] # stored[m] => m \in within \cap Contests
<1> DEFINE projected == ProjectBracket(stored, names)
<1> HIDE DEF projected
<1>1. FillMissing(stored, within, names) =
        [m \in Matches |-> IF /\ stored[m] = Nobody
                              /\ m \in within /\ m \in Contests
                              /\ projected[m] \in Entrants
                           THEN projected[m] ELSE stored[m]]
  BY DEF FillMissing, projected
<1>2. Entrants \subseteq Slot
  BY DEF Slot
<1>3. QED
  BY <1>1, <1>2

LEMMA NoPicksType == NoPicks \in [Matches -> Slot]
BY DEF NoPicks, Slot

LEMMA StampedType ==
    ASSUME NEW d \in DrawRow, siteMode \in LockModes
    PROVE  Stamped(d) \in DrawRow
BY DEF Stamped, DrawRow, LockModes

LEMMA ResolvedType ==
    ASSUME NEW d \in DrawRow, siteMode \in LockModes
    PROVE  Resolved(d) \in DrawRow
BY StampedType DEF Resolved, DrawRow

\* A scrape leaves a well-formed row.
LEMMA ScrapedRow ==
    ASSUME draw \in DrawRow, NEW sheet \in Sheets, NEW passed \in BOOLEAN
    PROVE  Snapped(Indexed(Released(Dated(draw, sheet, passed), sheet), sheet), sheet) \in DrawRow
<1> DEFINE a == Dated(draw, sheet, passed)
           e == Released(a, sheet)
           b == Indexed(e, sheet)
           c == Snapped(b, sheet)
<1>1. sheet.start \in FirstDay .. LastDay /\ sheet.dayIndex \subseteq FirstDay .. LastDay
  BY PickLockAssumption
<1>2. a \in DrawRow
  BY <1>1 DEF Dated, DrawRow
<1>3. b \in DrawRow
  <2>1. e \in DrawRow
    BY <1>2 DEF Released, DrawRow
  <2>2. QED
    BY <1>1, <2>1 DEF Indexed, DrawRow
<1>4. c \in DrawRow
  <2>1. CASE b.day > 0
    <3>1. 0 \in FirstDay .. LastDay
      BY <2>1, <1>3, PickLockAssumption DEF DrawRow
    <3>2. QED
      BY <3>1, <1>3 DEF Snapped, DrawRow
  <2>2. CASE ~(b.day > 0)
    BY <2>2, <1>3 DEF Snapped
  <2>3. QED
    BY <2>1, <2>2
<1>5. QED
  BY <1>4

LEMMA ScrapedType ==
    ASSUME draw \in DrawRow, NEW sheet \in Sheets, NEW passed \in BOOLEAN
    PROVE  ScrapedDraw(sheet, passed) \in DrawRow
<1> DEFINE c == Snapped(Indexed(Released(Dated(draw, sheet, passed), sheet), sheet), sheet)
<1>1. c \in DrawRow
  BY ScrapedRow
<1> HIDE DEF c
<1>2. Status(c, sheet) \in DrawRow
  BY <1>1 DEF Status, DrawRow, Begun
<1>3. QED
  BY <1>2 DEF ScrapedDraw, c

-----------------------------------------------------------------------------
(* Types.                                                                  *)

\* An idle request, whatever it answered, is a request.
LEMMA IdleType ==
    ASSUME NEW a \in {"none", "saved", "locked", "refused", "busy", "error"}
    PROVE  Idle(a) \in Request
BY NoPicksType, PickLockAssumption DEF Idle, Request

\* Answering, and trying again, leave well-formed requests.
LEMMA AnswerType ==
    ASSUME req \in [Requests -> Request], NEW r \in Requests,
           NEW a \in {"none", "saved", "locked", "refused", "busy", "error"}, Answer(r, a)
    PROVE  req' \in [Requests -> Request]
BY IdleType DEF Answer

LEMMA RetryType ==
    ASSUME req \in [Requests -> Request], NEW r \in Requests, Retry(r)
    PROVE  req' \in [Requests -> Request]
<1>1. CASE req[r].tries + 1 = Attempts
  BY <1>1, AnswerType DEF Retry
<1>2. CASE req[r].tries + 1 # Attempts
  <2>1. req[r].tries + 1 \in 0 .. Attempts - 1
    BY <1>2, PickLockAssumption DEF Request
  <2>2. req' = [req EXCEPT ![r] = [req[r] EXCEPT !.pc = "open", !.tries = req[r].tries + 1,
                                       !.locked = {}, !.seen = NoPicks, !.gone = {}]]
    BY <1>2 DEF Retry, Again
  <2>3. [req[r] EXCEPT !.pc = "open", !.tries = req[r].tries + 1,
                       !.locked = {}, !.seen = NoPicks, !.gone = {}] \in Request
    BY <2>1, NoPicksType DEF Request
  <2>4. QED
    BY <2>2, <2>3
<1>3. QED
  BY <1>1, <1>2

\* A lock reading names matches.
LEMMA LockedType == ASSUME NEW d PROVE LockedIds(d) \subseteq Matches
BY Subsets DEF LockedIds, FrozenMatches, PathToFinal

-----------------------------------------------------------------------------
(* What a commit writes.                                                   *)

\* The names Commit gives to what a request's body does to the rows it read.
ChangedBy(r) == {m \in DOMAIN req[r].body : req[r].body[m] # req[r].seen[m]}
UpdatedBy(r) == {m \in ChangedBy(r) : req[r].seen[m] # Nobody /\ req[r].body[m] # Nobody}
AddedBy(r)   == {m \in ChangedBy(r) : req[r].seen[m] = Nobody}
DeletedBy(r) == {m \in ChangedBy(r) : req[r].body[m] = Nobody} \ req[r].gone
AppliedBy(r) ==
    [m \in Matches |-> IF m \in AddedBy(r) \cup UpdatedBy(r) THEN req[r].body[m]
                       ELSE IF m \in DeletedBy(r) THEN Nobody ELSE picks[Owner[r]][m]]

Saves(r) ==
    /\ picks' = [picks EXCEPT ![Owner[r]] = Completed(AppliedBy(r), named)]
    /\ req' = [q \in Requests |->
                  IF q = r THEN Idle("saved")
                  ELSE IF Owner[q] = Owner[r] /\ req[q].pc = "commit"
                  THEN [req[q] EXCEPT !.gone =
                          @ \cup {m \in DeletedBy(r) : req[q].seen[m] # Nobody}]
                  ELSE req[q]]

\* A commit writes, starts over or fails, and touches nothing but picks and req.
LEMMA CommitCases ==
    ASSUME NEW r \in Requests, Commit(r)
    PROVE  /\ req[r].pc = "commit"
           /\ UNCHANGED <<draw, siteMode, evidence, named, shown>>
           /\ \/ Retry(r) /\ UNCHANGED picks
              \/ Answer(r, "error") /\ UNCHANGED picks
              \/ Saves(r)
BY DEF Commit, Saves, AppliedBy, ChangedBy, UpdatedBy, AddedBy, DeletedBy

\* What a body names is a contest, and what it says fills a slot.
LEMMA BodyType ==
    ASSUME TypeOK, NEW r \in Requests
    PROVE  /\ DOMAIN req[r].body \subseteq Contests
           /\ \A m \in DOMAIN req[r].body : req[r].body[m] \in Slot
           /\ req[r].seen \in [Matches -> Slot]
           /\ Owner[r] \in Users /\ picks[Owner[r]] \in [Matches -> Slot]
<1>1. req[r] \in Request
  BY DEF TypeOK
<1>2. Owner[r] \in Users
  BY PickLockAssumption
<1>3. CASE req[r].body \in Bodies
  BY <1>1, <1>2, <1>3, PickLockAssumption DEF TypeOK, Request, Body
<1>4. CASE req[r].body = Empty
  BY <1>1, <1>2, <1>4 DEF TypeOK, Request, Empty
<1>5. QED
  BY <1>1, <1>3, <1>4 DEF Request

\* The bracket a commit leaves: stored rows it did not touch are as they were,
\* rows it wrote hold what was posted.
LEMMA CommitWrites ==
    ASSUME TypeOK, NEW r \in Requests
    PROVE  /\ Completed(AppliedBy(r), named) \in [Matches -> Slot]
           /\ \A m \in Matches :
                 /\ m \in AddedBy(r) \cup UpdatedBy(r) /\ req[r].body[m] # Nobody
                      => Completed(AppliedBy(r), named)[m] = req[r].body[m]
                 /\ m \notin ChangedBy(r) /\ picks[Owner[r]][m] # Nobody
                      => Completed(AppliedBy(r), named)[m] = picks[Owner[r]][m]
<1>1. AppliedBy(r) \in [Matches -> Slot]
  BY BodyType DEF AppliedBy, AddedBy, UpdatedBy, ChangedBy, Slot
<1>2. \A m \in Matches : m \notin ChangedBy(r) => AppliedBy(r)[m] = picks[Owner[r]][m]
  BY DEF AppliedBy, AddedBy, UpdatedBy, DeletedBy
<1>3. \A m \in Matches : m \in AddedBy(r) \cup UpdatedBy(r) => AppliedBy(r)[m] = req[r].body[m]
  BY DEF AppliedBy
<1> HIDE DEF AppliedBy
<1>4. QED
  BY <1>1, <1>2, <1>3, FillKeeps DEF Completed

LEMMA TypeCommit ==
    ASSUME TypeOK, NEW r \in Requests, Commit(r)
    PROVE  TypeOK'
<1> USE DEF TypeOK
<1>1. CASE Retry(r) /\ UNCHANGED picks
  BY <1>1, CommitCases, RetryType
<1>2. CASE Answer(r, "error") /\ UNCHANGED picks
  BY <1>2, CommitCases, AnswerType
<1>3. CASE Saves(r)
  <2>1. picks' \in [Users -> [Matches -> Slot]]
    BY <1>3, CommitWrites, BodyType DEF Saves
  <2>2. req' \in [Requests -> Request]
    <3> SUFFICES ASSUME NEW q \in Requests PROVE req'[q] \in Request
      BY <1>3 DEF Saves
    <3>1. DeletedBy(r) \subseteq Matches
      BY BodyType, Subsets DEF DeletedBy, ChangedBy
    <3>2. [req[q] EXCEPT !.gone =
              @ \cup {m \in DeletedBy(r) : req[q].seen[m] # Nobody}] \in Request
      BY <3>1 DEF Request
    <3>3. QED
      BY <1>3, <3>2, IdleType DEF Saves
  <2>3. QED
    BY <2>1, <2>2, CommitCases
<1>4. QED
  BY <1>1, <1>2, <1>3, CommitCases

LEMMA TypeInit == Init => TypeOK
<1> SUFFICES ASSUME Init PROVE TypeOK
  OBVIOUS
<1>1. draw \in DrawRow /\ siteMode \in LockModes /\ shown \in BOOLEAN
  BY PickLockAssumption DEF Init
<1>2. named \subseteq Entrants /\ evidence \in [Contests -> SUBSET Columns]
  BY DEF Init
<1>3. picks \in [Users -> [Matches -> Slot]]
  BY NoPicksType DEF Init
<1>4. req \in [Requests -> Request]
  BY IdleType DEF Init
<1>5. QED
  BY <1>1, <1>2, <1>3, <1>4 DEF TypeOK

\* Each step of a save.
LEMMA TypeSave ==
    ASSUME TypeOK, NEW r \in Requests,
           SaveStep(r) \/ Busy(r) \/ \E body \in Bodies : Post(r, body)
    PROVE  TypeOK'
<1> USE DEF TypeOK
<1>1. ASSUME NEW body \in Bodies, Post(r, body) PROVE TypeOK'
  <2>1. [Idle("none") EXCEPT !.pc = "open", !.body = body,
                             !.fresh = (picks[Owner[r]] = NoPicks)] \in Request
    BY IdleType DEF Idle, Request
  <2>2. QED
    BY <1>1, <2>1 DEF Post
<1>2. CASE ReadLock(r)
  <2>1. draw' \in DrawRow
    BY <1>2, ResolvedType DEF ReadLock
  <2>2. CASE Closed(draw)
    BY <1>2, <2>1, <2>2, AnswerType DEF ReadLock
  <2>3. CASE ~Closed(draw)
    <3>1. req' \in [Requests -> Request]
      BY <1>2, <2>3, LockedType DEF ReadLock, Request
    <3>2. QED
      BY <1>2, <2>1, <3>1 DEF ReadLock
  <2>4. QED
    BY <2>2, <2>3
<1>3. CASE JoinRead(r)
  <2>1. picks[Owner[r]] \in [Matches -> Slot]
    BY PickLockAssumption
  <2>2. req' \in [Requests -> Request]
    BY <1>3, <2>1 DEF JoinRead, Request
  <2>3. QED
    BY <1>3, <2>2 DEF JoinRead
<1>4. CASE JoinCommit(r)
  <2> DEFINE u     == Owner[r]
             new   == FillMissing(req[r].seen, req[r].locked, named)
             added == {m \in Matches : new[m] # req[r].seen[m]}
  <2>1. u \in Users /\ req[r].seen \in [Matches -> Slot]
    BY PickLockAssumption DEF Request
  <2>2. new \in [Matches -> Slot]
    BY <2>1, FillKeeps
  <2> HIDE DEF new
  <2>3. CASE \E m \in added : picks[u][m] # Nobody
    <3>1. Answer(r, "error") /\ UNCHANGED picks
      BY <1>4, <2>3 DEF JoinCommit, new
    <3>2. QED
      BY <1>4, <3>1, AnswerType DEF JoinCommit
  <2>4. CASE ~\E m \in added : picks[u][m] # Nobody
    <3>1. /\ picks' = [picks EXCEPT ![u] =
                          [m \in Matches |-> IF m \in added THEN new[m] ELSE picks[u][m]]]
          /\ req' = [req EXCEPT ![r].pc = "check", ![r].seen = NoPicks]
      BY <1>4, <2>4 DEF JoinCommit, new
    <3>2. picks' \in [Users -> [Matches -> Slot]]
      BY <3>1, <2>1, <2>2
    <3>3. [req[r] EXCEPT !.pc = "check", !.seen = NoPicks] \in Request
      BY NoPicksType DEF Request
    <3>4. req' = [req EXCEPT ![r] = [req[r] EXCEPT !.pc = "check", !.seen = NoPicks]]
      BY <3>1
    <3>5. req' \in [Requests -> Request]
      BY <3>3, <3>4
    <3>6. QED
      BY <1>4, <3>2, <3>5 DEF JoinCommit
  <2>5. QED
    BY <2>3, <2>4
<1>5. CASE Check(r)
  <2>1. CASE Rejected(r) # {}
    BY <1>5, <2>1, AnswerType DEF Check
  <2>2. CASE Rejected(r) = {}
    <3>1. [req[r] EXCEPT !.pc = "read"] \in Request
      BY DEF Request
    <3>2. req' = [req EXCEPT ![r] = [req[r] EXCEPT !.pc = "read"]]
      BY <1>5, <2>2 DEF Check
    <3>3. req' \in [Requests -> Request]
      BY <3>1, <3>2
    <3>4. QED
      BY <1>5, <3>3 DEF Check
  <2>3. QED
    BY <2>1, <2>2
<1>6. CASE Read(r)
  <2>1. picks[Owner[r]] \in [Matches -> Slot]
    BY PickLockAssumption
  <2>2. req' \in [Requests -> Request]
    BY <1>6, <2>1 DEF Read, Request
  <2>3. QED
    BY <1>6, <2>2 DEF Read
<1>7. CASE Commit(r)
  BY <1>7, TypeCommit
<1>8. CASE Busy(r)
  BY <1>8, RetryType DEF Busy
<1>9. QED
  BY <1>1, <1>2, <1>3, <1>4, <1>5, <1>6, <1>7, <1>8 DEF SaveStep

\* Readers of the lock and the admin endpoints.
LEMMA TypeReadersAdmin ==
    ASSUME TypeOK, ReadLockState \/ ReadBracket \/ Admin
    PROVE  TypeOK'
<1> USE DEF TypeOK
<1>1. CASE ReadLockState
  BY <1>1, ResolvedType DEF ReadLockState
<1>2. CASE ReadBracket
  BY <1>2, StampedType DEF ReadBracket, Progressive
<1>3. CASE ToggleUnlock
  BY <1>3 DEF ToggleUnlock, DrawRow
<1>4. ASSUME NEW mode \in LockModes, SetSiteMode(mode) PROVE TypeOK'
  BY <1>4 DEF SetSiteMode
<1>5. ASSUME NEW mode \in LockModes \cup {"unset"}, SetDrawMode(mode) PROVE TypeOK'
  <2>1. [draw EXCEPT !.mode = mode] \in DrawRow
    BY DEF DrawRow
  <2>2. QED
    BY <1>5, <2>1, StampedType DEF SetDrawMode
<1>6. QED
  BY <1>1, <1>2, <1>3, <1>4, <1>5 DEF Admin

\* The feeds.
LEMMA TypeFeeds ==
    ASSUME TypeOK, Play \/ Watch
    PROVE  TypeOK'
<1> USE DEF TypeOK
<1>1. ASSUME NEW m \in Contests, NEW columns \in SUBSET Columns, See(m, columns)
      PROVE  TypeOK'
  BY <1>1 DEF See
<1>2. ASSUME NEW m \in Contests,
             \/ EspnSyncLive(m) \/ EspnSyncResults(m) \/ SofaRetire(m)
             \/ \E stamped \in StartStamps : SofaPoll(m, stamped) \/ SofaRecord(m, stamped)
      PROVE  TypeOK'
  <2>1. evidence[m] \subseteq Columns
    OBVIOUS
  <2>2. CASE EspnSyncLive(m)
    BY <1>1, <2>1, <2>2 DEF EspnSyncLive, Columns
  <2>3. CASE EspnSyncResults(m)
    BY <1>1, <2>1, <2>3 DEF EspnSyncResults, Columns
  <2>4. CASE SofaRetire(m)
    BY <1>1, <2>1, <2>4 DEF SofaRetire
  <2>5. ASSUME NEW stamped \in StartStamps, SofaPoll(m, stamped) PROVE TypeOK'
    BY <1>1, <2>1, <2>5 DEF SofaPoll, Started, Promoted, Columns
  <2>6. ASSUME NEW stamped \in StartStamps, SofaRecord(m, stamped) PROVE TypeOK'
    BY <1>1, <2>1, <2>6 DEF SofaRecord, Started, Promoted, Columns
  <2>7. QED
    BY <1>2, <2>2, <2>3, <2>4, <2>5, <2>6
<1>3. CASE EspnDetectsStart
  <2>1. Stamped(draw) \in DrawRow
    BY StampedType
  <2>2. draw' \in DrawRow
    BY <1>3, <2>1 DEF EspnDetectsStart, DrawRow
  <2>3. QED
    BY <1>3, <2>2 DEF EspnDetectsStart
<1>4. ASSUME NEW day1 \in FirstDay .. LastDay, NEW passed \in BOOLEAN,
             RefineClosing(day1, passed)
      PROVE  TypeOK'
  BY <1>4 DEF RefineClosing, DrawRow
<1>5. ASSUME NEW p \in Late, EspnNamesSlot(p) PROVE TypeOK'
  BY <1>5, PickLockAssumption DEF EspnNamesSlot
<1>6. QED
  BY <1>2, <1>3, <1>4, <1>5 DEF Play, Watch

\* The scraper and the clock.
LEMMA TypeScrapeClock ==
    ASSUME TypeOK,
           \/ \E sheet \in Sheets, passed \in BOOLEAN, announced \in BOOLEAN :
                 Scrape(sheet, passed, announced)
           \/ NextDay \/ ClosingPasses
    PROVE  TypeOK'
<1> USE DEF TypeOK
<1>1. ASSUME NEW sheet \in Sheets, NEW passed \in BOOLEAN, NEW announced \in BOOLEAN,
             Scrape(sheet, passed, announced)
      PROVE  TypeOK'
  <2>1. draw' \in DrawRow
    BY <1>1, ScrapedType DEF Scrape
  <2>2. named' \subseteq Entrants
    BY <1>1, PickLockAssumption DEF Scrape
  <2>3. \A u \in Users : Completed(picks[u], named') \in [Matches -> Slot]
    BY FillKeeps DEF Completed
  <2>4. picks' \in [Users -> [Matches -> Slot]]
    BY <1>1, <2>3, NoPicksType DEF Scrape
  <2>5. QED
    BY <1>1, <2>1, <2>2, <2>4 DEF Scrape
<1>2. CASE NextDay
  <2>1. draw.day - 1 \in FirstDay .. LastDay
    BY <1>2, PickLockAssumption DEF NextDay, DrawRow
  <2>2. QED
    BY <1>2, <2>1 DEF NextDay, DrawRow
<1>3. CASE ClosingPasses
  BY <1>3 DEF ClosingPasses, DrawRow
<1>4. QED
  BY <1>1, <1>2, <1>3

\* Rows, settings, picks and requests keep their shape along every behaviour.
THEOREM TypeCorrect == Spec => []TypeOK
<1>1. TypeOK /\ [Next]_vars => TypeOK'
  <2>1. CASE UNCHANGED vars
    BY <2>1 DEF TypeOK, vars
  <2>2. CASE Next
    BY <2>2, TypeSave, TypeReadersAdmin, TypeFeeds, TypeScrapeClock DEF Next, Save
  <2>3. QED
    BY <2>1, <2>2
<1>2. QED
  BY TypeInit, <1>1, PTL DEF Spec

-----------------------------------------------------------------------------
(* Who changes a stored pick.                                              *)

\* The one step that changes a stored pick is its owner's commit, on a match
\* where the posted value differs from the row it read.
LEMMA WhoWrites ==
    ASSUME TypeOK, [Next]_vars, NEW u \in Users, NEW m \in Matches,
           picks[u][m] # Nobody, picks'[u][m] # picks[u][m]
    PROVE  \E r \in Requests : /\ Owner[r] = u /\ req[r].pc = "commit" /\ Saves(r)
                               /\ m \in ChangedBy(r)
<1>1. picks \in [Users -> [Matches -> Slot]]
  BY DEF TypeOK
<1>2. Next
  BY DEF vars
<1>3. ASSUME NEW r \in Requests, JoinCommit(r) PROVE FALSE
  <2> DEFINE new   == FillMissing(req[r].seen, req[r].locked, named)
             added == {k \in Matches : new[k] # req[r].seen[k]}
  <2>1. \A k \in added : picks[Owner[r]][k] = Nobody
    BY <1>1, <1>3 DEF JoinCommit
  <2>2. picks' = [picks EXCEPT ![Owner[r]] =
                    [k \in Matches |-> IF k \in added THEN new[k] ELSE picks[Owner[r]][k]]]
    BY <1>1, <1>3 DEF JoinCommit
  <2> HIDE DEF added
  <2>3. QED
    BY <1>1, <2>1, <2>2
<1>4. ASSUME NEW sheet \in Sheets, NEW passed \in BOOLEAN, NEW announced \in BOOLEAN,
             Scrape(sheet, passed, announced)
      PROVE  FALSE
  <2>1. picks[u] # NoPicks
    BY DEF NoPicks
  <2>2. Completed(picks[u], named')[m] = picks[u][m]
    BY <1>1, FillKeeps DEF Completed
  <2>3. QED
    BY <1>1, <1>4, <2>1, <2>2 DEF Scrape
<1>5. ASSUME NEW r \in Requests, Commit(r)
      PROVE  Owner[r] = u /\ req[r].pc = "commit" /\ Saves(r) /\ m \in ChangedBy(r)
  <2>1. req[r].pc = "commit" /\ Saves(r)
    BY <1>5, CommitCases
  <2>2. Owner[r] = u
    BY <1>1, <2>1 DEF Saves
  <2>3. m \in ChangedBy(r)
    BY <1>1, <2>1, <2>2, CommitWrites DEF Saves
  <2>4. QED
    BY <2>1, <2>2, <2>3
<1>6. \E r \in Requests : Commit(r)
  <2>1. ASSUME NEW r \in Requests, SaveStep(r) \/ Busy(r) \/ \E body \in Bodies : Post(r, body)
        PROVE  Commit(r)
    BY <1>3, <2>1 DEF SaveStep, ReadLock, JoinRead, Check, Read, Busy, Post
  <2>2. ~(ReadLockState \/ ReadBracket \/ Admin)
    BY DEF ReadLockState, ReadBracket, Admin, ToggleUnlock, SetSiteMode, SetDrawMode
  <2>3. ~Play
    BY DEF Play, EspnSyncLive, EspnSyncResults, SofaPoll, SofaRetire, SofaRecord, See
  <2>4. ~Watch
    BY DEF Watch, EspnDetectsStart, RefineClosing, EspnNamesSlot
  <2>5. ~(NextDay \/ ClosingPasses)
    BY DEF NextDay, ClosingPasses
  <2>6. QED
    BY <1>2, <1>4, <2>1, <2>2, <2>3, <2>4, <2>5 DEF Next, Save
<1>7. QED
  BY <1>5, <1>6

\* A stored pick changes only by its owner's save, to what was posted: true of any
\* number of users and overlapping saves, whatever the bodies and the sheets.
THEOREM StoredPicksAreTheOwners == Spec => OnlyItsOwnerChangesIt
<1> DEFINE Step ==
      \A u \in Users, m \in Matches :
          picks[u][m] # Nobody /\ picks'[u][m] # picks[u][m] =>
            \E r \in Requests :
                /\ Owner[r] = u /\ Committing(r)
                /\ m \in DOMAIN req[r].body
                /\ req[r].body[m] \in {picks'[u][m], Nobody}
<1>1. TypeOK /\ [Next]_vars => [Step]_vars
  <2> SUFFICES ASSUME TypeOK, [Next]_vars, NEW u \in Users, NEW m \in Matches,
                      picks[u][m] # Nobody, picks'[u][m] # picks[u][m]
               PROVE  \E r \in Requests :
                        /\ Owner[r] = u /\ Committing(r)
                        /\ m \in DOMAIN req[r].body
                        /\ req[r].body[m] \in {picks'[u][m], Nobody}
    OBVIOUS
  <2>1. PICK r \in Requests : /\ Owner[r] = u /\ req[r].pc = "commit" /\ Saves(r)
                              /\ m \in ChangedBy(r)
    BY WhoWrites
  <2>2. Committing(r)
    BY <2>1 DEF Committing, Saves, Idle
  <2>3. m \in DOMAIN req[r].body
    BY <2>1 DEF ChangedBy
  <2>4. picks'[u][m] = Completed(AppliedBy(r), named)[m]
    BY <2>1 DEF Saves, TypeOK
  <2>5. CASE req[r].body[m] # Nobody
    <3>1. m \in AddedBy(r) \cup UpdatedBy(r)
      BY <2>1, <2>5 DEF AddedBy, UpdatedBy
    <3>2. QED
      BY <2>1, <2>2, <2>3, <2>4, <2>5, <3>1, CommitWrites
  <2>6. CASE req[r].body[m] = Nobody
    BY <2>1, <2>2, <2>3, <2>6
  <2>7. QED
    BY <2>5, <2>6
<1>2. QED
  BY <1>1, TypeCorrect, PTL DEF Spec, OnlyItsOwnerChangesIt

-----------------------------------------------------------------------------
(* What closes a draw, and what keeps it closed.                           *)

\* A row that says it was locked reads locked, unless its start lies further ahead
\* than a lock may lead it by.
LEMMA LockedReadsLocked ==
    ASSUME NEW d \in DrawRow, d.lockedAt, ~d.unlocked, d.day <= LockLead
    PROVE  IsLocked(d)
<1>1. CASE d.mode = Progressive
  BY <1>1 DEF IsLocked
<1>2. CASE d.mode # Progressive
  <2>1. ComputedStatus(d) \in {"active", "completed"}
    BY <1>2 DEF ComputedStatus, SeenAhead
  <2>2. QED
    BY <1>2, <2>1 DEF IsLocked, Begun
<1>3. QED
  BY <1>1, <1>2

\* Without a lock and without play on record, only a start in the past closes.
LEMMA OnlyThePastCloses ==
    ASSUME NEW d \in DrawRow, IsLocked(d), ~d.lockedAt, d.status \notin Begun
    PROVE  d.day < 0 /\ d.mode # Progressive
<1>1. d.mode # Progressive
  BY DEF IsLocked
<1>2. ComputedStatus(d) \in Begun
  BY <1>1 DEF IsLocked
<1>3. d.day \in Int /\ Backstop \in Nat
  BY PickLockAssumption DEF DrawRow
<1>4. CASE d.day > 0
  BY <1>1, <1>2, <1>4 DEF ComputedStatus, SeenAhead, Begun
<1>5. CASE d.day = 0
  BY <1>1, <1>2, <1>3, <1>5 DEF ComputedStatus, Begun
<1>6. QED
  BY <1>1, <1>3, <1>4, <1>5

LEMMA ThePastReadsLocked ==
    ASSUME NEW d \in DrawRow, d.released, d.day < 0, ~d.unlocked, d.mode # Progressive
    PROVE  IsLocked(d)
<1>1. d.day \in Int /\ Backstop \in Nat
  BY PickLockAssumption DEF DrawRow
<1>2. ComputedStatus(d) \in {"active", "completed"}
  BY <1>1 DEF ComputedStatus
<1>3. QED
  BY <1>2 DEF IsLocked, Begun

\* A scrape leaves the rule and the lock alone, and moves no released start into
\* the past but to the day the event's own index gives.
LEMMA ScrapeDates ==
    ASSUME draw \in DrawRow, NEW sheet \in Sheets, NEW passed \in BOOLEAN
    PROVE  LET new == ScrapedDraw(sheet, passed)
           IN  /\ new.mode = draw.mode /\ new.unlocked = draw.unlocked
               /\ new.lockedAt = draw.lockedAt
               /\ draw.released /\ new.day < 0 => draw.day < 0 \/ new.day \in sheet.dayIndex
<1> DEFINE a == Dated(draw, sheet, passed)
           e == Released(a, sheet)
           b == Indexed(e, sheet)
           c == Snapped(b, sheet)
<1>1. /\ sheet.start \in Int /\ draw.day \in Int
      /\ sheet.dayIndex \subseteq FirstDay .. LastDay
  BY PickLockAssumption DEF DrawRow
<1>2. /\ a \in DrawRow /\ a.mode = draw.mode /\ a.unlocked = draw.unlocked
      /\ a.lockedAt = draw.lockedAt /\ (draw.released /\ a.day < 0 => draw.day < 0)
  <2>1. sheet.start \in FirstDay .. LastDay
    BY PickLockAssumption
  <2>2. CASE draw.status \in Begun
    BY <2>2 DEF Dated
  <2>3. CASE draw.status \notin Begun /\ (~sheet.dated \/ Backdated(draw, sheet))
    BY <2>3 DEF Dated, DrawRow
  <2>4. CASE draw.status \notin Begun /\ sheet.dated /\ ~Backdated(draw, sheet)
    <3>1. a = [draw EXCEPT !.day = sheet.start,
                           !.closing = IF draw.lockedAt THEN draw.closing ELSE passed]
      BY <2>4 DEF Dated
    <3>2. draw.released /\ sheet.start < 0 => draw.day < 0
      BY <1>1, <2>4 DEF Backdated
    <3>3. QED
      BY <2>1, <3>1, <3>2 DEF DrawRow
  <2>5. QED
    BY <2>2, <2>3, <2>4
<1>3. /\ b \in DrawRow /\ b.mode = a.mode /\ b.unlocked = a.unlocked
      /\ b.lockedAt = a.lockedAt /\ (b.day = a.day \/ b.day \in sheet.dayIndex)
  <2>1. /\ e \in DrawRow /\ e.mode = a.mode /\ e.unlocked = a.unlocked
        /\ e.lockedAt = a.lockedAt /\ e.day = a.day
    BY <1>2 DEF Released, DrawRow
  <2>2. CASE sheet.dayIndex = {}
    BY <2>1, <2>2 DEF Indexed
  <2>3. CASE sheet.dayIndex # {}
    <3>1. PICK day \in sheet.dayIndex : b = [e EXCEPT !.day = day]
      BY <2>3 DEF Indexed
    <3>2. QED
      BY <1>1, <2>1, <3>1 DEF DrawRow
  <2>4. QED
    BY <2>2, <2>3
<1>4. /\ c.mode = b.mode /\ c.unlocked = b.unlocked
      /\ c.lockedAt = b.lockedAt /\ (c.day < 0 => c.day = b.day)
  BY <1>3 DEF Snapped, DrawRow
<1>5. DOMAIN c = {"mode", "lockedAt", "unlocked", "status", "released", "day", "closing"}
  BY <1>3 DEF Snapped, DrawRow
<1> HIDE DEF a, b, c, e
<1>6. LET new == Status(c, sheet)
      IN  /\ new.mode = c.mode /\ new.unlocked = c.unlocked
          /\ new.lockedAt = c.lockedAt /\ new.day = c.day
  BY <1>5 DEF Status
<1>7. ScrapedDraw(sheet, passed) = Status(c, sheet)
  BY DEF ScrapedDraw, a, b, c, e
<1>8. QED
  BY <1>2, <1>3, <1>4, <1>6, <1>7

\* What the steps do to the draw row.
LEMMA RowSteps ==
    ASSUME TypeOK, [Next]_vars
    PROVE  \/ UNCHANGED draw
           \/ draw' = Resolved(draw)
           \/ draw' = Stamped(draw)
           \/ draw' = [draw EXCEPT !.unlocked = ~@]
           \/ \E mode \in LockModes \cup {"unset"} : draw' = Stamped([draw EXCEPT !.mode = mode])
           \/ draw' = [Stamped(draw) EXCEPT !.lockedAt = TRUE, !.closing = TRUE]
           \/ \E day1 \in FirstDay .. LastDay, passed \in BOOLEAN :
                 /\ ~draw.lockedAt /\ draw.status \notin Begun /\ draw.day >= 0
                 /\ draw' = [draw EXCEPT !.day = IF day1 >= 0 THEN day1 ELSE @,
                                         !.closing = passed]
           \/ \E sheet \in Sheets, passed \in BOOLEAN : draw' = ScrapedDraw(sheet, passed)
           \/ draw' = [draw EXCEPT !.day = @ - 1]
           \/ draw' = [draw EXCEPT !.closing = TRUE]
<1>1. CASE Save
  <2>1. ASSUME NEW r \in Requests, SaveStep(r) \/ Busy(r) \/ \E body \in Bodies : Post(r, body)
        PROVE  UNCHANGED draw \/ draw' = Resolved(draw)
    BY <2>1, CommitCases DEF SaveStep, ReadLock, JoinRead, JoinCommit, Check, Read, Busy, Post
  <2>2. QED
    BY <1>1, <2>1 DEF Save
<1>2. CASE ReadLockState \/ ReadBracket
  BY <1>2 DEF ReadLockState, ReadBracket
<1>3. CASE Admin
  BY <1>3 DEF Admin, ToggleUnlock, SetSiteMode, SetDrawMode
<1>4. CASE Play
  BY <1>4 DEF Play, EspnSyncLive, EspnSyncResults, SofaPoll, SofaRetire, SofaRecord, See
<1>5. CASE Watch
  BY <1>5 DEF Watch, EspnDetectsStart, RefineClosing, EspnNamesSlot
<1>6. CASE \E sheet \in Sheets, passed \in BOOLEAN, announced \in BOOLEAN :
              Scrape(sheet, passed, announced)
  BY <1>6 DEF Scrape
<1>7. CASE NextDay \/ ClosingPasses
  BY <1>7 DEF NextDay, ClosingPasses
<1>8. CASE UNCHANGED vars
  BY <1>8 DEF vars
<1>9. QED
  BY <1>1, <1>2, <1>3, <1>4, <1>5, <1>6, <1>7, <1>8 DEF Next

LEMMA LockedAtStays ==
    ASSUME TypeOK, [Next]_vars, draw.lockedAt
    PROVE  draw'.lockedAt
<1>1. draw \in DrawRow
  BY DEF TypeOK
<1>2. \A d \in DrawRow : Stamped(d).lockedAt = d.lockedAt
  BY DEF Stamped, DrawRow
<1>3. CASE draw' = Resolved(draw)
  BY <1>1, <1>3 DEF Resolved, Stamped, DrawRow
<1>4. ASSUME NEW mode \in LockModes \cup {"unset"}, draw' = Stamped([draw EXCEPT !.mode = mode])
      PROVE  draw'.lockedAt
  <2>1. [draw EXCEPT !.mode = mode] \in DrawRow /\ [draw EXCEPT !.mode = mode].lockedAt
    BY <1>1 DEF DrawRow
  <2>2. QED
    BY <1>2, <1>4, <2>1
<1>5. CASE draw' = [Stamped(draw) EXCEPT !.lockedAt = TRUE, !.closing = TRUE]
  BY <1>1, <1>5 DEF Stamped, DrawRow
<1>6. ASSUME NEW sheet \in Sheets, NEW passed \in BOOLEAN, draw' = ScrapedDraw(sheet, passed)
      PROVE  draw'.lockedAt
  BY <1>1, <1>6, ScrapeDates
<1>7. CASE \/ draw' = [draw EXCEPT !.unlocked = ~@]
           \/ draw' = [draw EXCEPT !.day = @ - 1]
           \/ draw' = [draw EXCEPT !.closing = TRUE]
  BY <1>1, <1>7 DEF DrawRow
<1>8. QED
  BY <1>1, <1>2, <1>3, <1>4, <1>5, <1>6, <1>7, RowSteps

\* A locked draw stays locked through every scrape, date and status, whatever the
\* bracket and the bounds, as long as no start lies further than LOCK_LEAD_DAYS
\* ahead.  (Without that it does not: the moved_date run.)
THEOREM LockOnlyReopenedByHand ==
    ASSUME LastDay <= LockLead
    PROVE  Spec => LockIsFinal
<1>1. TypeOK /\ TypeOK' /\ [Next]_vars =>
        [draw.lockedAt /\ IsLocked(draw) /\ draw'.unlocked = draw.unlocked
          /\ draw'.mode = draw.mode => IsLocked(draw')]_vars
  <2> SUFFICES ASSUME TypeOK, TypeOK', [Next]_vars,
                      draw.lockedAt, IsLocked(draw), draw'.unlocked = draw.unlocked
               PROVE  IsLocked(draw')
    OBVIOUS
  <2>1. draw' \in DrawRow /\ draw'.lockedAt
    BY LockedAtStays DEF TypeOK
  <2>2. ~draw'.unlocked
    BY DEF IsLocked
  <2>3. draw'.day <= LockLead
    BY <2>1, PickLockAssumption DEF DrawRow
  <2>4. QED
    BY <2>1, <2>2, <2>3, LockedReadsLocked
<1>2. QED
  BY <1>1, TypeCorrect, PTL DEF Spec, LockIsFinal

\* No date read off a page and no deadline the monitor predicts ever closes an open,
\* released draw: for every set of sheets and every bound on the days.  Only the
\* day index of the event itself is believed without a guard.
THEOREM DatesNeverClose == Spec => OnlyPlayOrTheDayCloses
<1> DEFINE Closes == /\ draw.released /\ ~IsLocked(draw) /\ IsLocked(draw')
                     /\ draw'.unlocked = draw.unlocked /\ draw'.mode = draw.mode
           Reason == \/ draw'.lockedAt \/ draw'.status \in Begun
                     \/ draw' = [draw EXCEPT !.day = @ - 1]
                     \/ \E sheet \in Sheets : draw'.day \in sheet.dayIndex
<1>1. TypeOK /\ TypeOK' /\ [Next]_vars => [Closes => Reason]_vars
  <2> SUFFICES ASSUME TypeOK, TypeOK', [Next]_vars, Closes, ~Reason
               PROVE  FALSE
    OBVIOUS
  <2>1. draw \in DrawRow /\ draw' \in DrawRow
    BY DEF TypeOK
  <2>2. ~draw'.lockedAt /\ draw'.status \notin Begun /\ ~draw'.unlocked
    BY DEF IsLocked
  <2>3. draw'.day < 0 /\ draw'.mode # Progressive
    BY <2>1, <2>2, OnlyThePastCloses
  <2>4. draw # draw'
    OBVIOUS
  <2>5. draw.day >= 0
    BY <2>1, <2>2, <2>3, ThePastReadsLocked DEF DrawRow
  <2>6. draw'.day = draw.day => draw'.day >= 0
    BY <2>5
  <2>7. \A d \in DrawRow : Stamped(d).day = d.day
    BY DEF Stamped, DrawRow
  <2>8. CASE draw' = Resolved(draw) \/ draw' = Stamped(draw)
    BY <2>1, <2>3, <2>5, <2>8 DEF Resolved, Stamped, DrawRow
  <2>9. ASSUME NEW mode \in LockModes \cup {"unset"}, draw' = Stamped([draw EXCEPT !.mode = mode])
        PROVE  FALSE
    <3>1. [draw EXCEPT !.mode = mode] \in DrawRow /\ [draw EXCEPT !.mode = mode].day = draw.day
      BY <2>1 DEF DrawRow
    <3>2. QED
      BY <2>1, <2>3, <2>5, <2>7, <2>9, <3>1 DEF DrawRow
  <2>10. CASE draw' = [Stamped(draw) EXCEPT !.lockedAt = TRUE, !.closing = TRUE]
    BY <2>1, <2>2, <2>10 DEF Stamped, DrawRow
  <2>11. ASSUME NEW day1 \in FirstDay .. LastDay, NEW passed \in BOOLEAN, draw.day >= 0,
                draw' = [draw EXCEPT !.day = IF day1 >= 0 THEN day1 ELSE @, !.closing = passed]
         PROVE  FALSE
    BY <2>1, <2>3, <2>11, PickLockAssumption DEF DrawRow
  <2>12. ASSUME NEW sheet \in Sheets, NEW passed \in BOOLEAN, draw' = ScrapedDraw(sheet, passed)
         PROVE  FALSE
    BY <2>1, <2>3, <2>5, <2>12, ScrapeDates DEF DrawRow
  <2>13. CASE \/ draw' = [draw EXCEPT !.unlocked = ~@]
              \/ draw' = [draw EXCEPT !.closing = TRUE]
    BY <2>1, <2>3, <2>5, <2>13 DEF DrawRow
  <2>14. QED
    BY <2>4, <2>8, <2>9, <2>10, <2>11, <2>12, <2>13, RowSteps
<1>2. QED
  BY <1>1, TypeCorrect, PTL DEF Spec, OnlyPlayOrTheDayCloses

-----------------------------------------------------------------------------
(* Induction over the rounds, and powers of two.  The library's induction  *)
(* theorems take the predicate as a parameter, which no prover here can    *)
(* instantiate; a set of naturals says the same.                           *)

\* Every nonempty set of naturals has a least element.
LEMMA LeastElement ==
    ASSUME NEW T \in SUBSET Nat, T # {}
    PROVE  \E x \in T : \A y \in T : x <= y
<1>1. PICK x \in T : \A y \in T : ~(<<y, x>> \in OpToRel(<, Nat))
  BY NatLessThanWellFounded, WFMin
<1>2. \A y \in T : ~(y < x)
  BY <1>1 DEF OpToRel
<1>3. QED
  BY <1>2

\* Induction over a set: what holds of 0 and is handed on holds of all naturals.
LEMMA Climb ==
    ASSUME NEW S \in SUBSET Nat, 0 \in S, \A n \in S : n + 1 \in S
    PROVE  S = Nat
<1> SUFFICES ASSUME Nat \ S # {} PROVE FALSE
  OBVIOUS
<1>1. PICK x \in Nat \ S : \A y \in Nat \ S : x <= y
  BY LeastElement
<1>2. x - 1 \in S
  BY <1>1
<1>3. QED
  BY <1>1, <1>2

\* The powers of two, under a name: SMT has no exponentiation, so what is known of
\* them is counted out over the subsets of 1 .. k.
Power(k) == 2 ^ k

LEMMA Doubling ==
    /\ Power(0) = 1
    /\ \A k \in Nat : Power(k) \in Nat \ {0} /\ Power(k + 1) = 2 * Power(k)
<1>0. \A k \in Nat : /\ IsFiniteSet(SUBSET (1 .. k))
                     /\ Cardinality(SUBSET (1 .. k)) = Power(k) /\ Power(k) \in Nat
  <2> SUFFICES ASSUME NEW k \in Nat
               PROVE  /\ IsFiniteSet(SUBSET (1 .. k))
                      /\ Cardinality(SUBSET (1 .. k)) = Power(k) /\ Power(k) \in Nat
    OBVIOUS
  <2>1. IsFiniteSet(1 .. k) /\ Cardinality(1 .. k) = k
    BY FS_Interval
  <2>2. QED
    BY <2>1, FS_SUBSET, FS_CardinalityType DEF Power
<1>1. Power(0) = 1
  <2>1. SUBSET (1 .. 0) = {{}}
    OBVIOUS
  <2>2. Cardinality({{}}) = 1
    BY FS_Singleton
  <2>3. QED
    BY <1>0, <2>1, <2>2
<1>2. ASSUME NEW k \in Nat PROVE Power(k) # 0 /\ Power(k + 1) = 2 * Power(k)
  <2> DEFINE A == SUBSET (1 .. k)
             B == {s \cup {k + 1} : s \in A}
  <2>1. A \cup B = SUBSET (1 .. k + 1)
    <3>1. \A s \in SUBSET (1 .. k + 1) : k + 1 \in s => s = (s \ {k + 1}) \cup {k + 1}
      OBVIOUS
    <3>2. \A s \in SUBSET (1 .. k + 1) : s \ {k + 1} \in A
      OBVIOUS
    <3>3. \A s \in SUBSET (1 .. k + 1) : k + 1 \in s => s \in B
      BY <3>1, <3>2
    <3>4. \A s \in SUBSET (1 .. k + 1) : k + 1 \notin s => s \in A
      OBVIOUS
    <3>5. A \subseteq SUBSET (1 .. k + 1) /\ B \subseteq SUBSET (1 .. k + 1)
      <4>1. 1 .. k \subseteq 1 .. k + 1 /\ k + 1 \in 1 .. k + 1
        OBVIOUS
      <4> DEFINE I == 1 .. k
                 J == 1 .. k + 1
                 n == k + 1
      <4> HIDE DEF I, J, n
      <4>2. ASSUME NEW s \in SUBSET I PROVE s \in SUBSET J /\ s \cup {n} \in SUBSET J
        BY <4>1 DEF I, J, n
      <4>3. QED
        BY <4>2 DEF I, J, n
    <3>6. QED
      BY <3>3, <3>4, <3>5
  <2>2. A \cap B = {}
    OBVIOUS
  <2>3. ExistsBijection(A, B)
    <3> DEFINE f == [s \in A |-> s \cup {k + 1}]
    <3>1. f \in Bijection(A, B)
      <4>1. \A s \in A, t \in A : f[s] = f[t] => s = t
        <5> SUFFICES ASSUME NEW s \in A, NEW t \in A, s \cup {k + 1} = t \cup {k + 1}
                     PROVE  s = t
          OBVIOUS
        <5>1. k + 1 \notin s /\ k + 1 \notin t
          OBVIOUS
        <5>2. QED
          BY <5>1
      <4>2. f \in [A -> B] /\ \A b \in B : \E s \in A : f[s] = b
        OBVIOUS
      <4>3. QED
        BY <4>1, <4>2 DEF Bijection, Injection, Surjection, IsInjective
    <3>2. QED
      BY <3>1 DEF ExistsBijection
  <2>4. IsFiniteSet(A) /\ Cardinality(A) = Power(k) /\ Power(k) \in Nat
    BY <1>0
  <2>5. IsFiniteSet(B) /\ Cardinality(B) = Power(k)
    BY <2>3, <2>4, FS_Bijection
  <2>6. Cardinality(A \cup B) = Power(k) + Power(k) - Cardinality({})
    <3> HIDE DEF A, B
    <3>1. QED
      BY <2>2, <2>4, <2>5, FS_Union
  <2>7. Cardinality(SUBSET (1 .. k + 1)) = Power(k + 1)
    <3>1. k + 1 \in Nat
      OBVIOUS
    <3>2. QED
      BY <1>0, <3>1
  <2>8. Cardinality({}) = 0
    BY FS_EmptySet
  <2>9. Power(k) # 0
    <3>1. {} \in A
      OBVIOUS
    <3> HIDE DEF A
    <3>2. QED
      BY <2>4, <3>1, FS_EmptySet
  <2>10. Power(k + 1) = Power(k) + Power(k)
    <3>1. Cardinality(A \cup B) = Power(k + 1)
      BY <2>1, <2>7, Zenon
    <3>2. Power(k) + Power(k) - 0 = Power(k) + Power(k)
      BY <2>4
    <3> HIDE DEF A, B
    <3>3. QED
      BY <2>6, <2>8, <3>1, <3>2, Zenon
  <2>11. QED
    BY <2>4, <2>9, <2>10
<1>3. QED
  BY <1>0, <1>1, <1>2

LEMMA Geometry ==
    /\ NumRounds \in Nat \ {0} /\ Power(NumRounds) \in Nat
    /\ Positions = 1 .. Power(NumRounds)
    /\ Matches = {m \in (1 .. NumRounds) \X Positions : m[2] <= Power(NumRounds - m[1])}
    /\ Span = [m \in Matches |-> {p \in Positions : (p - 1) \div Power(m[1]) = m[2] - 1}]
<1>1. NumRounds \in Nat \ {0}
  BY BracketAssumption
<1>2. Positions = 1 .. Power(NumRounds) /\ Power(NumRounds) \in Nat
  BY <1>1, Doubling DEF Positions, Power
<1>3. Matches = {m \in (1 .. NumRounds) \X Positions : m[2] <= Power(NumRounds - m[1])}
  BY DEF Matches, Keys, Power
<1>4. Span = [m \in Matches |-> {p \in Positions : (p - 1) \div Power(m[1]) = m[2] - 1}]
  BY Zenon DEF Span, Power
<1>5. QED
  BY <1>1, <1>2, <1>3, <1>4

LEMMA PowerGrows == \A a, b \in Nat : a <= b => Power(a) <= Power(b)
<1> DEFINE Grown(d) == \A a \in Nat : Power(a) <= Power(a + d)
           S == {d \in Nat : Grown(d)}
<1>1. Grown(0)
  BY Doubling
<1>2. ASSUME NEW d \in Nat, Grown(d) PROVE Grown(d + 1)
  <2> SUFFICES ASSUME NEW a \in Nat PROVE Power(a) <= Power(a + (d + 1))
    OBVIOUS
  <2>1. a + d \in Nat /\ (a + d) + 1 = a + (d + 1) /\ Power(a) <= Power(a + d)
    BY <1>2
  <2>2. Power(a + (d + 1)) = 2 * Power(a + d) /\ Power(a + d) \in Nat /\ Power(a) \in Nat
    BY <2>1, Doubling
  <2>3. QED
    BY <2>1, <2>2
<1>3. S = Nat
  <2> HIDE DEF Grown
  <2>1. S \in SUBSET Nat /\ 0 \in S /\ \A d \in S : d + 1 \in S
    BY <1>1, <1>2
  <2> HIDE DEF S
  <2>2. QED
    BY <2>1, Climb
<1>4. SUFFICES ASSUME NEW a \in Nat, NEW b \in Nat, a <= b PROVE Power(a) <= Power(b)
  OBVIOUS
<1>5. Grown(b - a)
  <2> HIDE DEF Grown
  <2>1. b - a \in Nat
    BY <1>4
  <2>2. QED
    BY <1>3, <2>1
<1>6. a + (b - a) = b /\ Power(a) <= Power(a + (b - a))
  BY <1>5
<1>7. QED
  BY <1>6

LEMMA Halving ==
    ASSUME NEW x \in Nat, NEW s \in Nat \ {0}
    PROVE  x \div (2 * s) = (x \div s) \div 2
<1> DEFINE q == x \div s
           h == q \div 2
           t == 2 * s
<1>1. q \in Nat /\ s * q <= x /\ x < s * q + s
  OBVIOUS
<1>2. h \in Nat /\ (q = 2 * h \/ q = 2 * h + 1)
  <2> HIDE DEF q
  <2>1. QED
    BY <1>1
<1>3. t * h <= x /\ x < t * h + t
  <2> HIDE DEF q, h
  <2>1. s * q = s * (2 * h) \/ s * q = s * (2 * h) + s
    BY <1>1, <1>2
  <2>2. s * (2 * h) = t * h
    BY <1>2
  <2>3. QED
    BY <1>1, <1>2, <2>1, <2>2
<1>4. x \div t = h
  <2> HIDE DEF q, h
  <2>1. t \in Nat \ {0}
    OBVIOUS
  <2> HIDE DEF t
  <2>2. QED
    BY <1>2, <1>3, <2>1
<1>5. QED
  BY <1>4

LEMMA MatchFacts ==
    ASSUME NEW m \in Matches
    PROVE  /\ m = <<m[1], m[2]>> /\ m[1] \in 1 .. NumRounds /\ m[2] \in Nat \ {0}
           /\ NumRounds - m[1] \in Nat /\ m[2] <= Power(NumRounds - m[1])
           /\ Span[m] = {p \in Positions : (p - 1) \div Power(m[1]) = m[2] - 1}
BY Geometry

LEMMA IsMatch ==
    ASSUME NEW r \in 1 .. NumRounds, NEW n \in Nat \ {0}, n <= Power(NumRounds - r)
    PROVE  <<r, n>> \in Matches
<1>1. NumRounds - r \in Nat /\ NumRounds \in Nat /\ NumRounds - r <= NumRounds
  BY Geometry
<1>2. Power(NumRounds - r) <= Power(NumRounds) /\ Power(NumRounds - r) \in Nat
  BY <1>1, PowerGrows, Doubling
<1>3. n \in Positions
  BY <1>2, Geometry
<1>4. QED
  BY <1>3, Geometry

\* Each match of a later round is fed by two, whose winners play in it.
LEMMA FeederFacts ==
    ASSUME NEW m \in Matches, m[1] > 1, NEW side \in {1, 2}
    PROVE  /\ Feeder(m, side) \in Matches /\ Feeder(m, side)[1] = m[1] - 1
           /\ Parent(Feeder(m, side)) = m
<1> DEFINE r == m[1] - 1
           n == 2 * m[2] - 2 + side
<1>1. /\ m = <<m[1], m[2]>> /\ m[1] \in 1 .. NumRounds /\ m[2] \in Nat \ {0}
      /\ NumRounds - m[1] \in Nat /\ m[2] <= Power(NumRounds - m[1])
  BY MatchFacts
<1>2. r \in 1 .. NumRounds /\ n \in Nat \ {0} /\ NumRounds - r = (NumRounds - m[1]) + 1
  BY <1>1, Geometry
<1>3. Power(NumRounds - r) = 2 * Power(NumRounds - m[1]) /\ Power(NumRounds - m[1]) \in Nat
  BY <1>1, <1>2, Doubling
<1>4. n <= Power(NumRounds - r)
  BY <1>1, <1>3
<1>5. Feeder(m, side) = <<r, n>>
  BY DEF Feeder
<1>6. <<r, n>> \in Matches
  BY <1>2, <1>4, IsMatch
<1>7. r + 1 = m[1] /\ (n + 1) \div 2 = m[2]
  BY <1>1
<1>8. Parent(<<r, n>>) = m
  BY <1>1, <1>7 DEF Parent
<1>9. QED
  BY <1>5, <1>6, <1>8

\* Each match but the final has a parent, in whose part of the bracket its own lies.
LEMMA ParentFacts ==
    ASSUME NEW m \in Matches
    PROVE  /\ Parent(m)[1] = m[1] + 1
           /\ m[1] < NumRounds <=> Parent(m) \in Matches
           /\ Parent(m) \in Matches => Span[m] \subseteq Span[Parent(m)]
<1> DEFINE r == m[1] + 1
           n == (m[2] + 1) \div 2
<1>1. /\ m = <<m[1], m[2]>> /\ m[1] \in 1 .. NumRounds /\ m[2] \in Nat \ {0}
      /\ NumRounds - m[1] \in Nat /\ m[2] <= Power(NumRounds - m[1])
      /\ Span[m] = {p \in Positions : (p - 1) \div Power(m[1]) = m[2] - 1}
  BY MatchFacts
<1>2. Parent(m) = <<r, n>>
  BY DEF Parent
<1>3. n \in Nat \ {0}
  BY <1>1
<1>4. ASSUME m[1] < NumRounds PROVE Parent(m) \in Matches
  <2>1. r \in 1 .. NumRounds /\ NumRounds - r \in Nat /\ NumRounds - m[1] = (NumRounds - r) + 1
    BY <1>1, <1>4, Geometry
  <2>2. Power(NumRounds - m[1]) = 2 * Power(NumRounds - r) /\ Power(NumRounds - r) \in Nat
    BY <2>1, Doubling
  <2>3. n <= Power(NumRounds - r)
    BY <1>1, <2>2
  <2>4. QED
    BY <1>2, <1>3, <2>1, <2>3, IsMatch
<1>5. ASSUME Parent(m) \in Matches PROVE m[1] < NumRounds
  <2>1. Parent(m)[1] \in 1 .. NumRounds
    BY <1>5, MatchFacts
  <2>2. QED
    BY <1>1, <1>2, <2>1, Geometry
<1>6. ASSUME Parent(m) \in Matches, NEW p \in Span[m] PROVE p \in Span[Parent(m)]
  <2>1. p \in Positions /\ (p - 1) \div Power(m[1]) = m[2] - 1
    BY <1>1
  <2>2. p - 1 \in Nat
    BY <2>1, Geometry
  <2>3. m[1] \in Nat /\ Power(m[1]) \in Nat \ {0} /\ Power(r) = 2 * Power(m[1])
    BY <1>1, Doubling
  <2>4. (p - 1) \div Power(r) = ((p - 1) \div Power(m[1])) \div 2
    BY <2>2, <2>3, Halving
  <2>5. (m[2] - 1) \div 2 = n - 1
    BY <1>1
  <2>6. Span[Parent(m)] = {q \in Positions : (q - 1) \div Power(r) = n - 1}
    <3>1. Parent(m)[1] = r /\ Parent(m)[2] = n
      BY <1>2
    <3>2. QED
      BY <1>6, <3>1, MatchFacts
  <2>7. QED
    BY <2>1, <2>4, <2>5, <2>6
<1>7. QED
  BY <1>2, <1>4, <1>5, <1>6

\* Two matches of one round share no position.
LEMMA SpansApart ==
    ASSUME NEW k \in Matches, NEW m \in Matches, k[1] = m[1], NEW p \in Span[k] \cap Span[m]
    PROVE  k = m
<1>1. (p - 1) \div Power(m[1]) = k[2] - 1 /\ (p - 1) \div Power(m[1]) = m[2] - 1
  BY MatchFacts
<1>2. k[2] = m[2]
  BY <1>1, MatchFacts
<1>3. QED
  BY <1>2, MatchFacts

\* A match of the first round is between its two positions.
LEMMA FirstRound ==
    ASSUME NEW m \in Matches, m[1] = 1
    PROVE  /\ 2 * m[2] - 1 \in Positions /\ 2 * m[2] \in Positions
           /\ Span[m] = {2 * m[2] - 1, 2 * m[2]}
<1>1. /\ m[2] \in Nat \ {0} /\ m[2] <= Power(NumRounds - 1) /\ NumRounds - 1 \in Nat
      /\ Span[m] = {p \in Positions : (p - 1) \div Power(1) = m[2] - 1}
  BY MatchFacts
<1>2. Power(1) = 2
  <2>1. 0 \in Nat /\ 0 + 1 = 1
    OBVIOUS
  <2>2. QED
    BY <2>1, Doubling
<1>3. Power(NumRounds) = 2 * Power(NumRounds - 1) /\ Power(NumRounds - 1) \in Nat
  <2>1. (NumRounds - 1) + 1 = NumRounds
    BY Geometry
  <2>2. QED
    BY <1>1, <2>1, Doubling
<1>4. 2 * m[2] - 1 \in Positions /\ 2 * m[2] \in Positions
  BY <1>1, <1>3, Geometry
<1>5. \A p \in Positions : p \in Nat \ {0}
  BY Geometry
<1>6. \A p \in Positions : (p - 1) \div 2 = m[2] - 1 <=> p \in {2 * m[2] - 1, 2 * m[2]}
  BY <1>1, <1>5
<1>7. QED
  BY <1>1, <1>2, <1>4, <1>6

\* No match is of an empty part of the bracket.
LEMMA SpanInhabited == \A m \in Matches : Span[m] # {}
<1> DEFINE Full(r) == \A m \in Matches : m[1] = r + 1 => Span[m] # {}
           S == {r \in Nat : Full(r)}
<1>1. Full(0)
  BY FirstRound
<1>2. ASSUME NEW r \in Nat, Full(r) PROVE Full(r + 1)
  <2> SUFFICES ASSUME NEW m \in Matches, m[1] = (r + 1) + 1 PROVE Span[m] # {}
    OBVIOUS
  <2>1. /\ Feeder(m, 1) \in Matches /\ Feeder(m, 1)[1] = r + 1
        /\ Parent(Feeder(m, 1)) = m
    BY FeederFacts
  <2>2. QED
    BY <1>2, <2>1, ParentFacts
<1>3. S = Nat
  <2> HIDE DEF Full
  <2>1. S \in SUBSET Nat /\ 0 \in S /\ \A r \in S : r + 1 \in S
    BY <1>1, <1>2
  <2> HIDE DEF S
  <2>2. QED
    BY <2>1, Climb
<1>4. ASSUME NEW m \in Matches PROVE Span[m] # {}
  <2>1. m[1] - 1 \in Nat /\ (m[1] - 1) + 1 = m[1]
    BY MatchFacts
  <2>2. Full(m[1] - 1)
    <3> HIDE DEF Full
    <3>1. QED
      BY <1>3, <2>1
  <2>3. QED
    BY <2>1, <2>2
<1>5. QED
  BY <1>4

-----------------------------------------------------------------------------
(* What a started match freezes.                                           *)

LEMMA PathFacts ==
    ASSUME NEW k \in Matches
    PROVE  /\ PathToFinal(k) \subseteq Matches /\ k \in PathToFinal(k)
           /\ UpwardClosed(PathToFinal(k))
           /\ \A C \in SUBSET Matches : k \in C /\ UpwardClosed(C) => PathToFinal(k) \subseteq C
<1>1. \A m : m \in PathToFinal(k) <=>
                 m \in Matches /\ \A C \in SUBSET Matches : k \in C /\ UpwardClosed(C) => m \in C
  BY DEF PathToFinal, Reaches
<1>2. UpwardClosed(PathToFinal(k))
  <2> SUFFICES ASSUME NEW m \in PathToFinal(k), Parent(m) \in Matches
               PROVE  Parent(m) \in PathToFinal(k)
    BY DEF UpwardClosed
  <2>1. \A C \in SUBSET Matches : k \in C /\ UpwardClosed(C) => Parent(m) \in C
    BY <1>1 DEF UpwardClosed
  <2>2. QED
    BY <1>1, <2>1
<1>3. QED
  BY <1>1, <1>2

\* The path to the final is the matches whose part of the bracket contains one's own.
LEMMA PathIsAbove ==
    ASSUME NEW k \in Matches
    PROVE  PathToFinal(k) = {m \in Matches : k[1] <= m[1] /\ Span[k] \subseteq Span[m]}
<1> DEFINE Above == {m \in Matches : k[1] <= m[1] /\ Span[k] \subseteq Span[m]}
<1>1. PathToFinal(k) \subseteq Above
  <2>1. k \in Above
    BY MatchFacts
  <2>2. UpwardClosed(Above)
    <3> SUFFICES ASSUME NEW m \in Above, Parent(m) \in Matches PROVE Parent(m) \in Above
      BY DEF UpwardClosed
    <3>1. Parent(m)[1] = m[1] + 1 /\ Span[m] \subseteq Span[Parent(m)]
      BY ParentFacts
    <3>2. k[1] <= m[1] + 1
      BY MatchFacts
    <3>3. QED
      BY <3>1, <3>2
  <2>3. QED
    BY <2>1, <2>2, PathFacts
\* Round by round the path has a match above k.
<1> DEFINE Climbs(d) ==
        k[1] + d <= NumRounds =>
            \E m \in PathToFinal(k) : m[1] = k[1] + d /\ Span[k] \subseteq Span[m]
           S == {d \in Nat : Climbs(d)}
<1>2. Climbs(0)
  BY PathFacts, MatchFacts
<1>3. ASSUME NEW d \in Nat, Climbs(d) PROVE Climbs(d + 1)
  <2> SUFFICES ASSUME k[1] + (d + 1) <= NumRounds
               PROVE  \E m \in PathToFinal(k) : m[1] = k[1] + (d + 1) /\ Span[k] \subseteq Span[m]
    OBVIOUS
  <2>0. k[1] \in Nat /\ NumRounds \in Nat
    BY MatchFacts, Geometry
  <2>1. PICK m \in PathToFinal(k) : m[1] = k[1] + d /\ Span[k] \subseteq Span[m]
    BY <1>3, <2>0
  <2>2. m \in Matches /\ m[1] < NumRounds
    BY <2>0, <2>1, PathFacts
  <2>3. Parent(m) \in Matches /\ Parent(m)[1] = m[1] + 1 /\ Span[m] \subseteq Span[Parent(m)]
    BY <2>2, ParentFacts
  <2>4. Parent(m) \in PathToFinal(k)
    BY <2>3, PathFacts DEF UpwardClosed
  <2>5. Parent(m)[1] = k[1] + (d + 1)
    BY <2>0, <2>1, <2>3
  <2>6. QED
    BY <2>1, <2>3, <2>4, <2>5
<1>4. S = Nat
  <2> HIDE DEF Climbs
  <2>1. S \in SUBSET Nat /\ 0 \in S /\ \A d \in S : d + 1 \in S
    BY <1>2, <1>3
  <2> HIDE DEF S
  <2>2. QED
    BY <2>1, Climb
<1>5. ASSUME NEW m \in Above PROVE m \in PathToFinal(k)
  <2>1. m[1] - k[1] \in Nat /\ k[1] + (m[1] - k[1]) = m[1] /\ m[1] <= NumRounds
    BY MatchFacts, Geometry
  <2>2. Climbs(m[1] - k[1])
    <3> HIDE DEF Climbs
    <3>1. QED
      BY <1>4, <2>1
  <2>3. PICK n \in PathToFinal(k) : n[1] = m[1] /\ Span[k] \subseteq Span[n]
    BY <2>1, <2>2
  <2>4. n \in Matches /\ Span[k] # {}
    BY PathFacts, SpanInhabited
  <2>5. n = m
    BY <2>3, <2>4, SpansApart
  <2>6. QED
    BY <2>5
<1>6. QED
  BY <1>1, <1>5, PathFacts

\* "A started match locks itself and exactly the matches its winner can still reach", in
\* a bracket of any size.
THEOREM StartedMatchesLockTheirPath == Spec => []LockReachesFinal
<1>1. LockReachesFinal
  <2>1. \A k \in Contests : PathToFinal(k) = {m \in Matches : k[1] <= m[1] /\ Span[k] \subseteq Span[m]}
    BY PathIsAbove, Subsets
  <2>2. FrozenMatches \ Byes =
            (UNION {PathToFinal(m) : m \in {k \in Contests : InPlay(k)}}) \ Byes
    BY DEF FrozenMatches
  <2>3. QED
    BY <2>1, <2>2 DEF LockReachesFinal, Contests
<1>2. QED
  BY <1>1, PTL

\* No match is between the winners of two byes.
NoByesMeet ==
    \A m \in Matches : m[1] = 2 => \E side \in {1, 2} : Feeder(m, side) \notin Byes

\* Where no two byes meet, closing the bracket as the last first-round match starts takes
\* away no pick that was still open: every contest is above one in play.
THEOREM TheCloseTakesNothing == NoByesMeet => (Spec => []ClosingFreezesEverything)
<1> SUFFICES ASSUME NoByesMeet PROVE Spec => []ClosingFreezesEverything
  OBVIOUS
<1>1. ASSUME RoundOneStarted PROVE FrozenMatches = Matches
  <2> DEFINE Frozen(r) == \A m \in Matches : m[1] = r + 1 /\ m \notin Byes =>
                              \E k \in RoundOne : m \in PathToFinal(k)
             S == {r \in Nat : Frozen(r)}
  <2>1. Frozen(0)
    BY PathFacts DEF RoundOne, Contests
  <2>2. Frozen(1)
    <3> SUFFICES ASSUME NEW m \in Matches, m[1] = 2
                 PROVE  \E k \in RoundOne : m \in PathToFinal(k)
      OBVIOUS
    <3>1. PICK side \in {1, 2} : Feeder(m, side) \notin Byes
      BY DEF NoByesMeet
    <3>2. /\ Feeder(m, side) \in Matches /\ Feeder(m, side)[1] = 1
          /\ Parent(Feeder(m, side)) = m
      BY FeederFacts
    <3>3. Feeder(m, side) \in RoundOne
      BY <3>1, <3>2 DEF RoundOne, Contests
    <3>4. QED
      BY <3>2, <3>3, PathFacts DEF UpwardClosed
  <2>3. ASSUME NEW r \in Nat, Frozen(r) PROVE Frozen(r + 1)
    <3>1. CASE r = 0
      BY <2>2, <3>1
    <3>2. CASE r # 0
      <4> SUFFICES ASSUME NEW m \in Matches, m[1] = (r + 1) + 1
                   PROVE  \E k \in RoundOne : m \in PathToFinal(k)
        OBVIOUS
      <4>1. /\ Feeder(m, 1) \in Matches /\ Feeder(m, 1)[1] = r + 1
            /\ Parent(Feeder(m, 1)) = m
        BY FeederFacts
      <4>2. Feeder(m, 1) \notin Byes
        BY <3>2, <4>1 DEF Byes
      <4>3. PICK k \in RoundOne : Feeder(m, 1) \in PathToFinal(k)
        BY <2>3, <4>1, <4>2
      <4>4. QED
        BY <4>1, <4>3, PathFacts, Subsets DEF UpwardClosed
    <3>3. QED
      BY <3>1, <3>2
  <2>4. S = Nat
    <3> HIDE DEF Frozen
    <3>1. S \in SUBSET Nat /\ 0 \in S /\ \A r \in S : r + 1 \in S
      BY <2>1, <2>3
    <3> HIDE DEF S
    <3>2. QED
      BY <3>1, Climb
  <2>5. ASSUME NEW m \in Matches PROVE m \in FrozenMatches
    <3>1. m[1] - 1 \in Nat /\ (m[1] - 1) + 1 = m[1]
      BY MatchFacts
    <3>2. Frozen(m[1] - 1)
      <4> HIDE DEF Frozen
      <4>1. QED
        BY <2>4, <3>1
    <3>3. m \notin Byes => \E k \in RoundOne : m \in PathToFinal(k)
      BY <3>1, <3>2
    <3>4. QED
      BY <1>1, <3>3, Subsets DEF FrozenMatches, RoundOneStarted
  <2>6. FrozenMatches \subseteq Matches
    BY Subsets DEF FrozenMatches, PathToFinal
  <2>7. QED
    BY <2>5, <2>6
<1>2. ClosingFreezesEverything
  BY <1>1 DEF ClosingFreezesEverything
<1>3. QED
  BY <1>2, PTL

-----------------------------------------------------------------------------
(* The favourite's bracket has somebody in every match.                    *)

LEMMA DecideFacts ==
    ASSUME NEW a \in Slot, NEW b \in Slot, a # Nobody \/ b # Nobody, NEW chosen, NEW names
    PROVE  Decide(chosen, a, b, names) \in Entrants
BY DEF Decide, Better, Slot

\* Of the two positions of a first-round match at most one is empty.
LEMMA SomebodyThere ==
    ASSUME NEW m \in Matches, m[1] = 1
    PROVE  /\ Occupant(2 * m[2] - 2 + 1) \in Slot /\ Occupant(2 * m[2] - 2 + 2) \in Slot
           /\ Occupant(2 * m[2] - 2 + 1) # Nobody \/ Occupant(2 * m[2] - 2 + 2) # Nobody
<1> DEFINE a == 2 * m[2] - 1
           b == 2 * m[2]
<1>1. a \in Positions /\ b \in Positions /\ m[2] \in Nat \ {0}
  BY FirstRound, MatchFacts
<1>2. (a + 1) \div 2 = (b + 1) \div 2 /\ a # b
  BY <1>1
<1>3. a \notin EmptySlots \/ b \notin EmptySlots
  BY <1>2, BracketAssumption
<1>4. 2 * m[2] - 2 + 1 = a /\ 2 * m[2] - 2 + 2 = b /\ a # Nobody /\ b # Nobody
  BY <1>1 DEF Nobody
<1>5. QED
  BY <1>1, <1>3, <1>4 DEF Occupant, Slot, Entrants

\* How project_bracket fills one match from those before it.
Filled(f, m, chosen, names) ==
    LET side(i) == IF m[1] = 1 THEN Occupant(2 * m[2] - 2 + i) ELSE f[Feeder(m, i)]
    IN  IF m \in Byes THEN Decide(Nobody, side(1), side(2), names)
        ELSE Decide(chosen[m], side(1), side(2), names)

LEMMA FilledFacts ==
    ASSUME NEW f, NEW m \in Matches, NEW chosen, NEW names,
           m[1] > 1 => \A side \in {1, 2} : f[Feeder(m, side)] \in Entrants
    PROVE  Filled(f, m, chosen, names) \in Entrants
<1> DEFINE Side(i) == IF m[1] = 1 THEN Occupant(2 * m[2] - 2 + i) ELSE f[Feeder(m, i)]
<1>1. Side(1) \in Slot /\ Side(2) \in Slot /\ (Side(1) # Nobody \/ Side(2) # Nobody)
  <2>1. CASE m[1] = 1
    BY <2>1, SomebodyThere
  <2>2. CASE m[1] # 1
    <3>1. m[1] > 1
      BY <2>2, MatchFacts
    <3>2. \A p \in Entrants : p # Nobody /\ p \in Slot
      BY Geometry DEF Entrants, Slot, Nobody
    <3>3. QED
      BY <2>2, <3>1, <3>2
  <2>3. QED
    BY <2>1, <2>2
<1>2. \A c : Decide(c, Side(1), Side(2), names) \in Entrants
  <2> HIDE DEF Side
  <2>1. QED
    BY <1>1, DecideFacts
<1>3. Filled(f, m, chosen, names) =
        IF m \in Byes THEN Decide(Nobody, Side(1), Side(2), names)
        ELSE Decide(chosen[m], Side(1), Side(2), names)
  BY Zenon DEF Filled
<1>4. QED
  BY <1>2, <1>3

\* Two functions that agree on the feeders of a match fill it alike.
LEMMA FilledAlike ==
    ASSUME NEW f, NEW g, NEW m \in Matches, NEW chosen, NEW names,
           m[1] > 1 => \A side \in {1, 2} : f[Feeder(m, side)] = g[Feeder(m, side)]
    PROVE  Filled(f, m, chosen, names) = Filled(g, m, chosen, names)
<1>1. m[1] = 1 \/ (f[Feeder(m, 1)] = g[Feeder(m, 1)] /\ f[Feeder(m, 2)] = g[Feeder(m, 2)])
  BY MatchFacts
<1>2. QED
  BY <1>1 DEF Filled

\* The projection exists and fills every match, whatever the picks and the names.
LEMMA Projected ==
    ASSUME NEW chosen, NEW names
    PROVE  \A m \in Matches :
              LET w == ProjectBracket(chosen, names)
              IN  w[m] = Filled(w, m, chosen, names) /\ w[m] \in Entrants
<1> DEFINE Fills(f, r) == \A m \in Matches : m[1] <= r =>
                              f[m] = Filled(f, m, chosen, names) /\ f[m] \in Entrants
           Filling(r) == \E f \in [Matches -> Slot] : Fills(f, r)
           S == {r \in Nat : Filling(r)}
<1>1. Filling(0)
  <2>1. \A m \in Matches : ~(m[1] <= 0)
    BY MatchFacts
  <2>2. NoPicks \in [Matches -> Slot]
    BY DEF NoPicks, Slot
  <2>3. Fills(NoPicks, 0)
    BY <2>1
  <2> HIDE DEF Fills
  <2>4. QED
    BY <2>2, <2>3
<1>2. ASSUME NEW r \in Nat, Filling(r) PROVE Filling(r + 1)
  <2>1. PICK f \in [Matches -> Slot] : Fills(f, r)
    BY <1>2
  <2> DEFINE g == [m \in Matches |-> IF m[1] <= r THEN f[m]
                                     ELSE IF m[1] = r + 1 THEN Filled(f, m, chosen, names)
                                     ELSE Nobody]
  <2>2. ASSUME NEW m \in Matches, m[1] > 1, m[1] <= r + 1, NEW side \in {1, 2}
        PROVE  /\ Feeder(m, side) \in Matches /\ Feeder(m, side)[1] <= r
               /\ g[Feeder(m, side)] = f[Feeder(m, side)] /\ f[Feeder(m, side)] \in Entrants
    <3>1. Feeder(m, side) \in Matches /\ Feeder(m, side)[1] = m[1] - 1
      BY <2>2, FeederFacts
    <3>2. m[1] - 1 <= r
      BY <2>2, MatchFacts
    <3>3. QED
      BY <2>1, <3>1, <3>2
  <2>3. ASSUME NEW m \in Matches, m[1] <= r + 1
        PROVE  g[m] = Filled(g, m, chosen, names) /\ g[m] \in Entrants
    <3>1. Filled(g, m, chosen, names) = Filled(f, m, chosen, names)
      <4> HIDE DEF g
      <4>1. m[1] > 1 => \A side \in {1, 2} : g[Feeder(m, side)] = f[Feeder(m, side)]
        BY <2>2, <2>3
      <4>2. QED
        BY <4>1, FilledAlike
    <3>2. Filled(f, m, chosen, names) \in Entrants
      <4>1. m[1] > 1 => \A side \in {1, 2} : f[Feeder(m, side)] \in Entrants
        BY <2>2, <2>3
      <4>2. QED
        BY <4>1, FilledFacts
    <3>3. g[m] = Filled(f, m, chosen, names)
      <4>1. CASE m[1] <= r
        BY <2>1, <4>1
      <4>2. CASE ~(m[1] <= r)
        <5>1. m[1] = r + 1
          BY <2>3, <4>2, MatchFacts
        <5>2. QED
          BY <4>2, <5>1
      <4>3. QED
        BY <4>1, <4>2
    <3>4. QED
      BY <3>1, <3>2, <3>3
  <2>4. g \in [Matches -> Slot]
    <3>1. \A m \in Matches : m[1] <= r + 1 => g[m] \in Slot
      <4> HIDE DEF g
      <4>1. QED
        BY <2>3 DEF Slot
    <3>2. \A m \in Matches : ~(m[1] <= r + 1) => g[m] = Nobody
      BY MatchFacts
    <3>3. \A m \in Matches : g[m] \in Slot
      <4> HIDE DEF g
      <4>1. QED
        BY <3>1, <3>2 DEF Slot
    <3>4. QED
      BY <3>3
  <2>5. Fills(g, r + 1)
    <3> HIDE DEF g
    <3>1. QED
      BY <2>3
  <2> HIDE DEF g, Fills
  <2>6. QED
    BY <2>4, <2>5
<1>3. S = Nat
  <2> HIDE DEF Filling
  <2>1. S \in SUBSET Nat /\ 0 \in S /\ \A r \in S : r + 1 \in S
    BY <1>1, <1>2
  <2> HIDE DEF S
  <2>2. QED
    BY <2>1, Climb
<1>4. PICK f \in [Matches -> Slot] : Fills(f, NumRounds)
  <2>1. NumRounds \in Nat
    BY Geometry
  <2> HIDE DEF Fills
  <2>2. Filling(NumRounds)
    <3> HIDE DEF Filling
    <3>1. QED
      BY <1>3, <2>1
  <2>3. QED
    BY <2>2
<1>5. f = [m \in Matches |-> Filled(f, m, chosen, names)]
  <2>1. \A m \in Matches : m[1] <= NumRounds
    BY MatchFacts
  <2>2. QED
    BY <1>4, <2>1
<1> DEFINE w == ProjectBracket(chosen, names)
<1>6. w = [m \in Matches |-> Filled(w, m, chosen, names)]
  <2>1. w = CHOOSE winner : winner = [m \in Matches |-> Filled(winner, m, chosen, names)]
    BY Zenon DEF ProjectBracket, Filled
  <2> HIDE DEF w
  <2>2. QED
    BY <1>5, <2>1, Zenon
<1>7. \A m \in Matches : w[m] = Filled(w, m, chosen, names)
  <2> HIDE DEF w
  <2>1. QED
    BY <1>6, Zenon
<1> DEFINE Good(r) == \A m \in Matches : m[1] <= r => w[m] \in Entrants
           T == {r \in Nat : Good(r)}
<1>8. Good(0)
  BY MatchFacts
<1>9. ASSUME NEW r \in Nat, Good(r) PROVE Good(r + 1)
  <2> SUFFICES ASSUME NEW m \in Matches, m[1] <= r + 1 PROVE w[m] \in Entrants
    OBVIOUS
  <2> HIDE DEF w
  <2>1. m[1] > 1 => \A side \in {1, 2} : w[Feeder(m, side)] \in Entrants
    <3> SUFFICES ASSUME m[1] > 1, NEW side \in {1, 2} PROVE w[Feeder(m, side)] \in Entrants
      OBVIOUS
    <3>1. Feeder(m, side) \in Matches /\ Feeder(m, side)[1] = m[1] - 1
      BY FeederFacts
    <3>2. m[1] - 1 <= r
      BY MatchFacts
    <3>3. QED
      BY <1>9, <3>1, <3>2
  <2>2. QED
    BY <1>7, <2>1, FilledFacts
<1>10. T = Nat
  <2> HIDE DEF Good
  <2>1. T \in SUBSET Nat /\ 0 \in T /\ \A r \in T : r + 1 \in T
    BY <1>8, <1>9
  <2> HIDE DEF T
  <2>2. QED
    BY <2>1, Climb
<1>11. Good(NumRounds)
  <2>1. NumRounds \in Nat
    BY Geometry
  <2> HIDE DEF Good
  <2>2. QED
    BY <1>10, <2>1
<1>12. \A m \in Matches : w[m] = Filled(w, m, chosen, names) /\ w[m] \in Entrants
  <2> HIDE DEF w
  <2>1. QED
    BY <1>7, <1>11, MatchFacts
<1>13. QED
  BY <1>12

\* A fill leaves somebody on every contest it was asked about.
LEMMA FillIsWhole ==
    ASSUME NEW stored \in [Matches -> Slot], NEW within, NEW names
    PROVE  \A m \in within \cap Contests : FillMissing(stored, within, names)[m] # Nobody
<1> DEFINE projected == ProjectBracket(stored, names)
<1>1. \A m \in Matches : projected[m] \in Entrants
  BY Projected
<1> HIDE DEF projected
<1>2. FillMissing(stored, within, names) =
        [m \in Matches |-> IF /\ stored[m] = Nobody
                              /\ m \in within /\ m \in Contests
                              /\ projected[m] \in Entrants
                           THEN projected[m] ELSE stored[m]]
  BY DEF FillMissing, projected
<1>3. \A p \in Entrants : p # Nobody
  BY Geometry DEF Entrants, Nobody
<1>4. QED
  BY <1>1, <1>2, <1>3, Subsets

LEMMA CompletedIsWhole ==
    ASSUME NEW stored \in [Matches -> Slot], NEW names
    PROVE  \A m \in Contests : Completed(stored, names)[m] # Nobody
BY FillIsWhole, Subsets DEF Completed

\* A request is moved by its own handler alone, but for the rows that another save of
\* the same user deletes under it.
LEMMA OwnMoves ==
    ASSUME TypeOK, [Next]_vars, NEW r \in Requests, req'[r] # req[r]
    PROVE  \/ SaveStep(r) \/ Busy(r) \/ \E body \in Bodies : Post(r, body)
           \/ /\ req[r].pc = "commit"
              /\ \E gone : req'[r] = [req[r] EXCEPT !.gone = gone]
<1> DEFINE Goal == \/ SaveStep(r) \/ Busy(r) \/ \E body \in Bodies : Post(r, body)
                   \/ /\ req[r].pc = "commit"
                      /\ \E gone : req'[r] = [req[r] EXCEPT !.gone = gone]
<1>1. req \in [Requests -> Request]
  BY DEF TypeOK
<1>2. ASSUME NEW q \in Requests, SaveStep(q) \/ Busy(q) \/ \E body \in Bodies : Post(q, body)
      PROVE  Goal
  <2>1. CASE q = r
    BY <1>2, <2>1
  <2>2. CASE q # r
    <3>1. \/ Commit(q)
          \/ req'[r] = req[r]
      BY <1>1, <1>2, <2>2
         DEF SaveStep, ReadLock, JoinRead, JoinCommit, Check, Read, Busy, Post, Retry, Again, Answer
    <3>2. ASSUME Commit(q) PROVE Goal
      <4>1. Saves(q)
        BY <1>1, <2>2, <3>2, CommitCases DEF Retry, Again, Answer
      <4>2. QED
        BY <2>2, <4>1 DEF Saves
    <3>3. QED
      BY <3>1, <3>2
  <2>3. QED
    BY <2>1, <2>2
<1>3. CASE ReadLockState \/ ReadBracket \/ Admin
  BY <1>3 DEF ReadLockState, ReadBracket, Admin, ToggleUnlock, SetSiteMode, SetDrawMode
<1>4. CASE Play \/ Watch
  BY <1>4 DEF Play, EspnSyncLive, EspnSyncResults, SofaPoll, SofaRetire, SofaRecord, See,
              Watch, EspnDetectsStart, RefineClosing, EspnNamesSlot
<1>5. CASE \/ \E sheet \in Sheets, passed \in BOOLEAN, announced \in BOOLEAN :
                 Scrape(sheet, passed, announced)
           \/ NextDay \/ ClosingPasses
  BY <1>5 DEF Scrape, NextDay, ClosingPasses
<1>6. QED
  BY <1>2, <1>3, <1>4, <1>5 DEF Next, Save, vars

\* Until it is idle again a request has no answer, and from there "saved" is the answer
\* of the commit that wrote.
Unanswered == \A r \in Requests : req[r].pc # "idle" => req[r].answer = "none"

\* The record a request is left with by each step of its own handler.
LEMMA OwnSteps ==
    ASSUME TypeOK, NEW r \in Requests, SaveStep(r) \/ Busy(r)
    PROVE  \/ Saves(r) /\ req[r].pc = "commit" /\ req'[r] = Idle("saved")
           \/ \E a \in {"locked", "refused", "busy", "error"} : req'[r] = Idle(a)
           \/ /\ req'[r].pc \in {"open", "join", "joining", "check", "read"}
              /\ req'[r].answer = req[r].answer /\ req[r].pc # "idle"
           \/ /\ Read(r) /\ req'[r].pc = "commit" /\ req'[r].seen = picks[Owner[r]]
              /\ req'[r].answer = req[r].answer
<1> DEFINE Goal ==
           \/ Saves(r) /\ req[r].pc = "commit" /\ req'[r] = Idle("saved")
           \/ \E a \in {"locked", "refused", "busy", "error"} : req'[r] = Idle(a)
           \/ /\ req'[r].pc \in {"open", "join", "joining", "check", "read"}
              /\ req'[r].answer = req[r].answer /\ req[r].pc # "idle"
           \/ /\ Read(r) /\ req'[r].pc = "commit" /\ req'[r].seen = picks[Owner[r]]
              /\ req'[r].answer = req[r].answer
<1>1. req \in [Requests -> Request] /\ req[r] \in Request
  BY DEF TypeOK
<1>2. ASSUME NEW a \in {"locked", "refused", "busy", "error"}, Answer(r, a) PROVE Goal
  BY <1>1, <1>2 DEF Answer
<1>3. ASSUME Retry(r), req[r].pc # "idle" PROVE Goal
  <2>1. CASE req[r].tries + 1 = Attempts
    BY <1>2, <1>3, <2>1 DEF Retry
  <2>2. CASE req[r].tries + 1 # Attempts
    BY <1>1, <1>3, <2>2 DEF Retry, Again, Request
  <2>3. QED
    BY <2>1, <2>2
<1>4. CASE ReadLock(r)
  <2>1. CASE Closed(draw)
    BY <1>2, <1>4, <2>1 DEF ReadLock
  <2>2. CASE ~Closed(draw)
    BY <1>1, <1>4, <2>2 DEF ReadLock, Request
  <2>3. QED
    BY <2>1, <2>2
<1>5. CASE JoinRead(r)
  BY <1>1, <1>5 DEF JoinRead, Request
<1>6. CASE JoinCommit(r)
  <2>1. \/ Answer(r, "error")
        \/ req' = [req EXCEPT ![r].pc = "check", ![r].seen = NoPicks]
    BY <1>6 DEF JoinCommit
  <2>2. CASE req' = [req EXCEPT ![r].pc = "check", ![r].seen = NoPicks]
    BY <1>1, <1>6, <2>2 DEF JoinCommit, Request
  <2>3. QED
    BY <1>2, <2>1, <2>2
<1>7. CASE Check(r)
  <2>1. CASE Rejected(r) # {}
    BY <1>2, <1>7, <2>1 DEF Check
  <2>2. CASE Rejected(r) = {}
    BY <1>1, <1>7, <2>2 DEF Check, Request
  <2>3. QED
    BY <2>1, <2>2
<1>8. CASE Read(r)
  BY <1>1, <1>8 DEF Read, Request
<1>9. CASE Commit(r)
  <2>1. CASE Saves(r)
    BY <1>9, <2>1, CommitCases DEF Saves
  <2>2. QED
    BY <1>2, <1>3, <1>9, <2>1, CommitCases
<1>10. CASE Busy(r)
  BY <1>3, <1>10 DEF Busy
<1>11. QED
  BY <1>4, <1>5, <1>6, <1>7, <1>8, <1>9, <1>10 DEF SaveStep

LEMMA UnansweredStep ==
    ASSUME TypeOK, Unanswered, [Next]_vars
    PROVE  Unanswered'
<1> SUFFICES ASSUME NEW r \in Requests, req'[r].pc # "idle", req'[r] # req[r]
             PROVE  req'[r].answer = "none"
  BY DEF Unanswered
<1>1. req[r] \in Request /\ req \in [Requests -> Request]
  BY DEF TypeOK
<1>2. CASE \E body \in Bodies : Post(r, body)
  BY <1>1, <1>2 DEF Post, Idle
<1>3. CASE SaveStep(r) \/ Busy(r)
  <2>1. CASE Read(r) /\ req'[r].answer = req[r].answer
    BY <2>1 DEF Unanswered, Read
  <2>2. QED
    BY <1>3, <2>1, OwnSteps DEF Unanswered, Idle
<1>4. CASE req[r].pc = "commit" /\ \E gone : req'[r] = [req[r] EXCEPT !.gone = gone]
  BY <1>1, <1>4 DEF Unanswered, Request
<1>5. QED
  BY <1>2, <1>3, <1>4, OwnMoves

\* "Saved" is the answer of the commit that wrote, and of no other step.
LEMMA WhoIsAnswered ==
    ASSUME TypeOK, [Next]_vars, NEW r \in Requests, req'[r].answer = "saved"
    PROVE  req[r].answer = "saved" \/ Saves(r)
<1>1. req[r] \in Request /\ req \in [Requests -> Request]
  BY DEF TypeOK
<1>2. CASE req'[r] = req[r]
  BY <1>2
<1>3. CASE \E body \in Bodies : Post(r, body)
  BY <1>1, <1>3 DEF Post, Idle
<1>4. CASE SaveStep(r) \/ Busy(r)
  BY <1>4, OwnSteps DEF Idle
<1>5. CASE req[r].pc = "commit" /\ \E gone : req'[r] = [req[r] EXCEPT !.gone = gone]
  BY <1>1, <1>5 DEF Request
<1>6. QED
  BY <1>2, <1>3, <1>4, <1>5, OwnMoves

\* Once a save is accepted its owner has somebody on every contest, and keeps it
\* through every overlapping save, renamed entry and scrape, in a bracket of any size.
THEOREM NothingIsLeftBlank == Spec => []NoHoles
<1>1. Init => NoHoles
  BY DEF Init, NoHoles, Idle
<1>2. TypeOK /\ NoHoles /\ [Next]_vars => NoHoles'
  <2> SUFFICES ASSUME TypeOK, NoHoles, [Next]_vars, NEW r \in Requests,
                      req'[r].answer = "saved", NEW m \in Contests
               PROVE  picks'[Owner[r]][m] # Nobody
    BY DEF NoHoles
  <2>1. Owner[r] \in Users /\ m \in Matches /\ picks \in [Users -> [Matches -> Slot]]
    BY BodyType, Subsets DEF TypeOK
  <2>2. ASSUME NEW q \in Requests, Saves(q), Owner[q] = Owner[r]
        PROVE  picks'[Owner[r]][m] # Nobody
    <3>1. AppliedBy(q) \in [Matches -> Slot]
      BY BodyType DEF AppliedBy, AddedBy, UpdatedBy, ChangedBy, Slot
    <3>2. picks'[Owner[r]] = Completed(AppliedBy(q), named)
      BY <2>1, <2>2 DEF Saves
    <3>3. QED
      BY <3>1, <3>2, CompletedIsWhole
  <2>3. CASE Saves(r)
    BY <2>2, <2>3
  <2>4. CASE req[r].answer = "saved"
    <3>1. picks[Owner[r]][m] # Nobody
      BY <2>4 DEF NoHoles
    <3>2. CASE picks'[Owner[r]][m] # picks[Owner[r]][m]
      BY <2>1, <2>2, <3>1, <3>2, WhoWrites
    <3>3. QED
      BY <3>1, <3>2
  <2>5. QED
    BY <2>3, <2>4, WhoIsAnswered
<1>3. QED
  BY <1>1, <1>2, TypeCorrect, PTL DEF Spec

-----------------------------------------------------------------------------
(* The two readings of the lock, and what others may see.                  *)

\* What a first-round match showed of play it goes on showing; a draw called completed
\* has its first round under way on its own rows; and where ESPN may lock a draw_start
\* draw no admin changes a draw's rule.  The code guarantees none of the three: each is
\* a hazard of its own, and ClosedForEveryReader is false without any one of them.
EvidenceStays     == [][\A m \in RoundOne : InPlay(m) => InPlay(m)']_vars
FinishedWasPlayed == [](draw.status = "completed" => RoundOneStarted)
RuleStays         == EspnFeed => "draw_mode" \notin AdminMay

\* What the lock stamp rests on, and what a disclosure does.
StampedAfterPlay == draw.lockedAt => RoundOneStarted \/ (EspnFeed /\ draw.mode = DrawStart)
ShownAfterPlay   == shown => RoundOneStarted

\* What a step does to the lock stamp and the rule.
LEMMA LockStamped ==
    ASSUME TypeOK, [Next]_vars, draw'.lockedAt, ~draw.lockedAt
    PROVE  \/ draw.status = "completed" \/ RoundOneStarted
           \/ EspnFeed /\ draw'.mode = DrawStart
<1>1. draw \in DrawRow /\ Stamped(draw) \in DrawRow /\ Stamped(draw).mode \in LockModes
  BY StampedType DEF TypeOK, Stamped, DrawRow
<1>2. Stamped(draw).lockedAt = draw.lockedAt
  BY <1>1 DEF Stamped, DrawRow
<1>3. draw' = Resolved(draw) => draw.status = "completed" \/ RoundOneStarted
  BY <1>2 DEF Resolved, RoundOver
<1>4. CASE Save
  <2>1. PICK r \in Requests : SaveStep(r) \/ Busy(r) \/ \E body \in Bodies : Post(r, body)
    BY <1>4 DEF Save
  <2>2. UNCHANGED draw \/ draw' = Resolved(draw)
    BY <2>1, CommitCases DEF SaveStep, ReadLock, JoinRead, JoinCommit, Check, Read, Busy, Post
  <2>3. QED
    BY <1>3, <2>2
<1>5. CASE ReadLockState \/ ReadBracket
  BY <1>2, <1>3, <1>5 DEF ReadLockState, ReadBracket
<1>6. CASE Admin
  <2>1. ASSUME NEW mode \in LockModes \cup {"unset"}, SetDrawMode(mode) PROVE FALSE
    <3>1. [draw EXCEPT !.mode = mode] \in DrawRow
      BY <1>1 DEF DrawRow
    <3>2. [draw EXCEPT !.mode = mode].lockedAt = draw.lockedAt
      BY <1>1 DEF DrawRow
    <3>3. Stamped([draw EXCEPT !.mode = mode]).lockedAt = draw.lockedAt
      BY <3>1, <3>2 DEF Stamped, DrawRow
    <3>4. QED
      BY <2>1, <3>3 DEF SetDrawMode
  <2>2. QED
    BY <1>1, <1>6, <2>1 DEF Admin, ToggleUnlock, SetSiteMode, DrawRow
<1>7. CASE Play
  BY <1>7 DEF Play, EspnSyncLive, EspnSyncResults, SofaPoll, SofaRetire, SofaRecord, See
<1>8. CASE Watch
  <2>1. CASE EspnDetectsStart
    <3>1. EspnFeed
      BY <2>1 DEF EspnDetectsStart
    <3>2. Stamped(draw).mode # Progressive
      BY <1>2, <2>1 DEF EspnDetectsStart
    <3>3. draw' = [Stamped(draw) EXCEPT !.lockedAt = TRUE, !.closing = TRUE]
      BY <2>1, <3>2 DEF EspnDetectsStart
    <3>4. draw'.mode = DrawStart
      BY <1>1, <3>2, <3>3 DEF DrawRow, LockModes
    <3>5. QED
      BY <3>1, <3>4
  <2>2. QED
    BY <1>1, <1>8, <2>1 DEF Watch, RefineClosing, EspnNamesSlot, DrawRow
<1>9. ASSUME NEW sheet \in Sheets, NEW passed \in BOOLEAN, NEW announced \in BOOLEAN,
             Scrape(sheet, passed, announced)
      PROVE  FALSE
  BY <1>1, <1>9, ScrapeDates DEF Scrape
<1>10. CASE NextDay \/ ClosingPasses
  BY <1>1, <1>10 DEF NextDay, ClosingPasses, DrawRow
<1>11. CASE UNCHANGED vars
  BY <1>11 DEF vars
<1>12. QED
  BY <1>4, <1>5, <1>6, <1>7, <1>8, <1>9, <1>10, <1>11 DEF Next

\* Short of an admin's own request the rule of a draw is only ever stamped, from the
\* site's.
LEMMA RuleKept ==
    ASSUME TypeOK, [Next]_vars, "draw_mode" \notin AdminMay
    PROVE  draw'.mode = draw.mode \/ (draw.mode \notin LockModes /\ draw'.mode = siteMode)
<1> DEFINE Goal == draw'.mode = draw.mode \/ (draw.mode \notin LockModes /\ draw'.mode = siteMode)
<1>1. /\ draw \in DrawRow /\ Stamped(draw) \in DrawRow
      /\ \/ Stamped(draw).mode = draw.mode
         \/ draw.mode \notin LockModes /\ Stamped(draw).mode = siteMode
  BY StampedType DEF TypeOK, Stamped, DrawRow
<1>2. Resolved(draw).mode = Stamped(draw).mode
  BY <1>1 DEF Resolved, DrawRow
<1>3. CASE Save
  <2>1. PICK r \in Requests : SaveStep(r) \/ Busy(r) \/ \E body \in Bodies : Post(r, body)
    BY <1>3 DEF Save
  <2>2. UNCHANGED draw \/ draw' = Resolved(draw)
    BY <2>1, CommitCases DEF SaveStep, ReadLock, JoinRead, JoinCommit, Check, Read, Busy, Post
  <2>3. QED
    BY <1>1, <1>2, <2>2
<1>4. CASE ReadLockState \/ ReadBracket
  BY <1>1, <1>2, <1>4 DEF ReadLockState, ReadBracket
<1>5. CASE Admin
  BY <1>1, <1>5 DEF Admin, ToggleUnlock, SetSiteMode, SetDrawMode, DrawRow
<1>6. CASE Play
  BY <1>6 DEF Play, EspnSyncLive, EspnSyncResults, SofaPoll, SofaRetire, SofaRecord, See
<1>7. CASE Watch
  BY <1>1, <1>7 DEF Watch, EspnDetectsStart, RefineClosing, EspnNamesSlot, DrawRow
<1>8. ASSUME NEW sheet \in Sheets, NEW passed \in BOOLEAN, NEW announced \in BOOLEAN,
             Scrape(sheet, passed, announced)
      PROVE  Goal
  BY <1>1, <1>8, ScrapeDates DEF Scrape
<1>9. CASE NextDay \/ ClosingPasses
  BY <1>1, <1>9 DEF NextDay, ClosingPasses, DrawRow
<1>10. CASE UNCHANGED vars
  BY <1>10 DEF vars
<1>11. QED
  BY <1>3, <1>4, <1>5, <1>6, <1>7, <1>8, <1>9, <1>10 DEF Next

\* Others' brackets are first served by the reader that finds them visible.
LEMMA WhoShows ==
    ASSUME TypeOK, [Next]_vars, shown', ~shown
    PROVE  draw.status = "completed" \/ RoundOneStarted
<1>1. CASE ReadBracket
  BY <1>1 DEF ReadBracket, PredictionsVisible
<1>2. UNCHANGED shown \/ ReadBracket
  <2>1. CASE Save
    <3>1. PICK r \in Requests : SaveStep(r) \/ Busy(r) \/ \E body \in Bodies : Post(r, body)
      BY <2>1 DEF Save
    <3>2. QED
      BY <3>1, CommitCases DEF SaveStep, ReadLock, JoinRead, JoinCommit, Check, Read, Busy, Post
  <2>2. CASE ReadLockState \/ Admin
    BY <2>2 DEF ReadLockState, Admin, ToggleUnlock, SetSiteMode, SetDrawMode
  <2>3. CASE Play
    BY <2>3 DEF Play, EspnSyncLive, EspnSyncResults, SofaPoll, SofaRetire, SofaRecord, See
  <2>4. CASE Watch
    BY <2>4 DEF Watch, EspnDetectsStart, RefineClosing, EspnNamesSlot
  <2>5. CASE \/ \E sheet \in Sheets, passed \in BOOLEAN, announced \in BOOLEAN :
                   Scrape(sheet, passed, announced)
             \/ NextDay \/ ClosingPasses
    BY <2>5 DEF Scrape, NextDay, ClosingPasses
  <2>6. CASE UNCHANGED vars
    BY <2>6 DEF vars
  <2>7. QED
    BY <2>1, <2>2, <2>3, <2>4, <2>5, <2>6 DEF Next
<1>3. QED
  BY <1>1, <1>2

LEMMA PlayStays ==
    ASSUME [Next]_vars, [\A m \in RoundOne : InPlay(m) => InPlay(m)']_vars, RoundOneStarted
    PROVE  RoundOneStarted'
<1>1. CASE UNCHANGED vars
  BY <1>1 DEF RoundOneStarted, InPlay, vars
<1>2. CASE \A m \in RoundOne : InPlay(m) => InPlay(m)'
  BY <1>2 DEF RoundOneStarted
<1>3. QED
  BY <1>1, <1>2

\* A draw whose row says it is closed refuses every save, whatever the bracket, the
\* feeds, the sheets and the order of their steps, for as long as play once seen stays
\* on record, a draw called completed has been played, and its rule stays put.
THEOREM ClosedForEveryReader ==
    ASSUME RuleStays
    PROVE  Spec /\ EvidenceStays /\ FinishedWasPlayed => []ReadersAgree
<1> DEFINE Played == draw.status = "completed" => RoundOneStarted
           Keeps  == \A m \in RoundOne : InPlay(m) => InPlay(m)'
<1>1. Init => StampedAfterPlay
  BY PickLockAssumption DEF Init, StampedAfterPlay
<1>2. TypeOK /\ Played /\ StampedAfterPlay /\ [Next]_vars /\ [Keeps]_vars => StampedAfterPlay'
  <2> SUFFICES ASSUME TypeOK, Played, StampedAfterPlay, [Next]_vars, [Keeps]_vars, draw'.lockedAt
               PROVE  RoundOneStarted' \/ (EspnFeed /\ draw'.mode = DrawStart)
    BY DEF StampedAfterPlay
  <2>1. RoundOneStarted => RoundOneStarted'
    BY PlayStays
  <2>2. CASE ~draw.lockedAt
    BY <2>1, <2>2, LockStamped
  <2>3. CASE draw.lockedAt /\ RoundOneStarted
    BY <2>1, <2>3
  <2>4. CASE EspnFeed /\ draw.mode = DrawStart
    BY <2>4, RuleKept DEF RuleStays, LockModes
  <2>5. QED
    BY <2>2, <2>3, <2>4 DEF StampedAfterPlay
<1>3. TypeOK /\ StampedAfterPlay => ReadersAgree
  <2> SUFFICES ASSUME TypeOK, StampedAfterPlay, draw.mode \in LockModes, IsLocked(draw)
               PROVE  Closed(draw)
    BY DEF ReadersAgree
  <2>1. Stamped(draw) = draw /\ ~draw.unlocked
    BY DEF Stamped, IsLocked
  <2>2. CASE draw.mode = DrawStart
    BY <2>1, <2>2 DEF Closed
  <2>3. CASE draw.mode = Progressive
    <3>1. draw.lockedAt /\ draw.mode # DrawStart
      BY <2>3 DEF IsLocked, Progressive, DrawStart
    <3>2. RoundOver(draw)
      BY <2>1, <2>3, <3>1 DEF StampedAfterPlay, RoundOver
    <3>3. QED
      BY <2>1, <3>2 DEF Closed
  <2>4. QED
    BY <2>2, <2>3 DEF LockModes
<1>4. QED
  BY <1>1, <1>2, <1>3, TypeCorrect, PTL DEF Spec, EvidenceStays, FinishedWasPlayed

\* Nobody edits a bracket after seeing another's, whichever feeds report and whatever
\* the admins change, for as long as play once seen stays on record and a draw called
\* completed has been played.
THEOREM NobodyCribs == Spec /\ EvidenceStays /\ FinishedWasPlayed => []NoCrib
<1> DEFINE Played == draw.status = "completed" => RoundOneStarted
           Keeps  == \A m \in RoundOne : InPlay(m) => InPlay(m)'
<1>1. Init => ShownAfterPlay
  BY DEF Init, ShownAfterPlay
<1>2. TypeOK /\ Played /\ ShownAfterPlay /\ [Next]_vars /\ [Keeps]_vars => ShownAfterPlay'
  <2> SUFFICES ASSUME TypeOK, Played, ShownAfterPlay, [Next]_vars, [Keeps]_vars, shown'
               PROVE  RoundOneStarted'
    BY DEF ShownAfterPlay
  <2>1. RoundOneStarted
    BY WhoShows DEF ShownAfterPlay
  <2>2. QED
    BY <2>1, PlayStays
<1>3. ShownAfterPlay => NoCrib
  BY DEF ShownAfterPlay, NoCrib, Closed, RoundOver, Stamped, LockModes
<1>4. QED
  BY <1>1, <1>2, <1>3, TypeCorrect, PTL DEF Spec, EvidenceStays, FinishedWasPlayed

\* Only a scrape calls a draw completed, and one whose sheet carries no results only
\* when every contest has a winner on its row.
LEMMA StatusKept ==
    ASSUME TypeOK, [Next]_vars, draw'.status = "completed", draw.status # "completed"
    PROVE  \E sheet \in Sheets, passed \in BOOLEAN : draw' = ScrapedDraw(sheet, passed)
<1>1. draw \in DrawRow
  BY DEF TypeOK
<1>2. \A d \in DrawRow : Stamped(d).status = d.status
  BY DEF Stamped, DrawRow
<1>3. draw' # Resolved(draw) /\ draw' # Stamped(draw)
  <2>1. Resolved(draw).status = draw.status
    BY <1>1, StampedType, <1>2 DEF Resolved, Stamped, DrawRow, TypeOK
  <2>2. QED
    BY <1>1, <1>2, <2>1
<1>4. ASSUME NEW mode \in LockModes \cup {"unset"}, draw' = Stamped([draw EXCEPT !.mode = mode])
      PROVE  FALSE
  <2>1. [draw EXCEPT !.mode = mode] \in DrawRow /\ [draw EXCEPT !.mode = mode].status = draw.status
    BY <1>1 DEF DrawRow
  <2>2. QED
    BY <1>2, <1>4, <2>1
<1>5. draw' # [Stamped(draw) EXCEPT !.lockedAt = TRUE, !.closing = TRUE]
  BY <1>1 DEF Stamped, DrawRow
<1>6. /\ draw' # [draw EXCEPT !.unlocked = ~@] /\ draw' # [draw EXCEPT !.day = @ - 1]
      /\ draw' # [draw EXCEPT !.closing = TRUE] /\ draw' # draw
  BY <1>1 DEF DrawRow
<1>7. ASSUME NEW day1 \in FirstDay .. LastDay, NEW passed \in BOOLEAN,
             draw' = [draw EXCEPT !.day = IF day1 >= 0 THEN day1 ELSE @, !.closing = passed]
      PROVE  FALSE
  BY <1>1, <1>7 DEF DrawRow
<1>8. QED
  BY <1>3, <1>4, <1>5, <1>6, <1>7, RowSteps

LEMMA ScrapedCompleted ==
    ASSUME draw \in DrawRow, NEW sheet \in Sheets, NEW passed \in BOOLEAN,
           ScrapedDraw(sheet, passed).status = "completed",
           ~(sheet.carriesResults /\ sheet.played = "all")
    PROVE  {m \in Contests : "winner" \in evidence[m]} = Contests
<1> DEFINE c == Snapped(Indexed(Released(Dated(draw, sheet, passed), sheet), sheet), sheet)
           decided == {m \in Contests : "winner" \in evidence[m]}
<1>1. c \in DrawRow
  BY ScrapedRow
<1>2. ScrapedDraw(sheet, passed) = Status(c, sheet)
  BY DEF ScrapedDraw
<1> HIDE DEF c
<1>3. sheet.carriesResults \in BOOLEAN
  BY PickLockAssumption
<1>4. Status(c, sheet).status = "completed" => decided = Contests
  BY <1>1, <1>3 DEF Status, DrawRow
<1>5. QED
  BY <1>2, <1>4

\* A draw that only Sofascore follows, whose events carry their start times and whose
\* sheets never report a finished draw ahead of the match rows.
SofascoreAlone ==
    /\ ~EspnFeed /\ StartStamps \subseteq {TRUE}
    /\ RoundOne # {}
    /\ \A sheet \in Sheets : ~(sheet.carriesResults /\ sheet.played = "all")

\* Such a draw meets the terms of the two theorems by itself: the start stamp is a column
\* no feed ever clears.
THEOREM SofascoreKeepsTheTerms ==
    ASSUME SofascoreAlone
    PROVE  Spec => EvidenceStays /\ FinishedWasPlayed
<1> USE DEF SofascoreAlone
<1> DEFINE Stamps == \A m \in Contests : evidence[m] # {} => "sofa_started" \in evidence[m]
           Played == draw.status = "completed" => RoundOneStarted
           Keeps  == \A m \in RoundOne : InPlay(m) => InPlay(m)'
<1>1. Init => Stamps /\ Played
  BY PickLockAssumption DEF Init
<1>2. TypeOK /\ Stamps /\ [Next]_vars =>
        Stamps' /\ \A m \in Contests : "sofa_started" \in evidence[m] => "sofa_started" \in evidence'[m]
  <2> SUFFICES ASSUME TypeOK, Stamps, [Next]_vars
               PROVE  Stamps' /\ \A m \in Contests :
                          "sofa_started" \in evidence[m] => "sofa_started" \in evidence'[m]
    OBVIOUS
  <2>1. evidence \in [Contests -> SUBSET Columns]
    BY DEF TypeOK
  <2>2. CASE UNCHANGED evidence
    BY <2>2
  <2>3. CASE Play
    <3>1. PICK m \in Contests :
             \/ SofaRetire(m)
             \/ \E stamped \in StartStamps : SofaPoll(m, stamped) \/ SofaRecord(m, stamped)
      BY <2>3 DEF Play, EspnSyncLive, EspnSyncResults, EspnWatches
    <3>2. \A k \in Contests : k # m => evidence'[k] = evidence[k]
      BY <2>1, <3>1 DEF SofaRetire, SofaPoll, SofaRecord, See
    <3>3. /\ evidence'[m] # {} => "sofa_started" \in evidence'[m]
          /\ "sofa_started" \in evidence[m] => "sofa_started" \in evidence'[m]
      <4>1. CASE SofaRetire(m)
        <5>1. evidence'[m] = evidence[m] \ ({"sofa_live"} \cup Promoted("live"))
          BY <2>1, <4>1 DEF SofaRetire, See
        <5>2. QED
          BY <5>1 DEF Promoted
      <4>2. ASSUME NEW stamped \in StartStamps, SofaPoll(m, stamped) \/ SofaRecord(m, stamped)
            PROVE  "sofa_started" \in evidence'[m]
        BY <2>1, <4>2 DEF SofaPoll, SofaRecord, See, Started
      <4>3. QED
        BY <3>1, <4>1, <4>2
    <3>4. QED
      BY <3>2, <3>3
  <2>4. UNCHANGED evidence \/ Play
    <3>1. CASE Save
      <4>1. PICK r \in Requests : SaveStep(r) \/ Busy(r) \/ \E body \in Bodies : Post(r, body)
        BY <3>1 DEF Save
      <4>2. QED
        BY <4>1, CommitCases DEF SaveStep, ReadLock, JoinRead, JoinCommit, Check, Read, Busy, Post
    <3>2. CASE ReadLockState \/ ReadBracket \/ Admin
      BY <3>2 DEF ReadLockState, ReadBracket, Admin, ToggleUnlock, SetSiteMode, SetDrawMode
    <3>3. CASE Watch
      BY <3>3 DEF Watch, EspnDetectsStart, RefineClosing, EspnNamesSlot
    <3>4. CASE \/ \E sheet \in Sheets, passed \in BOOLEAN, announced \in BOOLEAN :
                     Scrape(sheet, passed, announced)
               \/ NextDay \/ ClosingPasses
      BY <3>4 DEF Scrape, NextDay, ClosingPasses
    <3>5. CASE UNCHANGED vars
      BY <3>5 DEF vars
    <3>6. QED
      BY <3>1, <3>2, <3>3, <3>4, <3>5 DEF Next
  <2>5. QED
    BY <2>2, <2>3, <2>4
<1>3. TypeOK /\ Stamps /\ [Next]_vars => Keeps
  BY <1>2, Subsets DEF InPlay
<1>4. TypeOK /\ Stamps /\ Played /\ [Next]_vars => Played'
  <2> SUFFICES ASSUME TypeOK, Stamps, Played, [Next]_vars, draw'.status = "completed"
               PROVE  RoundOneStarted'
    OBVIOUS
  <2>1. draw \in DrawRow
    BY DEF TypeOK
  <2>2. CASE draw.status = "completed"
    BY <1>3, <2>2 DEF RoundOneStarted
  <2>3. CASE draw.status # "completed"
    <3>1. PICK sheet \in Sheets, passed \in BOOLEAN : draw' = ScrapedDraw(sheet, passed)
      BY <2>3, StatusKept
    <3>2. {m \in Contests : "winner" \in evidence[m]} = Contests
      BY <2>1, <3>1, ScrapedCompleted
    <3>3. RoundOneStarted
      BY <3>2, Subsets DEF RoundOneStarted, InPlay
    <3>4. QED
      BY <1>3, <3>3 DEF RoundOneStarted
  <2>4. QED
    BY <2>2, <2>3
<1>5. QED
  BY <1>1, <1>2, <1>3, <1>4, TypeCorrect, PTL DEF Spec, EvidenceStays, FinishedWasPlayed

\* So in a bracket of any size that Sofascore follows, with any users and saves, a draw
\* that reads locked refuses every save and nobody edits after seeing another's bracket.
THEOREM SofascoreDrawsCloseForAll ==
    ASSUME SofascoreAlone
    PROVE  Spec => [](ReadersAgree /\ NoCrib)
<1>1. RuleStays
  BY DEF SofascoreAlone, RuleStays
<1>2. QED
  BY <1>1, ClosedForEveryReader, NobodyCribs, SofascoreKeepsTheTerms, PTL

-----------------------------------------------------------------------------
(* What a save leaves of what it posted.                                   *)

\* One bracket is saved by one request at a time.
OneSaveAtATime == \A r \in Requests, q \in Requests : Owner[r] = Owner[q] => r = q

\* The rows a save read are as it read them until it commits.
SeenStands ==
    \A r \in Requests : req[r].pc = "commit" =>
        \A m \in Matches : req[r].seen[m] # Nobody => picks[Owner[r]][m] = req[r].seen[m]

\* A request reaches its commit by reading what is stored.
LEMMA ReachesCommit ==
    ASSUME TypeOK, [Next]_vars, NEW r \in Requests, req'[r].pc = "commit"
    PROVE  \/ req[r].pc = "commit" /\ req'[r].seen = req[r].seen
           \/ UNCHANGED picks /\ req'[r].seen = picks[Owner[r]]
<1>1. req[r] \in Request /\ req \in [Requests -> Request]
  BY DEF TypeOK
<1>2. CASE req'[r] = req[r]
  BY <1>2
<1>3. CASE \E body \in Bodies : Post(r, body)
  BY <1>1, <1>3 DEF Post, Idle
<1>4. CASE SaveStep(r) \/ Busy(r)
  <2>1. Read(r) /\ req'[r].seen = picks[Owner[r]]
    <3>1. \A a : Idle(a).pc # "commit"
      BY DEF Idle
    <3>2. QED
      BY <1>4, <3>1, OwnSteps
  <2>2. QED
    BY <2>1 DEF Read
<1>5. CASE req[r].pc = "commit" /\ \E gone : req'[r] = [req[r] EXCEPT !.gone = gone]
  BY <1>1, <1>5 DEF Request
<1>6. QED
  BY <1>2, <1>3, <1>4, <1>5, OwnMoves

LEMMA WhoCommits ==
    ASSUME TypeOK, Unanswered, [Next]_vars, NEW r \in Requests, Committing(r)
    PROVE  Saves(r)
BY WhoIsAnswered DEF Committing, Unanswered

\* Where a user has one save in flight, a save answered 200 left every pick it posted
\* in the table, whatever feeds, sheets, retries and other users ran between its reads
\* and its commit.  (Two saves of one user do not: a posted pick equal to the row as it
\* was read is not written.)
THEOREM WhatIsPostedIsSaved ==
    ASSUME OneSaveAtATime
    PROVE  Spec => SavedIsPosted
<1> DEFINE Step ==
      \A r \in Requests : Committing(r) =>
          \A m \in DOMAIN req[r].body :
              req[r].body[m] # Nobody => picks'[Owner[r]][m] = req[r].body[m]
<1>1. Init => SeenStands /\ Unanswered
  BY DEF Init, SeenStands, Unanswered, Idle
<1>2. TypeOK /\ SeenStands /\ [Next]_vars => SeenStands'
  <2> SUFFICES ASSUME TypeOK, SeenStands, [Next]_vars, NEW r \in Requests,
                      req'[r].pc = "commit", NEW m \in Matches, req'[r].seen[m] # Nobody
               PROVE  picks'[Owner[r]][m] = req'[r].seen[m]
    BY DEF SeenStands
  <2>1. Owner[r] \in Users
    BY BodyType
  <2>2. CASE UNCHANGED picks /\ req'[r].seen = picks[Owner[r]]
    BY <2>2
  <2>3. CASE req[r].pc = "commit" /\ req'[r].seen = req[r].seen
    <3>1. picks[Owner[r]][m] = req[r].seen[m]
      BY <2>3 DEF SeenStands
    <3>2. SUFFICES ASSUME picks'[Owner[r]][m] # picks[Owner[r]][m] PROVE FALSE
      BY <2>3, <3>1
    <3>3. PICK q \in Requests : Owner[q] = Owner[r] /\ Saves(q)
      BY <2>1, <2>3, <3>1, <3>2, WhoWrites
    <3>4. q = r
      BY <3>3 DEF OneSaveAtATime
    <3>5. req'[r].pc = "idle"
      BY <3>3, <3>4 DEF Saves, Idle
    <3>6. QED
      BY <3>5
  <2>4. QED
    BY <2>2, <2>3, ReachesCommit
<1>3. TypeOK /\ SeenStands /\ Unanswered /\ [Next]_vars => [Step]_vars
  <2> SUFFICES ASSUME TypeOK, SeenStands, Unanswered, [Next]_vars, NEW r \in Requests, Committing(r),
                      NEW m \in DOMAIN req[r].body, req[r].body[m] # Nobody
               PROVE  picks'[Owner[r]][m] = req[r].body[m]
    OBVIOUS
  <2>1. Owner[r] \in Users /\ m \in Matches
    BY BodyType, Subsets
  <2>2. Saves(r)
    BY WhoCommits
  <2>3. picks'[Owner[r]] = Completed(AppliedBy(r), named)
    BY <2>1, <2>2 DEF Saves, TypeOK
  <2>4. CASE m \in ChangedBy(r)
    <3>1. m \in AddedBy(r) \cup UpdatedBy(r)
      BY <2>4 DEF AddedBy, UpdatedBy
    <3>2. QED
      BY <2>1, <2>3, <3>1, CommitWrites
  <2>5. CASE m \notin ChangedBy(r)
    <3>1. req[r].seen[m] = req[r].body[m]
      BY <2>5 DEF ChangedBy
    <3>2. picks[Owner[r]][m] = req[r].body[m]
      BY <2>1, <3>1 DEF SeenStands, Committing
    <3>3. QED
      BY <2>1, <2>3, <2>5, <3>2, CommitWrites
  <2>6. QED
    BY <2>4, <2>5
<1>4. QED
  BY <1>1, <1>2, <1>3, UnansweredStep, TypeCorrect, PTL DEF Spec, SavedIsPosted

-----------------------------------------------------------------------------
(* A frozen pick is not changed by the save that saw it frozen.            *)

\* The rows a late joiner's fill read are as it read them; when it is done every frozen
\* contest has a pick; and what the comparison with the stored picks established stays
\* true of the table until the save reads it again, and then of what it read.
Heeded ==
    \A r \in Requests :
        /\ req[r].pc = "joining" => \A m \in Matches :
              req[r].seen[m] # Nobody => picks[Owner[r]][m] = req[r].seen[m]
        /\ req[r].pc = "check" => \A m \in req[r].locked \cap Contests :
              picks[Owner[r]][m] # Nobody
        /\ \A m \in DOMAIN req[r].body \cap req[r].locked :
              /\ req[r].pc = "read"   => /\ picks[Owner[r]][m] = req[r].body[m]
                                         /\ req[r].body[m] # Nobody
              /\ req[r].pc = "commit" => req[r].seen[m] = req[r].body[m]

\* A late joiner's fill leaves none of the contests it was asked about blank.
LEMMA JoinFills ==
    ASSUME TypeOK, Heeded, NEW r \in Requests, JoinCommit(r), req'[r].pc = "check"
    PROVE  \A m \in req[r].locked \cap Contests : picks'[Owner[r]][m] # Nobody
<1> DEFINE new   == FillMissing(req[r].seen, req[r].locked, named)
           added == {m \in Matches : new[m] # req[r].seen[m]}
<1>1. /\ Owner[r] \in Users /\ req[r].seen \in [Matches -> Slot]
      /\ picks \in [Users -> [Matches -> Slot]] /\ req \in [Requests -> Request]
  BY BodyType DEF TypeOK
<1>2. \A m \in req[r].locked \cap Contests : new[m] # Nobody
  BY <1>1, FillIsWhole
<1>3. ~\E m \in added : picks[Owner[r]][m] # Nobody
  BY <1>1 DEF JoinCommit, Answer, Idle
<1>4. picks'[Owner[r]] = [m \in Matches |-> IF m \in added THEN new[m] ELSE picks[Owner[r]][m]]
  <2>1. picks' = [picks EXCEPT ![Owner[r]] =
                    [m \in Matches |-> IF m \in added THEN new[m] ELSE picks[Owner[r]][m]]]
    BY <1>1, <1>3 DEF JoinCommit
  <2> HIDE DEF new, added
  <2>2. QED
    BY <1>1, <2>1
<1> HIDE DEF new
<1>5. \A m \in Matches : req[r].seen[m] # Nobody => picks[Owner[r]][m] = req[r].seen[m]
  BY DEF Heeded, JoinCommit
<1>6. QED
  BY <1>2, <1>4, <1>5, Subsets

LEMMA HeededStep ==
    ASSUME OneSaveAtATime, TypeOK, Heeded, [Next]_vars
    PROVE  Heeded'
<1> SUFFICES ASSUME NEW r \in Requests
             PROVE  /\ req'[r].pc = "joining" => \A m \in Matches :
                          req'[r].seen[m] # Nobody => picks'[Owner[r]][m] = req'[r].seen[m]
                    /\ req'[r].pc = "check" => \A m \in req'[r].locked \cap Contests :
                          picks'[Owner[r]][m] # Nobody
                    /\ \A m \in DOMAIN req'[r].body \cap req'[r].locked :
                          /\ req'[r].pc = "read"   => /\ picks'[Owner[r]][m] = req'[r].body[m]
                                                      /\ req'[r].body[m] # Nobody
                          /\ req'[r].pc = "commit" => req'[r].seen[m] = req'[r].body[m]
  BY DEF Heeded
<1> DEFINE Goal ==
       /\ req'[r].pc = "joining" => \A m \in Matches :
             req'[r].seen[m] # Nobody => picks'[Owner[r]][m] = req'[r].seen[m]
       /\ req'[r].pc = "check" => \A m \in req'[r].locked \cap Contests :
             picks'[Owner[r]][m] # Nobody
       /\ \A m \in DOMAIN req'[r].body \cap req'[r].locked :
             /\ req'[r].pc = "read"   => /\ picks'[Owner[r]][m] = req'[r].body[m]
                                         /\ req'[r].body[m] # Nobody
             /\ req'[r].pc = "commit" => req'[r].seen[m] = req'[r].body[m]
<1>1. /\ req[r] \in Request /\ req \in [Requests -> Request] /\ Owner[r] \in Users
      /\ DOMAIN req[r].body \subseteq Contests
  BY BodyType DEF TypeOK
<1>2. ASSUME req[r].pc # "commit", NEW m \in Matches, picks[Owner[r]][m] # Nobody
      PROVE  picks'[Owner[r]][m] = picks[Owner[r]][m]
  BY <1>1, <1>2, WhoWrites DEF OneSaveAtATime
<1>3. CASE req'[r] = req[r]
  <2>1. CASE req[r].pc = "joining"
    BY <1>2, <1>3, <2>1 DEF Heeded
  <2>2. CASE req[r].pc = "check"
    BY <1>2, <1>3, <2>2, Subsets DEF Heeded
  <2>3. CASE req[r].pc = "read"
    BY <1>1, <1>2, <1>3, <2>3, Subsets DEF Heeded
  <2>4. CASE req[r].pc \notin {"joining", "check", "read"}
    BY <1>3, <2>4 DEF Heeded
  <2>5. QED
    BY <2>1, <2>2, <2>3, <2>4
<1>4. CASE \E body \in Bodies : Post(r, body)
  BY <1>1, <1>4 DEF Post, Idle
<1>5. CASE req[r].pc = "commit" /\ \E gone : req'[r] = [req[r] EXCEPT !.gone = gone]
  BY <1>1, <1>5 DEF Heeded, Request
<1>6. CASE req'[r].pc \in {"idle", "open", "join"} \/ (req'[r].pc = "read" /\ req'[r].locked = {})
  BY <1>6
<1>7. ASSUME NEW a, Answer(r, a) PROVE req'[r].pc = "idle"
  BY <1>1, <1>7 DEF Answer, Idle
<1>8. Retry(r) => req'[r].pc \in {"idle", "open"}
  <2>1. req[r].tries + 1 = Attempts /\ Retry(r) => req'[r].pc = "idle"
    BY <1>7 DEF Retry
  <2>2. req[r].tries + 1 # Attempts /\ Retry(r) => req'[r].pc = "open"
    BY <1>1 DEF Retry, Again, Request
  <2>3. QED
    BY <2>1, <2>2
<1>9. CASE ReadLock(r)
  <2>1. CASE Closed(draw)
    BY <1>6, <1>7, <1>9, <2>1 DEF ReadLock
  <2>2. CASE ~Closed(draw)
    BY <1>1, <1>6, <1>9, <2>2 DEF ReadLock, Request
  <2>3. QED
    BY <2>1, <2>2
<1>10. CASE JoinRead(r)
  BY <1>1, <1>10 DEF JoinRead, Request
<1>11. CASE JoinCommit(r)
  <2>1. \/ Answer(r, "error")
        \/ req' = [req EXCEPT ![r].pc = "check", ![r].seen = NoPicks]
    BY <1>11 DEF JoinCommit
  <2>2. CASE req' = [req EXCEPT ![r].pc = "check", ![r].seen = NoPicks]
    <3>1. req'[r].pc = "check" /\ req'[r].locked = req[r].locked
      BY <1>1, <2>2 DEF Request
    <3>2. QED
      BY <1>11, <3>1, JoinFills
  <2>3. QED
    BY <1>6, <1>7, <2>1, <2>2
<1>12. CASE Check(r)
  <2>1. CASE Rejected(r) # {}
    BY <1>6, <1>7, <1>12, <2>1 DEF Check
  <2>2. CASE Rejected(r) = {}
    <3>1. /\ req'[r].pc = "read" /\ req'[r].locked = req[r].locked
          /\ req'[r].body = req[r].body /\ UNCHANGED picks /\ req[r].pc = "check"
      BY <1>1, <1>12, <2>2 DEF Check, Request
    <3>2. \A m \in DOMAIN req[r].body \cap req[r].locked :
             picks[Owner[r]][m] = req[r].body[m] /\ picks[Owner[r]][m] # Nobody
      BY <1>1, <2>2, <3>1 DEF Rejected, Heeded
    <3>3. QED
      BY <3>1, <3>2
  <2>3. QED
    BY <2>1, <2>2
<1>13. CASE Read(r)
  <2>1. /\ req'[r].pc = "commit" /\ req'[r].locked = req[r].locked /\ req[r].pc = "read"
        /\ req'[r].body = req[r].body /\ req'[r].seen = picks[Owner[r]]
    BY <1>1, <1>13 DEF Read, Request
  <2>2. QED
    BY <2>1 DEF Heeded
<1>14. CASE Commit(r) \/ Busy(r)
  <2>1. req'[r].pc \in {"idle", "open"}
    BY <1>7, <1>8, <1>14, CommitCases DEF Busy, Saves, Idle
  <2>2. QED
    BY <1>6, <2>1
<1>15. QED
  BY <1>3, <1>4, <1>5, <1>9, <1>10, <1>11, <1>12, <1>13, <1>14, OwnMoves DEF SaveStep

\* A save never changes a stored pick on a match its own reading of the lock had
\* frozen, for any bracket, bodies, feeds, sheets and number of users, as long as a user
\* has one save in flight: with two, the second can change the row between the first's
\* comparison and its write.
THEOREM FrozenPicksStay ==
    ASSUME OneSaveAtATime
    PROVE  Spec => ChangeWasOpen
<1> DEFINE Step ==
      \A r \in Requests : Committing(r) =>
          \A m \in req[r].locked :
              picks[Owner[r]][m] # Nobody => picks'[Owner[r]][m] = picks[Owner[r]][m]
<1>1. Init => Heeded
  BY DEF Init, Heeded, Idle
<1>2. TypeOK /\ Heeded /\ [Next]_vars => Heeded'
  BY HeededStep
<1>3. TypeOK /\ Heeded /\ [Next]_vars => [Step]_vars
  <2> SUFFICES ASSUME TypeOK, Heeded, [Next]_vars, NEW r \in Requests,
                      NEW m \in req[r].locked, picks[Owner[r]][m] # Nobody,
                      picks'[Owner[r]][m] # picks[Owner[r]][m]
               PROVE  FALSE
    OBVIOUS
  <2>1. Owner[r] \in Users /\ m \in Matches
    BY PickLockAssumption DEF TypeOK, Request
  <2>2. PICK q \in Requests : /\ Owner[q] = Owner[r] /\ req[q].pc = "commit"
                              /\ m \in ChangedBy(q)
    BY <2>1, WhoWrites
  <2>3. q = r
    BY <2>2 DEF OneSaveAtATime
  <2>4. QED
    BY <2>2, <2>3 DEF Heeded, ChangedBy
<1>4. QED
  BY <1>1, <1>2, <1>3, TypeCorrect, PTL DEF Spec, ChangeWasOpen

-----------------------------------------------------------------------------
(* The favourites a first save is completed with.                          *)

\* Who comes through a match of the projection is one of the two who come to it, and
\* the one chosen there if that is one of the two.
LEMMA Advances ==
    ASSUME NEW chosen, NEW names, NEW m \in Matches, m[1] > 1
    PROVE  LET w == ProjectBracket(chosen, names)
           IN  /\ w[m] \in {w[Feeder(m, 1)], w[Feeder(m, 2)]}
               /\ /\ m \notin Byes /\ chosen[m] # Nobody
                  /\ chosen[m] \in {w[Feeder(m, 1)], w[Feeder(m, 2)]}
                  => w[m] = chosen[m]
<1> DEFINE w == ProjectBracket(chosen, names)
           a == w[Feeder(m, 1)]
           b == w[Feeder(m, 2)]
<1>1. w[m] = Filled(w, m, chosen, names)
  BY Projected
<1>2. a # Nobody /\ b # Nobody
  <2>1. Feeder(m, 1) \in Matches /\ Feeder(m, 2) \in Matches
    BY FeederFacts
  <2>2. a \in Entrants /\ b \in Entrants
    BY <2>1, Projected
  <2>3. \A p \in Entrants : p # Nobody
    BY Geometry DEF Entrants, Nobody
  <2>4. QED
    BY <2>2, <2>3
<1> HIDE DEF w
<1>3. m[1] # 1 /\ m \notin Byes
  BY MatchFacts DEF Byes
<1>4. Filled(w, m, chosen, names) = Decide(chosen[m], a, b, names)
  BY <1>3, Zenon DEF Filled
<1> HIDE DEF a, b
<1>5. Decide(chosen[m], a, b, names) \in {a, b}
  BY <1>2 DEF Decide, Better
<1>6. chosen[m] # Nobody /\ chosen[m] \in {a, b} => Decide(chosen[m], a, b, names) = chosen[m]
  BY DEF Decide
<1>7. QED
  BY <1>1, <1>4, <1>5, <1>6 DEF w, a, b

\* In the first round the two are the occupants of the match's own positions.
LEMMA AdvancesFirst ==
    ASSUME NEW chosen, NEW names, NEW m \in Matches, m[1] = 1
    PROVE  LET w == ProjectBracket(chosen, names)
           IN  /\ w[m] \in Span[m]
               /\ \A p \in Span[m] \cap Entrants : m \notin Byes /\ chosen[m] = p => w[m] = p
               /\ \A p \in Span[m] \cap Entrants : m \in Byes => w[m] = p
<1> DEFINE w == ProjectBracket(chosen, names)
           a == Occupant(2 * m[2] - 2 + 1)
           b == Occupant(2 * m[2] - 2 + 2)
<1>1. w[m] = Filled(w, m, chosen, names) /\ w[m] \in Entrants
  BY Projected
<1> HIDE DEF w
<1>2. Filled(w, m, chosen, names) =
        IF m \in Byes THEN Decide(Nobody, a, b, names) ELSE Decide(chosen[m], a, b, names)
  BY Zenon DEF Filled
<1>3. /\ 2 * m[2] - 2 + 1 = 2 * m[2] - 1 /\ 2 * m[2] - 2 + 2 = 2 * m[2]
      /\ Span[m] = {2 * m[2] - 1, 2 * m[2]}
      /\ 2 * m[2] - 1 \in Positions /\ 2 * m[2] \in Positions
  BY FirstRound, MatchFacts
<1>4. /\ a = IF 2 * m[2] - 1 \in EmptySlots THEN Nobody ELSE 2 * m[2] - 1
      /\ b = IF 2 * m[2] \in EmptySlots THEN Nobody ELSE 2 * m[2]
  BY <1>3 DEF Occupant
<1>5. \A p \in Positions : p # Nobody
  BY Geometry DEF Nobody
<1>6. \A p \in Span[m] \cap Entrants : p \in {a, b} /\ p # Nobody
  BY <1>3, <1>4, <1>5 DEF Entrants
<1>7. m \in Byes => a = Nobody \/ b = Nobody
  BY <1>3, <1>4 DEF Byes
<1>8. {a, b} \ {Nobody} \subseteq Span[m]
  BY <1>3, <1>4
<1>9. a # Nobody \/ b # Nobody
  BY SomebodyThere
<1> HIDE DEF a, b
<1>10. \A c : Decide(c, a, b, names) \in {a, b} \ {Nobody}
  BY <1>9 DEF Decide, Better
<1>11. \A p \in {a, b} \ {Nobody} : Decide(p, a, b, names) = p
  BY DEF Decide
<1>12. w[m] \in {a, b} \ {Nobody}
  BY <1>1, <1>2, <1>10
<1>13. QED
  BY <1>1, <1>2, <1>6, <1>7, <1>8, <1>11, <1>12 DEF w

\* Nobody comes through a match outside his part of the bracket.
LEMMA AtHome ==
    ASSUME NEW chosen, NEW names
    PROVE  \A m \in Matches : ProjectBracket(chosen, names)[m] \in Span[m]
<1> DEFINE w == ProjectBracket(chosen, names)
           Home(r) == \A m \in Matches : m[1] <= r => w[m] \in Span[m]
           S == {r \in Nat : Home(r)}
<1>1. Home(0)
  BY MatchFacts
<1>2. ASSUME NEW r \in Nat, Home(r) PROVE Home(r + 1)
  <2> SUFFICES ASSUME NEW m \in Matches, m[1] <= r + 1 PROVE w[m] \in Span[m]
    OBVIOUS
  <2>1. CASE m[1] = 1
    BY <2>1, AdvancesFirst
  <2>2. CASE m[1] > 1
    <3>1. PICK side \in {1, 2} : w[m] = w[Feeder(m, side)]
      BY <2>2, Advances
    <3> HIDE DEF w
    <3>2. /\ Feeder(m, side) \in Matches /\ Feeder(m, side)[1] = m[1] - 1
          /\ Parent(Feeder(m, side)) = m
      BY <2>2, FeederFacts
    <3>3. m[1] - 1 <= r
      BY MatchFacts
    <3>4. w[Feeder(m, side)] \in Span[Feeder(m, side)]
      BY <1>2, <3>2, <3>3
    <3>5. QED
      BY <3>1, <3>2, <3>4, ParentFacts
  <2>3. QED
    BY <2>1, <2>2, MatchFacts
<1>3. S = Nat
  <2> HIDE DEF Home
  <2>1. S \in SUBSET Nat /\ 0 \in S /\ \A r \in S : r + 1 \in S
    BY <1>1, <1>2
  <2> HIDE DEF S
  <2>2. QED
    BY <2>1, Climb
<1>4. Home(NumRounds)
  <2>1. NumRounds \in Nat
    BY Geometry
  <2> HIDE DEF Home
  <2>2. QED
    BY <1>3, <2>1
<1>5. QED
  BY <1>4, MatchFacts

\* A match above k is the parent of one that is k or above it.
LEMMA PathFrom ==
    ASSUME NEW k \in Matches, NEW m \in PathToFinal(k), m # k
    PROVE  \E g \in PathToFinal(k) : Parent(g) = m
<1> SUFFICES ASSUME \A g \in PathToFinal(k) : Parent(g) # m PROVE FALSE
  OBVIOUS
<1> DEFINE C == PathToFinal(k) \ {m}
<1>1. C \in SUBSET Matches /\ k \in C
  BY PathFacts
<1>2. UpwardClosed(C)
  BY PathFacts DEF UpwardClosed
<1>3. PathToFinal(k) \subseteq C
  <2> HIDE DEF C
  <2>1. QED
    BY <1>1, <1>2, PathFacts
<1>4. QED
  BY <1>3

\* Of the players of k's part of the bracket only k's winner gets any further.
LEMMA NoComeback ==
    ASSUME NEW chosen, NEW names, NEW k \in Matches
    PROVE  \A m \in PathToFinal(k) :
              ProjectBracket(chosen, names)[m] \in Span[k]
              => ProjectBracket(chosen, names)[m] = ProjectBracket(chosen, names)[k]
<1> DEFINE w == ProjectBracket(chosen, names)
           Gone(r) == \A m \in PathToFinal(k) : m[1] <= r /\ w[m] \in Span[k] => w[m] = w[k]
           S == {r \in Nat : Gone(r)}
<1>1. Gone(0)
  BY MatchFacts, PathFacts
<1>2. ASSUME NEW r \in Nat, Gone(r) PROVE Gone(r + 1)
  <2> SUFFICES ASSUME NEW m \in PathToFinal(k), m[1] <= r + 1, w[m] \in Span[k], m # k
               PROVE  w[m] = w[k]
    OBVIOUS
  <2>1. PICK g \in PathToFinal(k) : Parent(g) = m
    BY PathFrom
  <2>2. m \in Matches /\ g \in Matches /\ Span[k] \subseteq Span[g]
    BY PathFacts, PathIsAbove
  <2>3. m[1] = g[1] + 1 /\ m[1] > 1 /\ g[1] = m[1] - 1 /\ g[1] <= r
    BY <2>1, <2>2, ParentFacts, MatchFacts
  <2>4. PICK side \in {1, 2} : w[m] = w[Feeder(m, side)]
    BY <2>2, <2>3, Advances
  <2>5. Feeder(m, side) \in Matches /\ Feeder(m, side)[1] = m[1] - 1
    BY <2>2, <2>3, FeederFacts
  <2>6. w[m] \in Span[Feeder(m, side)]
    BY <2>4, <2>5, AtHome
  <2> HIDE DEF w
  <2>7. Feeder(m, side) = g
    BY <2>2, <2>3, <2>5, <2>6, SpansApart
  <2>8. QED
    BY <1>2, <2>3, <2>4, <2>7
<1>3. S = Nat
  <2> HIDE DEF Gone
  <2>1. S \in SUBSET Nat /\ 0 \in S /\ \A r \in S : r + 1 \in S
    BY <1>1, <1>2
  <2> HIDE DEF S
  <2>2. QED
    BY <2>1, Climb
<1>4. Gone(NumRounds)
  <2>1. NumRounds \in Nat
    BY Geometry
  <2> HIDE DEF Gone
  <2>2. QED
    BY <1>3, <2>1
<1>5. QED
  BY <1>4, MatchFacts, PathFacts

\* Where a body names a player he comes from its own part of the bracket: the body has
\* him in the match before, or that match is his bye.  (The web page offers the two
\* who come to a match, and clears the path of a player it replaces.)
CarriedThrough ==
    \A body \in Bodies : \A k \in DOMAIN body : body[k] # Nobody =>
        /\ body[k] \in Span[k]
        /\ k[1] > 1 => \E side \in {1, 2} :
              /\ body[k] \in Span[Feeder(k, side)]
              /\ \/ Feeder(k, side) \in Byes
                 \/ /\ Feeder(k, side) \in DOMAIN body
                    /\ body[Feeder(k, side)] = body[k]

\* A draw that closes as one, whatever its admins do but change the rule.
ClosesAsOne == SiteDefault = DrawStart /\ AdminMay \subseteq {"unlock"}

\* What such a body chooses is what the projection around it plays out.
LEMMA ChosenComeThrough ==
    ASSUME CarriedThrough, NEW body \in Bodies, NEW chosen, NEW names,
           \A m \in DOMAIN body : chosen[m] = body[m]
    PROVE  \A k \in DOMAIN body :
              body[k] # Nobody => ProjectBracket(chosen, names)[k] = body[k]
<1> DEFINE w == ProjectBracket(chosen, names)
           Kept(r) == \A k \in DOMAIN body : k[1] <= r /\ body[k] # Nobody => w[k] = body[k]
           S == {r \in Nat : Kept(r)}
<1>0. /\ DOMAIN body \subseteq Contests
      /\ \A m \in DOMAIN body : body[m] \in Slot /\ m \in Matches /\ m \notin Byes
  BY PickLockAssumption DEF Body, Contests
<1>1. Kept(0)
  BY <1>0, MatchFacts
<1>2. ASSUME NEW r \in Nat, Kept(r) PROVE Kept(r + 1)
  <2> SUFFICES ASSUME NEW k \in DOMAIN body, k[1] <= r + 1, body[k] # Nobody PROVE w[k] = body[k]
    OBVIOUS
  <2>1. /\ k \in Matches /\ k \notin Byes /\ body[k] \in Entrants /\ body[k] \in Span[k]
        /\ chosen[k] = body[k]
    BY <1>0 DEF CarriedThrough, Slot
  <2>2. CASE k[1] = 1
    BY <2>1, <2>2, AdvancesFirst
  <2>3. CASE k[1] > 1
    <3>1. PICK side \in {1, 2} :
             /\ body[k] \in Span[Feeder(k, side)]
             /\ \/ Feeder(k, side) \in Byes
                \/ /\ Feeder(k, side) \in DOMAIN body
                   /\ body[Feeder(k, side)] = body[k]
      BY <2>3 DEF CarriedThrough
    <3>2. Feeder(k, side) \in Matches /\ Feeder(k, side)[1] = k[1] - 1 /\ k[1] - 1 <= r
      BY <2>1, <2>3, FeederFacts, MatchFacts
    <3>3. w[Feeder(k, side)] = body[k]
      <4>1. CASE Feeder(k, side) \in Byes
        <5>1. Feeder(k, side)[1] = 1
          BY <4>1 DEF Byes
        <5>2. QED
          BY <2>1, <3>1, <3>2, <4>1, <5>1, AdvancesFirst
      <4>2. CASE Feeder(k, side) \in DOMAIN body /\ body[Feeder(k, side)] = body[k]
        <5> HIDE DEF w
        <5>1. QED
          BY <1>2, <3>2, <4>2
      <4>3. QED
        BY <3>1, <4>1, <4>2
    <3>4. chosen[k] \in {w[Feeder(k, 1)], w[Feeder(k, 2)]} /\ chosen[k] # Nobody
      <4> HIDE DEF w
      <4>1. QED
        BY <2>1, <3>3
    <3>5. QED
      BY <2>1, <2>3, <3>4, Advances
  <2>4. QED
    BY <2>1, <2>2, <2>3, MatchFacts
<1>3. S = Nat
  <2> HIDE DEF Kept
  <2>1. S \in SUBSET Nat /\ 0 \in S /\ \A r \in S : r + 1 \in S
    BY <1>1, <1>2
  <2> HIDE DEF S
  <2>2. QED
    BY <2>1, Climb
<1>4. Kept(NumRounds)
  <2>1. NumRounds \in Nat
    BY Geometry
  <2> HIDE DEF Kept
  <2>2. QED
    BY <1>3, <2>1
<1>5. QED
  BY <1>0, <1>4, MatchFacts

\* A first save in a draw that closes as one: the table is blank under it until it
\* commits, since nothing is locked that would have to be joined first.
StillBlank ==
    /\ siteMode = DrawStart /\ draw.mode # Progressive
    /\ \A r \in Requests : req[r].pc # "idle" =>
          /\ req[r].pc \in {"open", "read", "commit"} /\ req[r].body \in Bodies
          /\ req[r].fresh => picks[Owner[r]] = NoPicks
          /\ req[r].fresh /\ req[r].pc = "commit" => req[r].seen = NoPicks

\* A bracket nobody has begun is begun by its owner's request.
LEMMA WhoBegins ==
    ASSUME TypeOK, [Next]_vars, NEW u \in Users, picks[u] = NoPicks, picks'[u] # NoPicks
    PROVE  \E r \in Requests : Owner[r] = u /\ (JoinCommit(r) \/ Saves(r))
<1>1. picks \in [Users -> [Matches -> Slot]]
  BY DEF TypeOK
<1>2. ASSUME NEW r \in Requests, SaveStep(r) \/ Busy(r) \/ \E body \in Bodies : Post(r, body)
      PROVE  Owner[r] = u /\ (JoinCommit(r) \/ Saves(r))
  <2>1. CASE JoinCommit(r)
    BY <1>1, <2>1 DEF JoinCommit
  <2>2. CASE Commit(r)
    <3>1. Saves(r)
      BY <2>2, CommitCases
    <3>2. QED
      BY <1>1, <3>1 DEF Saves
  <2>3. QED
    BY <1>2, <2>1, <2>2 DEF SaveStep, ReadLock, JoinRead, Check, Read, Busy, Post
<1>3. ~(ReadLockState \/ ReadBracket \/ Admin)
  BY DEF ReadLockState, ReadBracket, Admin, ToggleUnlock, SetSiteMode, SetDrawMode
<1>4. ~(Play \/ Watch)
  BY DEF Play, EspnSyncLive, EspnSyncResults, SofaPoll, SofaRetire, SofaRecord, See,
         Watch, EspnDetectsStart, RefineClosing, EspnNamesSlot
<1>5. ~(NextDay \/ ClosingPasses) /\ ~UNCHANGED vars
  BY DEF NextDay, ClosingPasses, vars
<1>6. ASSUME NEW sheet \in Sheets, NEW passed \in BOOLEAN, NEW announced \in BOOLEAN,
             Scrape(sheet, passed, announced)
      PROVE  FALSE
  BY <1>1, <1>6 DEF Scrape
<1>7. QED
  BY <1>2, <1>3, <1>4, <1>5, <1>6 DEF Next, Save

LEMMA StillBlankStep ==
    ASSUME OneSaveAtATime, ClosesAsOne, TypeOK, TypeOK', StillBlank, [Next]_vars
    PROVE  StillBlank'
<1>1. siteMode' = DrawStart
  <2>1. ~\E mode \in LockModes : SetSiteMode(mode)
    BY DEF SetSiteMode, ClosesAsOne
  <2>2. UNCHANGED siteMode
    <3>1. CASE Save
      <4>1. PICK r \in Requests : SaveStep(r) \/ Busy(r) \/ \E body \in Bodies : Post(r, body)
        BY <3>1 DEF Save
      <4>2. QED
        BY <4>1, CommitCases DEF SaveStep, ReadLock, JoinRead, JoinCommit, Check, Read, Busy, Post
    <3>2. CASE ReadLockState \/ ReadBracket \/ Admin
      BY <2>1, <3>2 DEF ReadLockState, ReadBracket, Admin, ToggleUnlock, SetDrawMode
    <3>3. CASE Play \/ Watch
      BY <3>3 DEF Play, EspnSyncLive, EspnSyncResults, SofaPoll, SofaRetire, SofaRecord, See,
                  Watch, EspnDetectsStart, RefineClosing, EspnNamesSlot
    <3>4. CASE \/ \E sheet \in Sheets, passed \in BOOLEAN, announced \in BOOLEAN :
                     Scrape(sheet, passed, announced)
               \/ NextDay \/ ClosingPasses
      BY <3>4 DEF Scrape, NextDay, ClosingPasses
    <3>5. CASE UNCHANGED vars
      BY <3>5 DEF vars
    <3>6. QED
      BY <3>1, <3>2, <3>3, <3>4, <3>5 DEF Next
  <2>3. QED
    BY <2>2 DEF StillBlank
<1>2. draw'.mode # Progressive
  BY RuleKept DEF StillBlank, ClosesAsOne, DrawStart, Progressive
<1>3. LockedIds(draw) = {}
  <2>1. Stamped(draw).mode = DrawStart
    BY DEF StillBlank, Stamped, LockModes, TypeOK, DrawRow, DrawStart, Progressive
  <2>2. QED
    BY <2>1 DEF LockedIds
<1>4. ASSUME NEW r \in Requests, req'[r].pc # "idle"
      PROVE  /\ req'[r].pc \in {"open", "read", "commit"} /\ req'[r].body \in Bodies
             /\ req'[r].fresh /\ req'[r].pc = "commit" =>
                  \/ req[r].pc = "commit" /\ req[r].fresh /\ req'[r].seen = req[r].seen
                  \/ req[r].pc # "idle" /\ req[r].fresh /\ req'[r].seen = picks[Owner[r]]
             /\ req'[r].fresh => \/ req[r].pc # "idle" /\ req[r].fresh
                                 \/ picks[Owner[r]] = NoPicks
  <2>1. req[r] \in Request /\ req \in [Requests -> Request]
    BY DEF TypeOK
  <2>2. CASE req'[r] = req[r]
    BY <1>4, <2>2 DEF StillBlank
  <2>3. CASE \E body \in Bodies : Post(r, body)
    <3>1. PICK body \in Bodies : Post(r, body)
      BY <2>3
    <3>2. req'[r] = [Idle("none") EXCEPT !.pc = "open", !.body = body,
                                         !.fresh = (picks[Owner[r]] = NoPicks)]
      BY <2>1, <3>1 DEF Post
    <3>3. req'[r].pc = "open" /\ req'[r].body = body
      BY <3>2 DEF Idle
    <3>4. req'[r].fresh = (picks[Owner[r]] = NoPicks)
      BY <3>2, Zenon DEF Idle
    <3>5. QED
      BY <3>3, <3>4
  <2>4. CASE req[r].pc = "commit" /\ \E gone : req'[r] = [req[r] EXCEPT !.gone = gone]
    BY <2>1, <2>4 DEF StillBlank, Request
  <2>5. ASSUME Retry(r), req[r].pc # "idle"
        PROVE  /\ req'[r].pc = "open" /\ req'[r].body = req[r].body
               /\ req'[r].fresh = req[r].fresh
    <3>1. CASE req[r].tries + 1 = Attempts
      BY <1>4, <2>1, <2>5, <3>1 DEF Retry, Answer, Idle
    <3>2. CASE req[r].tries + 1 # Attempts
      BY <2>1, <2>5, <3>2 DEF Retry, Again, Request
    <3>3. QED
      BY <3>1, <3>2
  <2>6. CASE ReadLock(r)
    <3>1. CASE Closed(draw)
      BY <1>4, <2>1, <2>6, <3>1 DEF ReadLock, Answer, Idle
    <3>2. CASE ~Closed(draw)
      <4>1. req' = [req EXCEPT ![r].locked = {}, ![r].pc = "read"]
        BY <1>3, <2>6, <3>2 DEF ReadLock
      <4>2. /\ req'[r].pc = "read" /\ req'[r].body = req[r].body
            /\ req'[r].fresh = req[r].fresh /\ req[r].pc = "open"
        BY <2>1, <2>6, <4>1 DEF ReadLock, Request
      <4>3. QED
        BY <4>2 DEF StillBlank
    <3>3. QED
      BY <3>1, <3>2
  <2>7. ~(JoinRead(r) \/ JoinCommit(r) \/ Check(r))
    BY DEF StillBlank, JoinRead, JoinCommit, Check
  <2>8. CASE Read(r)
    <3>1. /\ req'[r].pc = "commit" /\ req'[r].seen = picks[Owner[r]] /\ req[r].pc = "read"
          /\ req'[r].body = req[r].body /\ req'[r].fresh = req[r].fresh
      BY <2>1, <2>8 DEF Read, Request
    <3>2. QED
      BY <3>1 DEF StillBlank
  <2>9. CASE Commit(r) \/ Busy(r)
    <3>1. Retry(r) /\ req[r].pc # "idle"
      BY <1>4, <2>1, <2>9, CommitCases DEF Busy, Answer, Saves, Idle
    <3>2. QED
      BY <2>5, <3>1 DEF StillBlank
  <2>10. QED
    BY <2>2, <2>3, <2>4, <2>6, <2>7, <2>8, <2>9, OwnMoves DEF SaveStep
<1>5. ASSUME NEW r \in Requests, req'[r].pc # "idle", req'[r].fresh
      PROVE  picks'[Owner[r]] = NoPicks /\ picks[Owner[r]] = NoPicks
  <2>1. Owner[r] \in Users
    BY BodyType
  <2>2. picks[Owner[r]] = NoPicks
    BY <1>4, <1>5 DEF StillBlank
  <2>3. SUFFICES ASSUME picks'[Owner[r]] # NoPicks PROVE FALSE
    BY <2>2
  <2>4. PICK q \in Requests : Owner[q] = Owner[r] /\ (JoinCommit(q) \/ Saves(q))
    BY <2>1, <2>2, <2>3, WhoBegins
  <2>5. q = r
    BY <2>4 DEF OneSaveAtATime
  <2>6. ~JoinCommit(r)
    BY DEF JoinCommit, StillBlank
  <2>7. QED
    BY <1>5, <2>4, <2>5, <2>6 DEF Saves, Idle
<1>6. QED
  BY <1>1, <1>2, <1>4, <1>5 DEF StillBlank

\* A first save keeps its upsets: in a draw that closes as one, with one save of a user
\* at a time and bodies as the web page posts them, no player whom a save knocked out is
\* among the favourites it is completed with, in a bracket of any size, whatever names,
\* feeds and sheets come in meanwhile.  (Match by match it does not hold: the
\* late_joiner run.)
THEOREM UpsetsSurviveTheFill ==
    ASSUME OneSaveAtATime, ClosesAsOne, CarriedThrough
    PROVE  Spec => KnockedOutStaysOut
<1> DEFINE Step ==
      \A r \in Requests :
          Committing(r) /\ req[r].fresh /\ req[r].locked = {} => NoneReturns(r)
<1>1. Init => StillBlank /\ Unanswered
  BY DEF Init, StillBlank, Unanswered, Idle, ClosesAsOne, Progressive
<1>2. TypeOK /\ TypeOK' /\ StillBlank /\ [Next]_vars => StillBlank'
  BY StillBlankStep
<1>3. TypeOK /\ StillBlank /\ Unanswered /\ [Next]_vars => [Step]_vars
  <2> SUFFICES ASSUME TypeOK, StillBlank, Unanswered, [Next]_vars,
                      NEW r \in Requests, Committing(r), req[r].fresh
               PROVE  NoneReturns(r)
    OBVIOUS
  <2> DEFINE body == req[r].body
             mine == Completed(AppliedBy(r), named)
             w    == ProjectBracket(AppliedBy(r), named)
  <2>1. /\ body \in Bodies /\ picks[Owner[r]] = NoPicks /\ req[r].seen = NoPicks
        /\ Owner[r] \in Users
    BY BodyType DEF StillBlank, Committing
  <2>2. picks'[Owner[r]] = mine
    BY <2>1, WhoCommits DEF Saves, TypeOK
  <2>3. DOMAIN body \subseteq Contests /\ Contests \subseteq Matches
    BY BodyType, Subsets
  <2>4. \A m \in Matches : AppliedBy(r)[m] = IF m \in DOMAIN body THEN body[m] ELSE Nobody
    <3>1. \A m \in Matches : picks[Owner[r]][m] = Nobody /\ req[r].seen[m] = Nobody
      BY <2>1 DEF NoPicks
    <3>2. QED
      BY <2>3, <3>1 DEF AppliedBy, AddedBy, UpdatedBy, DeletedBy, ChangedBy
  <2>5. \A k \in DOMAIN body : body[k] # Nobody => w[k] = body[k]
    <3> HIDE DEF body
    <3>1. QED
      BY <2>1, <2>3, <2>4, ChosenComeThrough
  <2>6. \A m \in Contests \ DOMAIN body : mine[m] = w[m]
    <3>1. \A m \in Matches : w[m] \in Entrants
      BY Projected
    <3> HIDE DEF w
    <3>2. mine = [m \in Matches |-> IF /\ AppliedBy(r)[m] = Nobody
                                       /\ m \in Matches /\ m \in Contests
                                       /\ w[m] \in Entrants
                                    THEN w[m] ELSE AppliedBy(r)[m]]
      BY DEF Completed, FillMissing, w
    <3> HIDE DEF mine, body
    <3>3. QED
      BY <2>3, <2>4, <3>1, <3>2
  <2>7. ASSUME NEW m \in Contests \ DOMAIN body, NEW k \in DOMAIN body,
               body[k] # Nobody, m \in PathToFinal(k), mine[m] \in Span[k]
        PROVE  mine[m] = body[k]
    <3>1. w[m] = w[k]
      BY <2>3, <2>6, <2>7, NoComeback
    <3> HIDE DEF w, mine, body
    <3>2. QED
      BY <2>5, <2>6, <2>7, <3>1
  <2> HIDE DEF mine, w
  <2>8. QED
    BY <2>2, <2>7 DEF NoneReturns
<1>4. QED
  BY <1>1, <1>2, <1>3, UnansweredStep, TypeCorrect, PTL DEF Spec, KnockedOutStaysOut
=============================================================================
