# Upset Alert: models, checks and proofs

TLA+ models of the Upset Alert backend (`src/backend/app`), the TLC runs that
check them on small instances and the TLAPS proofs of what holds for every
instance. They cover **which picks may still change and what a save does to a
bracket**, the setting that chooses the locking rule, **the client that keeps the
site from being banned by Sofascore**, the **notifications** (round digest, draw
release, draw changes), and the way of **a live score** from the pollers to pages
and Lock Screens.

Paths below are relative to `src/backend/app/`.

## 1. The system

One FastAPI process, one asyncio event loop, one SQLite file in WAL mode
(`database.py`). Requests, pollers and scheduled jobs are coroutines: each runs
alone between two awaits, and anything may happen at one. The web and mobile
clients only display what the endpoints answer.

| Component | State | Operations | Talks to | Hard part | Right when |
|---|---|---|---|---|---|
| Pick locking rules, `services/locking.py` | none of its own; stamps `draw.pick_lock_mode`, `draw.picks_locked_at` | `match_in_play`, `draw_lock_state`, `rejected_changes`, `predictions_visible` | reads draw and match rows, called by saves, draw endpoints, the chances warmer | two rules, evidence from two feeds, stored stamp against computed answer | started matches freeze all they settle; every reader gives the same answer |
| Saving a bracket, `routers/predictions.py` | `user_predictions` rows | PUT, GET, retry loop | locking, favourite's bracket | five awaits between reading the lock and committing; two tabs; SQLite refusals | frozen picks stay, no holes, every save answered |
| Favourite's bracket, `services/highest_rank_bot.py` | the bot's own rows | `project_bracket`, `fill_missing_picks`, `sync_draw_picks` | called by saves and scrapes | built around the user's upsets, unnamed slots | never overwrites, never brings back a loser |
| Draw row, `models/tournament.py` | `draws` | `is_locked`, `computed_status` | everybody | dates, release, stamp and clock in any order | a lock made by play is not undone by a date |
| Site settings, `services/settings.py`, `routers/admin.py` | `app_settings`, in-process `_cache` | `get_setting`, `set_setting`, `resolve_draw_lock_mode` | locking | read across awaits, drop before commit | writes take effect, failed writes do not |
| ESPN monitor, `services/espn_monitor.py` | winners, live columns, lock stamp, `closing_time` | `_sync_live`, `_sync_results`, `_check_lock`, `_refine_closing_time`, `_fill_unnamed_slots` | match and draw rows, notifications | evidence can be withdrawn; guesses a start | closes on play only |
| Sofascore pollers, `services/sofascore_live.py`, `sofascore_results.py` | `sofa_*` columns, the scoring columns when authoritative | `poll_once`, `_record` | match rows | late and lost answers, set-loss hold | one source owns scoring |
| Draw scrape, `routers/tournaments.py` `_do_scrape` | dates, release, status, entries, matches | scrape | scraper and fallbacks, favourite's bracket, notifications | 800 lines over a page that anybody edits | never closes or reopens a draw by a misread |
| Notifications, `services/notifications.py`, and their jobs in `services/scheduler.py` | one row per finished round, release stamp and claim per draw, change events, a row per qualifying field | `_notify_pending_round_digests`, `_draw_releases`, `_draw_changes` and the tasks they start | email, push | rows arrive while a sweep decides; overlapping sweeps; a crash between stamp, claim and send | whole, once, and at all |
| Sofascore client, `services/sofascore.py` | gate, breaker, egress, all in memory; breaker and egress in `app_settings` | `_get`, `probe_direct`, `load_breaker`, `load_egress` | Sofascore, directly or by a proxy | answers in flight when the breaker opens; several tasks first after a restart | a refusal stops all traffic, across restarts |
| Live activities, `services/live_activity.py`, `routers/app_push.py` | `live_activities`, pending set, send state | register, delete, `enqueue`, `dispatch`, `reap` | APNs, phones | tokens rotate; reads, sends and writes of a round are apart | no change lost, every row closed |
| Change stream, `services/broadcaster.py`, `routers/stream.py` | bounded queue per subscriber | `publish`, stream | pollers, web pages | full queues and broken lines drop nudges | a page comes to show what is stored |
| Scoring, tiebreak, chances | totals | recompute | matches, picks | ties, numeric sampling | equals the definition |

The rest (schedule documents, third-party draw parsers, rankings, history
linkage, leagues, accounts, mail rendering, clients) is listed with its reason
in `PROJECT.json`; the hazards of each part are there too, at their lines.

## 2. What is modelled

### `Bracket.tla`
The draw as data: match keys `(round, number)`, the feeder and parent relation,
byes, the path to the final (`_locked_with_downstream`), the ranking order and
`project_bracket` / `fill_missing_picks`. An entrant is the position it holds.
Recursion is a recursive function, and `PathToFinal` is a least fixed point, so
that the modules proved about declare no recursive operator.

### `PickLock.tla`
One draw, its users and everything that touches its picks.

| Model | Code |
|---|---|
| `draw` | `Draw`: mode, `picks_locked_at`, the admin unlock, status, release stamp; `day` is `start_date - today`; `closing` says that `closing_time` has passed |
| `evidence[m]` | which of the five columns that `match_in_play` unites are set on the row |
| `named` | entries that carry a name (a qualifier has none at first) |
| `picks` | `user_predictions`; `Nobody` is no row |
| `req[r]` | one PUT handler: where it stands (`pc`), its body, the lock it read, the rows it read, rows it read that were deleted since, its attempt, its answer |
| `fresh`, `shown` | history, for properties only |

A save is `Post`, `ReadLock`, (`JoinRead`, `JoinCommit`, `Check`), `Read`, `Commit`: one
step per stretch between awaits in `_save_predictions_once`. `Busy` is SQLite refusing
the writer at any of its writes; `Commit` also meets the two outcomes of a race with
another save, `StaleDataError` (an update whose row was deleted, retried) and
`IntegrityError` (an insert whose row exists, not retried). The feeds are
`EspnSyncLive`, `EspnSyncResults`, `EspnDetectsStart`, `RefineClosing`, `EspnNamesSlot`,
`SofaPoll`, `SofaRetire`, `SofaRecord`; the page is `Scrape`; admins `ToggleUnlock`,
`SetDrawMode`, `SetSiteMode`; readers `ReadLockState` (a page, or the warmer),
`ReadBracket`; the clock `NextDay`, `ClosingPasses`.

Abstractions, each deliberate:
- `ReadLock` reads the draw row and the match rows in one step; nothing between
  the two reads in the code depends on the first alone.
- From a transaction's first write to its commit is one step: SQLite has a
  single writer. Reads before it are steps of their own, since the driver's
  legacy transactions take no snapshot at a SELECT.
- `Commit` takes the fill after the flush as part of it. With a body that changes nothing
  there is no flush, so no write yet, and names could come between the fill's reads; they
  are read in one step here.
- `JoinCommit` computes the projection from the names current at its commit.
- A completed draw reads `active` until its `end_date`; both close picks, so
  `end_date` is left out.
- A sheet is a parse of the whole bracket. Refused and partial parses, row
  deletion, renames and the sixty-day horizon are left to a scrape module.
  Whether a scrape finds a change worth announcing (which decides whether the
  entrants' brackets are completed) is a free choice.
- Which events ESPN or Sofascore tracks is a choice of the feed, given that the
  match has its two players; ESPN standing by for Sofascore is the constant
  `EspnFeed`. Clearing a stray winner on an empty row does not touch evidence.
- The one-poll hold of a score that lost a set is about score content.
- Bodies never name a bye; clients do not offer one.
- `siteMode` is always read fresh here: the cache has a module of its own.

### `SettingsCache.tla`
`get_setting` as look-up, SELECT and fill, `set_setting` and the commit its
caller makes (or fails), and draws that stamp their mode from what a handler
resolved. The cache is filled by whichever reader comes last, also one whose
SELECT ran before a write. A restart empties the cache and runs the migrations
again, which stamp every draw without a mode (`database.py:458`).

### `SofaClient.tla`
`_get` as the steps between its awaits: `Ask` (adopting the stored breaker if
nobody has), `Leave` (the second look inside the gate), the answer (`Rotate`,
`AskDirect`, `Trips`, `Answered`) and `Save`; `AskDirect` and `Probe` go to look at the
stored refusal, which may fail (`AskFails`); `TryDirect`, `Tried`, `Banks` are the direct
route: the request, the route settled in memory, and the write of it, which may fail too
(`BankFails`); `LoadEgress`, `LoadBreaker` for startup; `Restart`, `Tick`, and `Bans` for
Sofascore's mind. What Sofascore answers is fixed when a request
leaves. Waits are counted down in ticks, in memory, on the row and in the hands of
a save alike. `lapse` is history: it names the cases in which memory and row may
part (see *Observed*), and the properties that compare the two hold up to them.

### `RoundDigest.tla`, `DrawRelease.tla`, `DrawChanges.tla`
One job each, with the tasks it starts. `row`, `notified`, `claims`, `pending`
and `fieldRows` are what is stored; a sweep is as many steps as it has reads and
writes that others can come between; a task claims, then sends; a restart drops
sweeps and tasks and keeps what is stored.

| Model | Code |
|---|---|
| `Report`, `Notice`; `SweepNotices`, `SweepRecords` | the monitor's reports of a finished round and draw, and the sweep's own repairs of missed ones |
| `SweepDispatches`, `Claim`, `Mail` | `_notify_pending_round_digests`, `notify_round_complete_digest`; the claim is the UPDATE's product of draws and round numbers |
| `Released`, `Retracted`, `Cooled` | the scrape's release stamp and the cooldown |
| `SweepReads`, `SweepStamps`, `ClaimRows`, `SendRelease` | `_notify_pending_draw_releases`, `notify_draw_release_batch` |
| `Scrape`, `NameSlot` | names a scrape reads (a blank erases nothing), names ESPN pairs, and the events both write |
| `Look`, `ClaimSwaps`, `TellSwaps`, `ClaimField`, `StampFills`, `TellField` | `_notify_pending_draw_changes`, `notify_draw_change_batch` for replaced and for filled places |

Buckets are constants (`BucketOf`, `BucketFor`): what decides them are columns of
the draws that do not change during a week. Recipients are one: either somebody
has entered a draw or nobody has.

Abstractions: places of `DrawChanges` have their entry row throughout, so rows that a
scrape creates or deletes are out. Under `Official` the US Open's own draw names blank
places after the events are computed (`uso_draw.fill_missing_slots`), which writes none.
`Claim` has one way to find nothing to send where the code has two
(`notifications.py:419`): neither writes. `SweepStamps` takes the reads of
`scheduler.py:804-864` as one step with the stamp; what others write meanwhile commutes
with them, or comes before.

### `Outbox.tla`
The abstract specification of all of them: an item may come and go while it
settles, is claimed at most once, and a claim is the point of no return. `ReleaseItem`
and `FieldItem` are the refinement mappings; `NewsIsToldOnce` is the abstract
specification as a property of the run, `ReleasesAreAnOutbox` the proved half.

### `LiveScore.tla`, `ChangeStream.tla`, `LockScreen.tla`, composed in `LiveFeed.tla`
`LiveScore` is one match: the rounds of `poll_once` (`PollReads`, `PollWrites`,
`PollTells`: read, commit, tell), which may be answered by an old copy or not at all,
and `sweep_once`, which commits a page of results and then goes back to the network,
from where it comes to tell (`SweepTells`) or does not (`SweepLeaves`). `mapped` is
`_tournament_of`: a draw that is done with is forgotten there. `ChangeStream` is one
page: its queue, its stream, its refetch interval. `LockScreen` is the cards and the
push worker: a round wakes (drain, and read the rows), reads the match, sends card by
card, records and sometimes reaps, it may fail at any read or later, and between any two
of these a phone may register, rotate its token or lose its card. `LiveFeed` joins them:
the poller publishes and enqueues, the sweep only publishes.

A score is a number, and `Columns` says how many sets it has begun. Throttling is
a choice of `WorkerSends`: the budgets' arithmetic is left out, but that they never
apply to the end push is in. A token is a number; a push reaches a phone only with
its last one. APNs may refuse, lose or accept. A row's deletion and its
end push are one step: the push may be lost, but not come later.

### Interaction
`PickLock` extends `Bracket`. `SettingsCache` stands beside it: it refines the
one fact `PickLock` assumes of the setting, that resolving yields one of the
two modes. `LiveFeed` extends `ChangeStream` and `LockScreen`, which extend
`LiveScore`. The three notification jobs share no row, so `MCNotifications` puts
them side by side and a behaviour follows one of them.

Definitions called `A_B` just before `A` are wrong versions of `A`. No
behaviour uses them: replacing `A` by one of them is known to break the
property it is listed with in `PROJECT.json`, which shows that the property
depends on that piece of code.

## 3. The runs

| Run | Instance | States | What it shows |
|---|---|---|---|
| `progressive` | 8 positions, byes on both sides, one user, two bodies, Sofascore authoritative, match-by-match | 615k | freezing reaches exactly what a winner can still reach; closing takes no open pick away; row and rule agree; no bracket readable while editable; no holes; frozen picks stay |
| `draw_start` | 4 positions, a qualifier, seven sheets, ESPN, admins, days 1 to -2 | 1.16M | what closes a draw and that it stays closed; only its owner rewrites a pick; upsets survive the fill; a 200 means stored |
| `two_saves` | one contest, two saves of one user, two attempts | 247k | every interleaving and refusal ends in an answer without holes; a first round under way with a match finished gets stamped though nobody looks |
| `settings_cache` | two readers, two writers, two draws, symmetric | 24k | uncommitted values leave no trace; only an overlapping read leaves the cache stale |
| `sofa_client` | two tasks; no proxy with three faults, a rotating pool with one | 1.86M | an open breaker stops whoever is queued; row and memory agree, up to the lapses; nobody asks after a restart while the row says wait; a refused try of the direct route leaves no trace, stored or not; a lifted ban is noticed |
| `notifications` | two draws in one digest bucket; three draws in two release buckets of a week, two sweepers; two draws with three places, the announced one with an official draw | 411k | digests, releases and fields are whole, go out once and go out; a stamp means told; what was last told names the holder |
| `live` | three scores in two sets, one page with room for two nudges, one card with two tokens | 2.28M | no change lost on its way to page or card but in the ways listed; a set taken back only on two reads; every row of a finished match closed |
| `late_joiner` | as `progressive` | violation | see findings |
| `moved_date` | days 3 to 0, sheets whose date moves forward | violation | see findings |
| `bare_error` | as `two_saves` | violation | see findings |
| `stale_setting` | as `settings_cache` | violation | see findings |
| `digest_sizes` | as `notifications`, one draw a round longer | violation | see findings |

**Bounds.** Eight positions are the least with a match two rounds below the
final, a bye next to a contest on each side and two disjoint paths to the final;
four are enough where only "an upset and the match after it" matters. One user
per run, because no code couples the picks of two users: what spans users
(visibility, fills by a scrape) quantifies over `Users`, and the theorems hold
for any number. Two concurrent saves meet over one contest, since every conflict
between them is over a row. Attempts are 1 or 2 instead of 4: each attempt starts
from the same state of the handler. `FirstDay..LastDay` crosses every threshold of
`computed_status` (lead, open window, day zero, backstop) with the windows cut to
one day. `Sheets` lists one page per way a page bears on picks: absent, shape
only, past date, corrected by the US Open's own day index, first score, during
play, all over.

`sofa_client`: two callers are the least for one to be out, queued or saving while
another is answered; three faults are a ban, its end and a restart. Waits are 1 and
2 ticks (first and capped), the run of refusals is cut where its wait no longer
grows. Where a pool refuses by itself, one fault is enough.

`notifications`: two draws hold each other's digest; two buckets of one week with
two draws in the larger are the least for the sibling hold, the late draw and the
shared push. Histories that count stop at two, which is one too many. In
`DrawChanges` one runner: two overlapping runners can lose a field (see *Observed*).
Restarts and flaps are one each, and may happen anywhere.

`live`: with `Top = 2` the first set has two scores to fall back to, so that what is
held and what is read next can differ, and the second set one to fall back from.
`CardTop = 1` where cards are followed: the card tells scores apart by equality only.
One card, since rounds treat each row by itself (`PushIsComing` is proved for any
number). `Crowd` says that the match has rows of other cards, so that a round goes on to
read the match when this one's is not among them. `Completing` lets the draw be done
with where a page is followed: cards are not told by tournament. `Mishaps = 1` is one
restart or one lost round. Page and cards do not touch, so a behaviour follows one of
them.

In `draw_start` the last day equals the lead window, so no sheet can push the
date past it: that is the condition under which the lock is final. `moved_date`
lifts it and shows the reopening.

**Fairness.** `WF(SaveStep(r))`: a started handler is resumed by the event loop
until it answers, and the driver answers every query. Refusals (`Busy`) have no
fairness, they merely may happen, and at most `Attempts` times. `WF(WarmerReads)`:
every five minutes `chances_warm` asks for the lock of the draws in play, and a draw is
one of them once a match other than a bye is finished (`active_draw_ids`, and
`_timeline_ids` again). So `ClosesEventually` supposes that one is, on top of a first round
under way; before that no reader is due, and the stamp waits for a visitor. The warmer's
window of three weeks and its budget are taken to be enough: a draw of the running weeks
comes first. The run has Sofascore as the source, since only it finishes matches there;
what has a result is never taken back. Nothing is assumed of feeds, scrapes, admins, the
clock or visitors.

`sofa_client`: `WF(Tick)`, time passes; `WF(Moves(t))`, what a task has started is
carried on by the event loop; `WF` of the two startup loads. Nobody need ever ask
and no ban need end: `Recovers` assumes that Sofascore ends up refusing nobody, in
its hypothesis, and says that nothing else keeps the breaker open.
`notifications`: `WF` of each sweep (APScheduler runs it every five or ten minutes
for ever), of the tasks started, and of the clock that cools a release or a batch.
Pages may go on changing for ever: a release is promised only for draws that stay out,
but a batch of changes for any page, because an outcome that is queued already does not
restart its clock. `live`: `WF` of the worker's rounds and `SF` of the reaping,
because the worker reaps in the first round of every thirty seconds; a round that
skips is not forced to be followed by one that reaps, but infinitely many rounds
include one. Pollers, phones and pages get no fairness.

**Deadlock** is checked in all runs but `notifications` and `digest_sizes`, where a
calendar whose draws are all told really has nothing left to do.

## 4. Findings

1. `late_joiner`: a user who joins a draw in play gets the plain seeding on the
   locked matches *before* the body is applied. A favourite knocked out by the
   body keeps the default pick in a locked match further on, against the comment
   in the save itself (`routers/predictions.py:263`).
2. `moved_date`: a scrape may move `start_date` forward while the stored status
   is still `upcoming`, even when `picks_locked_at` is stamped; beyond the lead
   window the draw reads open again (`routers/tournaments.py:2319`).
3. `bare_error`: two overlapping first saves insert the same row; the loser's
   `IntegrityError` is not retried and surfaces as the bare 500 the retry loop
   was written to avoid (`routers/predictions.py:122`).
4. `stale_setting`: a reader's SELECT that overlaps an admin's write fills the
   cache with the old mode after the write dropped it (`services/settings.py:93`).

5. `digest_sizes`: a digest is claimed by `draw_id IN … AND round_number IN …`. With
   draws of different sizes in one week the semi-finals' digest stamps the smaller
   draw's Final, because its number is the larger draw's semi-final number, and
   nobody is ever told of that Final (`services/notifications.py:468`).

### Observed, not listed as findings
Where the code parts from what one would like, seldom against its own comments (then
they are quoted here, and no run shows it), or where a property of a run holds only up
to it:

- Sofascore. An answer later than a refusal, and two saves of the breaker that land out
  of order, close the stored breaker while memory's is open; a failed write or read of
  the row does as much (`lapse = "row"`). `load_breaker` says it has loaded before it
  has. The write after a try of the direct route is not guarded: when it fails after a
  200 the route is on in this process only (`lapse = "route"`), and after a refusal the
  refusal is neither dated nor counted towards the breaker (`sofascore.py:738-746`). Two
  overlapping tries of the direct route can leave it switched on after both were refused
  (`lapse = "route"`). `_record_direct_block` never falls back to the proxy for the
  refused request: with direct on, `_current_proxy()` is empty.
- Digest. A row recorded between the sweep's read of the rows and its question
  whether the draw has reported makes a short digest, and a sweep that finds the
  first task still gathering starts a second (`overtaken`). The claim's row count is
  not looked at. `notify_tournament_complete` stamps before it stores draw history.
- Release. Two tours of a split week stamped by one sweep suppress each other's push,
  against "Exactly ONE push per week" (`notifications.py:739`): then there is none.
- Settings. At every startup a draw without a mode is stamped `draw_start`, also when the
  site-wide setting is another (`database.py:458`), although `resolve_draw_lock_mode`
  would have given it the setting.
- Changes. The duplicate test ignores an event's kind, so a filled place may stay
  untold after a replaced one was queued (`Masked`). Of two dispatchers one can take a
  field's row and the other its events, and then nobody is told.
  A name from the US Open's own draw, or in a row that is new, has no event: if all blank
  places are named that way, the field is never announced.
- Pages. A results sweep commits page by page; a refusal, or a failing commit, at a later
  page ends it before it tells anybody, and the next sweep has nothing new to tell. A draw
  that is done with is no longer in `_tournament_of`, so a page that goes by the
  tournament's id is not told of it. Both wait for the page's interval.
- Live. The worker reads the rows of a match and then the match: a card that registers
  between the two misses that point. A reaped row gets no end push, so a card may stay
  until iOS dims it. A change that was throttled is not sent later, since the last point
  has moved on. A round that holds an old token can mark a row dead that has just been
  given a new one. A failed end push still ends the row. A round that raises loses what
  it drained. The last point is kept by match, so a second card's first change may be no
  news. A completed draw with all winners set is no longer tracked and may keep a live
  score. The page does not fetch when its stream reopens; its interval is the net.

## 5. What is proved

`PickLockProofs.tla` (for every bracket, users, requests, bodies, sheets, feeds
and bounds that satisfy the named assumptions of the modules):

- `TypeCorrect`: `Spec => []TypeOK`. One lemma per group of actions; the scrape's
  four stages each keep a row a row; a fill keeps a bracket a bracket without
  looking into the projection.
- `StoredPicksAreTheOwners`: `OnlyItsOwnerChangesIt`. `WhoWrites` lists the only
  steps that touch picks (a join, a commit, a scrape); the three then rest on
  `FillKeeps`: completing never changes a stored pick.
- `FrozenPicksStay`: `ChangeWasOpen`, assuming `OneSaveAtATime`. The property is not
  inductive: the comparison is made steps before the commit. The strengthening `Heeded`
  says that what the comparison established of the stored picks holds until the save
  reads them again, and then of what it read; and that a late joiner's fill has left no
  frozen contest blank, so that a body cannot clear one. The assumption is needed:
  another save of the same user may write in between.
- `WhatIsPostedIsSaved`: `SavedIsPosted`, under the same assumption, with `SeenStands`:
  the rows a save read are as it read them until it commits. With two saves in flight
  it is false, since a posted pick equal to the row as read is not written.
- `LockOnlyReopenedByHand`: `LockIsFinal`, assuming `LastDay <= LockLead`, via
  `LockedReadsLocked`: a stamped row reads locked while no date lies beyond the
  lead window.
- `DatesNeverClose`: `OnlyPlayOrTheDayCloses`, via the case analysis of what a
  scrape may do to a row's dates.
- `StartedMatchesLockTheirPath` (`LockReachesFinal`): the least fixed point
  `PathToFinal` is shown to be an upward chain with one match in each round, and to hold
  exactly the matches whose section of the draw contains the match's own.
- `TheCloseTakesNothing` (`ClosingFreezesEverything`), where no two byes meet: each
  contest is then above one of the first round. Byes of a tour draw go to seeds, each in
  a section of its own; were two to meet, the close would take the contest between
  their winners before it starts.
- `NothingIsLeftBlank` (`NoHoles`), inductive with the types: a fill from the projection
  leaves no contest blank whatever the names (`CompletedIsWhole`, on `Projected`), and no
  step but a save, with a fill of its own, removes a pick.
- `ClosedForEveryReader` (`ReadersAgree`) and `NobodyCribs` (`NoCrib`), for behaviours
  that meet named terms: `EvidenceStays` (what a first-round match showed of play it
  goes on showing), `FinishedWasPlayed` (a draw called completed has its first round
  under way on its own rows) and, for the first, `RuleStays` (where ESPN may lock a
  draw, no admin changes its rule). The code guarantees none of the three in general,
  each is noted among the hazards, and TLC finds a counterexample when one is dropped.
  `SofascoreKeepsTheTerms` proves that a draw which Sofascore alone follows meets them
  (the start stamp is a column that nothing clears), so `SofascoreDrawsCloseForAll` has
  the two properties from conditions on the constants alone, which are those of the
  `progressive` run. They rest on `StampedAfterPlay` and `ShownAfterPlay`: a stamp, or a
  disclosure, needs the whole first round to have started.
- `UpsetsSurviveTheFill` (`KnockedOutStaysOut`): in a draw that closes as one
  (`ClosesAsOne`), with one save of a user at a time and bodies as the web page posts them
  (`CarriedThrough`: whoever is picked in a match is picked in the one before, or has a
  bye there). The chain is `Projected` (what `project_bracket` computes in every round, by
  induction over the rounds), `ChosenComeThrough` (a posted player is the one
  projected) and `NoComeback` (of one part of the bracket only its winner is projected
  any further); `StillBlank` says that a first save finds an empty bracket until its
  commit. Match by match the property is false: the `late_joiner` run.

What these proofs do without: the library's induction theorems are out of reach, so
induction is done on sets of naturals (`LeastElement`, from the well-foundedness of the
order on numbers, and `Climb`). Powers of two are counted as sets of subsets
(`Doubling`), and matches are related to positions by `Span`, the positions below a
match.

`SettingsCacheProofs.tla`: `SettingsTypes`; `OnlyRacesLeaveItStale` with the
strengthening `Coherent` (until a race the cache is empty throughout a write);
`NoTraceOfAFailedWrite` with `Traced` (whatever sits in the row, the cache or a
handler's hands was once committed).

`SofaClientProofs.tla`: `SofaTypes`, which needs that the doubled wait stays under its
cap, and `TheFirstRefusalStopsTraffic`: `OpenMeansQuiet` is inductive with the types;
the three steps that open the breaker mark whoever is out, and `Leave` asks again.
`TheRowKeepsTheBreaker` (`KeptOnRow`) and `NobodyLeavesAgainstTheRow` (`StandsDown`) share
`RowInv`: with no lapse of the row, either nobody has read it yet and nobody has left, or it
says what the process knows, or exactly one save is on its way that will make it say so.
`ARefusedTryLeavesNoTrace` (`RouteIsBanked`) has `RouteInv`: the one try that is out
remembers the stored route, and while its answer is still to be stored memory has the
route that the write will leave on the row (`Promised`: stored, or found by a try that is
storing it). The lapses are those of
*Observed*, the failed write among them; that there are no others is what the theorems
say.

`RoundDigestProofs.tla`: `DigestTypes`; `OneMessagePerRound` (`OneMailPerRound`) with `Read`
(what a sweep decides from: the rows it has not read are stamped or came after it), `Alone`
(one task for a group at each stage) and `OnceSaid` (what was told is stamped for good).
`TheDigestIsWhole` (`DigestIsWhole`) and `NoStampWithoutAMail` (`StampedMeansMailed`)
assume `EvenBuckets`, draws of one bucket with equally many rounds; without it both are
false, and the `digest_sizes` run is the counterexample.

`DrawReleaseProofs.tla`: `ReleaseTypes`; `NoHalfWeekIsAnnounced` (`WholeWeek`), from what
a stamping sweep does (`StampFacts`); `ExactlyOneMail` (`OneMailPerWeek`), with the
strengthening `OneBatch`, in three parts: tasks of one bucket that have not claimed hold
the same draws, and nothing new once another has claimed (`Agree`); so will the task of a
sweep that still holds a bucket another has stamped (`Ahead`); a mail needs a claim, and
one task at most may send it (`Once`). It is needed because
a second mail is prevented two steps before it would be sent. `ReleasesAreAnOutbox`
shows by the same invariant that `DrawRelease` implements `Outbox`: each step of a draw's
item is a move of the outbox or a stutter.

`DrawChangesProofs.tla`: `ChangesTypes`; `HandsHold`, what a run of the dispatch holds at
each step; `TheFieldIsWhole` (`FieldAnnouncedWhole`), from names never being taken back;
`FieldsAreAnOutbox`, the fields' half of the outbox; `HoldersGetTold` (`HoldersAreTold`)
with `Books`: whoever is owed something has an event with his name that is queued or that
a run will tell (`Owed`), and the swaps queued of a place, or in hand, include its present
holder's unless something newer is on its way (`SwapQueued`, `SwapInHand`). Excused are,
among others, the names an official draw gives: `Silent` is part of the scrape. It assumes
`OthersNamed`: only a qualifying place starts blank.
The announcement of a field lists the qualifiers and lucky losers, yet it waits for every
blank name and stamps every filled event (`notifications.py:849-905`), so a blank place of
another kind would be named without anybody being told.

`NotificationsProofs.tla`: the three jobs side by side. A step of one is a stutter of
the others (`StepOfEach`), so their invariants hold together: `NotesTypes` (`NotesTypeOK`),
`EachMailOnce`, and `NewsIsAnOutbox` (`NewsIsToldOnce`), the refinement of releases and
fields as items of one outbox.

`LiveFeedProofs.tla`: `LiveTypes`; `TwoReadsTakeASetBack` (`ASetIsNotTakenBack`) with
`HeldIsLast`, what is held back is the last read taken up; `PagesAreNotForgotten`
(`NudgeIsComing`) with `Follows`: a stream that is down has lapsed, and so has a page
that was not told of something, by a sweep that left (`NotTold`) or under an id that was
forgotten; `NoChangeIsLost` (`PushIsComing`) with `Pushes`: what the worker holds in
each part of its round (`Rounds`; between its two reads it holds the rows and no score
yet), that a card shows what it was last sent (`Shows`), and that the score last
classified is either shown or still to be sent; one lemma for each kind of step.

The proofs need the named assumptions of the modules (sizes and bounds are numbers,
`None` is no score, columns of a score are a number) and the premises named above,
no others.

**Only model-checked.** Every invariant and every safety property of a step that a
passing run checks is stated by a theorem. What stays with TLC is liveness, which
is beyond the prover: `EverySaveAnswered`, `ClosesEventually`, `Recovers`,
`RoundReachesInbox`, `NewsGoesOut`, `CardsComeToAnEnd`. So do the cases that premises
exclude: draws of unequal size in a bucket, ESPN's evidence, two saves of one user
(`two_saves` checks `NoHoles` there, which the theorem covers, and that each is answered),
and the properties of the violation runs.

## 6. Not modelled, and what is next

Left out on purpose:
- Parsers of documents and feeds (order of play, third-party draws, wikitext, name
  matching, rankings, history linkage): large, heuristic and sequential, with data
  that no small set of values stands for. Unit tests over saved documents are the
  better tool. Together they are most of the repository's lines.
- Numeric models (win chances, Elo) and scoring arithmetic.
- Accounts, leagues and clients beyond what is listed above; delivery by mail and push.
- Of the live feed: ESPN writing scores while it stands by, suspended play, the
  eight-hour reap, the arithmetic of push budgets. Of the client: the request ledger.
- Of the notifications: who receives what, preferences, the draw history of a
  completed event.

Next:
1. `_do_scrape` as a transaction of its own over entries, matches and picks, with its
   refusals, partial parses, renames and deletions.
2. Source authority of results: ESPN, live poller and sweep writing one row, and the
   thaw of a frozen match when evidence is withdrawn.
3. The final's guesses and the bot's own picks.
4. Two dispatchers in `DrawChanges`, once the claim of a field and of its events are
   one transaction.
5. An abstract pick contract (a pick is open, then frozen for good; a save is atomic)
   and `PickLock` shown to implement it for one save per user.
6. Proofs: that a draw with ESPN's evidence meets a weaker form of the terms (what is
   withdrawn was withdrawn before its result), and the step lemmas behind `ClosesEventually`
   and `NewsGoesOut`, that the helpful step stays possible until it is taken, which are not
   temporal and within reach.
