----------------------------- MODULE RoundDigest -----------------------------
(***************************************************************************)
(* The round digest: one mail per bucket of draws and round label, sent    *)
(* when every draw of the bucket that can reach the round has reported it. *)
(*                                                                         *)
(* A row of round_complete_notifications is written for each finished      *)
(* round, by the monitor that wrote its last winner or by the next sweep.  *)
(* Every ten minutes _notify_pending_round_digests groups the rows not yet *)
(* stamped and starts a task for each group that is whole; the task        *)
(* gathers, stamps the rows and only then sends.                           *)
(*                                                                         *)
(* A definition named A_B just before A is A gone wrong in the way B says: *)
(* no behaviour uses it, and each property is known to catch one of them.  *)
(***************************************************************************)
EXTENDS Naturals

CONSTANTS
    Draws,
    NumRounds,      \* draw -> its number of rounds
    BucketOf,       \* draw -> its digest bucket (_digest_bucket)
    Stops           \* bound on restarts

ASSUME DigestAssumption ==
    /\ NumRounds \in [Draws -> Nat \ {0}]
    /\ Stops \in Nat

VARIABLES
    entered,    \* the draws somebody has entered; the others have nothing to tell
    decided,    \* draw -> rounds whose every match has a winner
    noticed,    \* the draws whose completion is recorded (completion_notified_at)
    row,        \* <<draw, round>> -> no row, a row not stamped, digest_sent_at
    sweep,      \* where the dispatch job stands
    seen,       \* the rows it read as not stamped
    batch,      \* the tasks it has started
    stops,      \* restarts so far
    mailed,     \* history: the rows a claimed digest covers
    sends,      \* history: digests sent for each bucket and label, up to two
    overtaken   \* history: those that moved on while a sweep was deciding about them

digestVars == <<entered, decided, noticed, row, sweep, seen, batch, stops,
                mailed, sends, overtaken>>

play    == <<entered, decided, noticed>>
history == <<mailed, sends, overtaken>>

Rows   == UNION {{d} \X (1 .. NumRounds[d]) : d \in Draws}

\* Draw.round_name counts from the end: 0 is the Final.
GroupOf(x) == <<BucketOf[x[1]], NumRounds[x[1]] - x[2]>>
Groups     == {GroupOf(x) : x \in Rows}
InScope(g) == {x \in Rows : GroupOf(x) = g}

Over       == {d \in Draws : decided[d] = NumRounds[d]}
Finished   == {x \in Rows : x[2] <= decided[x[1]]}
Pending    == {x \in Rows : row[x] = "pending"}

Batch == [group : Groups, entries : SUBSET Rows, claimed : BOOLEAN, again : BOOLEAN]

DigestInit ==
    /\ entered \in SUBSET Draws
    /\ decided = [d \in Draws |-> 0]
    /\ noticed = {}
    /\ row = [x \in Rows |-> "none"]
    /\ sweep = "idle" /\ seen = {} /\ batch = {} /\ stops = 0
    /\ mailed = {} /\ sends = [g \in Groups |-> 0] /\ overtaken = {}

-----------------------------------------------------------------------------
(* Play, and the monitor.                                                  *)

\* The last winner of the next round is written, by whatever path.
Decide(d) ==
    /\ decided[d] < NumRounds[d]
    /\ decided' = [decided EXCEPT ![d] = @ + 1]
    /\ UNCHANGED <<entered, noticed, row, sweep, seen, batch, stops, history>>

\* record_round_complete and notify_tournament_complete, started by the monitor if it
\* was the one that wrote the winner.
Report(x) ==
    /\ x \in Finished /\ row[x] = "none"
    /\ row' = [row EXCEPT ![x] = "pending"]
    /\ overtaken' = overtaken \cup {g \in {GroupOf(y) : y \in seen} : g = GroupOf(x)}
    /\ UNCHANGED <<play, sweep, seen, batch, stops, mailed, sends>>

Notice(d) ==
    /\ d \in Over \ noticed
    /\ noticed' = noticed \cup {d}
    /\ UNCHANGED <<entered, decided, row, sweep, seen, batch, stops, history>>

-----------------------------------------------------------------------------
(* _notify_pending_round_digests.                                          *)

\* _record_missed_completions; no draw of the model ended more than three days ago.
Missed_None == {}
Missed      == Over

SweepNotices ==
    /\ sweep = "idle"
    /\ noticed' = noticed \cup Missed
    /\ sweep' = "recording"
    /\ UNCHANGED <<entered, decided, row, seen, batch, stops, history>>

\* _record_completed_rounds, of draws in play and of those known to be over; then the
\* rows waiting to be sent are read.
SweepRecords ==
    /\ sweep = "recording"
    /\ row' = [x \in Rows |-> IF /\ x \in Finished /\ row[x] = "none"
                                 /\ x[1] \in Over => x[1] \in noticed
                              THEN "pending" ELSE row[x]]
    /\ seen' = {x \in Rows : row'[x] = "pending"}
    /\ sweep' = IF seen' = {} THEN "idle" ELSE "deciding"
    /\ UNCHANGED <<play, batch, stops, history>>

\* "Unconditional: a draw in the bucket that has not reported this round holds the
\* batch, whatever its status."
Outstanding_NotIfOver(g) == {x \in InScope(g) : row[x] = "none" /\ x[1] \notin Over}
Outstanding(g)           == {x \in InScope(g) : row[x] = "none"}

\* The draws of the bucket, any of the round numbers that are waiting: a product.
SomeRow(draws, rounds) == {x \in Rows : x[1] \in draws /\ x[2] \in rounds}
DrawsIn(rows)  == {x[1] : x \in rows}
RoundsIn(rows) == {x[2] : x \in rows}

AlreadySent_AnyRound(g) == \E x \in Rows : x[1] \in DrawsIn(InScope(g)) /\ row[x] = "sent"
AlreadySent(g) ==
    \E x \in SomeRow(DrawsIn(InScope(g)), RoundsIn(seen \cap InScope(g))) : row[x] = "sent"

Gathering(g) == \E b \in batch : b.group = g /\ ~b.claimed

SweepDispatches ==
    LET whole == {g \in {GroupOf(x) : x \in seen} : Outstanding(g) = {}}
        late  == {g \in whole : AlreadySent(g)}
        now   == whole \ late
    IN  /\ sweep = "deciding"
        /\ row' = [x \in Rows |-> IF x \in seen /\ GroupOf(x) \in late THEN "sent" ELSE row[x]]
        /\ batch' = batch \cup {[group |-> g, entries |-> seen \cap InScope(g),
                                 claimed |-> FALSE, again |-> Gathering(g)] : g \in now}
        /\ overtaken' = overtaken \cup {g \in now : Gathering(g)}
        /\ sweep' = "idle" /\ seen' = {}
        /\ UNCHANGED <<play, stops, mailed, sends>>

-----------------------------------------------------------------------------
(* notify_round_complete_digest.                                           *)

\* The claim is one UPDATE over the product of its draws and its round numbers, and how
\* many rows it changed is not looked at.
Claimed_Nothing(told) == {}
Claimed(told)         == SomeRow(DrawsIn(told), RoundsIn(told)) \cap Pending

\* What each draw has to tell is gathered; if that is nothing, nothing is claimed.
Claim(b) ==
    LET told == {x \in b.entries : x[1] \in entered}
    IN  /\ b \in batch /\ ~b.claimed
        /\ row' = [x \in Rows |-> IF x \in Claimed(told) THEN "sent" ELSE row[x]]
        /\ batch' = (batch \ {b}) \cup
                    IF told = {} THEN {} ELSE {[b EXCEPT !.entries = told, !.claimed = TRUE]}
        /\ mailed' = mailed \cup told
        /\ UNCHANGED <<play, sweep, seen, stops, sends, overtaken>>

\* Everybody concerned gets the mail and the push; a failed send is not repeated.
Mail(b) ==
    /\ b \in batch /\ b.claimed
    /\ batch' = batch \ {b}
    /\ sends' = [sends EXCEPT ![b.group] = IF @ = 2 THEN 2 ELSE @ + 1]
    /\ UNCHANGED <<play, row, sweep, seen, stops, mailed, overtaken>>

DigestRestart ==
    /\ stops < Stops
    /\ stops' = stops + 1
    /\ sweep' = "idle" /\ seen' = {} /\ batch' = {}
    /\ UNCHANGED <<play, row, history>>

Sweep == SweepNotices \/ SweepRecords \/ SweepDispatches
Carry == \E b \in batch : Claim(b) \/ Mail(b)

DigestNext ==
    \/ \E d \in Draws : Decide(d) \/ Notice(d)
    \/ \E x \in Rows : Report(x)
    \/ Sweep \/ Carry \/ DigestRestart

\* The job is run again and again, and a task that was started is carried on.
DigestFair == WF_digestVars(Sweep) /\ WF_digestVars(Carry)
DigestSpec == DigestInit /\ [][DigestNext]_digestVars /\ DigestFair

-----------------------------------------------------------------------------
(* Properties.                                                             *)

\* Rows, tasks and histories have the shape the code gives them, and a task's entries
\* all belong to its group.
DigestTypeOK ==
    /\ decided \in [Draws -> Nat] /\ \A d \in Draws : decided[d] <= NumRounds[d]
    /\ entered \subseteq Draws /\ noticed \subseteq Draws
    /\ row \in [Rows -> {"none", "pending", "sent"}]
    /\ sweep \in {"idle", "recording", "deciding"} /\ seen \subseteq Rows
    /\ stops \in 0 .. Stops
    /\ batch \subseteq Batch /\ \A b \in batch : b.entries \subseteq InScope(b.group)
    /\ mailed \subseteq Rows /\ sends \in [Groups -> 0 .. 2] /\ overtaken \subseteq Groups

\* "No deadline, and no exceptions": a digest that goes out covers every draw of its
\* bucket that has anything to tell of the round, and all of them have finished it,
\* except where a row was written after the sweep had read the rows to send and
\* before it looked whether that draw had reported.
DigestIsWhole ==
    \A b \in batch : b.claimed /\ b.group \notin overtaken =>
        /\ b.entries = {x \in InScope(b.group) : x[1] \in entered}
        /\ InScope(b.group) \subseteq Finished

\* "One message per bucket per round, full stop", through late rows, crashes and
\* sweeps, except where a sweep found the first task of the group still gathering.
OneMailPerRound == \A g \in Groups : sends[g] = 2 => g \in overtaken

\* A round is stamped as sent only if a digest that covers it has gone or is on its
\* way: nothing is suppressed that was never told (with the same exception).
StampedMeansMailed ==
    \A x \in Rows :
        row[x] = "sent" /\ x[1] \in entered /\ GroupOf(x) \notin overtaken
            => x \in mailed \/ \E b \in batch : x \in b.entries

\* Once every draw of a bucket has finished a round, its digest is claimed, whoever
\* wrote the last winner and whether or not anybody saw the draw end.
RoundReachesInbox ==
    \A g \in Groups :
        []<>(InScope(g) \subseteq Finished
                => \A x \in InScope(g) : x[1] \in entered => row[x] = "sent")
=============================================================================
