----------------------------- MODULE DrawRelease -----------------------------
(***************************************************************************)
(* The "draw released" mail: one for each bucket of draws (a tennis week,  *)
(* or one tour of a week that is split), held until every draw of the      *)
(* bucket has been out for ten minutes.                                    *)
(*                                                                         *)
(* _do_scrape stamps a draw released, or takes the stamp back.  The sweep  *)
(* _notify_pending_draw_releases runs every ten minutes and once more as a *)
(* task of its own at startup: it stamps the draws of each whole bucket as *)
(* notified and starts a task, which claims them before it sends.          *)
(*                                                                         *)
(* A definition named A_B just before A is A gone wrong in the way B says: *)
(* no behaviour uses it, and each property is known to catch one of them.  *)
(***************************************************************************)
EXTENDS Naturals

CONSTANTS
    Calendar,       \* draws
    BucketFor,      \* draw -> its release_bucket; a draw with no week is one by itself
    WeekFor,        \* bucket -> its week
    Sweepers,       \* the job, and the startup task
    Flaps,          \* bound on releases taken back
    Crashes         \* bound on restarts

ASSUME ReleaseAssumption ==
    /\ Flaps \in Nat /\ Crashes \in Nat

VARIABLES
    known,      \* the draws that exist
    out,        \* draw -> not released, cooling down, released for ten minutes
    notified,   \* draw_release_notified_at is set
    ready,      \* sweeper -> the draws it read as ready, if it is at work
    letter,     \* the tasks started: who started it, its draws, whether they are claimed
    claims,     \* rows of draw_release_notifications
    flaps, crashes,
    mails,      \* history: mails sent for each bucket, up to two
    pushes      \* history: pushes sent for each week, up to two

releaseVars == <<known, out, notified, ready, letter, claims, flaps, crashes,
                 mails, pushes>>

pages    == <<known, out, flaps>>
sent     == <<mails, pushes>>

Buckets  == {BucketFor[d] : d \in Calendar}
Weeks    == {WeekFor[b] : b \in Buckets}
Siblings(b) == {d \in known : BucketFor[d] = b}

Letter == [by : Sweepers, bucket : Buckets, draws : SUBSET Calendar, claimed : BOOLEAN]

ReleaseInit ==
    /\ known \in SUBSET Calendar
    /\ out = [d \in Calendar |-> "no"]
    /\ notified = {} /\ letter = {} /\ claims = {}
    /\ ready = [w \in Sweepers |-> {}]
    /\ flaps = 0 /\ crashes = 0
    /\ mails = [b \in Buckets |-> 0] /\ pushes = [w \in Weeks |-> 0]

-----------------------------------------------------------------------------
(* The calendar and the pages.                                             *)

AddDraw(d) ==
    /\ d \notin known
    /\ known' = known \cup {d}
    /\ UNCHANGED <<out, flaps, notified, ready, letter, claims, crashes, sent>>

\* A scrape finds the page substantially complete.
Released(d) ==
    /\ d \in known /\ out[d] = "no"
    /\ out' = [out EXCEPT ![d] = "cooling"]
    /\ UNCHANGED <<known, flaps, notified, ready, letter, claims, crashes, sent>>

\* A scrape finds it incomplete again: the stamp is taken back.  Play, which ends that,
\* is not modelled, so this may always happen.
Retracted(d) ==
    /\ out[d] # "no"
    /\ flaps < Flaps /\ flaps' = flaps + 1
    /\ out' = [out EXCEPT ![d] = "no"]
    /\ UNCHANGED <<known, notified, ready, letter, claims, crashes, sent>>

Cooled(d) ==
    /\ out[d] = "cooling"
    /\ out' = [out EXCEPT ![d] = "settled"]
    /\ UNCHANGED <<known, flaps, notified, ready, letter, claims, crashes, sent>>

-----------------------------------------------------------------------------
(* _notify_pending_draw_releases.                                          *)

SweepReads(w) ==
    /\ ready[w] = {}
    /\ ready' = [ready EXCEPT ![w] = {d \in known : out[d] = "settled"} \ notified]
    /\ ready'[w] # {}
    /\ UNCHANGED <<pages, notified, letter, claims, crashes, sent>>

\* "A draw that is released but still inside its stability cooldown counts as
\* outstanding, not as absent."
Holding_NotCooling(w, b) == {d \in Siblings(b) \ (ready[w] \cup notified) : out[d] = "no"}
Holding(w, b)            == Siblings(b) \ (ready[w] \cup notified)

\* A bucket with a sibling told before has had its mail.
TooLate(w, b)       == (Siblings(b) \ ready[w]) \cap notified # {}

\* Those that come too late are stamped like the others, only not told.
Stamped_LateOnly(whole, told) == whole \ told
Stamped(whole, told)          == whole

SweepStamps(w) ==
    LET whole == {b \in {BucketFor[d] : d \in ready[w]} : Holding(w, b) = {}}
        told  == {b \in whole : ~TooLate(w, b)}
        In(B) == {d \in ready[w] : BucketFor[d] \in B}
    IN  /\ ready[w] # {}
        /\ notified' = notified \cup In(Stamped(whole, told))
        /\ letter' = letter \cup {[by |-> w, bucket |-> b, draws |-> In({b}),
                                   claimed |-> FALSE] : b \in told}
        /\ ready' = [ready EXCEPT ![w] = {}]
        /\ UNCHANGED <<pages, claims, crashes, sent>>

-----------------------------------------------------------------------------
(* notify_draw_release_batch.                                              *)

\* The unique row of each draw; a draw that has one drops out of the batch.
Unclaimed_All(l) == l.draws
Unclaimed(l)     == l.draws \ claims

ClaimRows(l) ==
    LET mine == Unclaimed(l)
    IN  /\ l \in letter /\ ~l.claimed
        /\ claims' = claims \cup mine
        /\ letter' = (letter \ {l}) \cup
                     IF mine = {} THEN {} ELSE {[l EXCEPT !.draws = mine, !.claimed = TRUE]}
        /\ UNCHANGED <<pages, notified, ready, crashes, sent>>

OneMore(n) == IF n = 2 THEN 2 ELSE n + 1

\* The push goes out with the first announcement of a week only.
SendRelease(l) ==
    /\ l \in letter /\ l.claimed
    /\ letter' = letter \ {l}
    /\ mails' = [mails EXCEPT ![l.bucket] = OneMore(@)]
    /\ LET week   == WeekFor[l.bucket]
           others == {d \in notified \ l.draws : WeekFor[BucketFor[d]] = week}
       IN  pushes' = IF others = {} THEN [pushes EXCEPT ![week] = OneMore(@)] ELSE pushes
    /\ UNCHANGED <<pages, notified, ready, claims, crashes>>

\* What a task had not claimed is lost: its draws are stamped.
ReleaseRestart ==
    /\ crashes < Crashes /\ crashes' = crashes + 1
    /\ ready' = [w \in Sweepers |-> {}] /\ letter' = {}
    /\ UNCHANGED <<pages, notified, claims, sent>>

SweepReleases(w) == SweepReads(w) \/ SweepStamps(w)
CarryRelease     == \E l \in letter : ClaimRows(l) \/ SendRelease(l)

ReleaseNext ==
    \/ \E d \in Calendar : AddDraw(d) \/ Released(d) \/ Retracted(d) \/ Cooled(d)
    \/ \E w \in Sweepers : SweepReleases(w)
    \/ CarryRelease \/ ReleaseRestart

\* Time passes, the job runs again and again, and a task that was started is carried on.
ReleaseFair == /\ \A d \in Calendar : WF_releaseVars(Cooled(d))
               /\ \A w \in Sweepers : WF_releaseVars(SweepReleases(w))
               /\ WF_releaseVars(CarryRelease)
ReleaseSpec == ReleaseInit /\ [][ReleaseNext]_releaseVars /\ ReleaseFair

-----------------------------------------------------------------------------
(* Properties.                                                             *)

\* Stamps, tasks and claims have the shape the code gives them.
ReleaseTypeOK ==
    /\ known \subseteq Calendar /\ notified \subseteq known
    /\ out \in [Calendar -> {"no", "cooling", "settled"}]
    /\ ready \in [Sweepers -> SUBSET known]
    /\ letter \subseteq Letter /\ claims \subseteq notified
    /\ flaps \in 0 .. Flaps /\ crashes \in 0 .. Crashes
    /\ mails \in [Buckets -> 0 .. 2] /\ pushes \in [Weeks -> 0 .. 2]

\* "Exactly one draw-release email per week", and at most one push, whichever of two
\* overlapping sweeps saw what, and whatever is added to the week afterwards.
OneMailPerWeek == /\ \A b \in Buckets : mails[b] < 2
                  /\ \A w \in Weeks : pushes[w] < 2

\* "It waits for every draw in that week": a task that is started has every draw its
\* bucket holds at that moment, and no other.
WholeWeek ==
    [][\A l \in letter' \ letter : ~l.claimed => l.draws = Siblings(l.bucket)]_releaseVars

\* A release is told as an outbox item: what is claimed is never offered again.
ReleaseItem ==
    [d \in Calendar |->
        IF \E l \in letter : l.claimed /\ d \in l.draws THEN "claimed"
        ELSE IF d \in claims \/ (d \in notified /\ \A l \in letter : d \notin l.draws)
             THEN "closed"
        ELSE IF d \in notified \/ out[d] # "no" THEN "waiting" ELSE "idle"]

\* A bucket whose draws are all out for good is stamped in the end: neither a draw that
\* came late nor one told already holds it for ever.
ReleasesGoOut ==
    \A b \in Buckets :
        (<>[](\A d \in Siblings(b) : out[d] = "settled")) => <>[](Siblings(b) \subseteq notified)
=============================================================================
