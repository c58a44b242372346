--------------------------- MODULE MCNotifications ---------------------------
(***************************************************************************)
(* The three notification jobs side by side.  They share no state, so a    *)
(* product of them would only multiply the states: a behaviour follows one *)
(* of them, chosen at the start, while the other two stand still.          *)
(***************************************************************************)
EXTENDS RoundDigest, DrawRelease, DrawChanges

VARIABLE focus

vars == <<focus, digestVars, releaseVars, changesVars>>

TwoRounds  == [d \in Draws |-> 2]
Uneven     == [d \in Draws |-> IF d = "small" THEN 2 ELSE 3]
OneBucket  == [d \in Draws |-> "week"]

\* Two draws of a week in one bucket, and a third of its other tour.
Tour       == [d \in Calendar |-> IF d = "open" THEN "wta" ELSE "atp"]
OneWeek    == [b \in {"atp", "wta"} |-> "week"]

MenOrWomen == [p \in Places |-> IF p = "w1" THEN "women1" ELSE "men1"]
Halves     == [p \in Places |-> IF p = "w1" THEN "wm" ELSE "mm"]
Players    == [p \in Places |-> IF p = "m1" THEN {"p", "q"} ELSE IF p = "m2" THEN {"r"} ELSE {"s"}]

Init ==
    /\ focus \in {"release", "changes", "digest"}
    /\ DigestInit  /\ (focus = "digest" \/ entered = {})
    /\ ReleaseInit /\ (focus = "release" \/ known = {})
    /\ ChangesInit /\ (focus = "changes" \/ \A p \in Places : holder[p] = Blank)

InDigest(A)  == focus = "digest"  /\ A /\ UNCHANGED <<focus, releaseVars, changesVars>>
InRelease(A) == focus = "release" /\ A /\ UNCHANGED <<focus, digestVars, changesVars>>
InChanges(A) == focus = "changes" /\ A /\ UNCHANGED <<focus, digestVars, releaseVars>>

Next == InDigest(DigestNext) \/ InRelease(ReleaseNext) \/ InChanges(ChangesNext)

\* DigestFair, ReleaseFair and ChangesFair, each for the behaviours that follow it.
Fair ==
    /\ WF_vars(InDigest(Sweep)) /\ WF_vars(InDigest(Carry))
    /\ \A d \in Calendar : WF_vars(InRelease(Cooled(d)))
    /\ \A w \in Sweepers : WF_vars(InRelease(SweepReleases(w)))
    /\ WF_vars(InRelease(CarryRelease))
    /\ \A d \in Fields, k \in Kinds : WF_vars(InChanges(Quiet(d, k)))
    /\ \A w \in Runners : WF_vars(InChanges(Dispatch(w)))

Spec == Init /\ [][Next]_vars /\ Fair

-----------------------------------------------------------------------------

\* Each job keeps the shape the code gives its rows and tasks.
NotesTypeOK == DigestTypeOK /\ ReleaseTypeOK /\ ChangesTypeOK

\* Draw releases and qualifying fields are outbox items: once claimed they are never
\* offered again, whatever sweep, restart or late row comes after, and soon closed.
NewsItem == [d \in Calendar \cup Fields |-> IF d \in Calendar THEN ReleaseItem[d] ELSE FieldItem[d]]
News == INSTANCE Outbox WITH Items <- Calendar \cup Fields, state <- NewsItem
NewsIsToldOnce == News!OutboxSpec

\* A bucket whose draws are all out is told, swaps and whole fields are dispatched:
\* nothing that keeps happening holds the news back for ever.
NewsGoesOut == ReleasesGoOut /\ ChangesGoOut
=============================================================================
