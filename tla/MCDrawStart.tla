---------------------------- MODULE MCDrawStart ----------------------------
(***************************************************************************)
(* A draw that closes as one, of four players, from before its release to  *)
(* the days after its start: ESPN watches it, Wikipedia's sheet is edited, *)
(* the clock runs and admins use their endpoints.                          *)
(***************************************************************************)
EXTENDS PickLock, TLC

MCFirstDay == -2
MCEmptySlots == {}
MCRank == [p \in Positions |-> p]
MCOwner == [r \in Requests |-> CHOOSE u \in Users : TRUE]

\* The favourite knocked out at once.
Upset == <<1, 1>> :> 2
MCBodies == {Upset}

Page(complete, start, played) ==
    [complete |-> complete, dated |-> TRUE, start |-> start, dayIndex |-> {},
     carriesResults |-> TRUE, played |-> played, names |-> {}]

\* The page before the draw is made; the draw as a feed gives its shape (no dates,
\* no results, a qualifier named); the page with qualifying's date for a start; the
\* page corrected by the event's own day index; the page with a first score, during
\* play, and afterwards.
MCSheets ==
    {Page(FALSE, 1, "none"),
     [Page(TRUE, 1, "none") EXCEPT !.dated = FALSE, !.carriesResults = FALSE, !.names = {3}],
     Page(TRUE, -1, "none"),
     [Page(TRUE, 1, "none") EXCEPT !.dayIndex = {-2}],
     Page(TRUE, 1, "scores"), Page(TRUE, 0, "some"), Page(TRUE, 0, "all")}

\* A page whose date is corrected forward, past the days a lock may lead it by.
MCMovedSheets == {Page(TRUE, 1, "none"), Page(TRUE, 3, "none")}
=============================================================================
