----------------------------- MODULE MCTwoSaves -----------------------------
(***************************************************************************)
(* Two saves of one user in flight at once - two tabs, or a phone that     *)
(* gave up and asked again - over a single match-by-match contest that     *)
(* Sofascore watches: every race between two saves is one over a match.    *)
(***************************************************************************)
EXTENDS PickLock, TLC

MCEmptySlots == {}
MCRank == [p \in Positions |-> p]
MCOwner == [r \in Requests |-> CHOOSE u \in Users : TRUE]

\* The underdog picked, and the pick cleared.
Pick  == <<1, 1>> :> 2
Clear == <<1, 1>> :> Nobody
MCBodies == {Pick, Clear}
=============================================================================
