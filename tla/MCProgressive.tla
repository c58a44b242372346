--------------------------- MODULE MCProgressive ---------------------------
(***************************************************************************)
(* A match-by-match draw of two rounds or three, two of its first-round    *)
(* sides byes, watched by Sofascore while one user joins and re-saves.     *)
(***************************************************************************)
EXTENDS PickLock, TLC

\* Positions 2 and 7 are empty: matches (1,1) and (1,4) are byes.
MCEmptySlots == {2, 7}
MCRank == [p \in Positions |-> p]
MCOwner == [r \in Requests |-> CHOOSE u \in Users : TRUE]

\* An upset in the first round, carried through; and a change of mind in the final.
Upset  == <<1, 2>> :> 4 @@ <<2, 1>> :> 4
Change == <<3, 1>> :> 8
MCBodies == {Upset, Change}

MCSheets ==
    {[complete |-> TRUE, dated |-> TRUE, start |-> 0, dayIndex |-> {},
      carriesResults |-> TRUE, played |-> "none", names |-> {}]}
=============================================================================
