------------------------------- MODULE MCLive --------------------------------
(***************************************************************************)
(* One card, one page, and a match of three scores in two sets.            *)
(***************************************************************************)
EXTENDS LiveFeed

TwoSets == [s \in 0 .. Top |-> IF s < 2 THEN 1 ELSE 2]
=============================================================================
