------------------------------ MODULE Bracket ------------------------------
(***************************************************************************)
(* A singles draw as the backend sees it: match rows keyed by (round,      *)
(* number), the feeder relation between them, the path a result leaks      *)
(* along (services/locking.py) and the favourite's bracket a user's picks  *)
(* are completed with (services/highest_rank_bot.py).                      *)
(*                                                                         *)
(* An entrant is the bracket position it holds.  A position may be empty,  *)
(* which makes its first-round match a bye.                                *)
(***************************************************************************)
EXTENDS Integers

CONSTANTS
    NumRounds,    \* Draw.num_rounds; the bracket has 2^NumRounds positions
    EmptySlots,   \* positions nobody was placed in
    Rank          \* position -> its entry's place in (ranking, seed) order

Positions == 1 .. 2 ^ NumRounds
Entrants  == Positions \ EmptySlots
Nobody    == 0
Slot      == Entrants \cup {Nobody}

ASSUME BracketAssumption ==
    /\ NumRounds \in Nat \ {0}
    /\ EmptySlots \subseteq Positions
    /\ Rank \in [Positions -> Nat]
    /\ \A p \in EmptySlots : \A q \in EmptySlots \ {p} : (p + 1) \div 2 # (q + 1) \div 2

(***************************************************************************)
(* Match rows and how they hang together.                                  *)
(***************************************************************************)
Keys    == {<<r, n>> : r \in 1 .. NumRounds, n \in Positions}
Matches == {m \in Keys : m[2] <= 2 ^ (NumRounds - m[1])}

Parent(m) == <<m[1] + 1, (m[2] + 1) \div 2>>

Feeder(m, side) == <<m[1] - 1, 2 * m[2] - 2 + side>>

\* The positions whose occupant could come to play in match m.
Span == [m \in Matches |-> {p \in Positions : (p - 1) \div (2 ^ m[1]) = m[2] - 1}]

Byes     == {m \in Matches : m[1] = 1 /\ Span[m] \cap EmptySlots # {}}
Contests == Matches \ Byes
RoundOne == {m \in Contests : m[1] = 1}

\* What a started match settles: itself and every match its winner can still
\* reach, the least set with m in it that holds the parent of each of its members.
UpwardClosed(C) == \A k \in C : Parent(k) \in Matches => Parent(k) \in C

Reaches ==
    {mk \in {<<m, k>> : m \in Matches, k \in Matches} :
        \A C \in SUBSET Matches : mk[1] \in C /\ UpwardClosed(C) => mk[2] \in C}

PathToFinal(m) == {k \in Matches : <<m, k>> \in Reaches}

(***************************************************************************)
(* The favourite's bracket.  A slot whose entry is still unnamed has no    *)
(* ranking and no seed: it loses to anybody ranked, and ids (here the      *)
(* positions) settle it between two of them.                               *)
(***************************************************************************)
Unranked(p, named) == p \notin named

Better(a, b, named) ==
    CASE Unranked(a, named) /\ Unranked(b, named) -> IF a <= b THEN a ELSE b
      [] Unranked(a, named) /\ ~Unranked(b, named) -> b
      [] ~Unranked(a, named) /\ Unranked(b, named) -> a
      [] OTHER -> IF Rank[a] < Rank[b] \/ (Rank[a] = Rank[b] /\ a <= b) THEN a ELSE b

\* The user's choice where it is one of the two who meet, else the favourite.
Decide(chosen, a, b, named) ==
    IF chosen # Nobody /\ chosen \in {a, b} THEN chosen
    ELSE IF a = Nobody THEN b
    ELSE IF b = Nobody THEN a
    ELSE Better(a, b, named)

Occupant(p) == IF p \in EmptySlots THEN Nobody ELSE p

ProjectBracket(picks, named) ==
    LET winner[m \in Matches] ==
          LET side(i) == IF m[1] = 1 THEN Occupant(2 * m[2] - 2 + i) ELSE winner[Feeder(m, i)]
          IN  IF m \in Byes THEN Decide(Nobody, side(1), side(2), named)
              ELSE Decide(picks[m], side(1), side(2), named)
    IN  winner

\* fill_missing_picks: the favourite on every contest of `within` that has no
\* stored pick; what is stored already is never overwritten, byes never written.
FillMissing(stored, within, named) ==
    LET projected == ProjectBracket(stored, named)
    IN  [m \in Matches |->
            IF /\ stored[m] = Nobody
               /\ m \in within /\ m \in Contests
               /\ projected[m] \in Entrants
            THEN projected[m]
            ELSE stored[m]]

NoPicks == [m \in Matches |-> Nobody]
=============================================================================
