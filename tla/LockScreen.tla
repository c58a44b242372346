----------------------------- MODULE LockScreen ------------------------------
(***************************************************************************)
(* Live Activities: cards on Lock Screens, and the rows the server keeps   *)
(* for them.  The poller notes the match in a set; one worker drains the   *)
(* set, reads the rows and then the match, sends a push for each row with  *)
(* no session open, and then writes what became of each.  In every round   *)
(* it may also reap the rows whose match is over.  Meanwhile phones post,  *)
(* rotate their tokens, and lose or delete their cards.                    *)
(***************************************************************************)
EXTENDS LiveScore

CONSTANTS
    Cards,
    Crowd,          \* whether the match may have rows besides those of Cards
    End,            \* the content of the last push
    Rotations       \* bound on the tokens a card is given after its first

ASSUME CardAssumption ==
    /\ Rotations \in Nat /\ Crowd \in BOOLEAN
    /\ End \notin (0 .. Top) \cup {None}

VARIABLES
    row,        \* card -> no row, or its state
    rowToken,   \* card -> the token the row holds
    card,       \* card -> whether it is on the phone, its last token, what it shows
    posting,    \* card -> its registration: none, on its way, past the check
    noted,      \* the match is in the pending set
    last,       \* _last_point: the last point classified
    sent,       \* card -> the last content sent (last_hash)
    worker,     \* where the worker stands
    todo,       \* the rows it has read and not come to: card and token
    content,    \* what it sends
    ends,       \* the rows it will end, and those it will give up
    gives,
    missed      \* history: cards that some change was not sent to, or did not reach

cardVars == <<row, rowToken, card, posting, noted, last, sent, worker, todo, content,
              ends, gives, missed>>

phone  == <<card, posting>>
round  == <<worker, todo, content, ends, gives>>
memory == <<noted, last, sent>>

Active  == {c \in Cards : row[c] = "active"}
Fresh   == age \in {"new", "due"}
Point   == IF live # None /\ Fresh THEN live ELSE None
Content == Scores \cup {None, End}

CardsInit ==
    /\ row = [c \in Cards |-> "none"] /\ rowToken = [c \in Cards |-> 0]
    /\ card = [c \in Cards |-> [on |-> FALSE, token |-> 0, shows |-> None]]
    /\ posting = [c \in Cards |-> "no"]
    /\ noted = FALSE /\ last = None /\ sent = [c \in Cards |-> None]
    /\ worker = "idle" /\ todo = {} /\ content = None /\ ends = {} /\ gives = {}
    /\ missed = {}

-----------------------------------------------------------------------------
(* The phone, and start_activity and end_activity.                         *)

Off(c) == [card EXCEPT ![c].on = FALSE, ![c].shows = None]

\* The app starts a card with the score it holds and posts it.
CardStarts(c) ==
    /\ row[c] = "none" /\ ~card[c].on /\ posting[c] = "no" /\ live # None
    /\ card' = [card EXCEPT ![c].on = TRUE, ![c].shows = live]
    /\ posting' = [posting EXCEPT ![c] = "sent"]
    /\ UNCHANGED <<row, rowToken, memory, round, missed>>

\* "ActivityKit reissues the token mid-activity": the old one is dead at once.
TokenRotates(c) ==
    /\ card[c].on /\ posting[c] = "no" /\ card[c].token < Rotations
    /\ card' = [card EXCEPT ![c].token = @ + 1]
    /\ posting' = [posting EXCEPT ![c] = "sent"]
    /\ UNCHANGED <<row, rowToken, memory, round, missed>>

\* 409 for a match that is over, and the app ends the card.
PostChecks(c) ==
    /\ posting[c] = "sent"
    /\ posting' = [posting EXCEPT ![c] = IF winner THEN "no" ELSE "checked"]
    /\ card' = IF winner THEN Off(c) ELSE card
    /\ UNCHANGED <<row, rowToken, memory, round, missed>>

\* "A token refresh on an activity we had given up on means it is alive."  Nothing is
\* pushed: a card that shows an older score, or comes between a change and its round,
\* waits for the next change.
PostWrites(c) ==
    /\ posting[c] = "checked"
    /\ posting' = [posting EXCEPT ![c] = "no"]
    /\ row' = [row EXCEPT ![c] = "active"]
    /\ rowToken' = [rowToken EXCEPT ![c] = card[c].token]
    /\ missed' = IF card[c].shows = live /\ last \in {None, live} THEN missed
                                                               ELSE missed \cup {c}
    /\ UNCHANGED <<card, memory, round>>

\* The user swipes the card away, or iOS does; the server need not hear of it.
CardGoes(c) ==
    /\ card[c].on /\ posting[c] = "no"
    /\ card' = Off(c)
    /\ UNCHANGED <<row, rowToken, posting, memory, round, missed>>

\* The row is ended and committed, and end_now takes the card off the phone, if its push
\* gets there.
CardDeleted(c) ==
    /\ row[c] = "active"
    /\ row' = [row EXCEPT ![c] = "ended"]
    /\ \/ UNCHANGED card
       \/ rowToken[c] = card[c].token /\ card' = Off(c)
    /\ sent' = [sent EXCEPT ![c] = None]
    /\ UNCHANGED <<rowToken, posting, noted, last, round, missed>>

-----------------------------------------------------------------------------
(* enqueue and the worker.                                                 *)

Enqueue ==
    /\ noted' = TRUE
    /\ UNCHANGED <<row, rowToken, phone, last, sent, round, missed>>

Bound(c) == \E t \in todo : t.of = c

\* Drain, and read the rows.
WorkerWakes ==
    /\ worker = "idle"
    /\ noted' = FALSE
    /\ todo' = IF noted THEN {[of |-> c, token |-> rowToken[c]] : c \in Active} ELSE {}
    /\ \/ noted /\ (todo' # {} \/ Crowd) /\ worker' = "reading"
       \/ todo' = {} /\ worker' = "reaping"
    /\ UNCHANGED <<row, rowToken, phone, last, sent, content, ends, gives, missed>>

\* Nobody is told anything the classifier sees no change in.
Worth == winner \/ (Point # None /\ Point # last)

\* Then the match.  A card whose row has come since is not sent this point, and it is
\* no change to the next round.
WorkerReads ==
    /\ worker = "reading"
    /\ last' = IF winner THEN last ELSE Point
    /\ todo' = IF Worth THEN todo ELSE {}
    /\ content' = IF todo' = {} THEN None ELSE IF winner THEN End ELSE Point
    /\ worker' = IF todo' # {} THEN "sending" ELSE "reaping"
    /\ missed' = missed \cup {c \in Active : ~Bound(c) /\ Point \notin {None, card[c].shows}}
    /\ UNCHANGED <<row, rowToken, phone, noted, sent, ends, gives>>

\* What a push finds at the other end.
Reaches(t) == card[t.of].on /\ card[t.of].token = t.token

Show(t) == IF content = End THEN Off(t.of) ELSE [card EXCEPT ![t.of].shows = content]

\* "The one push that is never throttled" is the end; any other may be too soon, and the
\* change is then not sent later either.
Throttled(t) ==
    /\ content # End
    /\ missed' = missed \cup {t.of}
    /\ UNCHANGED <<card, sent, ends, gives>>

Unchanged(t) ==
    /\ content # End /\ content = sent[t.of]
    /\ UNCHANGED <<card, sent, ends, gives, missed>>

Pushed(t) ==
    /\ content = End \/ content # sent[t.of]
    /\ sent' = [sent EXCEPT ![t.of] = content]
    /\ ends' = IF content = End THEN ends \cup {t.of} ELSE ends
    /\ \/ /\ Reaches(t) /\ card' = Show(t) /\ missed' = missed \ {t.of}
          /\ UNCHANGED gives
       \/ /\ UNCHANGED card /\ missed' = missed \cup {t.of}
          /\ gives' \in {gives} \cup (IF Reaches(t) THEN {} ELSE {gives \cup {t.of}})

WorkerSends ==
    /\ worker = "sending"
    /\ \E t \in todo :
        /\ Throttled(t) \/ Unchanged(t) \/ Pushed(t)
        /\ todo' = todo \ {t}
    /\ worker' = IF todo' = {} THEN "recording" ELSE "sending"
    /\ UNCHANGED <<row, rowToken, posting, noted, last, content>>

\* What the poller notes during a round waits for the next.
Waiting_Dropped == FALSE
Waiting         == noted

\* Whatever the rows have become meanwhile.
WorkerRecords ==
    /\ worker = "recording" /\ worker' = "reaping"
    /\ row' = [c \in Cards |-> IF c \in ends THEN "ended" ELSE IF c \in gives THEN "dead"
                               ELSE row[c]]
    /\ sent' = [c \in Cards |-> IF c \in ends \cup gives THEN None ELSE sent[c]]
    /\ ends' = {} /\ gives' = {} /\ content' = None
    /\ missed' = missed \cup gives
    /\ noted' = Waiting
    /\ UNCHANGED <<rowToken, phone, last, todo>>

\* "The only thing that ends an activity whose match finished while this process was
\* restarting."  No push goes with it.
Reaped_None == {}
Reaped      == IF winner THEN Active ELSE {}

WorkerReaps ==
    /\ worker = "reaping" /\ worker' = "idle"
    /\ row' = [c \in Cards |-> IF c \in Reaped THEN "ended" ELSE row[c]]
    /\ sent' = [c \in Cards |-> IF c \in Reaped THEN None ELSE sent[c]]
    /\ UNCHANGED <<rowToken, phone, noted, last, todo, content, ends, gives, missed>>

\* Less than thirty seconds since the last reaping.
WorkerSkips ==
    /\ worker = "reaping" /\ worker' = "idle"
    /\ UNCHANGED <<row, rowToken, phone, memory, todo, content, ends, gives, missed>>

RoundLost ==
    /\ worker' = "idle" /\ todo' = {} /\ content' = None /\ ends' = {} /\ gives' = {}
    /\ missed' = missed \cup {t.of : t \in todo} \cup ends \cup gives

\* A round that raises, at a read or later, loses what it drained.
WorkerFails ==
    /\ worker \in {"reading", "sending", "recording"}
    /\ RoundLost
    /\ UNCHANGED <<row, rowToken, phone, memory>>

\* Pending set, last point and send state are in memory.
WorkerRestarts ==
    /\ noted' = FALSE /\ last' = None /\ sent' = [c \in Cards |-> None]
    /\ worker' = "idle" /\ todo' = {} /\ content' = None /\ ends' = {} /\ gives' = {}
    /\ missed' = Cards
    /\ UNCHANGED <<row, rowToken, phone>>

Worker     == \/ WorkerWakes \/ WorkerReads \/ WorkerSends
              \/ WorkerRecords \/ WorkerReaps \/ WorkerSkips
CardMoves  == Worker \/ \E c \in Cards : \/ CardStarts(c) \/ TokenRotates(c) \/ PostChecks(c)
                                         \/ PostWrites(c) \/ CardGoes(c) \/ CardDeleted(c)

-----------------------------------------------------------------------------
(* Properties.                                                             *)

\* Rows, cards and the worker keep the shape the code gives them.
CardTypeOK ==
    /\ row \in [Cards -> {"none", "active", "ended", "dead"}]
    /\ rowToken \in [Cards -> 0 .. Rotations]
    /\ card \in [Cards -> [on : BOOLEAN, token : 0 .. Rotations, shows : Scores \cup {None}]]
    /\ posting \in [Cards -> {"no", "sent", "checked"}]
    /\ noted \in BOOLEAN /\ last \in Scores \cup {None} /\ sent \in [Cards -> Content]
    /\ worker \in {"idle", "reading", "sending", "recording", "reaping"}
    /\ todo \subseteq [of : Cards, token : 0 .. Rotations] /\ content \in Content
    /\ ends \subseteq Cards /\ gives \subseteq Cards /\ missed \subseteq Cards

\* A change is never lost between the poller, the set and the worker: a card that the
\* server knows, and that does not show a fresh score, has a push on its way, unless
\* since the last that reached it a push was throttled, lost or refused, or it
\* registered while the worker's score, its own and the stored one differed, or between
\* the two reads of a round that found another score than its own.
PushIsComing ==
    \A c \in Active :
        /\ card[c].on /\ rowToken[c] = card[c].token /\ c \notin missed
        /\ ~winner /\ Point \notin {None, card[c].shows}
        => \/ noted \/ poll = "telling"
           \/ Bound(c) /\ (worker = "reading" \/ content = live)

\* Every row of a match that is over is closed, whether or not the poller ever sees the
\* match again: through restarts, lost rounds and registrations that overlap the result.
CardsComeToAnEnd == \A c \in Cards : []<>(winner => row[c] # "active")
=============================================================================
