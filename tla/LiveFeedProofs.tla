--------------------------- MODULE LiveFeedProofs ---------------------------
(***************************************************************************)
(* What holds of the live score and of those it is told to for a match of  *)
(* any length, a queue of any size and any number of cards.                *)
(***************************************************************************)
EXTENDS LiveFeed, TLAPS

ScoreStep == \/ ScoreMoves \/ Forgets \/ PollTells \/ SweepEnds \/ ScoreRestart
             \/ mishaps < Mishaps /\ mishaps' = mishaps + 1
                /\ UNCHANGED <<play, over, live, age, held, winner, drawDone, pollers, lastRead>>

\* Every step of the composition is a step of the score, or leaves it alone.
LEMMA ScoreSteps == [Next]_vars => [ScoreStep]_scoreVars
<1> SUFFICES ASSUME [Next]_vars PROVE ScoreStep \/ UNCHANGED scoreVars
  OBVIOUS
<1>1. CASE \/ ScoreMoves \/ TournamentGoes \/ Tells \/ SweepTellsPages \/ SweepTellsNobody
           \/ Restart \/ Fails
  BY <1>1 DEF ScoreStep, TournamentGoes, Tells, SweepTellsPages, SweepTellsNobody, SweepTells,
     SweepLeaves, Restart, Fails, Page
<1>2. CASE ScoreStands
  BY <1>2 DEF ScoreStands
<1>3. CASE UNCHANGED vars
  BY <1>3 DEF vars
<1>4. QED
  BY <1>1, <1>2, <1>3 DEF Next

Flags == /\ over \in BOOLEAN /\ winner \in BOOLEAN /\ drawDone \in BOOLEAN
         /\ winner => over

Marks == /\ age \in {"new", "due", "stale", "gone"}
         /\ poll \in {"idle", "writing", "telling"} /\ sweep \in {"idle", "telling"}
         /\ mapped \in BOOLEAN /\ mishaps \in 0 .. Mishaps

Reads == /\ play \in Scores /\ live \in Scores \cup {None} /\ read \in Scores \cup {None}
         /\ held \in Scores \cup {None} /\ lastRead \in Scores \cup {None}

LEMMA ScoreTypeParts == ScoreTypeOK <=> Flags /\ Marks /\ Reads
BY Zenon DEF ScoreTypeOK, Flags, Marks, Reads

LEMMA ScoreTypeInit == ScoreInit => ScoreTypeOK
<1> SUFFICES ASSUME ScoreInit PROVE Flags /\ Marks /\ Reads
  BY ScoreTypeParts
<1>1. Flags
  BY Zenon DEF ScoreInit, Flags
<1>2. Marks /\ Reads
  BY ScoreAssumption DEF ScoreInit, Marks, Reads, Scores
<1>3. QED
  BY <1>1, <1>2

LEMMA FlagsStep == Flags /\ [ScoreStep]_scoreVars => Flags'
<1> SUFFICES ASSUME Flags, [ScoreStep]_scoreVars PROVE Flags'
  OBVIOUS
<1>1. \/ UNCHANGED <<over, winner, drawDone>>
      \/ over' = TRUE /\ UNCHANGED <<winner, drawDone>>
      \/ drawDone' = TRUE /\ UNCHANGED <<over, winner>>
      \/ over /\ winner' = TRUE /\ UNCHANGED <<over, drawDone>>
  BY DEF ScoreStep, ScoreMoves, PointPlayed, MatchWon, DrawCompleted, TimePasses, PollReads,
         PollWrites, Forgets, SweepRecords, PollTells, SweepEnds, ScoreRestart, scoreVars, court,
         stored, pollers
<1>2. CASE UNCHANGED <<over, winner, drawDone>>
  BY <1>2 DEF Flags
<1>3. CASE over' = TRUE /\ UNCHANGED <<winner, drawDone>>
  BY <1>3 DEF Flags
<1>4. CASE drawDone' = TRUE /\ UNCHANGED <<over, winner>>
  BY <1>4 DEF Flags
<1>5. CASE over /\ winner' = TRUE /\ UNCHANGED <<over, drawDone>>
  BY <1>5 DEF Flags
<1>6. QED
  BY <1>1, <1>2, <1>3, <1>4, <1>5

LEMMA MarksStep == Marks /\ [ScoreStep]_scoreVars => Marks'
<1> SUFFICES ASSUME Marks, [ScoreStep]_scoreVars PROVE Marks'
  OBVIOUS
<1>1. age' \in {"new", "due", "stale", "gone"}
  BY DEF ScoreStep, ScoreMoves, PointPlayed, MatchWon, DrawCompleted, TimePasses, PollReads,
         PollWrites, PollTakes, PollMisses, Forgets, SweepRecords, PollTells, SweepEnds,
         ScoreRestart, scoreVars, court, stored, pollers, Ages, Marks
<1>2. poll' \in {"idle", "writing", "telling"} /\ sweep' \in {"idle", "telling"}
  BY DEF ScoreStep, ScoreMoves, PointPlayed, MatchWon, DrawCompleted, TimePasses, PollReads,
         PollWrites, PollTakes, PollMisses, Forgets, SweepRecords, PollTells, SweepEnds,
         ScoreRestart, scoreVars, court, stored, pollers, Marks
<1>m. mapped' \in BOOLEAN
  BY DEF ScoreStep, ScoreMoves, PointPlayed, MatchWon, DrawCompleted, TimePasses, PollReads,
         PollWrites, PollTakes, PollMisses, Forgets, SweepRecords, PollTells, SweepEnds,
         ScoreRestart, scoreVars, court, stored, pollers, Marks
<1>3. mishaps' = mishaps \/ (mishaps < Mishaps /\ mishaps' = mishaps + 1)
  BY DEF ScoreStep, ScoreMoves, PointPlayed, MatchWon, DrawCompleted, TimePasses, PollReads,
         PollWrites, Forgets, SweepRecords, PollTells, SweepEnds, ScoreRestart, scoreVars
<1>4. QED
  BY <1>1, <1>2, <1>m, <1>3, ScoreAssumption DEF Marks

LEMMA ReadsStep == Reads /\ [ScoreStep]_scoreVars => Reads'
<1> SUFFICES ASSUME Reads, [ScoreStep]_scoreVars PROVE Reads'
  OBVIOUS
<1> USE ScoreAssumption DEF court, stored, pollers, Scores, Reads
<1>1. CASE PointPlayed
  BY <1>1 DEF PointPlayed
<1>2. CASE PollReads
  BY <1>2 DEF PollReads
<1>3. CASE PollWrites
  <2>1. CASE read = None
    BY <1>3, <2>1 DEF PollWrites, PollMisses
  <2>2. CASE read # None
    BY <1>3, <2>2 DEF PollWrites, PollTakes, Reset
  <2>3. QED
    BY <2>1, <2>2
<1>4. CASE ScoreRestart
  BY <1>4 DEF ScoreRestart
<1>5. CASE UNCHANGED <<play, live, read, held, lastRead>>
  BY <1>5
<1>6. QED
  BY <1>1, <1>2, <1>3, <1>4, <1>5
     DEF ScoreStep, ScoreMoves, MatchWon, DrawCompleted, TimePasses, Forgets, SweepRecords,
         PollTells, SweepEnds, scoreVars

LEMMA ScoreTypeStep == ScoreTypeOK /\ [ScoreStep]_scoreVars => ScoreTypeOK'
<1>1. Flags' /\ Marks' /\ Reads' => ScoreTypeOK'
  BY Zenon DEF ScoreTypeOK, Flags, Marks, Reads
<1>2. QED
  BY <1>1, ScoreTypeParts, FlagsStep, MarksStep, ReadsStep

\* What is held back is the set-losing score last read.
HeldIsLast == held # None => held = lastRead

\* "A read that loses a set is stale, not a correction", in a match of any length, with
\* any columns: the score goes back a set only if two rounds in a row say the same.
THEOREM TwoReadsTakeASetBack == Spec => ASetIsNotTakenBack
<1> DEFINE Twice == live' # None /\ LostASet(live') => lastRead = live'
<1>1. ScoreInit => HeldIsLast
  BY DEF ScoreInit, HeldIsLast
<1>2. ScoreTypeOK /\ HeldIsLast /\ [ScoreStep]_scoreVars => HeldIsLast' /\ [Twice]_scoreVars
  <2> SUFFICES ASSUME ScoreTypeOK, HeldIsLast, [ScoreStep]_scoreVars
               PROVE  HeldIsLast' /\ Twice
    OBVIOUS
  <2> USE DEF HeldIsLast, court, stored, pollers
  <2>1. ASSUME live' = live PROVE Twice
    BY <2>1, ScoreAssumption DEF LostASet, ScoreTypeOK, Scores
  <2>2. CASE PollWrites
    <3>1. CASE read = None
      BY <2>1, <2>2, <3>1 DEF PollWrites, PollMisses
    <3>2. CASE read # None /\ Keeps(read)
      BY <2>1, <2>2, <3>2 DEF PollWrites, PollTakes, Keeps
    <3>3. CASE read # None /\ ~Keeps(read)
      BY <2>1, <2>2, <3>3 DEF PollWrites, PollTakes, Keeps, Reset
    <3>4. QED
      BY <3>1, <3>2, <3>3
  <2>3. CASE ScoreRestart
    BY <2>1, <2>3 DEF ScoreRestart
  <2>4. CASE UNCHANGED <<live, held, lastRead>>
    BY <2>1, <2>4
  <2>5. QED
    BY <2>2, <2>3, <2>4
       DEF ScoreStep, ScoreMoves, PointPlayed, MatchWon, DrawCompleted, TimePasses, PollReads,
           Forgets, SweepRecords, PollTells, SweepEnds, scoreVars
<1>3. QED
  BY <1>1, <1>2, ScoreSteps, ScoreTypeInit, ScoreTypeStep, PTL DEF Spec, Init, ASetIsNotTakenBack

-----------------------------------------------------------------------------
(* The page.                                                               *)

LEMMA StreamTypeInit == ScoreTypeOK /\ StreamInit => StreamTypeOK
<1> SUFFICES ASSUME ScoreTypeOK, StreamInit PROVE StreamTypeOK
  OBVIOUS
<1>1. lapsed \in BOOLEAN /\ line \in BOOLEAN
  BY Zenon DEF StreamInit
<1>2. view \in (Scores \cup {None}) \X BOOLEAN
  BY DEF StreamInit, Shown, ScoreTypeOK
<1>3. queue \in 0 .. Room /\ key \in {"draw", "tournament"}
  BY StreamAssumption DEF StreamInit
<1>4. asked \in BOOLEAN
  BY DEF StreamInit
<1>5. QED
  BY <1>1, <1>2, <1>3, <1>4, Zenon DEF StreamTypeOK

LEMMA QueueSteps ==
    [Next]_vars => \/ PageStands \/ Publish \/ NotTold \/ StreamMoves \/ LineDrops
BY DEF Next, vars, TournamentGoes, Tells, SweepTellsPages, SweepTellsNobody, Restart, Fails, Page, OnCards, PageStands

LEMMA StreamTypeStep ==
    ASSUME ScoreTypeOK, StreamTypeOK, PageStands \/ Publish \/ NotTold \/ StreamMoves \/ LineDrops
    PROVE  StreamTypeOK'
<1>1. Shown \in (Scores \cup {None}) \X BOOLEAN
  BY DEF Shown, ScoreTypeOK
<1>2. queue' \in 0 .. Room
  BY StreamAssumption DEF StreamTypeOK, PageStands, streamVars, Publish, HasRoom, NotTold, StreamMoves,
     TakeNudge, IntervalEnds, Fetch, LineDrops, LineReopens
<1>3. view' \in (Scores \cup {None}) \X BOOLEAN
  BY <1>1 DEF StreamTypeOK, PageStands, streamVars, Publish, NotTold, StreamMoves,
     TakeNudge, IntervalEnds, Fetch, LineDrops, LineReopens
<1>4. key' = key
  BY DEF PageStands, streamVars, Publish, NotTold, StreamMoves,
     TakeNudge, IntervalEnds, Fetch, LineDrops, LineReopens
<1>5. line' \in BOOLEAN /\ asked' \in BOOLEAN /\ lapsed' \in BOOLEAN
  BY DEF StreamTypeOK, PageStands, streamVars, Publish, NotTold, StreamMoves,
     TakeNudge, IntervalEnds, Fetch, LineDrops, LineReopens
<1>6. QED
  BY <1>2, <1>3, <1>4, <1>5 DEF StreamTypeOK

\* A stream that is down has lapsed, until the page fetches with it open; nobody
\* follows the stream where the cards are followed.
Follows ==
    /\ ~line => lapsed
    /\ watched = "cards" => ~line
    /\ NudgeIsComing

LEMMA FollowsInit == Init => Follows
BY DEF Init, ScoreInit, StreamInit, Follows, NudgeIsComing

LEMMA FollowsStep == StreamTypeOK /\ Follows /\ [Next]_vars => Follows'
<1> SUFFICES ASSUME StreamTypeOK, Follows, [Next]_vars PROVE Follows'
  OBVIOUS
<1> USE DEF Follows, NudgeIsComing, Shown
<1>0. watched' = watched
  BY DEF Next, vars
<1>1. CASE ScoreMoves /\ PageStands
  <2>1. (poll = "telling" => poll' = "telling") /\ (sweep = "telling" => sweep' = "telling")
    BY <1>1 DEF ScoreMoves, PointPlayed, MatchWon, DrawCompleted, TimePasses, PollReads,
       PollWrites, SweepRecords, pollers
  <2>2. \/ live' = live /\ winner' = winner
        \/ poll' = "telling" \/ sweep' = "telling"
    BY <1>1 DEF ScoreMoves, PointPlayed, MatchWon, DrawCompleted, TimePasses, PollReads,
       PollWrites, PollTakes, PollMisses, SweepRecords, court, stored
  <2>3. QED
    BY <1>0, <1>1, <2>1, <2>2 DEF PageStands, streamVars
<1>2. CASE Tells \/ SweepTellsPages
  <2>1. live' = live /\ winner' = winner
    BY <1>2 DEF Tells, SweepTellsPages, PollTells, SweepTells, SweepEnds, stored
  <2>2. CASE Publish
    <3>1. ASSUME line, ~Forgotten PROVE queue' > 0
      <4>1. key \in Ids /\ queue \in 0 .. Room /\ Room > 0
        BY <3>1, StreamAssumption DEF Forgotten, Ids, StreamTypeOK
      <4>2. queue' = IF queue < Room THEN queue + 1 ELSE queue
        BY <2>2, <3>1, <4>1 DEF Publish, HasRoom
      <4>3. QED
        BY <4>1, <4>2
    <3>2. Forgotten => lapsed' \/ view = <<live, winner>>
      BY <2>2 DEF Publish
    <3>3. QED
      BY <1>0, <2>1, <2>2, <3>1, <3>2 DEF Publish
  <2>3. CASE PageStands /\ watched = "cards"
    BY <1>0, <2>1, <2>3 DEF PageStands, streamVars
  <2>4. QED
    BY <1>2, <2>2, <2>3 DEF Tells, SweepTellsPages, Page, OnCards
\* What nobody is told, the page is not promised.
<1>n. CASE SweepTellsNobody
  <2>1. live' = live /\ winner' = winner
    BY <1>n DEF SweepTellsNobody, SweepLeaves, SweepEnds, stored
  <2>2. CASE NotTold
    BY <1>0, <2>1, <2>2 DEF NotTold
  <2>3. CASE PageStands /\ watched = "cards"
    BY <1>0, <2>1, <2>3 DEF PageStands, streamVars
  <2>4. QED
    BY <1>n, <2>2, <2>3 DEF SweepTellsNobody, Page, OnCards
<1>3. CASE Restart
  <2>1. ~line' /\ lapsed'
    BY <1>3 DEF Restart, Page, OnCards, LineDrops, PageStands, streamVars
  <2>2. QED
    BY <1>0, <2>1
<1>4. CASE StreamMoves /\ ScoreStands /\ watched = "page"
  <2>1. CASE TakeNudge \/ IntervalEnds
    BY <1>0, <1>4, <2>1 DEF ScoreStands, scoreVars, TakeNudge, IntervalEnds
  <2>2. CASE Fetch
    BY <1>0, <1>4, <2>2, Zenon DEF ScoreStands, scoreVars, Fetch
  <2>3. CASE LineDrops
    BY <1>0, <1>4, <2>3 DEF ScoreStands, scoreVars, LineDrops
  <2>4. CASE LineReopens /\ watched = "page"
    BY <1>0, <1>4, <2>4 DEF ScoreStands, scoreVars, LineReopens
  <2>5. QED
    BY <1>4, <2>1, <2>2, <2>3, <2>4 DEF StreamMoves
<1>5. CASE PageStands /\ UNCHANGED <<live, winner, poll, sweep>>
  BY <1>0, <1>5 DEF PageStands, streamVars
<1>6. QED
  BY <1>1, <1>2, <1>n, <1>3, <1>4, <1>5
     DEF Next, Fails, TournamentGoes, Forgets, stored, pollers, Page, OnCards, ScoreStands,
         PageStands, scoreVars, vars, streamVars

LEMMA StreamTypes == Spec => [](ScoreTypeOK /\ StreamTypeOK)
<1>1. Init => ScoreTypeOK /\ StreamTypeOK
  BY ScoreTypeInit, StreamTypeInit DEF Init
<1>2. ScoreTypeOK /\ StreamTypeOK /\ [Next]_vars => ScoreTypeOK' /\ StreamTypeOK'
  BY ScoreSteps, ScoreTypeStep, QueueSteps, StreamTypeStep
<1>3. QED
  BY <1>1, <1>2, PTL DEF Spec

\* A dropped nudge loses nothing, for a queue of any size: a page with an open stream
\* that shows something old has a nudge waiting, is about to fetch or to be told, but for
\* what a sweep told nobody and what was told without its id.
THEOREM PagesAreNotForgotten == Spec => []NudgeIsComing
<1>1. Follows => NudgeIsComing
  BY DEF Follows
<1>2. QED
  BY <1>1, FollowsInit, FollowsStep, StreamTypes, PTL DEF Spec

-----------------------------------------------------------------------------
(* The cards.                                                              *)

Errand == [of : Cards, token : 0 .. Rotations]

Rows == /\ row \in [Cards -> {"none", "active", "ended", "dead"}]
        /\ rowToken \in [Cards -> 0 .. Rotations]
        /\ posting \in [Cards -> {"no", "sent", "checked"}]
Phones == card \in [Cards -> [on : BOOLEAN, token : 0 .. Rotations, shows : Scores \cup {None}]]
Sends == /\ noted \in BOOLEAN /\ last \in Scores \cup {None} /\ sent \in [Cards -> Content]
         /\ worker \in {"idle", "reading", "sending", "recording", "reaping"}
         /\ todo \subseteq Errand /\ content \in Content
         /\ ends \subseteq Cards /\ gives \subseteq Cards /\ missed \subseteq Cards

LEMMA CardTypeParts ==
    /\ CardTypeOK <=> Rows /\ Phones /\ Sends
    /\ CardTypeOK' <=> Rows' /\ Phones' /\ Sends'
BY Zenon DEF CardTypeOK, Rows, Phones, Sends, Errand

LEMMA CardTypeInit == CardsInit => CardTypeOK
<1> SUFFICES ASSUME CardsInit PROVE Rows /\ Phones /\ Sends
  BY CardTypeParts
<1>1. Rows /\ Phones
  BY CardAssumption DEF CardsInit, Rows, Phones
<1>2. Sends
  BY DEF CardsInit, Sends, Content
<1>3. QED
  BY <1>1, <1>2

CardStep == CardMoves \/ Enqueue \/ WorkerFails \/ WorkerRestarts

LEMMA CardSteps == [Next]_vars => [CardStep]_cardVars
BY DEF Next, vars, CardStep, TournamentGoes, Tells, SweepTellsPages, SweepTellsNobody, Restart,
       Fails, Page, OnCards, CardsStand

CardActs(c) == \/ CardStarts(c) \/ TokenRotates(c) \/ PostChecks(c) \/ PostWrites(c)
               \/ CardGoes(c) \/ CardDeleted(c)

LEMMA RowsStep == Rows /\ Phones /\ [CardStep]_cardVars => Rows'
<1> SUFFICES ASSUME Rows, Phones, [CardStep]_cardVars PROVE Rows'
  OBVIOUS
<1> USE DEF Rows, Phones, phone, memory, round
<1>1. ASSUME NEW c \in Cards, CardActs(c) PROVE Rows'
  BY <1>1 DEF CardActs, CardStarts, TokenRotates, PostChecks, PostWrites, CardGoes, CardDeleted
<1>2. CASE Worker \/ WorkerFails \/ WorkerRestarts \/ Enqueue
  BY <1>2 DEF Worker, WorkerWakes, WorkerReads, WorkerSends, WorkerRecords, WorkerReaps, WorkerSkips,
     WorkerFails, WorkerRestarts, Enqueue
<1>3. CASE UNCHANGED cardVars
  BY <1>3 DEF cardVars
<1>4. QED
  BY <1>1, <1>2, <1>3 DEF CardStep, CardMoves, CardActs

LEMMA OffType ==
    ASSUME Phones, NEW c \in Cards
    PROVE  Off(c) \in [Cards -> [on : BOOLEAN, token : 0 .. Rotations, shows : Scores \cup {None}]]
BY DEF Phones, Off

LEMMA PhonesStep ==
    ScoreTypeOK /\ Phones /\ Sends /\ [CardStep]_cardVars => Phones'
<1> SUFFICES ASSUME ScoreTypeOK, Phones, Sends, [CardStep]_cardVars PROVE Phones'
  OBVIOUS
<1> USE DEF phone, memory, round
<1>1. ASSUME NEW c \in Cards, CardStarts(c) PROVE Phones'
  <2>1. live \in Scores \cup {None}
    BY DEF ScoreTypeOK
  <2>2. QED
    BY <1>1, <2>1 DEF CardStarts, Phones
<1>2. ASSUME NEW c \in Cards, TokenRotates(c) PROVE Phones'
  BY <1>2, CardAssumption DEF TokenRotates, Phones
<1>3. ASSUME NEW c \in Cards, PostChecks(c) \/ PostWrites(c) \/ CardGoes(c) \/ CardDeleted(c)
      PROVE  Phones'
  BY <1>3, OffType DEF PostChecks, PostWrites, CardGoes, CardDeleted, Phones
<1>4. CASE WorkerSends
  <2>1. PICK t \in todo : card' = card \/ card' = Show(t)
    BY <1>4 DEF WorkerSends, Throttled, Unchanged, Pushed
  <2>2. t \in Errand /\ content \in Content
    BY DEF Sends
  <2>3. CASE content = End
    BY <2>1, <2>2, <2>3, OffType DEF Show, Phones, Errand
  <2>4. CASE content # End
    BY <2>1, <2>2, <2>4 DEF Show, Phones, Errand, Content
  <2>5. QED
    BY <2>3, <2>4
<1>5. CASE UNCHANGED card
  BY <1>5 DEF Phones
<1>6. QED
  BY <1>1, <1>2, <1>3, <1>4, <1>5
     DEF CardStep, CardMoves, Worker, WorkerWakes, WorkerReads, WorkerRecords, WorkerReaps, WorkerSkips,
         WorkerFails, WorkerRestarts, Enqueue, cardVars

LEMMA SendsStep ==
    ScoreTypeOK /\ Rows /\ Sends /\ [CardStep]_cardVars => Sends'
<1> SUFFICES ASSUME ScoreTypeOK, Rows, Sends, [CardStep]_cardVars PROVE Sends'
  OBVIOUS
<1> USE DEF phone, memory, round
<1>1. ASSUME NEW c \in Cards, CardActs(c) PROVE Sends'
  BY <1>1 DEF CardActs, CardStarts, TokenRotates, PostChecks, PostWrites, CardGoes, CardDeleted,
     Sends, Content
<1>2. CASE WorkerWakes
  <2>1. \A c \in Active : [of |-> c, token |-> rowToken[c]] \in Errand
    BY DEF Rows, Active, Errand
  <2>2. todo' \subseteq Errand
    BY <1>2, <2>1 DEF WorkerWakes, Sends
  <2>3. QED
    BY <1>2, <2>2 DEF WorkerWakes, Sends
<1>r. CASE WorkerReads
  <2>1. Point \in Scores \cup {None}
    BY DEF ScoreTypeOK, Point
  <2>2. last' \in Scores \cup {None} /\ content' \in Content /\ todo' \subseteq Errand
    BY <1>r, <2>1 DEF WorkerReads, Sends, Content
  <2>3. missed' \subseteq Cards
    BY <1>r DEF WorkerReads, Sends, Active
  <2>4. QED
    BY <1>r, <2>2, <2>3 DEF WorkerReads, Sends
<1>3. CASE WorkerSends
  <2>1. PICK t \in todo : /\ Throttled(t) \/ Unchanged(t) \/ Pushed(t)
                          /\ todo' = todo \ {t}
    BY <1>3 DEF WorkerSends
  <2>2. t.of \in Cards
    BY DEF Sends, Errand
  <2>3. /\ sent' \in [Cards -> Content] /\ ends' \subseteq Cards
        /\ gives' \subseteq Cards /\ missed' \subseteq Cards
    BY <2>1, <2>2 DEF Throttled, Unchanged, Pushed, Sends
  <2>4. UNCHANGED <<noted, last, content>> /\ worker' \in {"sending", "recording"}
    BY <1>3 DEF WorkerSends
  <2>5. QED
    BY <2>1, <2>3, <2>4 DEF Sends
<1>4. CASE WorkerRecords \/ WorkerReaps \/ WorkerSkips \/ Enqueue
  BY <1>4 DEF WorkerRecords, Waiting, WorkerReaps, WorkerSkips, Enqueue, Sends, Content
<1>5. CASE WorkerFails
  <2>1. {t.of : t \in todo} \subseteq Cards
    BY DEF Sends, Errand
  <2>2. QED
    BY <1>5, <2>1 DEF WorkerFails, RoundLost, Sends, Content
<1>6. CASE WorkerRestarts
  BY <1>6 DEF WorkerRestarts, Sends, Content
<1>7. CASE UNCHANGED cardVars
  BY <1>7 DEF cardVars, Sends
<1>8. QED
  BY <1>1, <1>2, <1>r, <1>3, <1>4, <1>5, <1>6, <1>7 DEF CardStep, CardMoves, Worker, CardActs

\* Score, page, cards and worker keep their shape.
THEOREM LiveTypes == Spec => []LiveTypeOK
<1>1. Init => CardTypeOK
  BY CardTypeInit DEF Init
<1>2. ScoreTypeOK /\ CardTypeOK /\ [Next]_vars => CardTypeOK'
  BY CardTypeParts, CardSteps, RowsStep, PhonesStep, SendsStep
<1>3. QED
  BY <1>1, <1>2, StreamTypes, PTL DEF Spec, LiveTypeOK

-----------------------------------------------------------------------------
(* No change is lost between the poller, the set and the worker.  The last *)
(* classified point is kept for the match, not for the card: the argument  *)
(* is that a card that has missed nothing shows that point, or has a push  *)
(* of it coming.                                                           *)

Telling == noted \/ poll = "telling"
Due(c)  == \E t \in todo : t.of = c
Good(c) == /\ row[c] = "active" /\ card[c].on /\ rowToken[c] = card[c].token
           /\ c \notin missed

\* The worker: nothing to send but while it reads or sends, the end only of a match that
\* is won, and what it sends is the last point, which is fresh or about to be replaced.
Rounds ==
    /\ worker \notin {"reading", "sending"} => todo = {}
    /\ content = End => winner
    /\ worker = "sending" /\ ~winner =>
          content = last /\ content # None /\ (Point \notin {None, content} => Telling)

\* A card the server has never known was never sent to; what a card was last sent it
\* shows, unless it has missed something; a row's token is not newer than its card's.
Shows ==
    \A c \in Cards :
        /\ rowToken[c] <= card[c].token
        /\ row[c] = "none" => sent[c] = None /\ ~Due(c)
        /\ c \notin missed /\ card[c].on /\ sent[c] # None => card[c].shows = sent[c]

Keeping(c) == last \in {None, card[c].shows} \/ (worker = "sending" /\ Due(c))
Coming(c)  == Point \notin {None, card[c].shows} =>
                  Telling \/ (Due(c) /\ (worker = "reading" \/ content = live))

Pushes == Rounds /\ Shows
          /\ (~winner => \A c \in Cards : Good(c) => Keeping(c) /\ Coming(c))

LEMMA PushesInit == Init => Pushes
BY ScoreAssumption, CardAssumption
   DEF Init, ScoreInit, CardsInit, Pushes, Rounds, Shows, Good, Due

LEMMA PushesImply == Pushes => PushIsComing
BY DEF Pushes, Good, Coming, Telling, Due, Bound, PushIsComing, Active

\* A step of the score that leaves the cards alone: a point that is new to the cards
\* is about to be told.
LEMMA PushesScore ==
    ASSUME Pushes, ScoreMoves, CardsStand PROVE Pushes'
<1>1. (poll = "telling" => poll' = "telling") /\ (winner => winner')
  BY DEF ScoreMoves, PointPlayed, MatchWon, DrawCompleted, TimePasses, PollReads,
     PollWrites, SweepRecords, stored, pollers
<1>2. Point' = Point \/ Point' = None \/ poll' = "telling"
  BY DEF ScoreMoves, PointPlayed, MatchWon, DrawCompleted, TimePasses, PollReads, Ages,
     PollWrites, PollTakes, PollMisses, SweepRecords, stored, pollers, Point, Fresh
<1>3. \A c : Good(c)' = Good(c) /\ Due(c)' = Due(c)
  BY DEF Good, Due, CardsStand, cardVars
<1>4. live' = live \/ poll' = "telling"
  BY DEF ScoreMoves, PointPlayed, MatchWon, DrawCompleted, TimePasses, PollReads,
     PollWrites, PollTakes, PollMisses, SweepRecords, stored, pollers
<1>5. Telling => Telling'
  BY <1>1 DEF Telling, CardsStand, cardVars
<1>6. Rounds' /\ Shows'
  BY <1>1, <1>2, <1>3, <1>5 DEF Pushes, Rounds, Shows, Telling, CardsStand, cardVars
<1>7. ASSUME ~winner', NEW c \in Cards, Good(c) PROVE Keeping(c)' /\ Coming(c)'
  BY <1>1, <1>2, <1>3, <1>4, <1>5, <1>7 DEF Pushes, Keeping, Coming, Telling, CardsStand, cardVars
<1>8. QED
  BY <1>3, <1>6, <1>7 DEF Pushes

\* The poller notes the change that it has committed.
LEMMA PushesNoted ==
    ASSUME Pushes, PollTells, Enqueue PROVE Pushes'
<1> USE DEF phone, memory, round, stored
<1>1. Telling' /\ UNCHANGED <<live, age, winner, last, worker, todo, content, card, row, rowToken,
                             missed, sent>>
  BY DEF PollTells, Enqueue, Telling
<1>2. QED
  BY <1>1 DEF Pushes, Rounds, Shows, Good, Keeping, Coming, Due, Point, Fresh

\* A phone's step: whatever it does to its own card, the worker's errands stand.
LEMMA PushesPhone ==
    ASSUME CardTypeOK, Pushes, ScoreStands, NEW c \in Cards, CardActs(c)
    PROVE  Pushes'
<1> USE DEF phone, memory, round
<1>1. UNCHANGED <<live, age, winner, poll, noted, last, worker, todo, content>>
  BY DEF ScoreStands, scoreVars, CardActs, CardStarts, TokenRotates, PostChecks, PostWrites,
     CardGoes, CardDeleted
<1>2. /\ \A d \in Cards : d # c => /\ row'[d] = row[d] /\ rowToken'[d] = rowToken[d]
                                   /\ card'[d] = card[d] /\ sent'[d] = sent[d]
                                   /\ d \in missed' <=> d \in missed
      /\ missed \subseteq missed'
  BY CardTypeParts DEF Rows, Phones, Sends, CardActs, CardStarts, TokenRotates, PostChecks,
     PostWrites, CardGoes, CardDeleted, Off
<1>3. /\ rowToken'[c] <= card'[c].token
      /\ row'[c] = "none" => row[c] = "none"
      /\ \/ sent'[c] = None
         \/ sent'[c] = sent[c] /\ (card'[c].on => card[c].on /\ card'[c].shows = card[c].shows)
  BY CardTypeParts, CardAssumption
     DEF Rows, Phones, Sends, Pushes, Shows, CardActs, CardStarts, TokenRotates, PostChecks,
         PostWrites, CardGoes, CardDeleted, Off
<1>4. Good(c)' => \/ Good(c) /\ card'[c].shows = card[c].shows
                  \/ card'[c].shows = live /\ last \in {None, live}
  BY CardTypeParts, CardAssumption
     DEF Rows, Phones, Sends, Pushes, Shows, CardActs, CardStarts, TokenRotates, PostChecks,
         PostWrites, CardGoes, CardDeleted, Off, Good
<1>5. Rounds'
  BY <1>1 DEF Pushes, Rounds, Telling, Point, Fresh
<1>6. Shows'
  <2>1. \A d : Due(d)' = Due(d)
    BY <1>1 DEF Due
  <2>2. SUFFICES ASSUME NEW d \in Cards
                 PROVE  /\ rowToken'[d] <= card'[d].token
                        /\ row'[d] = "none" => sent'[d] = None /\ ~Due(d)'
                        /\ d \notin missed' /\ card'[d].on /\ sent'[d] # None
                              => card'[d].shows = sent'[d]
    BY DEF Shows
  <2>3. CASE d # c
    BY <1>2, <2>1, <2>3 DEF Pushes, Shows
  <2>4. CASE d = c
    BY <1>2, <1>3, <2>1, <2>4 DEF Pushes, Shows
  <2>5. QED
    BY <2>3, <2>4
<1>7. ASSUME ~winner', NEW d \in Cards, Good(d)' PROVE Keeping(d)' /\ Coming(d)'
  <2>1. CASE d # c
    <3>1. Good(d) /\ card'[d] = card[d]
      BY <1>2, <1>7, <2>1 DEF Good
    <3>2. QED
      BY <1>1, <1>7, <3>1 DEF Pushes, Keeping, Coming, Due, Telling, Point, Fresh
  <2>2. CASE d = c
    BY <1>1, <1>4, <1>7, <2>2 DEF Pushes, Keeping, Coming, Due, Telling, Point, Fresh
  <2>3. QED
    BY <2>1, <2>2
<1>8. QED
  BY <1>5, <1>6, <1>7 DEF Pushes

\* The rows are read: whoever waits for what was noted is among them.
LEMMA PushesWakes ==
    ASSUME CardTypeOK, Pushes, ScoreStands, WorkerWakes PROVE Pushes'
<1> USE DEF phone, memory, round
<1>1. /\ UNCHANGED <<live, age, winner, poll, row, rowToken, card, sent, missed, last, content>>
      /\ todo = {} /\ worker' \in {"reading", "reaping"}
      /\ worker' # "reading" => todo' = {}
      /\ worker # "sending"
  BY DEF ScoreStands, scoreVars, WorkerWakes, Pushes, Rounds
<1>2. \A c \in Cards : Due(c)' <=> noted /\ c \in Active
  <2>1. ASSUME NEW c \in Active, noted PROVE Due(c)'
    <3>1. [of |-> c, token |-> rowToken[c]] \in todo'
      BY <2>1 DEF WorkerWakes
    <3>2. [of |-> c, token |-> rowToken[c]].of = c
      OBVIOUS
    <3>3. QED
      BY <3>1, <3>2, Zenon DEF Due
  <2>2. ASSUME NEW c \in Cards, Due(c)' PROVE noted /\ c \in Active
    BY <2>2 DEF Due, WorkerWakes
  <2>3. QED
    BY <2>1, <2>2
<1>3. \A c \in Cards : Due(c)' => worker' = "reading"
  BY <1>1 DEF Due
<1>4. Rounds'
  BY <1>1 DEF Pushes, Rounds
<1>5. Shows'
  BY <1>1, <1>2, Zenon DEF Pushes, Shows, Active
<1>6. ASSUME ~winner, NEW c \in Cards, Good(c) PROVE Keeping(c)' /\ Coming(c)'
  <2>1. Keeping(c) /\ Coming(c) /\ ~Due(c) /\ c \in Active
    BY <1>1, <1>6 DEF Pushes, Due, Good, Active
  <2>2. Keeping(c)'
    BY <1>1, <2>1 DEF Keeping
  <2>3. Coming(c)'
    BY <1>1, <1>2, <1>3, <2>1 DEF Coming, Telling, Point, Fresh
  <2>4. QED
    BY <2>2, <2>3
<1>7. \A c : Good(c)' = Good(c)
  BY <1>1 DEF Good
<1>8. QED
  BY <1>1, <1>4, <1>5, <1>6, <1>7 DEF Pushes

\* The match is read: a row that has come since the rows were read shows this point, or
\* has missed it.
LEMMA PushesReads ==
    ASSUME ScoreTypeOK, CardTypeOK, Pushes, ScoreStands, WorkerReads PROVE Pushes'
<1> USE DEF phone, memory, round
<1>1. /\ UNCHANGED <<live, age, winner, poll, row, rowToken, card, sent, noted>>
      /\ worker = "reading" /\ missed \subseteq missed'
      /\ last' = IF winner THEN last ELSE Point
      /\ todo' = IF Worth THEN todo ELSE {}
      /\ content' = IF todo' = {} THEN None ELSE IF winner THEN End ELSE Point
      /\ worker' = IF todo' # {} THEN "sending" ELSE "reaping"
  BY DEF ScoreStands, scoreVars, WorkerReads
<1>2. Point \in Scores \cup {None} /\ Point' = Point
  BY <1>1 DEF ScoreTypeOK, Point, Fresh
<1>3. Rounds'
  BY <1>1, <1>2, CardAssumption DEF Rounds, Worth, Scores
<1>4. \A c \in Cards : /\ Due(c)' <=> Worth /\ Due(c)
                       /\ Due(c)' => worker' = "sending" /\ todo' # {}
  BY <1>1, Zenon DEF Due
<1>5. Shows'
  BY <1>1, <1>4 DEF Pushes, Shows
<1>6. ASSUME ~winner, NEW c \in Cards, Good(c)' PROVE Keeping(c)' /\ Coming(c)'
  <2>1. Good(c) /\ Keeping(c)
    BY <1>1, <1>6 DEF Good, Pushes
  <2>2. last \in {None, card[c].shows}
    BY <1>1, <2>1 DEF Keeping
  <2>3. CASE Point \in {None, card[c].shows}
    BY <1>1, <1>2, <1>6, <2>3 DEF Keeping, Coming
  <2>4. CASE Point \notin {None, card[c].shows}
    <3>1. Worth
      BY <2>2, <2>4 DEF Worth
    <3>2. Due(c)
      BY <1>6, <2>1, <2>4 DEF WorkerReads, Good, Active, Bound, Due
    <3>3. content' = live
      BY <1>1, <1>4, <1>6, <2>4, <3>1, <3>2 DEF Point
    <3>4. QED
      BY <1>4, <3>1, <3>2, <3>3, <1>1 DEF Keeping, Coming
  <2>5. QED
    BY <2>3, <2>4
<1>7. QED
  BY <1>1, <1>3, <1>5, <1>6 DEF Pushes

\* A push sent, held back or lost: the card shows what the others will be sent, or has
\* missed it.
LEMMA PushesSends ==
    ASSUME CardTypeOK, Pushes, ScoreStands, WorkerSends PROVE Pushes'
<1> USE DEF phone, memory, round
<1>1. PICK t \in todo : /\ Throttled(t) \/ Unchanged(t) \/ Pushed(t)
                       /\ todo' = todo \ {t}
  BY DEF WorkerSends
<1>2. t \in Errand /\ t.of \in Cards
  BY CardTypeParts DEF Sends, Errand
<1>3. /\ UNCHANGED <<live, age, winner, poll, row, rowToken, noted, last, content>>
      /\ worker = "sending"
      /\ worker' = IF todo' = {} THEN "recording" ELSE "sending"
  BY DEF ScoreStands, scoreVars, WorkerSends
<1>4. \A d \in Cards : d # t.of => /\ card'[d] = card[d] /\ sent'[d] = sent[d]
                                   /\ d \in missed' <=> d \in missed
                                   /\ Due(d)' <=> Due(d)
  BY <1>1, <1>2, CardTypeParts
     DEF Phones, Sends, Throttled, Unchanged, Pushed, Show, Off, Due
<1>5. /\ card'[t.of].token = card[t.of].token
      /\ card'[t.of].on => card[t.of].on
  BY <1>1, <1>2, CardTypeParts
     DEF Phones, Sends, Throttled, Unchanged, Pushed, Show, Off
<1>6. t.of \notin missed' /\ card'[t.of].on /\ sent'[t.of] # None
         => card'[t.of].shows = sent'[t.of]
  BY <1>1, <1>2, CardTypeParts
     DEF Phones, Sends, Pushes, Shows, Throttled, Unchanged, Pushed, Show, Off
<1>7. t.of \notin missed' /\ card'[t.of].on /\ content \notin {None, End}
         => card'[t.of].shows = content
  BY <1>1, <1>2, CardTypeParts
     DEF Phones, Sends, Pushes, Shows, Throttled, Unchanged, Pushed, Show, Off
<1>8. Rounds'
  BY <1>3 DEF Pushes, Rounds, Telling, Point, Fresh, WorkerSends
<1>9. Shows'
  <2>1. Due(t.of)
    BY DEF Due
  <2>2. SUFFICES ASSUME NEW d \in Cards
                 PROVE  /\ rowToken'[d] <= card'[d].token
                        /\ row'[d] = "none" => sent'[d] = None /\ ~Due(d)'
                        /\ d \notin missed' /\ card'[d].on /\ sent'[d] # None
                              => card'[d].shows = sent'[d]
    BY DEF Shows
  <2>3. CASE d # t.of
    BY <1>3, <1>4, <2>3 DEF Pushes, Shows
  <2>4. CASE d = t.of
    BY <1>3, <1>5, <1>6, <2>1, <2>4 DEF Pushes, Shows
  <2>5. QED
    BY <2>3, <2>4
<1>10. ASSUME ~winner, NEW d \in Cards, Good(d)' PROVE Keeping(d)' /\ Coming(d)'
  <2>1. CASE d # t.of
    <3>1. Good(d)
      BY <1>3, <1>4, <1>10, <2>1 DEF Good
    <3>2. (Due(d)' <=> Due(d)) /\ (Due(d) => worker' = "sending")
      BY <1>3, <1>4, <2>1, Zenon DEF Due
    <3>3. Keeping(d) /\ Coming(d) /\ card'[d] = card[d]
      BY <1>3, <1>4, <1>10, <2>1, <3>1 DEF Pushes
    <3>4. QED
      BY <1>3, <3>2, <3>3 DEF Keeping, Coming, Telling, Point, Fresh
  <2>2. CASE d = t.of
    <3>1. content = last /\ content \notin {None, End}
          /\ (Point \notin {None, content} => Telling)
      BY <1>10 DEF Pushes, Rounds, WorkerSends
    <3>2. card'[d].shows = content
      BY <1>7, <1>10, <2>2, <3>1 DEF Good
    <3>3. QED
      BY <1>3, <3>1, <3>2 DEF Keeping, Coming, Telling, Point, Fresh
  <2>3. QED
    BY <2>1, <2>2
<1>11. QED
  BY <1>3, <1>8, <1>9, <1>10 DEF Pushes

\* The steps in which the worker writes rows or loses what it held.
LEMMA PushesOther ==
    ASSUME CardTypeOK, Pushes, UNCHANGED <<live, age, winner, poll>>,
           WorkerRecords \/ WorkerReaps \/ WorkerSkips \/ WorkerFails
    PROVE  Pushes'
<1> USE DEF phone, memory, round
<1>1. /\ todo' = {} /\ worker' # "sending" /\ content' \in {content, None}
      /\ UNCHANGED <<noted, last, rowToken, card>>
      /\ missed \subseteq missed'
  BY DEF Pushes, Rounds, WorkerRecords, Waiting, WorkerReaps, WorkerSkips, WorkerFails, RoundLost
<1>2. \A c \in Cards : row'[c] = row[c] \/ row'[c] \in {"ended", "dead"}
  BY CardTypeParts
     DEF Rows, WorkerRecords, WorkerReaps, WorkerSkips, WorkerFails
<1>3. \A c \in Cards : sent'[c] = sent[c] \/ sent'[c] = None
  BY CardTypeParts DEF Sends, WorkerRecords, WorkerReaps, WorkerSkips, WorkerFails
<1>4. \A c \in Cards : Due(c) => c \in missed'
  BY DEF Due, Pushes, Rounds, WorkerRecords, WorkerReaps, WorkerSkips, WorkerFails, RoundLost
<1>5. Rounds'
  BY <1>1, CardAssumption DEF Pushes, Rounds
<1>6. Shows'
  BY <1>1, <1>2, <1>3 DEF Pushes, Shows, Due
<1>7. ASSUME ~winner, NEW c \in Cards, Good(c)' PROVE Keeping(c)' /\ Coming(c)'
  <2>1. Good(c) /\ ~Due(c)
    BY <1>1, <1>2, <1>4, <1>7 DEF Good
  <2>2. QED
    BY <1>1, <1>7, <2>1 DEF Pushes, Keeping, Coming, Due, Telling, Point, Fresh
<1>8. QED
  BY <1>5, <1>6, <1>7 DEF Pushes

\* Nothing that was in memory is promised after a restart.
LEMMA PushesRestart ==
    ASSUME CardTypeOK, Pushes, WorkerRestarts PROVE Pushes'
<1> USE DEF phone, memory, round
<1>1. Rounds' /\ Shows'
  BY CardAssumption DEF Pushes, Rounds, Shows, Due, WorkerRestarts
<1>2. \A c \in Cards : ~Good(c)'
  BY DEF WorkerRestarts, Good
<1>3. QED
  BY <1>1, <1>2 DEF Pushes

\* Where the page is followed, there are no cards.
NoCards == watched = "page" => CardsInit

LEMMA NoCardsStep == NoCards /\ [Next]_vars => NoCards'
<1> SUFFICES ASSUME NoCards, [Next]_vars, watched = "page" PROVE UNCHANGED cardVars
  BY DEF NoCards, Next, vars, CardsInit, cardVars
<1>1. QED
  BY DEF Next, vars, TournamentGoes, Tells, SweepTellsPages, SweepTellsNobody, Restart, Fails, Page,
     OnCards, CardsStand

LEMMA PushesStep ==
    ScoreTypeOK /\ CardTypeOK /\ NoCards /\ Pushes /\ [Next]_vars => Pushes'
<1> SUFFICES ASSUME ScoreTypeOK, CardTypeOK, NoCards, Pushes, [Next]_vars PROVE Pushes'
  OBVIOUS
<1>1. CASE watched = "page"
  <2>1. CardsInit'
    BY <1>1, NoCardsStep DEF Next, vars, NoCards
  <2>2. QED
    BY <2>1, CardAssumption DEF CardsInit, Pushes, Rounds, Shows, Good, Due
<1>2. CASE watched # "page"
  <2>1. \/ ScoreMoves /\ CardsStand
        \/ PollTells /\ Enqueue
        \/ CardsStand /\ UNCHANGED <<live, age, winner, poll>>
        \/ WorkerRestarts
        \/ ScoreStands /\ CardMoves
        \/ WorkerFails /\ UNCHANGED <<live, age, winner, poll>>
    BY <1>2 DEF Next, vars, TournamentGoes, Tells, SweepTellsPages, SweepTellsNobody, Restart,
       Fails, Page, OnCards, ScoreStands, CardsStand, scoreVars, SweepTells, SweepLeaves, SweepEnds,
       stored, pollers
  <2>2. CASE CardsStand /\ UNCHANGED <<live, age, winner, poll>>
    BY <2>2 DEF CardsStand, cardVars, Pushes, Rounds, Shows, Good, Keeping, Coming, Due,
       Telling, Point, Fresh
  <2>3. CASE ScoreStands /\ CardMoves
    <3>1. UNCHANGED <<live, age, winner, poll>>
      BY <2>3 DEF ScoreStands, scoreVars
    <3>2. QED
      BY <2>3, <3>1, PushesPhone, PushesWakes, PushesReads, PushesSends, PushesOther
         DEF CardMoves, Worker, CardActs
  <2>4. QED
    BY <2>1, <2>2, <2>3, PushesScore, PushesNoted, PushesRestart, PushesOther
<1>3. QED
  BY <1>1, <1>2

\* No change is lost between the poller, the set and the worker, for any number of
\* cards: one that the server knows shows a fresh score, or has a push of it coming,
\* unless that push was throttled, lost or refused, or came while the card registered.
THEOREM NoChangeIsLost == Spec => []PushIsComing
<1>1. Init => NoCards
  BY DEF Init, NoCards
<1>2. Spec => [](ScoreTypeOK /\ CardTypeOK)
  BY LiveTypes, PTL DEF LiveTypeOK
<1>3. QED
  BY <1>1, <1>2, PushesInit, NoCardsStep, PushesStep, PushesImply, PTL DEF Spec
=============================================================================
