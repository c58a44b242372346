------------------------- MODULE NotificationsProofs -------------------------
(***************************************************************************)
(* What holds of the three notification jobs together.  They share no      *)
(* variable, so a step of one is a stuttering step of the other two, and   *)
(* what is proved of each alone is carried to the three.                   *)
(***************************************************************************)
EXTENDS MCNotifications, RoundDigestProofs, DrawReleaseProofs, DrawChangesProofs

LEMMA InitOfEach == Init => DigestInit /\ ReleaseInit /\ ChangesInit
BY DEF Init

LEMMA StepOfEach ==
    [Next]_vars => [DigestNext]_digestVars /\ [ReleaseNext]_releaseVars /\ [ChangesNext]_changesVars
BY DEF Next, InDigest, InRelease, InChanges, vars

\* Rows, tasks and runs keep their shape, whichever job moves.
THEOREM NotesTypes == Spec => []NotesTypeOK
<1>1. Shape => ReleaseTypeOK
  BY DEF Shape
<1>2. DigestTypeOK /\ ReleaseTypeOK /\ ChangesTypeOK => NotesTypeOK
  BY DEF NotesTypeOK
<1>3. QED
  BY <1>1, <1>2, InitOfEach, StepOfEach, DigestTypeInit, DigestTypeStep, ShapeInit, ShapeStep,
     ChangesTypeInit, ChangesTypeStep, PTL DEF Spec

\* "One message per bucket per round" and one mail a week, and a field told only when it
\* is whole: what each job promises alone it promises beside the other two.
THEOREM EachMailOnce == Spec => [](OneMailPerRound /\ OneMailPerWeek /\ FieldAnnouncedWhole)
<1>1. OnceSaid => OneMailPerRound
  BY DEF OnceSaid, OneMailPerRound
<1>2. Shape /\ OneBatch => OneMailPerWeek
  BY DEF OneBatch, Once, OneMailPerWeek, Shape, ReleaseTypeOK
<1>3. ChangesInit => StillWhole
  BY StillWholeInit
<1>4. StillWhole => FieldAnnouncedWhole
  BY DEF StillWhole, FieldAnnouncedWhole
<1>5. QED
  BY <1>1, <1>2, <1>3, <1>4, InitOfEach, StepOfEach, DigestTypeInit, DigestTypeStep, ReadInit,
     ReadStep, AloneInit, AloneStep, ShapeInit, ShapeStep, OneBatchInit, OneBatchStep,
     ChangesTypeInit, ChangesTypeStep, StillWholeStep, PTL DEF Spec

-----------------------------------------------------------------------------
(* Draw releases and fields are outbox items.                              *)

LEMMA NewsMoves ==
    ASSUME Shape, OneBatch, Shape', OneBatch', ChangesTypeOK, HandsOK, HandsOK', [Next]_vars
    PROVE  News!OutboxNext
<1>1. \A d \in Calendar : ReleaseItem'[d] # ReleaseItem[d] =>
                              <<ReleaseItem[d], ReleaseItem'[d]>> \in News!Moves
  BY StepOfEach, ItemStep DEF News!Moves, News!Open, ReleaseNews!Moves, ReleaseNews!Open
<1>2. \A d \in Fields : FieldItem'[d] # FieldItem[d] =>
                            <<FieldItem[d], FieldItem'[d]>> \in News!Moves
  BY StepOfEach, FieldMoves DEF News!Moves, News!Open, FieldNews!Moves, FieldNews!Open
<1>3. QED
  BY <1>1, <1>2 DEF News!OutboxNext, NewsItem

\* The two mails that a reader must not get twice, of a draw's release and of its
\* qualifying field, are items of one outbox: whatever sweep, restart, page or late row
\* comes after, what was claimed is never offered again.
THEOREM NewsIsAnOutbox == Spec => NewsIsToldOnce
<1>1. Init => News!OutboxInit
  <2> SUFFICES ASSUME Init PROVE NewsItem = [i \in Calendar \cup Fields |-> "idle"]
    BY DEF News!OutboxInit
  <2>1. \A d \in Calendar : ReleaseItem[d] = "idle"
    BY InitOfEach DEF ReleaseInit, ReleaseItem
  <2>2. \A d \in Fields : FieldItem[d] = "idle"
    BY InitOfEach, AtRestFacts DEF ChangesInit, FieldItem, EventsOf
  <2>3. QED
    BY <2>1, <2>2 DEF NewsItem
<1>2. /\ Shape /\ OneBatch /\ ChangesTypeOK /\ HandsOK
      /\ (Shape /\ OneBatch /\ ChangesTypeOK /\ HandsOK)'
      /\ [Next]_vars
      => [News!OutboxNext]_NewsItem
  BY NewsMoves
<1>3. QED
  BY <1>1, <1>2, InitOfEach, StepOfEach, ShapeInit, ShapeStep, OneBatchInit, OneBatchStep,
     ChangesTypeInit, ChangesTypeStep, HandsInit, HandsStep, PTL
     DEF Spec, NewsIsToldOnce, News!OutboxSpec
=============================================================================
