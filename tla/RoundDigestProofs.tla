-------------------------- MODULE RoundDigestProofs --------------------------
(***************************************************************************)
(* What holds of the round digest for any draws, however they are divided  *)
(* into buckets, and for any number of restarts.                           *)
(***************************************************************************)
EXTENDS RoundDigest, TLAPS

\* A row names a draw and one of its rounds, and lies in the scope of its group.
LEMMA RowFacts ==
    ASSUME NEW x \in Rows
    PROVE  /\ x[1] \in Draws /\ x[2] \in 1 .. NumRounds[x[1]] /\ NumRounds[x[1]] \in Nat
           /\ GroupOf(x) \in Groups /\ x \in InScope(GroupOf(x))
<1>1. PICK d \in Draws : x \in {d} \X (1 .. NumRounds[d])
  BY DEF Rows
<1>2. QED
  BY <1>1, DigestAssumption DEF Groups, InScope

LEMMA DigestTypeInit == DigestInit => DigestTypeOK
BY DigestAssumption DEF DigestInit, DigestTypeOK

LEMMA DigestTypeStep == DigestTypeOK /\ [DigestNext]_digestVars => DigestTypeOK'
<1> SUFFICES ASSUME DigestTypeOK, [DigestNext]_digestVars PROVE DigestTypeOK'
  OBVIOUS
<1> USE DEF play, history
<1>1. ASSUME NEW d \in Draws, Decide(d) \/ Notice(d) PROVE DigestTypeOK'
  <2>1. CASE Decide(d)
    <3>1. decided' \in [Draws -> Nat] /\ \A e \in Draws : decided'[e] <= NumRounds[e]
      <4>1. /\ decided' = [decided EXCEPT ![d] = @ + 1] /\ decided[d] < NumRounds[d]
            /\ decided \in [Draws -> Nat] /\ NumRounds \in [Draws -> Nat \ {0}]
            /\ \A e \in Draws : decided[e] <= NumRounds[e]
        BY <2>1, DigestAssumption DEF Decide, DigestTypeOK
      <4>2. decided[d] + 1 \in Nat /\ decided[d] + 1 <= NumRounds[d]
        BY <4>1
      <4>3. QED
        BY <4>1, <4>2
    <3>2. QED
      BY <2>1, <3>1 DEF Decide, DigestTypeOK
  <2>2. CASE Notice(d)
    BY <2>2 DEF Notice, DigestTypeOK
  <2>3. QED
    BY <1>1, <2>1, <2>2
<1>2. ASSUME NEW x \in Rows, Report(x) PROVE DigestTypeOK'
  <2>1. overtaken' \subseteq Groups
    BY <1>2, RowFacts DEF Report, DigestTypeOK
  <2>2. QED
    BY <1>2, <2>1 DEF Report, DigestTypeOK
<1>3. CASE SweepNotices
  BY <1>3 DEF SweepNotices, Missed, Over, DigestTypeOK
<1>4. CASE SweepRecords
  <2>1. row' \in [Rows -> {"none", "pending", "sent"}]
    BY <1>4 DEF SweepRecords, DigestTypeOK
  <2>2. seen' \subseteq Rows /\ sweep' \in {"idle", "recording", "deciding"}
    BY <1>4 DEF SweepRecords
  <2>3. QED
    BY <1>4, <2>1, <2>2 DEF SweepRecords, DigestTypeOK
<1>5. CASE SweepDispatches
  <2> DEFINE whole == {g \in {GroupOf(x) : x \in seen} : Outstanding(g) = {}}
             late  == {g \in whole : AlreadySent(g)}
             now   == whole \ late
  <2>1. now \subseteq Groups
    BY RowFacts DEF DigestTypeOK
  <2>2. row' \in [Rows -> {"none", "pending", "sent"}]
    BY <1>5 DEF SweepDispatches, DigestTypeOK
  <2>3. ASSUME NEW g \in now
        PROVE  LET b == [group |-> g, entries |-> seen \cap InScope(g),
                         claimed |-> FALSE, again |-> Gathering(g)]
               IN  b \in Batch /\ b.entries \subseteq InScope(b.group)
    <3>1. g \in Groups /\ Gathering(g) \in BOOLEAN
      BY <2>1 DEF Gathering
    <3>2. seen \cap InScope(g) \in SUBSET Rows
      BY DEF InScope
    <3>3. QED
      BY <3>1, <3>2 DEF Batch
  <2>4. batch' = batch \cup {[group |-> g, entries |-> seen \cap InScope(g),
                              claimed |-> FALSE, again |-> Gathering(g)] : g \in now}
    BY <1>5 DEF SweepDispatches
  <2>5. batch' \subseteq Batch /\ \A b \in batch' : b.entries \subseteq InScope(b.group)
    <3> HIDE DEF now
    <3>1. QED
      BY <2>3, <2>4 DEF DigestTypeOK
  <2>6. overtaken' \subseteq Groups
    BY <1>5, <2>1 DEF SweepDispatches, DigestTypeOK
  <2>7. QED
    BY <1>5, <2>2, <2>5, <2>6 DEF SweepDispatches, DigestTypeOK
<1>6. ASSUME NEW b \in batch, Claim(b) PROVE DigestTypeOK'
  <2> DEFINE told == {x \in b.entries : x[1] \in entered}
  <2>1. b \in Batch /\ told \subseteq b.entries /\ b.entries \subseteq InScope(b.group)
    BY DEF DigestTypeOK
  <2>2. row' \in [Rows -> {"none", "pending", "sent"}]
    BY <1>6 DEF Claim, DigestTypeOK
  <2>3. [b EXCEPT !.entries = told, !.claimed = TRUE] \in Batch
    BY <2>1 DEF Batch
  <2>4. /\ [b EXCEPT !.entries = told, !.claimed = TRUE].entries = told
        /\ [b EXCEPT !.entries = told, !.claimed = TRUE].group = b.group
    BY <2>1 DEF Batch
  <2>5. batch' \subseteq batch \cup {[b EXCEPT !.entries = told, !.claimed = TRUE]}
    BY <1>6 DEF Claim
  <2>6. batch' \subseteq Batch /\ \A c \in batch' : c.entries \subseteq InScope(c.group)
    BY <2>1, <2>3, <2>4, <2>5 DEF DigestTypeOK
  <2>7. mailed' \subseteq Rows
    BY <1>6, <2>1 DEF Claim, DigestTypeOK, InScope
  <2>8. QED
    BY <1>6, <2>2, <2>6, <2>7 DEF Claim, DigestTypeOK
<1>7. ASSUME NEW b \in batch, Mail(b) PROVE DigestTypeOK'
  <2>1. b.group \in Groups
    BY DEF DigestTypeOK, Batch
  <2>2. sends' \in [Groups -> 0 .. 2]
    BY <1>7, <2>1 DEF Mail, DigestTypeOK
  <2>3. QED
    BY <1>7, <2>2 DEF Mail, DigestTypeOK
<1>8. CASE DigestRestart
  BY <1>8, DigestAssumption DEF DigestRestart, DigestTypeOK
<1>9. CASE UNCHANGED digestVars
  BY <1>9 DEF digestVars, DigestTypeOK
<1>10. QED
  BY <1>1, <1>2, <1>3, <1>4, <1>5, <1>6, <1>7, <1>8, <1>9 DEF DigestNext, Sweep, Carry

\* Rows, tasks and histories keep their shape.
THEOREM DigestTypes == DigestSpec => []DigestTypeOK
BY DigestTypeInit, DigestTypeStep, PTL DEF DigestSpec

-----------------------------------------------------------------------------
(* What the sweep and the tasks may rely on.                               *)

Reported(g) == \A x \in InScope(g) : row[x] # "none"

\* Only finished rounds have rows; while a sweep decides, every row it has not read is
\* stamped or came after it read, and the groups it dispatched had reported.
Read ==
    /\ sweep # "deciding" => seen = {}
    /\ \A x \in Rows : row[x] # "none" => x \in Finished
    /\ \A x \in seen : row[x] # "none"
    /\ \A x \in Rows \ seen :
          row[x] = "pending" /\ (\E y \in seen : GroupOf(y) = GroupOf(x))
              => GroupOf(x) \in overtaken
    /\ \A b \in batch : Reported(b.group)

AllSent(g) == \A x \in InScope(g) : x[1] \in entered => row[x] = "sent"
Said(g)    == sends[g] # 0 \/ \E b \in batch : b.group = g /\ b.claimed

\* A group that nothing overtook has one task at a time at each stage; one that still
\* gathers has all that is not stamped in hand, and nothing to tell if that was told.
Alone ==
    \A b \in batch : b.group \notin overtaken =>
        /\ ~b.claimed =>
              /\ \A x \in InScope(b.group) : x \in b.entries \/ row[x] = "sent"
              /\ Said(b.group) => \A x \in b.entries : x[1] \notin entered
        /\ b.claimed => sends[b.group] = 0
        /\ \A c \in batch : c.group = b.group /\ c.claimed = b.claimed => c = b

\* What was told once is stamped for good.
OnceSaid == \A g \in Groups \ overtaken : sends[g] # 2 /\ (Said(g) => AllSent(g))

\* No step takes a row back, or a stamp, or a finished round.
LEMMA RowsOnlyAdvance ==
    ASSUME DigestTypeOK, [DigestNext]_digestVars, NEW x \in Rows
    PROVE  /\ row[x] # "none" => row'[x] # "none"
           /\ row[x] = "sent" => row'[x] = "sent"
           /\ x \in Finished => x \in Finished'
           /\ entered' = entered /\ overtaken \subseteq overtaken'
<1> USE DEF play, history
<1>1. x \in Finished => x \in Finished'
  <2>1. \A d \in Draws : decided'[d] = decided[d] \/ decided'[d] = decided[d] + 1
    BY DEF DigestNext, digestVars, Sweep, Carry, Decide, Notice, Report, SweepNotices, SweepRecords,
           SweepDispatches, Claim, Mail, DigestRestart, DigestTypeOK
  <2>2. QED
    BY <2>1, RowFacts DEF Finished, DigestTypeOK
<1>2. entered' = entered /\ overtaken \subseteq overtaken'
  BY DEF DigestNext, digestVars, Sweep, Carry, Decide, Notice, Report, SweepNotices, SweepRecords,
         SweepDispatches, Claim, Mail, DigestRestart
<1>3. (row[x] # "none" => row'[x] # "none") /\ (row[x] = "sent" => row'[x] = "sent")
  BY DEF DigestNext, digestVars, Sweep, Carry, Decide, Notice, Report, SweepNotices, SweepRecords,
         SweepDispatches, Claim, Mail, DigestRestart, DigestTypeOK
<1>4. QED
  BY <1>1, <1>2, <1>3

\* What a dispatch starts: one task for each group that is whole and not told, with the
\* rows that were read; and what it stamps without telling.
LEMMA DispatchFacts ==
    ASSUME DigestTypeOK, SweepDispatches
    PROVE  /\ batch \subseteq batch' /\ overtaken \subseteq overtaken' /\ seen' = {}
           /\ UNCHANGED <<entered, decided, mailed, sends>>
           /\ \A b \in batch' : b \notin batch =>
                 /\ ~b.claimed /\ b.entries = seen \cap InScope(b.group) /\ b.group \in Groups
                 /\ \E y \in seen : GroupOf(y) = b.group
                 /\ Outstanding(b.group) = {} /\ ~AlreadySent(b.group)
                 /\ Gathering(b.group) => b.group \in overtaken'
           /\ \A b, c \in batch' : b \notin batch /\ c \notin batch /\ c.group = b.group => c = b
           /\ \A x \in Rows : row'[x] # row[x] =>
                 row'[x] = "sent" /\ x \in seen /\ AlreadySent(GroupOf(x))
                 /\ Outstanding(GroupOf(x)) = {}
<1> DEFINE whole == {g \in {GroupOf(x) : x \in seen} : Outstanding(g) = {}}
           late  == {g \in whole : AlreadySent(g)}
           now   == whole \ late
           New(g) == [group |-> g, entries |-> seen \cap InScope(g),
                      claimed |-> FALSE, again |-> Gathering(g)]
<1>1. /\ row' = [x \in Rows |-> IF x \in seen /\ GroupOf(x) \in late THEN "sent" ELSE row[x]]
      /\ batch' = batch \cup {New(g) : g \in now}
      /\ overtaken' = overtaken \cup {g \in now : Gathering(g)}
      /\ seen' = {} /\ UNCHANGED <<entered, decided, mailed, sends>>
  BY DEF SweepDispatches, play
<1>2. \A g \in now : g \in Groups /\ (\E y \in seen : GroupOf(y) = g)
                     /\ Outstanding(g) = {} /\ ~AlreadySent(g)
  BY RowFacts DEF DigestTypeOK
<1>3. \A b \in batch' : b \notin batch => \E g \in now : b = New(g)
  BY <1>1
<1>4. \A g : New(g).group = g /\ ~New(g).claimed /\ New(g).entries = seen \cap InScope(g)
  OBVIOUS
<1>5. \A x \in Rows : row'[x] # row[x] =>
          row'[x] = "sent" /\ x \in seen /\ AlreadySent(GroupOf(x)) /\ Outstanding(GroupOf(x)) = {}
  BY <1>1
<1>6. \A g \in now : Gathering(g) => g \in overtaken'
  BY <1>1
<1>7. batch \subseteq batch' /\ overtaken \subseteq overtaken'
  BY <1>1
<1> HIDE DEF New, now
<1>8. \A b, c \in batch' : b \notin batch /\ c \notin batch /\ c.group = b.group => c = b
  BY <1>3, <1>4
<1>9. \A b \in batch' : b \notin batch =>
          /\ ~b.claimed /\ b.entries = seen \cap InScope(b.group) /\ b.group \in Groups
          /\ \E y \in seen : GroupOf(y) = b.group
          /\ Outstanding(b.group) = {} /\ ~AlreadySent(b.group)
          /\ Gathering(b.group) => b.group \in overtaken'
  BY <1>2, <1>3, <1>4, <1>6
<1>10. QED
  BY <1>1, <1>5, <1>7, <1>8, <1>9

\* What a claim does: its task tells the entered draws' rows, stamped from now on.
LEMMA DigestClaimFacts ==
    ASSUME DigestTypeOK, NEW b \in batch, Claim(b)
    PROVE  LET told == {x \in b.entries : x[1] \in entered}
           IN  /\ ~b.claimed /\ told \subseteq Rows /\ b.group \in Groups
               /\ \A c \in batch' : \/ c \in batch /\ c # b
                                    \/ /\ c.group = b.group /\ c.claimed
                                       /\ c.entries = told /\ told # {}
               /\ \A c, e \in batch' : c \notin batch /\ e \notin batch => c = e
               /\ batch \ {b} \subseteq batch'
               /\ mailed' = mailed \cup told
               /\ \A x \in told : row[x] # "none" => row'[x] = "sent"
               /\ \A x \in Rows : row'[x] # row[x] => row'[x] = "sent" /\ x \in Claimed(told)
               /\ UNCHANGED <<entered, decided, seen, sweep, sends, overtaken>>
<1> DEFINE told == {x \in b.entries : x[1] \in entered}
           taken == [b EXCEPT !.entries = told, !.claimed = TRUE]
<1>1. /\ ~b.claimed /\ row' = [x \in Rows |-> IF x \in Claimed(told) THEN "sent" ELSE row[x]]
      /\ batch' = (batch \ {b}) \cup IF told = {} THEN {} ELSE {taken}
      /\ mailed' = mailed \cup told
      /\ UNCHANGED <<entered, decided, seen, sweep, sends, overtaken>>
  BY DEF Claim, play
<1>2. b \in Batch /\ b.group \in Groups /\ told \subseteq Rows
  BY DEF DigestTypeOK, Batch
<1>3. taken.group = b.group /\ taken.claimed /\ taken.entries = told
  BY <1>2 DEF Batch
<1>4. \A x \in told : row[x] # "none" => row'[x] = "sent"
  <2> SUFFICES ASSUME NEW x \in told, row[x] # "none" PROVE row'[x] = "sent"
    OBVIOUS
  <2>1. row[x] \in {"pending", "sent"}
    BY <1>2 DEF DigestTypeOK
  <2>2. row[x] = "pending" => x \in Claimed(told)
    BY <1>2 DEF Claimed, SomeRow, DrawsIn, RoundsIn, Pending
  <2>3. QED
    BY <1>1, <1>2, <2>1, <2>2
<1>5. \A x \in Rows : row'[x] # row[x] => row'[x] = "sent" /\ x \in Claimed(told)
  BY <1>1
<1> HIDE DEF taken, told
<1>6. QED
  BY <1>1, <1>2, <1>3, <1>4, <1>5 DEF told

LEMMA ReadInit == DigestInit => Read
BY DEF DigestInit, Read

LEMMA ReadStep == DigestTypeOK /\ Read /\ [DigestNext]_digestVars => Read'
<1> SUFFICES ASSUME DigestTypeOK, Read, [DigestNext]_digestVars PROVE Read'
  OBVIOUS
<1> USE DEF play, history
<1>1. \A g : Reported(g) => Reported(g)'
  BY RowsOnlyAdvance DEF Reported, InScope
<1>2. \A x \in seen : row'[x] # "none"
  BY RowsOnlyAdvance DEF Read, DigestTypeOK
<1>3. \A x \in Rows : x \in Finished => x \in Finished'
  BY RowsOnlyAdvance
\* Steps that write no row, start no task and read nothing new.
<1>4. ASSUME seen' = seen \/ seen' = {}, sweep' = "deciding" => sweep = "deciding",
             seen' = {} \/ sweep' = sweep,
             \A x \in Rows : row'[x] # row[x] => row'[x] = "sent" /\ row[x] # "none",
             \A c \in batch' : \E b \in batch : c.group = b.group,
             overtaken \subseteq overtaken'
      PROVE  Read'
  <2>1. \A x \in Rows : row'[x] # "none" => x \in Finished'
    BY <1>3, <1>4 DEF Read
  <2>2. \A x \in Rows \ seen' :
            row'[x] = "pending" /\ (\E y \in seen' : GroupOf(y) = GroupOf(x))
                => GroupOf(x) \in overtaken'
    BY <1>4 DEF Read
  <2>3. \A b \in batch' : Reported(b.group)'
    BY <1>1, <1>4 DEF Read
  <2>4. QED
    BY <1>2, <1>4, <2>1, <2>2, <2>3 DEF Read
<1>5. ASSUME NEW d \in Draws, Decide(d) \/ Notice(d) PROVE Read'
  BY <1>4, <1>5 DEF Decide, Notice
<1>6. CASE SweepNotices \/ DigestRestart \/ UNCHANGED digestVars
  BY <1>4, <1>6 DEF SweepNotices, DigestRestart, digestVars, Read
<1>7. ASSUME NEW b \in batch, Mail(b) PROVE Read'
  BY <1>4, <1>7 DEF Mail
<1>8. ASSUME NEW b \in batch, Claim(b) PROVE Read'
  <2>1. \A c \in batch' : \E e \in batch : c.group = e.group
    BY <1>8, DigestClaimFacts
  <2>2. \A x \in Rows : row'[x] # row[x] => row'[x] = "sent" /\ row[x] # "none"
    BY <1>8, DigestClaimFacts DEF Claimed, Pending
  <2>3. UNCHANGED <<seen, sweep, overtaken>>
    BY <1>8 DEF Claim
  <2>4. QED
    BY <1>4, <2>1, <2>2, <2>3
<1>9. ASSUME NEW x \in Rows, Report(x) PROVE Read'
  <2>1. /\ row' = [row EXCEPT ![x] = "pending"] /\ x \in Finished
        /\ UNCHANGED <<entered, decided, sweep, seen, batch>>
        /\ overtaken' = overtaken \cup {g \in {GroupOf(y) : y \in seen} : g = GroupOf(x)}
    BY <1>9 DEF Report
  <2>2. \A z \in Rows : row'[z] # "none" => z \in Finished'
    BY <1>3, <2>1 DEF Read, DigestTypeOK
  <2>3. \A z \in Rows \ seen' :
            row'[z] = "pending" /\ (\E y \in seen' : GroupOf(y) = GroupOf(z))
                => GroupOf(z) \in overtaken'
    BY <2>1 DEF Read, DigestTypeOK
  <2>4. QED
    BY <1>1, <1>2, <2>1, <2>2, <2>3 DEF Read
<1>10. CASE SweepRecords
  <2>1. /\ row' = [x \in Rows |-> IF /\ x \in Finished /\ row[x] = "none"
                                     /\ x[1] \in Over => x[1] \in noticed
                                  THEN "pending" ELSE row[x]]
        /\ seen' = {x \in Rows : row'[x] = "pending"}
        /\ sweep' = IF seen' = {} THEN "idle" ELSE "deciding"
        /\ UNCHANGED <<entered, decided, batch>>
    BY <1>10 DEF SweepRecords
  <2>2. \A z \in Rows : row'[z] # "none" => z \in Finished'
    BY <1>3, <2>1 DEF Read
  <2>3. sweep' # "deciding" => seen' = {}
    BY <2>1
  <2>4. \A b \in batch' : Reported(b.group)'
    BY <1>1, <2>1 DEF Read
  <2>5. (\A z \in seen' : row'[z] # "none") /\ (\A z \in Rows \ seen' : row'[z] # "pending")
    BY <2>1
  <2>6. QED
    BY <2>2, <2>3, <2>4, <2>5 DEF Read
<1>11. CASE SweepDispatches
  <2>1. /\ \A b \in batch' : b \notin batch => Outstanding(b.group) = {}
        /\ \A x \in Rows : row'[x] # row[x] => row'[x] = "sent" /\ x \in seen
        /\ seen' = {} /\ decided' = decided
    BY <1>11, DispatchFacts
  <2>2. \A b \in batch' : Reported(b.group)
    BY <2>1 DEF Read, Outstanding, Reported, InScope
  <2>3. \A x \in Rows : row'[x] # "none" => x \in Finished'
    BY <1>3, <2>1 DEF Read
  <2>4. QED
    BY <1>1, <2>1, <2>2, <2>3 DEF Read
<1>12. QED
  BY <1>5, <1>6, <1>7, <1>8, <1>9, <1>10, <1>11 DEF DigestNext, Sweep, Carry

-----------------------------------------------------------------------------
LEMMA AloneInit == DigestInit => Alone /\ OnceSaid
BY DEF DigestInit, Alone, OnceSaid, Said, Groups, GroupOf

\* Steps that tell nothing: tasks may go, rows advance, groups be overtaken.
LEMMA AloneQuiet ==
    ASSUME DigestTypeOK, Alone, OnceSaid, [DigestNext]_digestVars,
           batch' \subseteq batch, sends' = sends
    PROVE  Alone' /\ OnceSaid'
<1>1. entered' = entered /\ overtaken \subseteq overtaken'
  BY DEF DigestNext, digestVars, Sweep, Carry, Decide, Notice, Report, SweepNotices, SweepRecords,
         SweepDispatches, Claim, Mail, DigestRestart, play, history
<1>2. \A g \in Groups : AllSent(g) => AllSent(g)'
  BY <1>1, RowsOnlyAdvance DEF AllSent, InScope
<1>3. \A g : Said(g)' => Said(g)
  BY DEF Said
<1>4. OnceSaid'
  BY <1>1, <1>2, <1>3 DEF OnceSaid
<1>5. Alone'
  <2> SUFFICES ASSUME NEW b \in batch', b.group \notin overtaken'
               PROVE  /\ ~b.claimed =>
                            /\ \A x \in InScope(b.group) : x \in b.entries \/ row'[x] = "sent"
                            /\ Said(b.group)' => \A x \in b.entries : x[1] \notin entered'
                      /\ b.claimed => sends'[b.group] = 0
                      /\ \A c \in batch' : c.group = b.group /\ c.claimed = b.claimed => c = b
    BY DEF Alone, InScope
  <2>1. b \in batch /\ b.group \notin overtaken
    BY <1>1
  <2>2. \A x \in InScope(b.group) : row[x] = "sent" => row'[x] = "sent"
    BY RowsOnlyAdvance DEF InScope
  <2>3. QED
    BY <1>1, <1>3, <2>1, <2>2 DEF Alone
<1>6. QED
  BY <1>4, <1>5

\* A sweep starts a task where none gathers, and where what was told has no row waiting.
LEMMA AloneDispatches ==
    ASSUME DigestTypeOK, Read, Alone, OnceSaid, SweepDispatches PROVE Alone' /\ OnceSaid'
<1>1. [DigestNext]_digestVars
  BY DEF DigestNext, Sweep
<1>2. /\ batch \subseteq batch' /\ overtaken \subseteq overtaken'
      /\ UNCHANGED <<entered, sends>>
      /\ \A b \in batch' : b \notin batch =>
                 /\ ~b.claimed /\ b.entries = seen \cap InScope(b.group) /\ b.group \in Groups
                 /\ \E y \in seen : GroupOf(y) = b.group
                 /\ Outstanding(b.group) = {} /\ ~AlreadySent(b.group)
                 /\ Gathering(b.group) => b.group \in overtaken'
      /\ \A b, c \in batch' : b \notin batch /\ c \notin batch /\ c.group = b.group => c = b
  BY DispatchFacts
<1>3. \A x \in Rows : row[x] = "sent" => row'[x] = "sent"
  BY <1>1, RowsOnlyAdvance
<1>4. \A g : Said(g)' <=> Said(g)
  BY <1>2 DEF Said
<1>5. OnceSaid'
  <2>1. \A g \in Groups : AllSent(g) => AllSent(g)'
    BY <1>2, <1>3 DEF AllSent, InScope
  <2>2. QED
    BY <1>2, <1>4, <2>1 DEF OnceSaid
<1>6. ASSUME NEW b \in batch', b \notin batch, b.group \notin overtaken'
      PROVE  /\ \A x \in InScope(b.group) : x \in b.entries \/ row'[x] = "sent"
             /\ Said(b.group)' => \A x \in b.entries : x[1] \notin entered'
             /\ \A c \in batch' : c.group = b.group /\ c.claimed = b.claimed => c = b
  <2>1. ASSUME NEW x \in InScope(b.group), x \notin b.entries PROVE row[x] = "sent"
    <3>1. x \in Rows /\ GroupOf(x) = b.group /\ x \notin seen /\ row[x] # "none"
      BY <1>2, <1>6, <2>1 DEF InScope, Outstanding
    <3>2. row[x] # "pending"
      BY <1>2, <1>6, <3>1 DEF Read
    <3>3. QED
      BY <3>1, <3>2 DEF DigestTypeOK
  <2>2. ASSUME Said(b.group), NEW x \in b.entries, x[1] \in entered PROVE FALSE
    <3>1. x \in seen /\ x \in InScope(b.group) /\ b.group \in Groups \ overtaken
      BY <1>2, <1>6, <2>2
    <3>2. row[x] = "sent"
      BY <2>2, <3>1 DEF OnceSaid, AllSent
    <3>3. x \in SomeRow(DrawsIn(InScope(b.group)), RoundsIn(seen \cap InScope(b.group)))
      BY <3>1 DEF SomeRow, DrawsIn, RoundsIn, InScope
    <3>4. QED
      BY <1>2, <1>6, <3>1, <3>2, <3>3 DEF AlreadySent, InScope
  <2>3. ASSUME NEW c \in batch', c.group = b.group, ~c.claimed PROVE c = b
    <3>1. c \notin batch
      BY <1>2, <1>6, <2>3 DEF Gathering
    <3>2. QED
      BY <1>2, <1>6, <2>3, <3>1
  <2>4. QED
    BY <1>2, <1>3, <1>4, <1>6, <2>1, <2>2, <2>3 DEF InScope
<1>7. Alone'
  <2> SUFFICES ASSUME NEW b \in batch', b.group \notin overtaken'
               PROVE  /\ ~b.claimed =>
                            /\ \A x \in InScope(b.group) : x \in b.entries \/ row'[x] = "sent"
                            /\ Said(b.group)' => \A x \in b.entries : x[1] \notin entered'
                      /\ b.claimed => sends'[b.group] = 0
                      /\ \A c \in batch' : c.group = b.group /\ c.claimed = b.claimed => c = b
    BY DEF Alone, InScope
  <2>1. CASE b \notin batch
    BY <1>2, <1>6, <2>1
  <2>2. CASE b \in batch
    <3>1. ASSUME NEW c \in batch', c.group = b.group, c.claimed = b.claimed PROVE c = b
      <4>1. CASE c \in batch
        BY <1>2, <2>2, <3>1, <4>1 DEF Alone
      <4>2. CASE c \notin batch
        BY <1>2, <2>2, <3>1, <4>2 DEF Gathering
      <4>3. QED
        BY <4>1, <4>2
    <3>2. QED
      BY <1>2, <1>3, <1>4, <2>2, <3>1 DEF Alone, InScope
  <2>3. QED
    BY <2>1, <2>2
<1>8. QED
  BY <1>5, <1>7

\* A claim stamps all its group has to tell, and was the only one to gather it.
LEMMA AloneClaims ==
    ASSUME DigestTypeOK, Read, Alone, OnceSaid, NEW b \in batch, Claim(b) PROVE Alone' /\ OnceSaid'
<1> DEFINE told == {x \in b.entries : x[1] \in entered}
<1>1. [DigestNext]_digestVars
  BY DEF DigestNext, Carry
<1>2. /\ ~b.claimed /\ told \subseteq Rows /\ b.group \in Groups
      /\ \A c \in batch' : \/ c \in batch /\ c # b
                           \/ c.group = b.group /\ c.claimed /\ c.entries = told /\ told # {}
      /\ \A c, e \in batch' : c \notin batch /\ e \notin batch => c = e
      /\ \A x \in told : row[x] # "none" => row'[x] = "sent"
      /\ UNCHANGED <<entered, sends, overtaken>>
  BY DigestClaimFacts
<1>3. \A x \in Rows : row[x] = "sent" => row'[x] = "sent"
  BY <1>1, RowsOnlyAdvance
<1>4. b.group \notin overtaken => AllSent(b.group)'
  <2> SUFFICES ASSUME b.group \notin overtaken, NEW x \in InScope(b.group), x[1] \in entered
               PROVE  row'[x] = "sent"
    BY <1>2 DEF AllSent, InScope
  <2>1. x \in b.entries \/ row[x] = "sent"
    BY <1>2 DEF Alone
  <2>2. row[x] # "none"
    BY DEF Read, Reported
  <2>3. QED
    BY <1>2, <1>3, <2>1, <2>2 DEF InScope
<1>5. \A g : Said(g)' => Said(g) \/ (g = b.group /\ told # {})
  <2> SUFFICES ASSUME NEW g, Said(g)', ~Said(g) PROVE g = b.group /\ told # {}
    OBVIOUS
  <2>1. PICK c \in batch' : c.group = g /\ c.claimed
    BY <1>2 DEF Said
  <2>2. c \notin batch
    BY <2>1 DEF Said
  <2> HIDE DEF told
  <2>3. QED
    BY <1>2, <2>1, <2>2
<1>6. OnceSaid'
  <2>1. \A g \in Groups : AllSent(g) => AllSent(g)'
    BY <1>2, <1>3 DEF AllSent, InScope
  <2>2. QED
    BY <1>2, <1>4, <1>5, <2>1 DEF OnceSaid
<1>7. b.group \notin overtaken /\ told # {} => ~Said(b.group)
  BY <1>2 DEF Alone
<1>8. Alone'
  <2> SUFFICES ASSUME NEW c \in batch', c.group \notin overtaken
               PROVE  /\ ~c.claimed =>
                            /\ \A x \in InScope(c.group) : x \in c.entries \/ row'[x] = "sent"
                            /\ Said(c.group)' => \A x \in c.entries : x[1] \notin entered'
                      /\ c.claimed => sends'[c.group] = 0
                      /\ \A e \in batch' : e.group = c.group /\ e.claimed = c.claimed => e = c
    BY <1>2 DEF Alone, InScope
  \* The task that was claimed is the first of its group.
  <2>1. CASE c \notin batch
    <3>1. c.group = b.group /\ c.claimed /\ told # {}
      BY <1>2, <2>1
    <3>2. sends[c.group] = 0 /\ \A e \in batch : e.group = c.group => ~e.claimed
      BY <1>7, <2>1, <3>1 DEF Said
    <3>3. QED
      BY <1>2, <2>1, <3>1, <3>2
  <2>2. CASE c \in batch /\ c # b
    <3>1. ~c.claimed => c.group # b.group
      <4>1. b.claimed \in BOOLEAN /\ c.claimed \in BOOLEAN
        BY <2>2 DEF DigestTypeOK, Batch
      <4>2. b.group = c.group /\ b.claimed = c.claimed => b = c
        BY <2>2 DEF Alone
      <4>3. QED
        BY <1>2, <2>2, <4>1, <4>2
    <3>2. ASSUME NEW e \in batch', e.group = c.group, e.claimed = c.claimed PROVE e = c
      <4>1. CASE e \in batch
        BY <2>2, <3>2, <4>1 DEF Alone
      <4>2. CASE e \notin batch
        BY <1>2, <1>7, <2>2, <3>2, <4>2 DEF Said
      <4>3. QED
        BY <4>1, <4>2
    <3>3. QED
      BY <1>2, <1>3, <1>5, <2>2, <3>1, <3>2 DEF Alone, InScope
  <2>3. QED
    BY <1>2, <2>1, <2>2
<1>9. QED
  BY <1>6, <1>8

LEMMA AloneMails ==
    ASSUME DigestTypeOK, Alone, OnceSaid, NEW b \in batch, Mail(b) PROVE Alone' /\ OnceSaid'
<1>1. /\ b.claimed /\ batch' = batch \ {b} /\ UNCHANGED <<entered, row, overtaken>>
      /\ b.group \in Groups
      /\ sends' = [sends EXCEPT ![b.group] = IF @ = 2 THEN 2 ELSE @ + 1]
  BY DEF Mail, play, DigestTypeOK, Batch
<1>2. b.group \notin overtaken => sends'[b.group] = 1
  BY <1>1 DEF Alone, DigestTypeOK
<1>3. \A g \in Groups : g # b.group => sends'[g] = sends[g]
  BY <1>1 DEF DigestTypeOK
<1>4. \A g \in Groups : Said(g)' => Said(g)
  BY <1>1, <1>3 DEF Said
<1>5. OnceSaid'
  BY <1>1, <1>2, <1>3, <1>4 DEF OnceSaid, AllSent, InScope
<1>6. \A c \in batch' : c \in batch /\ c.group \in Groups
  BY <1>1 DEF DigestTypeOK, Batch
<1>7. \A c \in batch' : c.claimed /\ c.group \notin overtaken => c.group # b.group
  BY <1>1 DEF Alone
<1>8. Alone'
  BY <1>1, <1>3, <1>4, <1>6, <1>7 DEF Alone, InScope
<1>9. QED
  BY <1>5, <1>8

LEMMA AloneStep ==
    DigestTypeOK /\ Read /\ Alone /\ OnceSaid /\ [DigestNext]_digestVars => Alone' /\ OnceSaid'
<1> SUFFICES ASSUME DigestTypeOK, Read, Alone, OnceSaid, [DigestNext]_digestVars
             PROVE  Alone' /\ OnceSaid'
  OBVIOUS
<1>1. CASE batch' \subseteq batch /\ sends' = sends
  BY <1>1, AloneQuiet
<1>2. \/ batch' \subseteq batch /\ sends' = sends
      \/ SweepDispatches
      \/ \E b \in batch : Claim(b) \/ Mail(b)
  BY DEF DigestNext, digestVars, Sweep, Carry, Decide, Notice, Report, SweepNotices, SweepRecords,
         DigestRestart, play, history
<1>3. QED
  BY <1>1, <1>2, AloneDispatches, AloneClaims, AloneMails

\* "One message per bucket per round, full stop", for any draws and buckets, late rows
\* and restarts: a second mail needs a sweep that overlapped the first task's gathering
\* or a row written while the sweep was deciding.
THEOREM OneMessagePerRound == DigestSpec => []OneMailPerRound
<1>1. OnceSaid => OneMailPerRound
  BY DEF OnceSaid, OneMailPerRound
<1>2. QED
  BY <1>1, DigestTypeInit, DigestTypeStep, ReadInit, ReadStep, AloneInit, AloneStep, PTL
     DEF DigestSpec

-----------------------------------------------------------------------------
(* Where the draws of each bucket have as many rounds as one another, the  *)
(* product a claim is made of stays within its group.  Where they do not,  *)
(* the run digest_sizes shows that nothing of this section holds.          *)

EvenBuckets == \A d, e \in Draws : BucketOf[d] = BucketOf[e] => NumRounds[d] = NumRounds[e]

\* A task has every draw of its bucket, then every draw that has something to tell.
WholeBatch ==
    \A b \in batch : b.group \notin overtaken =>
        b.entries = {x \in InScope(b.group) : b.claimed => x[1] \in entered}

\* One stamp in a group means that all it has to tell is covered by a mail.
StampedTogether ==
    \A x \in Rows :
        row[x] = "sent" /\ GroupOf(x) \notin overtaken
            => \A y \in InScope(GroupOf(x)) : y[1] \in entered => y \in mailed

\* Draws and rounds taken from one group make no row of another.
LEMMA ProductInScope ==
    ASSUME EvenBuckets, NEW g, NEW R \in SUBSET InScope(g), NEW S \in SUBSET InScope(g)
    PROVE  SomeRow(DrawsIn(R), RoundsIn(S)) \subseteq InScope(g)
<1> SUFFICES ASSUME NEW x \in SomeRow(DrawsIn(R), RoundsIn(S)) PROVE x \in InScope(g)
  OBVIOUS
<1>1. PICK y \in R : y[1] = x[1]
  BY DEF SomeRow, DrawsIn
<1>2. PICK z \in S : z[2] = x[2]
  BY DEF SomeRow, RoundsIn
<1>3. x \in Rows /\ y \in Rows /\ z \in Rows /\ GroupOf(y) = g /\ GroupOf(z) = g
  BY <1>1, <1>2 DEF SomeRow, InScope
<1>4. /\ BucketOf[y[1]] = BucketOf[z[1]] /\ NumRounds[y[1]] - y[2] = NumRounds[z[1]] - z[2]
  BY <1>3 DEF GroupOf
<1>5. NumRounds[y[1]] = NumRounds[z[1]]
  BY <1>3, <1>4, RowFacts DEF EvenBuckets
<1>6. y[2] = z[2]
  BY <1>3, <1>4, <1>5, RowFacts
<1>7. QED
  BY <1>1, <1>2, <1>3, <1>6 DEF GroupOf, InScope

LEMMA EvenInit == DigestInit => WholeBatch /\ StampedTogether
BY DEF DigestInit, WholeBatch, StampedTogether

LEMMA EvenDispatches ==
    ASSUME EvenBuckets, DigestTypeOK, Read, WholeBatch, StampedTogether, SweepDispatches
    PROVE  WholeBatch' /\ StampedTogether'
<1>1. /\ overtaken \subseteq overtaken' /\ UNCHANGED <<entered, mailed>>
      /\ \A b \in batch' : b \notin batch =>
                 /\ ~b.claimed /\ b.entries = seen \cap InScope(b.group)
                 /\ \E y \in seen : GroupOf(y) = b.group
                 /\ Outstanding(b.group) = {} /\ ~AlreadySent(b.group)
      /\ \A x \in Rows : row'[x] # row[x] => x \in seen /\ AlreadySent(GroupOf(x))
  BY DispatchFacts
<1>2. ASSUME NEW b \in batch', b \notin batch, b.group \notin overtaken'
      PROVE  b.entries = InScope(b.group)
  <2> SUFFICES ASSUME NEW x \in InScope(b.group) PROVE x \in seen
    BY <1>1, <1>2
  <2>1. PICK y \in seen : y \in InScope(b.group)
    BY <1>1, <1>2 DEF InScope, DigestTypeOK
  <2>2. y[2] = x[2]
    <3>1. /\ x \in Rows /\ y \in Rows /\ BucketOf[x[1]] = BucketOf[y[1]]
          /\ NumRounds[x[1]] - x[2] = NumRounds[y[1]] - y[2]
      BY <2>1 DEF InScope, GroupOf
    <3>2. NumRounds[x[1]] = NumRounds[y[1]]
      BY <3>1, RowFacts DEF EvenBuckets
    <3>3. QED
      BY <3>1, <3>2, RowFacts
  <2>3. x \in SomeRow(DrawsIn(InScope(b.group)), RoundsIn(seen \cap InScope(b.group)))
    BY <2>1, <2>2 DEF SomeRow, DrawsIn, RoundsIn, InScope
  <2>4. row[x] # "sent" /\ row[x] # "none"
    BY <1>1, <1>2, <2>3 DEF AlreadySent, InScope, Outstanding
  <2>5. row[x] = "pending" /\ x \in Rows /\ GroupOf(x) = GroupOf(y)
    BY <2>1, <2>4 DEF InScope, DigestTypeOK
  <2>6. GroupOf(x) = b.group
    BY DEF InScope
  <2>7. QED
    BY <1>1, <1>2, <2>1, <2>5, <2>6 DEF Read
<1>3. WholeBatch'
  <2> SUFFICES ASSUME NEW b \in batch', b.group \notin overtaken'
               PROVE  b.entries = {x \in InScope(b.group) : b.claimed => x[1] \in entered}
    BY <1>1 DEF WholeBatch, InScope
  <2>1. CASE b \in batch
    BY <1>1, <2>1 DEF WholeBatch
  <2>2. CASE b \notin batch
    BY <1>1, <1>2, <2>2
  <2>3. QED
    BY <2>1, <2>2
<1>4. StampedTogether'
  <2> SUFFICES ASSUME NEW x \in Rows, row'[x] = "sent", GroupOf(x) \notin overtaken',
                      NEW y \in InScope(GroupOf(x)), y[1] \in entered
               PROVE  y \in mailed
    BY <1>1 DEF StampedTogether, InScope
  <2>1. CASE row[x] = "sent"
    BY <1>1, <2>1 DEF StampedTogether
  <2>2. CASE row[x] # "sent"
    <3>1. AlreadySent(GroupOf(x))
      BY <1>1, <2>2
    <3> DEFINE g == GroupOf(x)
    <3>2. PICK z \in SomeRow(DrawsIn(InScope(g)), RoundsIn(seen \cap InScope(g))) : row[z] = "sent"
      BY <3>1 DEF AlreadySent, SomeRow
    <3>3. z \in InScope(g)
      <4> HIDE DEF g
      <4>1. QED
        BY <3>2, ProductInScope
    <3>4. z \in Rows /\ GroupOf(z) = GroupOf(x)
      BY <3>3 DEF InScope
    <3>5. QED
      BY <1>1, <3>2, <3>4 DEF StampedTogether
  <2>3. QED
    BY <2>1, <2>2
<1>5. QED
  BY <1>3, <1>4

LEMMA EvenClaims ==
    ASSUME EvenBuckets, DigestTypeOK, WholeBatch, StampedTogether, NEW b \in batch, Claim(b)
    PROVE  WholeBatch' /\ StampedTogether'
<1> DEFINE told == {x \in b.entries : x[1] \in entered}
<1>1. /\ ~b.claimed /\ mailed' = mailed \cup told
      /\ \A c \in batch' : \/ c \in batch
                           \/ c.group = b.group /\ c.claimed /\ c.entries = told
      /\ \A x \in Rows : row'[x] # row[x] => x \in Claimed(told)
      /\ UNCHANGED <<entered, overtaken>>
  BY DigestClaimFacts
<1>2. told \in SUBSET InScope(b.group)
  BY DEF DigestTypeOK
<1>3. b.group \notin overtaken => told = {x \in InScope(b.group) : x[1] \in entered}
  BY <1>1 DEF WholeBatch
<1>4. Claimed(told) \subseteq InScope(b.group)
  <2> HIDE DEF told
  <2>1. QED
    BY <1>2, ProductInScope DEF Claimed
<1> HIDE DEF told
<1>5. WholeBatch'
  <2> SUFFICES ASSUME NEW c \in batch', c.group \notin overtaken
               PROVE  c.entries = {x \in InScope(c.group) : c.claimed => x[1] \in entered}
    BY <1>1 DEF WholeBatch, InScope
  <2>1. QED
    BY <1>1, <1>3 DEF WholeBatch
<1>6. StampedTogether'
  <2> SUFFICES ASSUME NEW x \in Rows, row'[x] = "sent", GroupOf(x) \notin overtaken,
                      NEW y \in InScope(GroupOf(x)), y[1] \in entered
               PROVE  y \in mailed'
    BY <1>1 DEF StampedTogether, InScope
  <2>1. CASE row[x] = "sent"
    BY <1>1, <2>1 DEF StampedTogether
  <2>2. CASE row[x] # "sent"
    <3>1. GroupOf(x) = b.group
      BY <1>1, <1>4, <2>2 DEF InScope
    <3>2. QED
      BY <1>1, <1>3, <3>1
  <2>3. QED
    BY <2>1, <2>2
<1>7. QED
  BY <1>5, <1>6

LEMMA EvenStep ==
    ASSUME EvenBuckets
    PROVE  DigestTypeOK /\ Read /\ WholeBatch /\ StampedTogether /\ [DigestNext]_digestVars
               => WholeBatch' /\ StampedTogether'
<1> SUFFICES ASSUME DigestTypeOK, Read, WholeBatch, StampedTogether, [DigestNext]_digestVars
             PROVE  WholeBatch' /\ StampedTogether'
  OBVIOUS
\* The other steps stamp no row and start no task.
<1>1. ASSUME batch' \subseteq batch, entered' = entered, mailed' = mailed,
             overtaken \subseteq overtaken',
             \A x \in Rows : row'[x] = "sent" => row[x] = "sent"
      PROVE  WholeBatch' /\ StampedTogether'
  <2>1. WholeBatch'
    BY <1>1 DEF WholeBatch, InScope
  <2>2. StampedTogether'
    BY <1>1 DEF StampedTogether, InScope
  <2>3. QED
    BY <2>1, <2>2
<1>2. \/ SweepDispatches \/ \E b \in batch : Claim(b)
      \/ /\ batch' \subseteq batch /\ entered' = entered /\ mailed' = mailed
         /\ overtaken \subseteq overtaken'
         /\ \A x \in Rows : row'[x] = "sent" => row[x] = "sent"
  BY DEF DigestNext, digestVars, Sweep, Carry, Decide, Notice, Report, SweepNotices, SweepRecords,
         Mail, DigestRestart, play, history, DigestTypeOK
<1>3. QED
  BY <1>1, <1>2, EvenDispatches, EvenClaims

\* "No deadline, and no exceptions": where the draws of a bucket have equally many
\* rounds, a digest that goes out covers all of them that have anything to tell, and
\* all of them have finished the round.
THEOREM TheDigestIsWhole == EvenBuckets => (DigestSpec => []DigestIsWhole)
<1> SUFFICES ASSUME EvenBuckets PROVE DigestSpec => []DigestIsWhole
  OBVIOUS
<1>1. DigestTypeOK /\ Read /\ WholeBatch => DigestIsWhole
  BY DEF WholeBatch, DigestIsWhole, Read, Reported, InScope
<1>2. DigestTypeOK /\ Read /\ WholeBatch /\ StampedTogether /\ [DigestNext]_digestVars
          => WholeBatch' /\ StampedTogether'
  BY EvenStep
<1>3. QED
  BY <1>1, <1>2, DigestTypeInit, DigestTypeStep, ReadInit, ReadStep, EvenInit, PTL
     DEF DigestSpec

\* Nothing is suppressed that was never told: where the draws of a bucket have equally
\* many rounds, a row is stamped only when a digest covers it.
THEOREM NoStampWithoutAMail == EvenBuckets => (DigestSpec => []StampedMeansMailed)
<1> SUFFICES ASSUME EvenBuckets PROVE DigestSpec => []StampedMeansMailed
  OBVIOUS
<1>1. StampedTogether => StampedMeansMailed
  BY RowFacts DEF StampedTogether, StampedMeansMailed
<1>2. DigestTypeOK /\ Read /\ WholeBatch /\ StampedTogether /\ [DigestNext]_digestVars
          => WholeBatch' /\ StampedTogether'
  BY EvenStep
<1>3. QED
  BY <1>1, <1>2, DigestTypeInit, DigestTypeStep, ReadInit, ReadStep, EvenInit, PTL
     DEF DigestSpec
=============================================================================
