------------------------ MODULE SettingsCacheProofs ------------------------
(***************************************************************************)
(* What holds of the settings cache for any number of readers, writers and *)
(* draws, and any set of values.                                           *)
(***************************************************************************)
EXTENDS SettingsCache, TLAPS

\* A stored row, or its absence, has a value.
LEMMA ValueType == \A row \in Optional : Value(row) \in Values
BY SettingsAssumption DEF Optional, Value

LEMMA TypeStep == TypeOK /\ [Next]_vars => TypeOK'
<1> SUFFICES ASSUME TypeOK, [Next]_vars PROVE TypeOK'
  OBVIOUS
<1> USE SettingsAssumption DEF Optional
<1>1. ASSUME NEW h \in Readers, NEW d \in Draws, Load(h, d) PROVE TypeOK'
  BY <1>1 DEF TypeOK, Load
<1>2. ASSUME NEW h \in Readers, LookUp(h) PROVE TypeOK'
  BY <1>2 DEF TypeOK, LookUp
<1>3. ASSUME NEW h \in Readers, Select(h) PROVE TypeOK'
  BY <1>3, ValueType DEF TypeOK, Select
<1>4. ASSUME NEW h \in Readers, Fill(h) PROVE TypeOK'
  BY <1>4 DEF TypeOK, Fill, Writing
<1>5. ASSUME NEW h \in Readers, Stamp(h) PROVE TypeOK'
  BY <1>5 DEF TypeOK, Stamp, Resting
<1>6. ASSUME NEW w \in Writers, NEW value \in Values, SetSetting(w, value) PROVE TypeOK'
  BY <1>6 DEF TypeOK, SetSetting, Dropped
<1>7. ASSUME NEW w \in Writers, CommitSetting(w) \/ CommitFails(w) PROVE TypeOK'
  BY <1>7 DEF TypeOK, CommitSetting, CommitFails
<1>8. ASSUME NEW h \in Readers, NEW d \in Draws, ClearStamp(h, d) PROVE TypeOK'
  BY <1>8 DEF TypeOK, ClearStamp
<1>9. CASE Restart
  BY <1>9 DEF TypeOK, Restart, Resting
<1>10. ASSUME NEW d \in Draws, NEW value \in Values, Override(d, value) PROVE TypeOK'
  BY <1>10 DEF TypeOK, Override
<1>11. CASE UNCHANGED vars
  BY <1>11 DEF TypeOK, vars
<1>12. QED
  BY <1>1, <1>2, <1>3, <1>4, <1>5, <1>6, <1>7, <1>8, <1>9, <1>10, <1>11 DEF Next

LEMMA TypeInit == Init => TypeOK
<1> SUFFICES ASSUME Init PROVE TypeOK
  OBVIOUS
<1>1. stored \in Optional /\ cache \in Optional /\ was \subseteq Values /\ raced \in BOOLEAN
  BY SettingsAssumption DEF Init, Optional
<1>2. stamp \in [Draws -> Optional] /\ writer \in [Writers -> Optional]
  BY DEF Init, Optional
<1>3. \A h \in Readers : reader[h] = Resting
  BY DEF Init
<1>4. reader \in [Readers -> [pc : {"idle", "lookup", "select", "fill", "stamp"},
                              draw : Draws \cup {None}, value : Optional]]
  BY DEF Init, Resting, Optional
<1>5. QED
  BY <1>1, <1>2, <1>3, <1>4 DEF TypeOK, Resting

\* Settings, cache and handlers keep their shape.
THEOREM SettingsTypes == Spec => []TypeOK
<1>1. Init => TypeOK
  BY TypeInit
<1>2. TypeOK /\ [Next]_vars => TypeOK'
  BY TypeStep
<1>3. QED
  BY <1>1, <1>2, PTL DEF Spec

-----------------------------------------------------------------------------
\* While nothing raced, the cache is empty throughout a write: whoever filled it
\* meanwhile would have raced.
Coherent == ~raced /\ cache # None => ~Writing /\ cache = Value(stored)

\* A setting write takes effect at once for every reader unless a reader's SELECT
\* overlapped it: for any number of readers, writers and draws.
THEOREM OnlyRacesLeaveItStale == Spec => []CoherentUnlessRaced
<1>1. Init => Coherent
  BY DEF Init, Coherent
<1>2. TypeOK /\ Coherent /\ [Next]_vars => Coherent'
  <2> SUFFICES ASSUME TypeOK, Coherent, [Next]_vars PROVE Coherent'
    OBVIOUS
  <2> USE DEF Coherent, Writing
  <2>1. ASSUME NEW h \in Readers,
               \/ LookUp(h) \/ Select(h) \/ Stamp(h)
               \/ \E d \in Draws : Load(h, d) \/ ClearStamp(h, d)
        PROVE  Coherent'
    BY <2>1 DEF LookUp, Select, Stamp, Load, ClearStamp
  <2>2. ASSUME NEW h \in Readers, Fill(h) PROVE Coherent'
    BY <2>2 DEF Fill
  <2>3. ASSUME NEW w \in Writers, NEW value \in Values, SetSetting(w, value) PROVE Coherent'
    BY <2>3 DEF SetSetting, Dropped
  <2>4. ASSUME NEW w \in Writers, CommitSetting(w) \/ CommitFails(w) PROVE Coherent'
    BY <2>4 DEF CommitSetting, CommitFails, TypeOK
  <2>5. CASE Restart \/ \E d \in Draws, value \in Values : Override(d, value)
    BY <2>5 DEF Restart, Override
  <2>6. CASE UNCHANGED vars
    BY <2>6 DEF vars
  <2>7. QED
    BY <2>1, <2>2, <2>3, <2>4, <2>5, <2>6 DEF Next
<1>3. Coherent => CoherentUnlessRaced
  BY DEF Coherent, CoherentUnlessRaced
<1>4. QED
  BY <1>1, <1>2, <1>3, SettingsTypes, PTL DEF Spec

\* Every value in use was once committed: those in the row, the cache and the
\* handlers' hands.
Traced ==
    /\ Default \in was
    /\ stored # None => stored \in was
    /\ \A h \in Readers : reader[h].pc = "fill" => reader[h].value \in was
    /\ OnlyCommittedIsUsed

\* A value whose commit failed is never cached and never stamped on a draw by a
\* handler that resolved its mode.
THEOREM NoTraceOfAFailedWrite == Spec => []OnlyCommittedIsUsed
<1>1. Init => Traced
  BY DEF Init, Traced, OnlyCommittedIsUsed, Resting
<1>2. TypeOK /\ Traced /\ [Next]_vars => Traced'
  <2> SUFFICES ASSUME TypeOK, Traced, [Next]_vars PROVE Traced'
    OBVIOUS
  <2> USE DEF Traced, OnlyCommittedIsUsed, TypeOK
  <2>1. ASSUME NEW h \in Readers, NEW d \in Draws, Load(h, d) \/ ClearStamp(h, d) PROVE Traced'
    BY <2>1 DEF Load, ClearStamp
  <2>2. ASSUME NEW h \in Readers, LookUp(h) PROVE Traced'
    BY <2>2 DEF LookUp
  <2>3. ASSUME NEW h \in Readers, Select(h) PROVE Traced'
    BY <2>3 DEF Select, Value
  <2>4. ASSUME NEW h \in Readers, Fill(h) PROVE Traced'
    BY <2>4 DEF Fill
  <2>5. ASSUME NEW h \in Readers, Stamp(h) PROVE Traced'
    BY <2>5 DEF Stamp, Resting
  <2>6. ASSUME NEW w \in Writers, NEW value \in Values, SetSetting(w, value) PROVE Traced'
    BY <2>6 DEF SetSetting, Dropped
  <2>7. ASSUME NEW w \in Writers, CommitSetting(w) \/ CommitFails(w) PROVE Traced'
    BY <2>7 DEF CommitSetting, CommitFails
  <2>8. CASE Restart
    BY <2>8 DEF Restart, Resting
  <2>9. CASE UNCHANGED vars \/ \E d \in Draws, value \in Values : Override(d, value)
    BY <2>9 DEF vars, Override
  <2>10. QED
    BY <2>1, <2>2, <2>3, <2>4, <2>5, <2>6, <2>7, <2>8, <2>9 DEF Next
<1>3. QED
  BY <1>1, <1>2, SettingsTypes, PTL DEF Spec, Traced
=============================================================================
