-------------------------- MODULE SofaClientProofs --------------------------
(***************************************************************************)
(* What holds of the Sofascore client for any number of callers, any       *)
(* cooldowns and any bound on faults.                                      *)
(***************************************************************************)
EXTENDS SofaClient, FiniteSetTheorems, TLAPS

\* A power of two counts the subsets of an interval.
LEMMA PowerType == \A n \in Nat : 2 ^ n \in Nat
<1> SUFFICES ASSUME NEW n \in Nat PROVE 2 ^ n \in Nat
  OBVIOUS
<1>1. IsFiniteSet(1 .. n) /\ Cardinality(1 .. n) = n
  BY FS_Interval
<1>2. IsFiniteSet(SUBSET (1 .. n)) /\ Cardinality(SUBSET (1 .. n)) = 2 ^ n
  BY <1>1, FS_SUBSET
<1>3. QED
  BY <1>2, FS_CardinalityType

\* However long the run, a refusal costs at most _BLOCK_COOLDOWN_MAX.
LEMMA CooldownType == \A run \in 1 .. RunCap : Cooldown(run) \in 0 .. Longest
<1> SUFFICES ASSUME NEW run \in 1 .. RunCap PROVE Cooldown(run) \in 0 .. Longest
  OBVIOUS
<1>1. Longest \in Nat /\ Base \in Nat /\ run - 1 \in Nat
  BY SofaAssumption
<1>2. 2 ^ (run - 1) \in Nat
  BY <1>1, PowerType
<1>3. Base * 2 ^ (run - 1) \in Nat
  BY <1>1, <1>2
<1>4. QED
  BY <1>1, <1>3 DEF Cooldown, Smaller

LEMMA LessType == \A n \in Nat : \A m \in 0 .. n : Less(m) \in 0 .. n
BY DEF Less

LEMMA RestingType == Resting \in Task /\ Closed \in Mark
BY SofaAssumption DEF Resting, Task, Closed, Mark, Codes

\* What the actions leave in task is a task.
LEMMA GoesType ==
    ASSUME TypeOK, NEW t \in Callers, NEW r \in Task, Goes(t, r) \/ GoesEarly(t, r)
    PROVE  task' \in [Callers -> Task]
<1>1. CASE Goes(t, r)
  BY <1>1 DEF Goes, TypeOK
<1>2. CASE GoesEarly(t, r)
  BY <1>2 DEF GoesEarly, TypeOK, Task, Underway
<1>3. QED
  BY <1>1, <1>2

LEMMA FaultType == TypeOK /\ Fault => faults' \in 0 .. Faults[proxy]
BY SofaAssumption DEF TypeOK, Fault

LEMMA FieldType ==
    ASSUME TypeOK, NEW t \in Callers
    PROVE  /\ task[t] \in Task
           /\ task[t].mark \in Mark /\ task[t].mark.shut \in 0 .. Longest
           /\ task[t].saved \in BOOLEAN
<1>1. task[t] \in Task
  BY DEF TypeOK
<1>2. QED
  BY <1>1 DEF Task, Mark

\* What a task may become as it goes on: another place, an answer, an old route.
LEMMA TaskType ==
    ASSUME TypeOK, NEW t \in Callers
    PROVE  /\ task[t] \in Task
           /\ \A c \in Codes : [Resting EXCEPT !.pc = "out", !.code = c] \in Task
           /\ \A p \in {"idle", "adopting", "queued", "saving"} : [Resting EXCEPT !.pc = p] \in Task
           /\ [Resting EXCEPT !.pc = "asking", !.probe = TRUE] \in Task
           /\ \A m \in Mark : [Resting EXCEPT !.pc = "saving", !.mark = m] \in Task
           /\ \A p \in {"asking", "banking"} : [task[t] EXCEPT !.pc = p] \in Task
           /\ \A c \in Codes : [task[t] EXCEPT !.pc = "again", !.code = c] \in Task
           /\ \A c \in Codes : [task[t] EXCEPT !.pc = "trying", !.code = c, !.saved = direct] \in Task
<1>1. task[t] \in Task
  BY FieldType
<1>2. QED
  BY <1>1, RestingType DEF Task, TypeOK, Resting

LEMMA AnswersType == \A route : Answers(route) \subseteq Codes
BY DEF Answers, Codes

LEMMA LoadType ==
    TypeOK /\ Load => breaker' \in Mark /\ lapse' \subseteq Lapses
BY DEF TypeOK, Load, Adopted, RowLapses, Lapses

LEMMA TripType ==
    ASSUME TypeOK, NEW t \in Callers, Trip(t)
    PROVE  breaker' \in Mark /\ lapse' \subseteq Lapses /\ task' \in [Callers -> Task]
<1> DEFINE run  == Smaller(breaker.run + 1, RunCap)
           mark == [shut |-> Cooldown(run), run |-> run]
<1>1. run \in 1 .. RunCap
  BY SofaAssumption DEF TypeOK, Mark, Smaller
<1>2. mark \in Mark
  BY <1>1, CooldownType DEF Mark
<1>3. lapse' \subseteq Lapses
  BY DEF Trip, TypeOK, RowLapses, Lapses
<1>4. breaker' = mark /\ GoesEarly(t, [Resting EXCEPT !.pc = "saving", !.mark = mark])
  BY DEF Trip
<1>5. task' \in [Callers -> Task]
  BY <1>2, <1>4, TaskType, GoesType
<1>6. QED
  BY <1>2, <1>3, <1>4, <1>5

LEMMA SucceedType ==
    ASSUME TypeOK, NEW t \in Callers, Succeed(t)
    PROVE  breaker' \in Mark /\ lapse' \subseteq Lapses /\ task' \in [Callers -> Task]
<1>1. CASE breaker.run = 0
  BY <1>1, RestingType, GoesType DEF Succeed, TypeOK
<1>2. CASE breaker.run # 0
  <2>1. breaker' \in Mark
    BY <1>2, SofaAssumption DEF Succeed, TypeOK, Mark
  <2>2. lapse' \subseteq Lapses
    BY <1>2 DEF Succeed, TypeOK, RowLapses, Lapses
  <2>3. Goes(t, [Resting EXCEPT !.pc = "saving"])
    BY <1>2 DEF Succeed
  <2>4. task' \in [Callers -> Task]
    BY <2>3, TaskType, GoesType
  <2>5. QED
    BY <2>1, <2>2, <2>4
<1>3. QED
  BY <1>1, <1>2

LEMMA TypeInit == Init => TypeOK
<1> SUFFICES ASSUME Init PROVE TypeOK
  OBVIOUS
<1>1. faults \in 0 .. Faults[proxy] /\ aging \in 0 .. Cooloff
  BY SofaAssumption DEF Init
<1>2. task \in [Callers -> Task]
  BY RestingType DEF Init
<1>3. breaker \in Mark /\ stored \in Mark
  BY RestingType DEF Init
<1>4. refuses \subseteq Routes /\ lapse \subseteq Lapses
  BY DEF Init
<1>5. QED
  BY <1>1, <1>2, <1>3, <1>4 DEF Init, TypeOK

LEMMA TypeStep == TypeOK /\ [Next]_vars => TypeOK'
<1> SUFFICES ASSUME TypeOK, [Next]_vars PROVE TypeOK'
  OBVIOUS
<1> USE DEF world, startup, routing
<1>1. ASSUME NEW t \in Callers, Ask(t) PROVE TypeOK'
  <2>1. task' \in [Callers -> Task]
    BY <1>1, TaskType, GoesType DEF Ask
  <2>2. QED
    BY <1>1, <2>1 DEF Ask, TypeOK, RowLapses, Lapses
<1>2. ASSUME NEW t \in Callers, Probe(t) \/ ProbeDeclines(t) \/ AskDirect(t) \/ AskFails(t)
      PROVE  TypeOK'
  <2>1. task' \in [Callers -> Task]
    BY <1>2, TaskType, RestingType, GoesType DEF Probe, ProbeDeclines, AskDirect, AskFails
  <2>2. AskFails(t) => faults' \in 0 .. Faults[proxy]
    BY FaultType DEF AskFails
  <2>3. QED
    BY <1>2, <2>1, <2>2 DEF Probe, ProbeDeclines, AskDirect, AskFails, TypeOK
<1>3. ASSUME NEW t \in Callers, Adopt(t) PROVE TypeOK'
  <2>1. task' \in [Callers -> Task]
    BY <1>3, TaskType, GoesType DEF Adopt
  <2>2. breaker' \in Mark /\ lapse' \subseteq Lapses
    BY <1>3, LoadType DEF Adopt, TypeOK, RowLapses, Lapses
  <2>3. faults' \in 0 .. Faults[proxy]
    BY <1>3, FaultType DEF Adopt, TypeOK
  <2>4. QED
    BY <1>3, <2>1, <2>2, <2>3 DEF Adopt, TypeOK
<1>4. ASSUME NEW t \in Callers, Leave(t) \/ Rotate(t) PROVE TypeOK'
  <2>1. task' \in [Callers -> Task]
    BY <1>4, TaskType, RestingType, AnswersType, GoesType DEF Leave, Rotate
  <2>2. QED
    BY <1>4, <2>1 DEF Leave, Rotate, TypeOK
<1>5. ASSUME NEW t \in Callers, Trips(t) PROVE TypeOK'
  BY <1>5, TripType DEF Trips, TypeOK
<1>6. ASSUME NEW t \in Callers, Answered(t) PROVE TypeOK'
  <2>1. CASE Succeed(t)
    BY <1>6, <2>1, SucceedType DEF Answered, TypeOK
  <2>2. CASE Goes(t, Resting) /\ UNCHANGED <<breaker, lapse>>
    BY <1>6, <2>2, RestingType, GoesType DEF Answered, TypeOK
  <2>3. QED
    BY <1>6, <2>1, <2>2 DEF Answered
<1>7. ASSUME NEW t \in Callers, Save(t) PROVE TypeOK'
  <2>1. task' \in [Callers -> Task]
    BY <1>7, RestingType, GoesType DEF Save
  <2>2. stored' \in Mark
    <3>1. task[t].mark \in Mark /\ stored \in Mark
      BY FieldType DEF TypeOK
    <3>2. QED
      BY <1>7, <3>1 DEF Save
  <2>3. faults' \in 0 .. Faults[proxy]
    BY <1>7, FaultType DEF Save, TypeOK
  <2>4. lapse' \subseteq Lapses
    BY <1>7 DEF Save, TypeOK, RowLapses, Lapses
  <2>5. QED
    BY <1>7, <2>1, <2>2, <2>3, <2>4 DEF Save, TypeOK
<1>8. ASSUME NEW t \in Callers, TryDirect(t) PROVE TypeOK'
  <2>1. task' \in [Callers -> Task]
    BY <1>8, TaskType, AnswersType, GoesType DEF TryDirect
  <2>2. QED
    BY <1>8, <2>1 DEF TryDirect, TypeOK, Lapses
<1>9. ASSUME NEW t \in Callers, Tried(t) PROVE TypeOK'
  <2>1. task' \in [Callers -> Task]
    BY <1>9, TaskType, GoesType DEF Tried
  <2>2. direct' \in BOOLEAN
    <3>1. direct' = RouteAfter(t)
      BY <1>9 DEF Tried
    <3>2. RouteAfter(t) \in BOOLEAN
      BY Zenon DEF RouteAfter
    <3>3. QED
      BY <3>1, <3>2
  <2>3. QED
    BY <1>9, <2>1, <2>2 DEF Tried, TypeOK
<1>16. ASSUME NEW t \in Callers, Banks(t), Bank(t) PROVE TypeOK'
  <2>1. banked' \in BOOLEAN /\ aging' \in 0 .. Cooloff
    <3>1. \/ banked' = TRUE /\ aging' = aging
          \/ aging' = Cooloff /\ banked' = banked
      BY <1>16 DEF Bank
    <3>2. banked \in BOOLEAN /\ aging \in 0 .. Cooloff /\ Cooloff \in 0 .. Cooloff
      BY SofaAssumption DEF TypeOK
    <3>3. banked' \in BOOLEAN
      BY <3>1, <3>2, Zenon
    <3>4. aging' \in 0 .. Cooloff
      BY <3>1, <3>2, Zenon
    <3>5. QED
      BY <3>3, <3>4
  <2>2. breaker' \in Mark /\ lapse' \subseteq Lapses /\ task' \in [Callers -> Task]
    <3>1. \/ Succeed(t) \/ Trip(t)
          \/ Goes(t, Resting) /\ UNCHANGED <<breaker, lapse>>
      BY <1>16 DEF Bank
    <3>2. QED
      BY <3>1, SucceedType, TripType, RestingType, GoesType DEF TypeOK
  <2>3. QED
    BY <1>16, <2>1, <2>2 DEF Banks, Bank, TypeOK
<1>17. ASSUME NEW t \in Callers, Banks(t), BankFails(t) PROVE TypeOK'
  <2>1. task' \in [Callers -> Task]
    BY <1>17, RestingType, GoesType DEF BankFails
  <2>2. lapse' \subseteq Lapses /\ faults' \in 0 .. Faults[proxy]
    BY <1>17, FaultType DEF BankFails, TypeOK, Lapses
  <2>3. QED
    BY <1>17, <2>1, <2>2 DEF Banks, BankFails, TypeOK
<1>10. CASE LoadEgress
  BY <1>10 DEF LoadEgress, TypeOK
<1>11. CASE LoadBreaker
  <2>1. task' \in [Callers -> Task]
    BY <1>11 DEF LoadBreaker, TypeOK, Task, Underway
  <2>2. QED
    BY <1>11, <2>1, LoadType DEF LoadBreaker, TypeOK
<1>12. CASE Restart
  <2>1. task' \in [Callers -> Task] /\ breaker' \in Mark
    BY <1>12, RestingType DEF Restart
  <2>2. lapse' \subseteq Lapses
    BY <1>12 DEF Restart, TypeOK, RowLapses, Lapses
  <2>3. QED
    BY <1>12, <2>1, <2>2, FaultType DEF Restart, TypeOK
<1>13. CASE Tick
  <2>1. breaker' \in Mark /\ stored' \in Mark
    BY <1>13, LessType, SofaAssumption DEF Tick, TypeOK, Mark
  <2>2. aging' \in 0 .. Cooloff
    BY <1>13, LessType, SofaAssumption DEF Tick, TypeOK
  <2>3. ASSUME NEW t \in Callers PROVE [task[t] EXCEPT !.mark.shut = Less(@)] \in Task
    <3>1. task[t] \in Task /\ task[t].mark.shut \in 0 .. Longest
      BY FieldType
    <3>2. Less(task[t].mark.shut) \in 0 .. Longest
      BY <3>1, LessType, SofaAssumption
    <3>3. QED
      BY <3>1, <3>2 DEF Task, Mark
  <2>4. task' \in [Callers -> Task]
    BY <1>13, <2>3 DEF Tick
  <2>5. QED
    BY <1>13, <2>1, <2>2, <2>4 DEF Tick, TypeOK
<1>14. ASSUME NEW route \in Routes, Bans(route) PROVE TypeOK'
  BY <1>14, FaultType DEF Bans, TypeOK
<1>15. CASE UNCHANGED vars
  BY <1>15 DEF vars, TypeOK
<1>18. QED
  BY <1>1, <1>2, <1>3, <1>4, <1>5, <1>6, <1>7, <1>8, <1>9, <1>10, <1>11, <1>12, <1>13,
     <1>14, <1>15, <1>16, <1>17 DEF Next, Moves, Banks

\* Breaker, route and requests keep their shape.
THEOREM SofaTypes == Spec => []TypeOK
BY TypeInit, TypeStep, PTL DEF Spec

-----------------------------------------------------------------------------
LEMMA QuietInit == Init => OpenMeansQuiet
BY DEF Init, OpenMeansQuiet, Clear, Closed

\* Whoever was under way when the breaker opened stays where it was, and is marked.
LEMMA MarkedEarly ==
    ASSUME TypeOK, NEW u \in Callers,
           task'[u] = [task[u] EXCEPT !.early = @ \/ Underway(u)]
    PROVE  task'[u].pc = task[u].pc /\ (Underway(u) => task'[u].early)
<1>1. task[u] \in Task
  BY FieldType
<1>2. task'[u].pc = task[u].pc
  BY <1>1 DEF Task
<1>3. task'[u].early = (task[u].early \/ Underway(u))
  BY <1>1, Zenon DEF Task
<1>4. QED
  BY <1>2, <1>3

\* t goes on, or rests, as early as it was.
LEMMA QuietGoes ==
    ASSUME TypeOK, OpenMeansQuiet, NEW t \in Callers, NEW r, Goes(t, r),
           breaker'.shut # 0 => breaker.shut # 0,
           breaker.shut # 0 /\ r.pc \in {"out", "again", "asking", "trying"} => r.early
    PROVE  OpenMeansQuiet'
<1> SUFFICES ASSUME breaker'.shut # 0, NEW u \in Callers, Underway(u)' PROVE task'[u].early
  BY DEF OpenMeansQuiet, Clear
<1>1. CASE u = t
  BY <1>1 DEF Goes, TypeOK, Underway
<1>2. CASE u # t
  <2>1. task'[u] = task[u]
    BY <1>2 DEF Goes, TypeOK
  <2>2. QED
    BY <2>1 DEF Underway, OpenMeansQuiet, Clear
<1>3. QED
  BY <1>1, <1>2

LEMMA QuietGoesEarly ==
    ASSUME TypeOK, NEW t \in Callers, NEW r, GoesEarly(t, r),
           r.pc \notin {"out", "again", "asking", "trying"}
    PROVE  OpenMeansQuiet'
<1> SUFFICES ASSUME NEW u \in Callers, Underway(u)' PROVE task'[u].early
  BY DEF OpenMeansQuiet
<1>1. task'[t] = r
  BY DEF GoesEarly
<1>2. u # t
  BY <1>1 DEF Underway
<1>3. task'[u] = [task[u] EXCEPT !.early = @ \/ Underway(u)]
  BY <1>2, Zenon DEF GoesEarly
<1>4. task'[u].pc = task[u].pc /\ (Underway(u) => task'[u].early)
  BY <1>3, MarkedEarly
<1>5. QED
  BY <1>4 DEF Underway

LEMMA QuietTrip ==
    ASSUME TypeOK, NEW t \in Callers, Trip(t) PROVE OpenMeansQuiet'
<1> DEFINE run  == Smaller(breaker.run + 1, RunCap)
           mark == [shut |-> Cooldown(run), run |-> run]
<1>1. GoesEarly(t, [Resting EXCEPT !.pc = "saving", !.mark = mark])
  BY DEF Trip
<1>2. [Resting EXCEPT !.pc = "saving", !.mark = mark].pc = "saving"
  BY DEF Resting
<1>3. QED
  BY <1>1, <1>2, QuietGoesEarly

LEMMA QuietSucceed ==
    ASSUME TypeOK, OpenMeansQuiet, NEW t \in Callers, Succeed(t) PROVE OpenMeansQuiet'
<1>1. breaker'.shut = breaker.shut
  BY DEF Succeed, TypeOK, Mark
<1>2. Resting.pc = "idle" /\ [Resting EXCEPT !.pc = "saving"].pc = "saving"
  BY DEF Resting
<1>3. Goes(t, Resting) \/ Goes(t, [Resting EXCEPT !.pc = "saving"])
  BY DEF Succeed
<1>4. QED
  BY <1>1, <1>2, <1>3, QuietGoes

LEMMA QuietRests ==
    ASSUME TypeOK, OpenMeansQuiet, NEW t \in Callers, Goes(t, Resting), UNCHANGED breaker
    PROVE  OpenMeansQuiet'
BY QuietGoes DEF Resting

LEMMA QuietStep == TypeOK /\ OpenMeansQuiet /\ [Next]_vars => OpenMeansQuiet'
<1> SUFFICES ASSUME TypeOK, OpenMeansQuiet, [Next]_vars PROVE OpenMeansQuiet'
  OBVIOUS
<1> USE DEF startup, routing
<1>1. ASSUME NEW t \in Callers, Ask(t) PROVE OpenMeansQuiet'
  BY <1>1, QuietGoes DEF Ask, Resting
<1>2. ASSUME NEW t \in Callers, Probe(t) PROVE OpenMeansQuiet'
  BY <1>2, QuietGoes DEF Probe, Clear
<1>3. ASSUME NEW t \in Callers, ProbeDeclines(t) \/ AskFails(t) PROVE OpenMeansQuiet'
  BY <1>3, QuietRests DEF ProbeDeclines, AskFails
<1>4. ASSUME NEW t \in Callers, Leave(t) PROVE OpenMeansQuiet'
  <2>1. CASE StillClear
    BY <1>4, <2>1, QuietGoes DEF Leave, StillClear
  <2>2. CASE ~StillClear
    BY <1>4, <2>2, QuietRests DEF Leave
  <2>3. QED
    BY <2>1, <2>2
<1>5. ASSUME NEW t \in Callers,
             NEW r \in {[task[t] EXCEPT !.pc = "asking"]} \cup
                       {[task[t] EXCEPT !.pc = "again", !.code = c] : c \in Codes} \cup
                       {[task[t] EXCEPT !.pc = "trying", !.code = c, !.saved = direct] : c \in Codes},
             Underway(t), Goes(t, r), UNCHANGED breaker
      PROVE  OpenMeansQuiet'
  <2>1. breaker.shut # 0 => task[t].early
    BY <1>5 DEF OpenMeansQuiet, Clear
  <2>2. r.early = task[t].early
    BY FieldType DEF Task
  <2>3. QED
    BY <1>5, <2>1, <2>2, QuietGoes
<1>6. ASSUME NEW t \in Callers, AskDirect(t) PROVE OpenMeansQuiet'
  BY <1>5, <1>6 DEF AskDirect, Refused, At, Underway
<1>7. ASSUME NEW t \in Callers, Rotate(t) PROVE OpenMeansQuiet'
  BY <1>5, <1>7, AnswersType DEF Rotate, At, Underway
<1>8. ASSUME NEW t \in Callers, TryDirect(t) PROVE OpenMeansQuiet'
  BY <1>5, <1>8, AnswersType DEF TryDirect, At, Underway
<1>9. ASSUME NEW t \in Callers, Adopt(t) PROVE OpenMeansQuiet'
  BY <1>9, QuietGoesEarly DEF Adopt, Resting
<1>10. ASSUME NEW t \in Callers, Trips(t) PROVE OpenMeansQuiet'
  BY <1>10, QuietTrip DEF Trips
<1>11. ASSUME NEW t \in Callers, Answered(t) PROVE OpenMeansQuiet'
  BY <1>11, QuietSucceed, QuietRests DEF Answered
<1>12. ASSUME NEW t \in Callers, Save(t) PROVE OpenMeansQuiet'
  BY <1>12, QuietRests DEF Save
<1>13. ASSUME NEW t \in Callers, Tried(t) PROVE OpenMeansQuiet'
  <2>1. [task[t] EXCEPT !.pc = "banking"].pc = "banking"
    BY FieldType DEF Task
  <2>2. QED
    BY <1>13, <2>1, QuietGoes DEF Tried
<1>19. ASSUME NEW t \in Callers, Banks(t) PROVE OpenMeansQuiet'
  <2>1. Succeed(t) \/ Trip(t) \/ (Goes(t, Resting) /\ UNCHANGED breaker)
    BY <1>19 DEF Banks, Bank, BankFails
  <2>2. QED
    BY <2>1, QuietSucceed, QuietTrip, QuietRests
<1>14. CASE LoadEgress \/ UNCHANGED vars \/ \E route \in Routes : Bans(route)
  BY <1>14 DEF LoadEgress, vars, Bans, OpenMeansQuiet, Clear, Underway
<1>15. CASE LoadBreaker
  <2> SUFFICES ASSUME NEW u \in Callers, Underway(u)' PROVE task'[u].early
    BY DEF OpenMeansQuiet
  <2>1. task'[u] = [task[u] EXCEPT !.early = @ \/ Underway(u)]
    BY <1>15, Zenon DEF LoadBreaker
  <2>2. QED
    BY <2>1, MarkedEarly DEF Underway
<1>16. CASE Restart
  BY <1>16 DEF Restart, OpenMeansQuiet, Clear, Closed
<1>17. CASE Tick
  <2> SUFFICES ASSUME breaker'.shut # 0, NEW u \in Callers, Underway(u)' PROVE task'[u].early
    BY DEF OpenMeansQuiet, Clear
  <2>1. breaker.shut # 0
    BY <1>17 DEF Tick, Less, TypeOK, Mark
  <2>2. task'[u] = [task[u] EXCEPT !.mark.shut = Less(@)]
    BY <1>17, Zenon DEF Tick
  <2>3. task'[u].pc = task[u].pc /\ task'[u].early = task[u].early
    BY <2>2, FieldType DEF Task
  <2>4. QED
    BY <2>1, <2>3 DEF OpenMeansQuiet, Clear, Underway
<1>18. QED
  BY <1>1, <1>2, <1>3, <1>4, <1>6, <1>7, <1>8, <1>9, <1>10, <1>11, <1>12, <1>13, <1>14,
     <1>15, <1>16, <1>17, <1>19 DEF Next, Moves

\* "The first 403 stops ALL traffic", whatever the number of callers at the gate: while
\* the breaker is open, whatever is out had passed its last check before.
THEOREM TheFirstRefusalStopsTraffic == Spec => []OpenMeansQuiet
BY QuietInit, QuietStep, SofaTypes, PTL DEF Spec

-----------------------------------------------------------------------------
(* The breaker and its row.  While nothing has gone wrong that the row does *)
(* not survive, either the row has not been read yet and nobody has asked  *)
(* for anything, or it says what the process knows, or one save is on its  *)
(* way that will make it say so.                                           *)

Unread ==
    /\ breaker = Closed
    /\ ~loaded \/ boot = "breaker" \/ \E t \in Callers : At(t, "adopting")
    /\ \A t \in Callers : \/ task[t].pc \in {"idle", "adopting"}
                          \/ task[t].probe /\ task[t].pc \in {"asking", "trying", "banking"}

Known == Saving = {} /\ stored = breaker

OneSave == /\ \E t \in Callers : Saving = {t} /\ task[t].mark = breaker
           /\ stored.shut <= breaker.shut

\* A wait is no longer than its run of refusals makes it; without a run there is none.
InRun(m) == m.shut <= IF m.run = 0 THEN 0 ELSE Cooldown(m.run)

RowInv == "row" \notin lapse =>
    /\ Unread \/ Known \/ OneSave
    /\ InRun(breaker) /\ InRun(stored)

\* Powers of two grow: the subsets of an interval are subsets of the next one.
LEMMA PowerGrows == \A n \in Nat : 2 ^ n <= 2 ^ (n + 1)
<1> SUFFICES ASSUME NEW n \in Nat PROVE 2 ^ n <= 2 ^ (n + 1)
  OBVIOUS
<1>1. ASSUME NEW m \in Nat
      PROVE  IsFiniteSet(SUBSET (1 .. m)) /\ Cardinality(SUBSET (1 .. m)) = 2 ^ m
  <2>1. IsFiniteSet(1 .. m) /\ Cardinality(1 .. m) = m
    BY FS_Interval
  <2>2. QED
    BY <2>1, FS_SUBSET
<1>2. SUBSET (1 .. n) \subseteq SUBSET (1 .. n + 1)
  OBVIOUS
<1>3. n + 1 \in Nat
  OBVIOUS
<1>4. Cardinality(SUBSET (1 .. n)) = 2 ^ n /\ Cardinality(SUBSET (1 .. n + 1)) = 2 ^ (n + 1)
  BY <1>1, <1>3
<1>5. Cardinality(SUBSET (1 .. n)) <= Cardinality(SUBSET (1 .. n + 1))
  BY <1>1, <1>2, <1>3, FS_Subset
<1>6. QED
  BY <1>4, <1>5

\* One more refusal never shortens the wait.
LEMMA CooldownGrows ==
    \A run \in 1 .. RunCap : Cooldown(run) <= Cooldown(Smaller(run + 1, RunCap))
<1> SUFFICES ASSUME NEW run \in 1 .. RunCap
             PROVE  Cooldown(run) <= Cooldown(Smaller(run + 1, RunCap))
  OBVIOUS
<1>1. Longest \in Nat /\ Base \in Nat /\ run - 1 \in Nat /\ RunCap \in Nat
  BY SofaAssumption
<1>2. CASE run = RunCap
  <2>1. Smaller(run + 1, RunCap) = run
    BY <1>1, <1>2 DEF Smaller
  <2>2. QED
    BY <1>1, <2>1, CooldownType
<1>3. CASE run # RunCap
  <2>1. Smaller(run + 1, RunCap) = run + 1
    BY <1>1, <1>3 DEF Smaller
  <2> DEFINE p == 2 ^ (run - 1)
             q == 2 ^ run
  <2>2. p \in Nat /\ q \in Nat /\ p <= q
    <3>1. (run - 1) + 1 = run /\ run \in Nat
      BY <1>1
    <3>2. QED
      BY <1>1, <3>1, PowerType, PowerGrows
  <2>3. Base * p \in Nat /\ Base * q \in Nat /\ Base * p <= Base * q
    <3> HIDE DEF p, q
    <3>1. QED
      BY <1>1, <2>2
  <2>4. Cooldown(run) = Smaller(Base * p, Longest)
        /\ Cooldown(run + 1) = Smaller(Base * q, Longest)
    <3>1. (run + 1) - 1 = run
      BY <1>1
    <3>2. QED
      BY <3>1 DEF Cooldown
  <2>5. Smaller(Base * p, Longest) <= Smaller(Base * q, Longest)
    <3> HIDE DEF p, q
    <3>1. QED
      BY <1>1, <2>3 DEF Smaller
  <2>6. QED
    BY <2>1, <2>4, <2>5
<1>4. QED
  BY <1>2, <1>3

LEMMA RestingFields ==
    /\ Resting.pc = "idle" /\ Resting.mark = Closed /\ ~Resting.probe
    /\ \A p : /\ [Resting EXCEPT !.pc = p].pc = p
              /\ [Resting EXCEPT !.pc = p].mark = Closed
    /\ \A m : /\ [Resting EXCEPT !.pc = "saving", !.mark = m].pc = "saving"
              /\ [Resting EXCEPT !.pc = "saving", !.mark = m].mark = m
    /\ Closed.shut = 0 /\ Closed.run = 0
BY DEF Resting, Closed

\* Whatever t does, the others stay where they are.
LEMMA OthersStay ==
    ASSUME TypeOK, NEW t \in Callers, NEW r, Goes(t, r) \/ GoesEarly(t, r)
    PROVE  /\ task'[t] = r
           /\ \A u \in Callers \ {t} :
                 /\ task'[u].pc = task[u].pc /\ task'[u].mark = task[u].mark
                 /\ task'[u].probe = task[u].probe /\ task'[u].saved = task[u].saved
                 /\ task'[u].code = task[u].code
<1>1. CASE Goes(t, r)
  BY <1>1 DEF Goes, TypeOK
<1>2. CASE GoesEarly(t, r)
  <2>1. task'[t] = r
    BY <1>2 DEF GoesEarly
  <2>2. ASSUME NEW u \in Callers \ {t}
        PROVE  /\ task'[u].pc = task[u].pc /\ task'[u].mark = task[u].mark
               /\ task'[u].probe = task[u].probe /\ task'[u].saved = task[u].saved
               /\ task'[u].code = task[u].code
    <3>1. task'[u] = [task[u] EXCEPT !.early = @ \/ Underway(u)]
      BY <1>2, <2>2, Zenon DEF GoesEarly
    <3>2. QED
      BY <3>1, FieldType DEF Task
  <2>3. QED
    BY <2>1, <2>2
<1>3. QED
  BY <1>1, <1>2

\* The same for a task that rests, goes on with nothing in hand, or has a mark to save.
LEMMA OthersRest ==
    ASSUME TypeOK, NEW t \in Callers
    PROVE  /\ \A p : LET r == [Resting EXCEPT !.pc = p]
                     IN  Goes(t, r) \/ GoesEarly(t, r)
                             => task'[t].pc = p /\ task'[t].mark = Closed
           /\ \A m : LET r == [Resting EXCEPT !.pc = "saving", !.mark = m]
                     IN  GoesEarly(t, r) => task'[t].pc = "saving" /\ task'[t].mark = m
           /\ Goes(t, Resting) => task'[t].pc = "idle"
<1>1. ASSUME NEW r, Goes(t, r) \/ GoesEarly(t, r) PROVE task'[t] = r
  BY <1>1, OthersStay
<1>2. ASSUME NEW p, NEW r, r = [Resting EXCEPT !.pc = p] PROVE r.pc = p /\ r.mark = Closed
  BY <1>2 DEF Resting
<1>3. ASSUME NEW m, NEW r, r = [Resting EXCEPT !.pc = "saving", !.mark = m]
      PROVE  r.pc = "saving" /\ r.mark = m
  BY <1>3 DEF Resting
<1>4. ASSUME NEW p, NEW r, r = [Resting EXCEPT !.pc = p], Goes(t, r) \/ GoesEarly(t, r)
      PROVE  task'[t].pc = p /\ task'[t].mark = Closed
  BY <1>1, <1>2, <1>4
<1>5. ASSUME NEW m, NEW r, r = [Resting EXCEPT !.pc = "saving", !.mark = m], GoesEarly(t, r)
      PROVE  task'[t].pc = "saving" /\ task'[t].mark = m
  BY <1>1, <1>3, <1>5
<1>6. Goes(t, Resting) => task'[t].pc = "idle"
  BY <1>1, RestingFields
<1>7. QED
  BY <1>4, <1>5, <1>6, Zenon

\* A step that neither begins nor ends a save, and none of whose callers was reading.
LEMMA RowGoes ==
    ASSUME TypeOK, RowInv, NEW t \in Callers, NEW r, Goes(t, r),
           UNCHANGED <<breaker, stored, loaded, boot>>, "row" \in lapse => "row" \in lapse',
           task[t].pc \notin {"adopting", "saving"}, r.pc # "saving",
           Unread => \/ r.pc \in {"idle", "adopting"}
                     \/ r.probe /\ r.pc \in {"asking", "trying", "banking"}
    PROVE  RowInv'
<1> SUFFICES ASSUME "row" \notin lapse PROVE (Unread \/ Known \/ OneSave)' /\ InRun(breaker)' /\ InRun(stored)'
  BY DEF RowInv
<1>1. /\ task'[t] = r
      /\ \A u \in Callers \ {t} : /\ task'[u].pc = task[u].pc /\ task'[u].mark = task[u].mark
                                  /\ task'[u].probe = task[u].probe
  BY OthersStay
<1>2. Saving' = Saving /\ t \notin Saving
  BY <1>1 DEF Saving, At
<1>3. CASE Unread
  <2>1. \A u \in Callers : \/ task'[u].pc \in {"idle", "adopting"}
                           \/ task'[u].probe /\ task'[u].pc \in {"asking", "trying", "banking"}
    BY <1>1, <1>3 DEF Unread
  <2>2. (\E u \in Callers : At(u, "adopting")) => (\E u \in Callers : At(u, "adopting"))'
    BY <1>1 DEF At
  <2>3. Unread'
    BY <1>3, <2>1, <2>2 DEF Unread
  <2>4. QED
    BY <2>3 DEF RowInv, InRun, Cooldown, Smaller
<1>4. CASE Known
  BY <1>2, <1>4 DEF Known, RowInv, InRun, Cooldown, Smaller
<1>5. CASE OneSave
  <2>1. OneSave'
    BY <1>1, <1>2, <1>5 DEF OneSave
  <2>2. QED
    BY <2>1 DEF RowInv, InRun, Cooldown, Smaller
<1>6. QED
  BY <1>3, <1>4, <1>5 DEF RowInv

\* Reading the row, with nothing of its own to lose, leaves the process knowing it.
LEMMA RowLoads ==
    ASSUME TypeOK, RowInv, Load, stored' = stored,
           \A u \in Callers : At(u, "saving")' => At(u, "saving")
    PROVE  RowInv'
<1> SUFFICES ASSUME "row" \notin lapse' PROVE Known' /\ InRun(breaker)' /\ InRun(stored)'
  BY DEF RowInv
<1>1. "row" \notin lapse /\ Saving = {} /\ breaker' = stored
  BY DEF Load, RowLapses, Adopted
<1>2. Saving' = {}
  BY <1>1 DEF Saving
<1>3. QED
  BY <1>1, <1>2 DEF Known, RowInv, InRun, Cooldown, Smaller

LEMMA RowTrips ==
    ASSUME TypeOK, RowInv, NEW t \in Callers, Trip(t), stored' = stored,
           ~(Unread /\ "row" \notin lapse)
    PROVE  RowInv'
<1> SUFFICES ASSUME "row" \notin lapse' PROVE OneSave' /\ InRun(breaker)' /\ InRun(stored)'
  BY DEF RowInv
<1> DEFINE run  == Smaller(breaker.run + 1, RunCap)
           mark == [shut |-> Cooldown(run), run |-> run]
<1>1. /\ breaker' = mark /\ "row" \notin lapse /\ Saving = {}
      /\ GoesEarly(t, [Resting EXCEPT !.pc = "saving", !.mark = mark])
  BY DEF Trip, RowLapses
<1>2. Known /\ InRun(breaker)
  BY <1>1 DEF RowInv, OneSave
<1>3. run \in 1 .. RunCap /\ Cooldown(run) \in 0 .. Longest
  <2>1. run \in 1 .. RunCap
    BY SofaAssumption DEF TypeOK, Mark, Smaller
  <2>2. QED
    BY <2>1, CooldownType
<1>4. breaker.shut <= Cooldown(run)
  <2>1. breaker.run \in 0 .. RunCap /\ breaker.shut \in 0 .. Longest
    BY DEF TypeOK, Mark
  <2>2. CASE breaker.run = 0
    BY <1>2, <1>3, <2>1, <2>2, SofaAssumption DEF InRun
  <2>3. CASE breaker.run # 0
    <3>1. breaker.run \in 1 .. RunCap
      BY <2>1, <2>3, SofaAssumption
    <3>2. /\ Cooldown(breaker.run) <= Cooldown(run) /\ Cooldown(breaker.run) \in 0 .. Longest
      BY <3>1, CooldownGrows, CooldownType
    <3>3. QED
      BY <1>2, <1>3, <2>1, <2>3, <3>2, SofaAssumption DEF InRun
  <2>4. QED
    BY <2>2, <2>3
<1>5. /\ task'[t].pc = "saving" /\ task'[t].mark = breaker'
      /\ \A u \in Callers \ {t} : task'[u].pc = task[u].pc
  BY <1>1, OthersStay, OthersRest, Zenon
<1>6. Saving' = {t}
  BY <1>1, <1>5 DEF Saving, At
<1>7. OneSave'
  BY <1>1, <1>2, <1>4, <1>5, <1>6 DEF OneSave, Known
<1>8. InRun(breaker)'
  <2>1. breaker'.run = run /\ breaker'.shut = Cooldown(run) /\ run # 0
    BY <1>1, <1>3
  <2>2. Cooldown(run) <= Cooldown(run)
    BY <1>3, SofaAssumption
  <2>3. Cooldown(breaker'.run) = Cooldown(run)
    BY <2>1
  <2> HIDE DEF run
  <2>4. QED
    BY <2>1, <2>2, <2>3 DEF InRun, Cooldown, Smaller
<1>9. QED
  BY <1>1, <1>2, <1>7, <1>8 DEF Known, InRun, Cooldown, Smaller

LEMMA RowSucceeds ==
    ASSUME TypeOK, RowInv, NEW t \in Callers, Succeed(t), UNCHANGED <<stored, loaded, boot>>,
           ~(Unread /\ "row" \notin lapse), task[t].pc \notin {"adopting", "saving"}
    PROVE  RowInv'
<1>1. CASE breaker.run = 0
  BY <1>1, RowGoes, RestingFields DEF Succeed
<1>2. CASE breaker.run # 0
  <2> SUFFICES ASSUME "row" \notin lapse' PROVE OneSave' /\ InRun(breaker)' /\ InRun(stored)'
    BY DEF RowInv
  <2>1. /\ breaker' = [breaker EXCEPT !.run = 0] /\ "row" \notin lapse /\ Saving = {}
        /\ breaker.shut = 0
        /\ Goes(t, [Resting EXCEPT !.pc = "saving"])
    BY <1>2 DEF Succeed, RowLapses, Clear
  <2>2. Known /\ InRun(stored)
    BY <2>1 DEF RowInv, OneSave
  <2>3. breaker' = Closed
    BY <2>1 DEF TypeOK, Mark, Closed
  <2>4. /\ task'[t].pc = "saving" /\ task'[t].mark = breaker'
        /\ \A u \in Callers \ {t} : task'[u].pc = task[u].pc
    <3>1. task'[t].pc = "saving" /\ task'[t].mark = Closed
      BY <2>1, OthersRest, Zenon
    <3>2. QED
      BY <2>1, <2>3, <3>1, OthersStay
  <2>5. Saving' = {t}
    BY <2>1, <2>4 DEF Saving, At
  <2>6. QED
    BY <2>1, <2>2, <2>3, <2>4, <2>5, RestingFields DEF OneSave, Known, InRun, Cooldown, Smaller
<1>3. QED
  BY <1>1, <1>2

LEMMA RowSaves ==
    ASSUME TypeOK, RowInv, NEW t \in Callers, Save(t) PROVE RowInv'
<1> SUFFICES ASSUME "row" \notin lapse' PROVE Known' /\ InRun(breaker)' /\ InRun(stored)'
  BY DEF RowInv
<1>1. /\ stored' = task[t].mark /\ "row" \notin lapse /\ t \in Saving
      /\ Goes(t, Resting) /\ breaker' = breaker
  BY DEF Save, RowLapses, Saving
<1>2. OneSave
  BY <1>1 DEF RowInv, Unread, Known, Saving, At
<1>3. Saving = {t} /\ task[t].mark = breaker
  BY <1>1, <1>2 DEF OneSave
<1>4. task'[t].pc = "idle" /\ \A u \in Callers \ {t} : task'[u].pc = task[u].pc
  BY <1>1, OthersStay, RestingFields
<1>5. Saving' = {}
  BY <1>3, <1>4 DEF Saving, At
<1>6. QED
  BY <1>1, <1>3, <1>5 DEF Known, RowInv, InRun, Cooldown, Smaller

\* Row, process and save on its way tick together.
LEMMA RowTicks ==
    ASSUME TypeOK, RowInv, Tick PROVE RowInv'
<1> SUFFICES ASSUME "row" \notin lapse
             PROVE  (Unread \/ Known \/ OneSave)' /\ InRun(breaker)' /\ InRun(stored)'
  BY DEF RowInv, Tick
<1>1. /\ breaker' = [breaker EXCEPT !.shut = Less(@)] /\ stored' = [stored EXCEPT !.shut = Less(@)]
      /\ UNCHANGED <<loaded, boot>>
  BY DEF Tick, startup
<1>2. ASSUME NEW u \in Callers
      PROVE  /\ task'[u].pc = task[u].pc /\ task'[u].probe = task[u].probe
             /\ task'[u].mark = [task[u].mark EXCEPT !.shut = Less(@)]
  <2>1. task'[u] = [task[u] EXCEPT !.mark.shut = Less(@)]
    BY Zenon DEF Tick
  <2>2. QED
    BY <2>1, FieldType DEF Task, Mark
<1>3. Saving' = Saving
  BY <1>2 DEF Saving, At
<1>4. ASSUME NEW m \in Mark, InRun(m) PROVE InRun([m EXCEPT !.shut = Less(@)])
  <2>1. m.shut \in Nat /\ m.run \in 0 .. RunCap
    BY <1>4, SofaAssumption DEF Mark
  <2>2. /\ [m EXCEPT !.shut = Less(@)].run = m.run
        /\ [m EXCEPT !.shut = Less(@)].shut = Less(m.shut)
    BY DEF Mark
  <2>3. CASE m.run = 0
    BY <1>4, <2>1, <2>2, <2>3 DEF InRun, Less
  <2>4. CASE m.run # 0
    <3>1. Cooldown(m.run) \in 0 .. Longest
      BY <2>1, <2>4, CooldownType, SofaAssumption
    <3>2. Less(m.shut) <= Cooldown(m.run)
      BY <1>4, <2>1, <2>4, <3>1, SofaAssumption DEF InRun, Less
    <3>3. QED
      BY <2>2, <2>4, <3>2 DEF InRun
  <2>5. QED
    BY <2>3, <2>4
<1>5. InRun(breaker)' /\ InRun(stored)'
  <2>1. InRun([breaker EXCEPT !.shut = Less(@)]) /\ InRun([stored EXCEPT !.shut = Less(@)])
    BY <1>4 DEF RowInv, TypeOK
  <2>2. QED
    BY <1>1, <2>1 DEF InRun, Cooldown, Smaller
<1>6. CASE Unread
  <2>1. breaker' = Closed
    BY <1>1, <1>6 DEF Unread, Closed, Less
  <2>2. QED
    BY <1>1, <1>2, <1>5, <1>6, <2>1 DEF Unread, At
<1>7. CASE Known
  BY <1>1, <1>3, <1>5, <1>7 DEF Known
<1>8. CASE OneSave
  <2>1. stored'.shut <= breaker'.shut
    BY <1>1, <1>8, SofaAssumption DEF OneSave, TypeOK, Mark, Less
  <2>2. QED
    BY <1>1, <1>2, <1>3, <1>5, <1>8, <2>1 DEF OneSave
<1>9. QED
  BY <1>6, <1>7, <1>8 DEF RowInv

LEMMA RowInit == Init => RowInv
BY DEF Init, RowInv, Known, Saving, At, Resting, Closed, InRun

LEMMA RowStep == TypeOK /\ RowInv /\ [Next]_vars => RowInv'
<1> SUFFICES ASSUME TypeOK, RowInv, [Next]_vars PROVE RowInv'
  OBVIOUS
<1> USE DEF startup
<1>1. ASSUME NEW t \in Callers, Ask(t) PROVE RowInv'
  <2>1. task[t].pc = "idle" /\ UNCHANGED <<breaker, stored, boot>>
    BY <1>1 DEF Ask, At
  \* The first to ask reads the row before anything else.
  <2>2. CASE ~loaded
    <3>1. lapse' = lapse /\ loaded' /\ Goes(t, [Resting EXCEPT !.pc = "adopting"])
      BY <1>1, <2>2 DEF Ask
    <3>2. /\ task'[t].pc = "adopting"
          /\ \A u \in Callers \ {t} : /\ task'[u].pc = task[u].pc /\ task'[u].mark = task[u].mark
                                      /\ task'[u].probe = task[u].probe
      BY <3>1, OthersStay, OthersRest, Zenon
    <3>3. Saving' = Saving /\ t \notin Saving
      BY <2>1, <3>2 DEF Saving, At
    <3>4. Unread => Unread'
      BY <2>1, <3>2 DEF Unread, At
    <3>5. Known => Known'
      BY <2>1, <3>3 DEF Known
    <3>6. OneSave => OneSave'
      BY <2>1, <3>2, <3>3 DEF OneSave
    <3>7. QED
      BY <2>1, <3>1, <3>4, <3>5, <3>6 DEF RowInv, InRun, Cooldown, Smaller
  \* The others do not wait for that: if it has not been done, it is a lapse.
  <2>3. CASE loaded
    <3>1. /\ loaded' = loaded /\ Goes(t, [Resting EXCEPT !.pc = "queued"])
          /\ RowLapses(boot = "breaker" \/ \E u \in Callers : At(u, "adopting"))
      BY <1>1, <2>3 DEF Ask
    <3>2. CASE Unread
      BY <2>3, <3>1, <3>2 DEF Unread, RowLapses, RowInv
    <3>3. CASE ~Unread
      <4>1. "row" \in lapse => "row" \in lapse'
        BY <3>1 DEF RowLapses
      <4>2. [Resting EXCEPT !.pc = "queued"].pc = "queued"
        BY RestingFields
      <4>3. task[t].pc = "idle" /\ UNCHANGED <<breaker, stored, loaded, boot>>
        BY <2>1, <3>1
      <4>4. QED
        BY <3>1, <3>3, <4>1, <4>2, <4>3, RowGoes
    <3>4. QED
      BY <3>2, <3>3
  <2>4. QED
    BY <2>2, <2>3
<1>2. ASSUME NEW t \in Callers, Probe(t) PROVE RowInv'
  <2>1. LET r == [Resting EXCEPT !.pc = "asking", !.probe = TRUE]
        IN  Goes(t, r) /\ r.pc = "asking" /\ r.probe
    BY <1>2 DEF Probe, Resting
  <2>2. QED
    BY <1>2, <2>1, RowGoes DEF Probe, At
<1>3. ASSUME NEW t \in Callers, ProbeDeclines(t) \/ AskFails(t) \/ Leave(t) PROVE RowInv'
  <2>1. CASE Goes(t, Resting)
    BY <1>3, <2>1, RowGoes, RestingFields DEF ProbeDeclines, AskFails, Leave, At
  <2>2. ASSUME NEW code \in Codes, Leave(t), Goes(t, [Resting EXCEPT !.pc = "out", !.code = code])
        PROVE  RowInv'
    <3>1. [Resting EXCEPT !.pc = "out", !.code = code].pc = "out"
      BY DEF Resting
    <3>2. task[t].pc = "queued" /\ ~Unread
      BY <2>2 DEF Leave, At, Unread
    <3>3. QED
      BY <2>2, <3>1, <3>2, RowGoes DEF Leave
  <2>3. QED
    BY <1>3, <2>1, <2>2, AnswersType DEF ProbeDeclines, AskFails, Leave
<1>4. ASSUME NEW t \in Callers, Rotate(t) \/ AskDirect(t) \/ TryDirect(t) PROVE RowInv'
  <2>1. task[t].pc \in {"out", "again", "asking"} /\ task[t] \in Task
    BY <1>4, FieldType DEF Rotate, AskDirect, TryDirect, Refused, At
  <2>2. PICK r : /\ Goes(t, r) /\ r.probe = task[t].probe
                 /\ r.pc \in {"again", "asking", "trying"}
                 /\ task[t].pc = "asking" => r.pc = "trying"
    <3>1. CASE Rotate(t)
      BY <2>1, <3>1 DEF Rotate, Task, At
    <3>2. CASE AskDirect(t)
      BY <2>1, <3>2 DEF AskDirect, Refused, Task, At
    <3>3. CASE TryDirect(t)
      <4>1. PICK code : Goes(t, [task[t] EXCEPT !.pc = "trying", !.code = code, !.saved = direct])
        BY <3>3 DEF TryDirect
      <4> DEFINE r == [task[t] EXCEPT !.pc = "trying", !.code = code, !.saved = direct]
      <4>2. r.pc = "trying" /\ r.probe = task[t].probe /\ Goes(t, r)
        BY <2>1, <4>1 DEF Task
      <4> HIDE DEF r
      <4>3. QED
        BY <4>2
    <3>4. QED
      BY <1>4, <3>1, <3>2, <3>3
  <2>3. Unread => r.probe /\ r.pc = "trying"
    BY <2>1, <2>2 DEF Unread
  <2>4. /\ UNCHANGED <<breaker, stored, loaded, boot>>
        /\ "row" \in lapse => "row" \in lapse'
    BY <1>4 DEF Rotate, AskDirect, TryDirect
  <2>5. QED
    BY <2>1, <2>2, <2>3, <2>4, RowGoes
<1>5. ASSUME NEW t \in Callers, Adopt(t) PROVE RowInv'
  <2>1. CASE Load
    <3>1. GoesEarly(t, [Resting EXCEPT !.pc = IF breaker'.shut = 0 THEN "queued" ELSE "idle"])
      BY <1>5 DEF Adopt
    <3>2. \A u \in Callers : At(u, "saving")' => At(u, "saving")
      <4>1. task'[t].pc \in {"queued", "idle"}
        BY <3>1, OthersRest
      <4>2. \A u \in Callers \ {t} : task'[u].pc = task[u].pc
        BY <3>1, OthersStay
      <4>3. QED
        BY <4>1, <4>2 DEF At
    <3>3. QED
      BY <1>5, <2>1, <3>2, RowLoads DEF Adopt
  <2>2. CASE RowLapses(TRUE)
    BY <2>2 DEF RowLapses, RowInv
  <2>3. QED
    BY <1>5, <2>1, <2>2 DEF Adopt
<1>6. ASSUME NEW t \in Callers, Trips(t) PROVE RowInv'
  <2>1. ~Unread
    BY <1>6 DEF Trips, Refused, At, Unread
  <2>2. QED
    BY <1>6, <2>1, RowTrips DEF Trips
<1>7. ASSUME NEW t \in Callers, Answered(t) PROVE RowInv'
  <2>1. ~Unread /\ task[t].pc \in {"out", "again"} /\ UNCHANGED <<stored, loaded, boot>>
    BY <1>7 DEF Answered, At, Unread
  <2>2. Succeed(t) \/ (Goes(t, Resting) /\ UNCHANGED <<breaker, lapse>>)
    BY <1>7 DEF Answered
  <2>3. QED
    BY <2>1, <2>2, RowSucceeds, RowGoes, RestingFields
<1>8. ASSUME NEW t \in Callers, Tried(t) PROVE RowInv'
  <2> DEFINE r == [task[t] EXCEPT !.pc = "banking"]
  <2>1. task[t].pc = "trying" /\ UNCHANGED <<breaker, stored, loaded, boot, lapse>> /\ Goes(t, r)
    BY <1>8 DEF Tried, At
  <2>2. r.pc = "banking" /\ r.probe = task[t].probe
    BY FieldType DEF Task
  <2>3. Unread => task[t].probe
    BY <2>1 DEF Unread
  <2> HIDE DEF r
  <2>4. QED
    BY <2>1, <2>2, <2>3, RowGoes
<1>14. ASSUME NEW t \in Callers, Banks(t) PROVE RowInv'
  <2>1. task[t].pc = "banking" /\ UNCHANGED <<stored, loaded, boot>>
    BY <1>14 DEF Banks, At
  <2>2. \/ ~task[t].probe /\ (Succeed(t) \/ Trip(t))
        \/ Goes(t, Resting) /\ UNCHANGED breaker /\ ("row" \in lapse => "row" \in lapse')
    BY <1>14 DEF Banks, Bank, BankFails
  <2>3. ~task[t].probe => ~Unread
    BY <2>1 DEF Unread
  <2>4. QED
    BY <2>1, <2>2, <2>3, RowSucceeds, RowTrips, RowGoes, RestingFields
<1>9. CASE LoadEgress
  <2>1. /\ UNCHANGED <<breaker, stored, task, lapse>> /\ boot' = "breaker"
    BY <1>9 DEF LoadEgress
  <2>2. QED
    BY <2>1 DEF RowInv, Unread, Known, OneSave, Saving, At, InRun, Cooldown, Smaller
<1>10. CASE LoadBreaker
  <2>1. ASSUME NEW u \in Callers, At(u, "saving")' PROVE At(u, "saving")
    <3>1. task'[u] = [task[u] EXCEPT !.early = @ \/ Underway(u)]
      BY <1>10, Zenon DEF LoadBreaker
    <3>2. QED
      BY <2>1, <3>1, MarkedEarly DEF At
  <2>2. QED
    BY <1>10, <2>1, RowLoads DEF LoadBreaker
<1>11. CASE Restart
  <2> SUFFICES ASSUME "row" \notin lapse' PROVE Unread' /\ InRun(breaker)' /\ InRun(stored)'
    BY DEF RowInv
  <2>1. "row" \notin lapse /\ breaker' = Closed /\ ~loaded' /\ stored' = stored
        /\ task' = [t \in Callers |-> Resting]
    BY <1>11 DEF Restart, RowLapses
  <2>2. QED
    BY <2>1, RestingFields DEF Unread, RowInv, InRun, Cooldown, Smaller
<1>12. CASE UNCHANGED vars \/ \E route \in Routes : Bans(route)
  <2>1. UNCHANGED <<breaker, stored, loaded, boot, task, lapse>>
    BY <1>12 DEF vars, Bans
  <2>2. QED
    BY <2>1 DEF RowInv, Unread, Known, OneSave, Saving, At, InRun, Cooldown, Smaller
<1>15. QED
  BY <1>1, <1>2, <1>3, <1>4, <1>5, <1>6, <1>7, <1>8, <1>9, <1>10, <1>11, <1>12, <1>14,
     RowSaves, RowTicks DEF Next, Moves

\* "THE BREAKER OUTLIVES THE PROCESS": with no lapse, the row says what the process knows
\* whenever no save or reading of it is on its way.
THEOREM TheRowKeepsTheBreaker == Spec => []KeptOnRow
<1>1. RowInv => KeptOnRow
  BY DEF RowInv, KeptOnRow, Settled, Unread, Known, OneSave, Saving
<1>2. QED
  BY <1>1, RowInit, RowStep, SofaTypes, PTL DEF Spec

\* "Stored so a restart cannot close it": with no lapse, nobody leaves the gate while the
\* row says to wait; a save on its way has at least as long to wait.
THEOREM NobodyLeavesAgainstTheRow == Spec => StandsDown
<1>1. ASSUME TypeOK, RowInv, [Next]_vars, NEW t \in Callers,
             At(t, "queued"), At(t, "out")', "row" \notin lapse
      PROVE  stored.shut = 0
  <2>1. task[t].pc = "queued" /\ task'[t].pc = "out"
    BY <1>1 DEF At
  <2>2. ASSUME NEW u \in Callers, NEW r, Goes(u, r) \/ GoesEarly(u, r)
        PROVE  u = t /\ r.pc = "out"
    BY <1>1, <2>1, <2>2, OthersStay
  <2>3. ASSUME NEW u \in Callers, Ask(u) \/ Probe(u) PROVE FALSE
    BY <2>1, <2>2, <2>3 DEF Ask, Probe, At
  <2>4. ASSUME NEW u \in Callers, Moves(u) PROVE Leave(t) /\ StillClear
    <3>1. u = t
      BY <2>2, <2>4 DEF Moves, Adopt, Leave, Rotate, AskDirect, Trips, Trip, Answered, Succeed,
                        Save, ProbeDeclines, AskFails, TryDirect, Tried, Banks, Bank, BankFails
    <3>2. Adopt(t) \/ Leave(t) \/ Save(t) \/ ProbeDeclines(t) \/ TryDirect(t) \/ Tried(t)
          \/ AskFails(t) \/ Banks(t)
          \/ Rotate(t) \/ AskDirect(t) \/ Trips(t) \/ Answered(t)
      BY <2>4, <3>1 DEF Moves
    <3>3. Leave(t)
      BY <2>1, <3>2 DEF Adopt, Save, ProbeDeclines, AskFails, TryDirect, Tried, Banks, Rotate,
                        AskDirect, Refused, Trips, Answered, At
    <3>4. ~Goes(t, Resting)
      BY <2>2, RestingFields
    <3>5. QED
      BY <3>3, <3>4 DEF Leave
  <2>5. \E u \in Callers : Moves(u)
    <3>1. ASSUME NEW u \in Callers,
                 task'[u] = task[u] \/ task'[u].pc = task[u].pc \/ task'[u] = Resting
          PROVE  u # t
      BY <2>1, <3>1, RestingFields
    <3>2. CASE Restart
      BY <3>1, <3>2 DEF Restart
    <3>3. CASE LoadBreaker
      <4>1. task'[t] = [task[t] EXCEPT !.early = @ \/ Underway(t)]
        BY <3>3, Zenon DEF LoadBreaker
      <4>2. task'[t].pc = task[t].pc
        BY <4>1, MarkedEarly
      <4>3. QED
        BY <2>1, <4>2
    <3>4. CASE Tick
      <4>1. task'[t] = [task[t] EXCEPT !.mark.shut = Less(@)]
        BY <3>4, Zenon DEF Tick
      <4>2. task'[t].pc = task[t].pc
        BY <4>1, FieldType DEF Task
      <4>3. QED
        BY <2>1, <4>2
    <3>5. CASE LoadEgress \/ UNCHANGED vars \/ \E route \in Routes : Bans(route)
      BY <3>1, <3>5 DEF LoadEgress, vars, Bans
    <3>6. QED
      BY <1>1, <2>3, <3>2, <3>3, <3>4, <3>5 DEF Next
  <2>6. breaker.shut = 0 /\ ~Unread
    BY <2>1, <2>4, <2>5 DEF StillClear, Unread
  <2>7. QED
    BY <1>1, <2>6, SofaAssumption DEF RowInv, Known, OneSave, TypeOK, Mark
<1>2. TypeOK /\ RowInv /\ [Next]_vars
          => [\A t \in Callers : At(t, "queued") /\ (At(t, "out"))' /\ "row" \notin lapse
                  => stored.shut = 0]_vars
  BY <1>1
<1>3. QED
  BY <1>2, RowInit, RowStep, SofaTypes, PTL DEF Spec, StandsDown

-----------------------------------------------------------------------------
(* The route.  While no try overlapped another or startup, and no adopted  *)
(* route went unstored, the route in use is the stored one or the one a    *)
(* try has found and is storing, and the try that is out remembers it.     *)

Found    == \E t \in Banking : task[t].code = "ok"
Promised == proxy = "none" \/ banked \/ Found

RouteInv == "route" \notin lapse =>
    /\ boot # "done" => Trying = {} /\ Banking = {}
    /\ boot # "egress" /\ Trying = {} => (direct <=> Promised)
    /\ \A t \in Trying : Trying = {t} /\ (task[t].saved <=> Promised)

\* A step that neither begins nor ends a try, and leaves the routes alone.
LEMMA RouteStays ==
    ASSUME RouteInv, UNCHANGED <<proxy, direct, banked, boot>>,
           "route" \in lapse => "route" \in lapse',
           \A u \in Callers : /\ At(u, "trying")' <=> At(u, "trying")
                              /\ At(u, "banking")' <=> At(u, "banking")
                              /\ At(u, "trying") => task'[u].saved = task[u].saved
                              /\ At(u, "banking") => task'[u].code = task[u].code
    PROVE  RouteInv'
<1> SUFFICES ASSUME "route" \notin lapse PROVE RouteInv'
  BY DEF RouteInv
<1>1. Trying' = Trying /\ Banking' = Banking
  BY DEF Trying, Banking
<1>2. /\ \A t \in Trying : task'[t].saved = task[t].saved
      /\ \A t \in Banking : task'[t].code = task[t].code
  BY DEF Trying, Banking
<1>3. Promised' <=> Promised
  BY <1>1, <1>2 DEF Promised, Found
<1>4. QED
  BY <1>1, <1>2, <1>3 DEF RouteInv

LEMMA RouteGoes ==
    ASSUME TypeOK, RouteInv, UNCHANGED <<proxy, direct, banked, boot>>,
           "route" \in lapse => "route" \in lapse',
           NEW t \in Callers, NEW r, Goes(t, r) \/ GoesEarly(t, r),
           ~At(t, "trying"), ~At(t, "banking"), r.pc \notin {"trying", "banking"}
    PROVE  RouteInv'
<1>1. /\ task'[t] = r
      /\ \A u \in Callers \ {t} : /\ task'[u].pc = task[u].pc /\ task'[u].saved = task[u].saved
                                  /\ task'[u].code = task[u].code
  BY OthersStay
<1>2. QED
  BY <1>1, RouteStays DEF At

\* What an answer does to the breaker does nothing to the route.
LEMMA RouteEnds ==
    ASSUME NEW t \in Callers, Trip(t) \/ Succeed(t) \/ Goes(t, Resting)
    PROVE  \E r : (Goes(t, r) \/ GoesEarly(t, r)) /\ r.pc \in {"idle", "saving"}
<1>1. CASE Trip(t)
  <2>1. PICK m : GoesEarly(t, [Resting EXCEPT !.pc = "saving", !.mark = m])
    BY <1>1 DEF Trip
  <2>2. [Resting EXCEPT !.pc = "saving", !.mark = m].pc = "saving"
    BY RestingFields
  <2>3. QED
    BY <2>1, <2>2
<1>2. CASE Succeed(t) \/ Goes(t, Resting)
  <2>1. Goes(t, Resting) \/ Goes(t, [Resting EXCEPT !.pc = "saving"])
    BY <1>2 DEF Succeed
  <2>2. Resting.pc = "idle" /\ [Resting EXCEPT !.pc = "saving"].pc = "saving"
    BY RestingFields
  <2>3. QED
    BY <2>1, <2>2
<1>3. QED
  BY <1>1, <1>2

LEMMA RouteAnswers ==
    ASSUME NEW t \in Callers, Trip(t) \/ Succeed(t) \/ (Goes(t, Resting) /\ UNCHANGED lapse)
    PROVE  /\ "route" \in lapse <=> "route" \in lapse'
           /\ \E r : (Goes(t, r) \/ GoesEarly(t, r)) /\ r.pc \in {"idle", "saving"}
<1>1. "route" \in lapse <=> "route" \in lapse'
  BY DEF Trip, Succeed, RowLapses
<1>2. QED
  BY <1>1, RouteEnds

LEMMA RouteInit == Init => RouteInv
BY DEF Init, RouteInv, Trying, Banking, At, Resting

LEMMA RouteStep == TypeOK /\ RouteInv /\ [Next]_vars => RouteInv'
<1> SUFFICES ASSUME TypeOK, RouteInv, [Next]_vars PROVE RouteInv'
  OBVIOUS
<1> USE DEF world, startup, routing
<1>1. ASSUME NEW t \in Callers, Ask(t) \/ Probe(t) \/ Leave(t) \/ Rotate(t) \/ AskDirect(t)
                                \/ ProbeDeclines(t) \/ AskFails(t) \/ Adopt(t) \/ Save(t)
      PROVE  RouteInv'
  <2>1. /\ UNCHANGED <<proxy, direct, banked, boot>> /\ ~At(t, "trying") /\ ~At(t, "banking")
        /\ "route" \in lapse => "route" \in lapse'
    BY <1>1 DEF Ask, Probe, Leave, Rotate, AskDirect, Refused, ProbeDeclines, AskFails, Adopt,
                Save, Load, RowLapses, At
  <2>2. \E r : (Goes(t, r) \/ GoesEarly(t, r)) /\ r.pc \notin {"trying", "banking"}
    <3>1. CASE Ask(t) \/ Adopt(t)
      <4>1. PICK p \in {"adopting", "queued", "idle"} :
                LET r == [Resting EXCEPT !.pc = p] IN Goes(t, r) \/ GoesEarly(t, r)
        BY <3>1 DEF Ask, Adopt
      <4>2. QED
        BY <4>1, RestingFields
    <3>2. CASE ProbeDeclines(t) \/ AskFails(t) \/ Save(t) \/ Goes(t, Resting)
      BY <3>2, RestingFields DEF ProbeDeclines, AskFails, Save
    <3>3. CASE Probe(t)
      <4> DEFINE r == [Resting EXCEPT !.pc = "asking", !.probe = TRUE]
      <4>1. Goes(t, r) /\ r.pc = "asking"
        BY <3>3 DEF Probe, Resting
      <4> HIDE DEF r
      <4>2. QED
        BY <4>1
    <3>4. ASSUME NEW code, Goes(t, [Resting EXCEPT !.pc = "out", !.code = code])
          PROVE  \E r : Goes(t, r) /\ r.pc \notin {"trying", "banking"}
      <4> DEFINE r == [Resting EXCEPT !.pc = "out", !.code = code]
      <4>1. Goes(t, r) /\ r.pc = "out"
        BY <3>4 DEF Resting
      <4> HIDE DEF r
      <4>2. QED
        BY <4>1
    <3>5. CASE Leave(t)
      BY <3>2, <3>4, <3>5 DEF Leave
    <3>6. CASE Rotate(t) \/ AskDirect(t)
      <4>1. PICK code : \/ Goes(t, [task[t] EXCEPT !.pc = "again", !.code = code])
                        \/ Goes(t, [task[t] EXCEPT !.pc = "asking"])
        BY <3>6 DEF Rotate, AskDirect
      <4> DEFINE r == [task[t] EXCEPT !.pc = "again", !.code = code]
                 q == [task[t] EXCEPT !.pc = "asking"]
      <4>2. r.pc = "again" /\ q.pc = "asking" /\ (Goes(t, r) \/ Goes(t, q))
        BY <4>1, FieldType DEF Task
      <4> HIDE DEF r, q
      <4>3. QED
        BY <4>2
    <3>7. QED
      BY <1>1, <3>1, <3>2, <3>3, <3>5, <3>6
  <2>3. QED
    BY <2>1, <2>2, RouteGoes
<1>2. ASSUME NEW t \in Callers, Trips(t) \/ Answered(t) PROVE RouteInv'
  <2>1. /\ UNCHANGED <<proxy, direct, banked, boot>> /\ ~At(t, "trying") /\ ~At(t, "banking")
        /\ Trip(t) \/ Succeed(t) \/ (Goes(t, Resting) /\ UNCHANGED lapse)
    BY <1>2 DEF Trips, Answered, Refused, At
  <2>2. QED
    BY <2>1, RouteAnswers, RouteGoes
\* A try begins: after startup and alone, or it is a lapse.
<1>3. ASSUME NEW t \in Callers, TryDirect(t) PROVE RouteInv'
  <2> SUFFICES ASSUME "route" \notin lapse' PROVE RouteInv'
    BY DEF RouteInv
  <2>1. /\ "route" \notin lapse /\ Trying = {} /\ boot = "done" /\ UNCHANGED <<proxy, banked, boot>>
    BY <1>3 DEF TryDirect
  <2>2. PICK code : Goes(t, [task[t] EXCEPT !.pc = "trying", !.code = code, !.saved = direct])
    BY <1>3 DEF TryDirect
  <2> DEFINE r == [task[t] EXCEPT !.pc = "trying", !.code = code, !.saved = direct]
  <2>3. r.pc = "trying" /\ r.saved = direct
    BY FieldType DEF Task
  <2>4. /\ task'[t] = r
        /\ \A u \in Callers \ {t} : task'[u].pc = task[u].pc /\ task'[u].code = task[u].code
    BY <2>2, OthersStay
  <2>5. Trying' = {t} /\ task'[t].saved = direct /\ (Found' <=> Found)
    <3>1. ~At(t, "banking")
      BY <1>3 DEF TryDirect, At
    <3> HIDE DEF r
    <3>2. QED
      BY <2>1, <2>3, <2>4, <3>1 DEF Trying, Found, Banking, At
  <2>6. direct <=> Promised
    BY <2>1 DEF RouteInv
  <2>7. Promised' <=> Promised
    BY <2>1, <2>5 DEF Promised
  <2>8. QED
    BY <2>1, <2>5, <2>6, <2>7 DEF RouteInv
\* Its answer comes: the route is the one found, to be stored, or the one remembered.
<1>4. ASSUME NEW t \in Callers, Tried(t) PROVE RouteInv'
  <2> DEFINE r == [task[t] EXCEPT !.pc = "banking"]
  <2>1. /\ At(t, "trying") /\ direct' = RouteAfter(t) /\ UNCHANGED <<proxy, boot, banked, lapse>>
        /\ Goes(t, r)
    BY <1>4 DEF Tried
  <2> SUFFICES ASSUME "route" \notin lapse PROVE RouteInv'
    BY <2>1 DEF RouteInv
  <2>2. Trying = {t} /\ (task[t].saved <=> Promised) /\ boot = "done"
    BY <2>1 DEF RouteInv, Trying
  <2>3. r.pc = "banking" /\ r.code = task[t].code
    BY FieldType DEF Task
  <2>4. /\ task'[t] = r
        /\ \A u \in Callers \ {t} : task'[u].pc = task[u].pc /\ task'[u].code = task[u].code
    BY <2>1, OthersStay
  <2> HIDE DEF r
  <2>5. Trying' = {}
    BY <2>2, <2>3, <2>4 DEF Trying, At
  <2>6. Found' <=> Found \/ task[t].code = "ok"
    <3>1. ~At(t, "banking")
      BY <2>1 DEF At
    <3>2. Banking' = Banking \cup {t} /\ t \notin Banking
      BY <2>3, <2>4, <3>1 DEF Banking, At
    <3>3. \A u \in Banking' : task'[u].code = task[u].code
      BY <2>3, <2>4, <3>2 DEF Banking
    <3>4. QED
      BY <3>2, <3>3 DEF Found
  <2>7. direct' <=> Promised'
    <3>1. direct' <=> task[t].code = "ok" \/ task[t].saved
      BY <2>1, Zenon DEF RouteAfter
    <3>2. QED
      BY <2>1, <2>2, <2>6, <3>1 DEF Promised
  <2>8. QED
    BY <2>1, <2>2, <2>5, <2>7 DEF RouteInv
\* What it found is stored, or the write fails: only an adopted route is then a lapse.
<1>11. ASSUME NEW t \in Callers, Banks(t) PROVE RouteInv'
  <2>1. /\ At(t, "banking") /\ UNCHANGED <<proxy, boot, direct>>
        /\ task[t].code = "ok" => banked' = TRUE \/ "route" \in lapse'
        /\ task[t].code # "ok" => banked' = banked
        /\ Trip(t) \/ Succeed(t) \/ Goes(t, Resting)
        /\ "route" \in lapse => "route" \in lapse'
    <3>1. CASE Bank(t)
      <4>1. Trip(t) \/ Succeed(t) \/ (Goes(t, Resting) /\ UNCHANGED lapse)
        BY <3>1 DEF Bank
      <4>2. "route" \in lapse => "route" \in lapse'
        BY <4>1, RouteAnswers
      <4>3. QED
        BY <1>11, <3>1, <4>1, <4>2 DEF Banks, Bank
    <3>2. CASE BankFails(t)
      BY <1>11, <3>2 DEF Banks, BankFails
    <3>3. QED
      BY <1>11, <3>1, <3>2 DEF Banks
  <2> SUFFICES ASSUME "route" \notin lapse' PROVE RouteInv'
    BY DEF RouteInv
  <2>2. "route" \notin lapse /\ boot = "done" /\ t \in Banking
    BY <2>1 DEF RouteInv, Banking
  <2>3. PICK r : (Goes(t, r) \/ GoesEarly(t, r)) /\ r.pc \in {"idle", "saving"}
    BY <2>1, RouteEnds
  <2>4. /\ task'[t] = r
        /\ \A u \in Callers \ {t} : /\ task'[u].pc = task[u].pc /\ task'[u].saved = task[u].saved
                                    /\ task'[u].code = task[u].code
    BY <2>3, OthersStay
  <2>5. Banking' = Banking \ {t} /\ Trying' = Trying /\ t \notin Trying
    BY <2>1, <2>3, <2>4 DEF Trying, Banking, At
  <2>6. Promised' <=> Promised
    <3>1. \A u \in Banking' : u # t /\ task'[u].code = task[u].code
      BY <2>4, <2>5 DEF Banking
    <3>2. CASE task[t].code = "ok"
      <4>1. banked' /\ Found
        BY <2>1, <2>2, <3>2 DEF Found
      <4>2. QED
        BY <4>1 DEF Promised
    <3>3. CASE task[t].code # "ok"
      <4>1. Found' <=> Found
        BY <2>5, <3>1, <3>3 DEF Found
      <4>2. QED
        BY <2>1, <3>3, <4>1 DEF Promised
    <3>4. QED
      BY <3>2, <3>3
  <2>7. \A u \in Trying : task'[u].saved = task[u].saved
    BY <2>4, <2>5 DEF Trying
  <2>8. QED
    BY <2>1, <2>2, <2>5, <2>6, <2>7 DEF RouteInv
<1>5. CASE LoadEgress
  <2>1. /\ direct' = (proxy = "none" \/ banked) /\ boot = "egress" /\ boot' = "breaker"
        /\ UNCHANGED <<proxy, banked, task, lapse>>
    BY <1>5 DEF LoadEgress
  <2> SUFFICES ASSUME "route" \notin lapse PROVE RouteInv'
    BY <2>1 DEF RouteInv
  <2>2. Trying = {} /\ Banking = {}
    BY <2>1 DEF RouteInv
  <2>3. Trying' = {} /\ Banking' = {}
    BY <2>1, <2>2 DEF Trying, Banking, At
  <2>4. direct' <=> Promised'
    BY <2>1, <2>3 DEF Promised, Found
  <2>5. QED
    BY <2>3, <2>4 DEF RouteInv
<1>6. CASE LoadBreaker
  <2>1. /\ UNCHANGED <<proxy, direct, banked>> /\ boot = "breaker" /\ boot' = "done"
        /\ "route" \in lapse => "route" \in lapse'
    BY <1>6 DEF LoadBreaker, Load, RowLapses
  <2>2. ASSUME NEW u \in Callers PROVE task'[u].pc = task[u].pc /\ task'[u].code = task[u].code
    <3>1. task'[u] = [task[u] EXCEPT !.early = @ \/ Underway(u)]
      BY <1>6, Zenon DEF LoadBreaker
    <3>2. QED
      BY <3>1, FieldType DEF Task
  <2>3. Trying' = Trying /\ Banking' = Banking
    BY <2>2 DEF Trying, Banking, At
  <2>4. Promised' <=> Promised
    BY <2>1, <2>2, <2>3 DEF Promised, Found, Banking
  <2>5. QED
    BY <2>1, <2>3, <2>4 DEF RouteInv
<1>7. CASE Restart
  <2>1. task' = [t \in Callers |-> Resting] /\ boot' = "egress"
    BY <1>7 DEF Restart
  <2>2. Trying' = {} /\ Banking' = {}
    BY <2>1, RestingFields DEF Trying, Banking, At
  <2>3. QED
    BY <2>1, <2>2 DEF RouteInv
<1>8. CASE Tick
  <2>1. UNCHANGED <<proxy, direct, banked, boot, lapse>>
    BY <1>8 DEF Tick
  <2>2. ASSUME NEW u \in Callers
        PROVE  /\ task'[u].pc = task[u].pc /\ task'[u].saved = task[u].saved
               /\ task'[u].code = task[u].code
    <3>1. task'[u] = [task[u] EXCEPT !.mark.shut = Less(@)]
      BY <1>8, Zenon DEF Tick
    <3>2. QED
      BY <3>1, FieldType DEF Task
  <2>3. QED
    BY <2>1, <2>2, RouteStays DEF At
<1>9. CASE UNCHANGED vars \/ \E route \in Routes : Bans(route)
  <2>1. UNCHANGED <<proxy, direct, banked, boot, task, lapse>>
    BY <1>9 DEF vars, Bans
  <2>2. QED
    BY <2>1, RouteStays DEF At
<1>10. QED
  BY <1>1, <1>2, <1>3, <1>4, <1>5, <1>6, <1>7, <1>8, <1>9, <1>11 DEF Next, Moves

\* Requests go by the route that is stored, once startup is over and no try is out or has
\* its answer still to store: one that was refused leaves no trace, whether or not its
\* refusal could be dated and whatever the number of callers, unless a try overlapped
\* another or startup, or an adopted route could not be stored.
THEOREM ARefusedTryLeavesNoTrace == Spec => []RouteIsBanked
<1>1. RouteInv => RouteIsBanked
  BY DEF RouteInv, RouteIsBanked, Promised, Found
<1>2. QED
  BY <1>1, RouteInit, RouteStep, SofaTypes, PTL DEF Spec
=============================================================================
