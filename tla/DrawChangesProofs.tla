-------------------------- MODULE DrawChangesProofs --------------------------
(***************************************************************************)
(* What holds of the draw-change mails for any draws, places and names,    *)
(* and for any number of overlapping runs of the dispatch.                 *)
(***************************************************************************)
EXTENDS DrawChanges, TLAPS

\* What is told of p if it is renamed by this step.
NewsOf(p) == [place |-> p, name |-> holder'[p],
              kind |-> IF holder[p] = Blank THEN "filled" ELSE "replaced"]

\* What a source of names may do: a place it changes has a name and, unless that is
\* nobody's business, an event that says which; it writes no other event.
Renames ==
    /\ UNCHANGED <<over, court, fieldRows, run, halts>>
    /\ pending \subseteq pending' /\ pending' \subseteq Event
    /\ quiet' \in [Fields \X Kinds -> BOOLEAN]
    /\ holder' \in [Places -> Names \cup {Blank}]
    /\ belief' \in [Places -> {"right", "stale", "excused"}]
    /\ \A p \in Places :
          \/ /\ holder'[p] = holder[p] /\ belief'[p] = belief[p]
             /\ \A e \in pending' \ pending : e.place # p
          \/ /\ holder'[p] # Blank
             /\ \A e \in pending' \ pending : e.place = p => e = NewsOf(p)
             /\ belief'[p] = "excused" \/ NewsOf(p) \in pending'

LEMMA WriteType ==
    ASSUME ChangesTypeOK, NEW E \in SUBSET Event, Write(E)
    PROVE  pending' \subseteq Event /\ quiet' \in [Fields \X Kinds -> BOOLEAN]
<1>1. pending' \subseteq Event
  BY DEF Write, ChangesTypeOK
<1>2. quiet' \in [Fields \X Kinds -> BOOLEAN]
  BY Zenon DEF Write
<1>3. QED
  BY <1>1, <1>2

LEMMA NamesFacts ==
    /\ \A p \in Places : FieldOf[p] \in Fields /\ NamesAt[p] \subseteq Names
    /\ \A p \in Places : Blank \notin NamesAt[p]
BY ChangesAssumption DEF Names

LEMMA ScrapeRenames ==
    ASSUME ChangesTypeOK, NEW d \in Fields, Scrape(d) PROVE Renames
<1>1. PICK page \in [PlacesOf(d) -> Names \cup {Blank}], feed \in SUBSET Silent(d) :
        /\ \A p \in PlacesOf(d) : page[p] \in NamesAt[p] \cup {Blank}
        /\ LET after   == [p \in Places |-> IF FieldOf[p] = d THEN Kept(p, page[p]) ELSE holder[p]]
               changed == {p \in Places : after[p] # holder[p] /\ after[p] # Blank}
               news    == {[place |-> p, name |-> after[p],
                            kind |-> IF holder[p] = Blank THEN "filled" ELSE "replaced"] :
                               p \in {q \in changed \ feed : Tellable(q)}}
           IN  /\ holder' = after
               /\ Write({e \in news : ~Queued(e)})
               /\ belief' = [p \in Places |->
                      IF p \notin changed THEN belief[p]
                      ELSE IF \E e \in news : e.place = p /\ ~Masked(e) THEN "stale" ELSE "excused"]
               /\ UNCHANGED <<over, court, fieldRows, run, halts>>
  BY Zenon DEF Scrape
<1> DEFINE after   == [p \in Places |-> IF FieldOf[p] = d THEN Kept(p, page[p]) ELSE holder[p]]
           changed == {p \in Places : after[p] # holder[p] /\ after[p] # Blank}
           news    == {[place |-> p, name |-> after[p],
                        kind |-> IF holder[p] = Blank THEN "filled" ELSE "replaced"] :
                           p \in {q \in changed \ feed : Tellable(q)}}
<1>2. /\ holder' = after /\ Write({e \in news : ~Queued(e)})
      /\ belief' = [p \in Places |->
             IF p \notin changed THEN belief[p]
             ELSE IF \E e \in news : e.place = p /\ ~Masked(e) THEN "stale" ELSE "excused"]
      /\ UNCHANGED <<over, court, fieldRows, run, halts>>
  BY <1>1, Zenon
<1>3. after \in [Places -> Names \cup {Blank}]
  <2>1. ASSUME NEW p \in Places PROVE after[p] \in Names \cup {Blank}
    BY <1>1 DEF ChangesTypeOK, Kept, PlacesOf
  <2> HIDE DEF after
  <2>2. QED
    BY <2>1 DEF after
\* A page never takes a name away.
<1>4. \A p \in Places \ changed : after[p] = holder[p]
  BY DEF Kept
<1>5. /\ \A e \in news : e.place \in changed /\ e = NewsOf(e.place)
      /\ \A p \in changed : after[p] \in Names
  BY <1>2, <1>3 DEF NewsOf
<1>6. news \subseteq Event
  <2> SUFFICES ASSUME NEW p \in changed
               PROVE  [place |-> p, name |-> after[p],
                       kind |-> IF holder[p] = Blank THEN "filled" ELSE "replaced"] \in Event
    OBVIOUS
  <2>1. p \in Places /\ after[p] \in Names
    BY <1>5
  <2> HIDE DEF after
  <2>2. QED
    BY <2>1 DEF Event, Kinds
<1> HIDE DEF after, changed, news
<1>7. /\ pending' \subseteq Event /\ pending' = pending \cup {e \in news : ~Queued(e)}
      /\ quiet' \in [Fields \X Kinds -> BOOLEAN]
  BY <1>2, <1>6, WriteType DEF Write
<1>8. ASSUME NEW p \in Places
      PROVE  \/ /\ holder'[p] = holder[p] /\ belief'[p] = belief[p]
                /\ \A e \in pending' \ pending : e.place # p
             \/ /\ holder'[p] # Blank
                /\ \A e \in pending' \ pending : e.place = p => e = NewsOf(p)
                /\ belief'[p] = "excused" \/ NewsOf(p) \in pending'
  <2>1. CASE p \notin changed
    BY <1>2, <1>4, <1>5, <1>7, <2>1
  <2>2. CASE p \in changed
    <3>1. holder'[p] # Blank
      BY <1>2, <2>2 DEF changed
    <3>2. ASSUME NEW e \in news, e.place = p, ~Masked(e) PROVE NewsOf(p) \in pending'
      BY <1>5, <1>7, <3>2 DEF Masked, Queued
    <3>3. QED
      BY <1>2, <1>5, <1>7, <2>2, <3>1, <3>2
  <2>3. QED
    BY <2>1, <2>2
<1>9. belief' \in [Places -> {"right", "stale", "excused"}]
  BY <1>2 DEF ChangesTypeOK
<1>10. QED
  BY <1>2, <1>3, <1>7, <1>8, <1>9 DEF Renames

LEMMA NameSlotRenames ==
    ASSUME ChangesTypeOK, NEW p \in Places, NEW n \in Names, NameSlot(p, n) PROVE Renames
<1> DEFINE e == [place |-> p, name |-> n, kind |-> "filled"]
           E == IF FieldOf[p] \in Announced THEN {e} ELSE {}
<1>1. /\ holder[p] = Blank /\ n \in NamesAt[p] /\ holder' = [holder EXCEPT ![p] = n]
      /\ belief' = [belief EXCEPT ![p] = IF FieldOf[p] \in Announced THEN "stale" ELSE "excused"]
      /\ UNCHANGED <<over, court, fieldRows, run, halts>>
      /\ Write(E)
  BY DEF NameSlot
<1>2. n # Blank /\ E \subseteq Event
  BY <1>1, NamesFacts DEF Event, Kinds
<1>3. e = NewsOf(p) /\ e.place = p
  BY <1>1 DEF NewsOf, ChangesTypeOK
<1>4. /\ pending' = pending \cup E /\ pending' \subseteq Event
      /\ quiet' \in [Fields \X Kinds -> BOOLEAN]
  <2> HIDE DEF E
  <2>1. QED
    BY <1>1, <1>2, WriteType DEF Write
<1>5. /\ holder' \in [Places -> Names \cup {Blank}]
      /\ belief' \in [Places -> {"right", "stale", "excused"}]
  BY <1>1 DEF ChangesTypeOK
<1>6. \A q \in Places \ {p} : /\ holder'[q] = holder[q] /\ belief'[q] = belief[q]
                              /\ \A f \in pending' \ pending : f.place # q
  BY <1>1, <1>3, <1>4 DEF ChangesTypeOK
<1>7. /\ holder'[p] # Blank
      /\ \A f \in pending' \ pending : f.place = p => f = NewsOf(p)
      /\ belief'[p] = "excused" \/ NewsOf(p) \in pending'
  BY <1>1, <1>2, <1>3, <1>4 DEF ChangesTypeOK
<1>8. QED
  BY <1>1, <1>4, <1>5, <1>6, <1>7 DEF Renames

-----------------------------------------------------------------------------
LEMMA EventsOfType ==
    ASSUME ChangesTypeOK, NEW S, NEW k
    PROVE  UNION {EventsOf(d, k) : d \in S} \in SUBSET Event
BY DEF ChangesTypeOK, EventsOf

LEMMA RunnerType ==
    ASSUME ChangesTypeOK, NEW w \in Runners
    PROVE  /\ run[w] \in Runner /\ AtRest \in Runner
           /\ run[w].fills \subseteq Fields /\ run[w].swaps \subseteq Fields
           /\ run[w].fresh \subseteq Fields /\ run[w].events \subseteq Event
BY DEF ChangesTypeOK, Runner, AtRest

\* What a runner has in hand after a step of w.
LEMMA RunGoes ==
    ASSUME ChangesTypeOK, NEW w \in Runners, NEW r, run' = [run EXCEPT ![w] = r]
    PROVE  run'[w] = r /\ \A v \in Runners \ {w} : run'[v] = run[v]
BY DEF ChangesTypeOK

LEMMA EmptiedType ==
    ASSUME NEW E PROVE Emptied(E) \in [Fields \X Kinds -> BOOLEAN]
BY Zenon DEF Emptied

LEMMA ChangesTypeInit == ChangesInit => ChangesTypeOK
BY ChangesAssumption DEF ChangesInit, ChangesTypeOK, AtRest, Runner

\* A mail changes what is believed of the places it is about, and excuses stay excused.
LEMMA BelieveFacts ==
    ASSUME ChangesTypeOK, NEW w \in Runners, NEW P, NEW N(_), Believe(w, P, N)
    PROVE  /\ belief' \in [Places -> {"right", "stale", "excused"}]
           /\ \A p \in Places :
                 /\ p \notin P \/ belief[p] = "excused" => belief'[p] = belief[p]
                 /\ belief'[p] # "excused" => belief[p] # "excused"
                 /\ p \in P /\ belief'[p] = "stale" => holder[p] \notin N(p)
                 /\ p \in P /\ belief'[p] # "excused" => p \notin InTransit(w)
BY DEF Believe, ChangesTypeOK

LEMMA ChangesTypeStep == ChangesTypeOK /\ [ChangesNext]_changesVars => ChangesTypeOK'
<1> SUFFICES ASSUME ChangesTypeOK, [ChangesNext]_changesVars PROVE ChangesTypeOK'
  OBVIOUS
<1>1. ASSUME Renames PROVE ChangesTypeOK'
  BY <1>1 DEF Renames, ChangesTypeOK
<1>2. ASSUME NEW d \in Fields, Ends(d) \/ \E k \in Kinds : Quiet(d, k) PROVE ChangesTypeOK'
  BY <1>2 DEF Ends, Quiet, ChangesTypeOK
<1>3. ASSUME NEW m \in Matches, GoesOnCourt(m) PROVE ChangesTypeOK'
  BY <1>3 DEF GoesOnCourt, ChangesTypeOK
<1>4. ASSUME NEW w \in Runners, Look(w) PROVE ChangesTypeOK'
  <2> DEFINE fills == IF Owing = {} THEN Whole ELSE {}
             r == [AtRest EXCEPT !.pc = "replaced", !.fills = fills, !.swaps = Ready("replaced")]
  <2>1. fills \subseteq Fields /\ Ready("replaced") \subseteq Fields
    BY DEF Whole, Ready
  <2>2. r \in Runner
    <3> HIDE DEF fills
    <3>1. QED
      BY <2>1 DEF Runner, AtRest
  <2>3. run' = [run EXCEPT ![w] = r]
    BY <1>4 DEF Look
  <2>4. run' \in [Runners -> Runner]
    <3> HIDE DEF r
    <3>1. QED
      BY <2>2, <2>3 DEF ChangesTypeOK
  <2>5. QED
    BY <1>4, <2>4 DEF Look, ChangesTypeOK
<1>5. ASSUME NEW w \in Runners, ClaimSwaps(w) PROVE ChangesTypeOK'
  <2> DEFINE mine == UNION {EventsOf(d, "replaced") : d \in run[w].swaps}
             r == [run[w] EXCEPT !.pc = IF mine = {} THEN "filled" ELSE "tell",
                                 !.swaps = {}, !.events = mine]
  <2>1. mine \in SUBSET Event
    BY EventsOfType
  <2>2. r \in Runner
    <3> HIDE DEF mine
    <3>1. QED
      BY <2>1, RunnerType DEF Runner
  <2>3. run' = [run EXCEPT ![w] = r] /\ pending' = pending \ mine /\ quiet' = Emptied(mine)
    BY <1>5 DEF ClaimSwaps
  <2>4. run' \in [Runners -> Runner]
    <3> HIDE DEF r
    <3>1. QED
      BY <2>2, <2>3 DEF ChangesTypeOK
  <2>5. QED
    BY <1>5, <2>3, <2>4, EmptiedType DEF ClaimSwaps, ChangesTypeOK
<1>6. ASSUME NEW w \in Runners, TellSwaps(w) PROVE ChangesTypeOK'
  <2> DEFINE r == [run[w] EXCEPT !.pc = "filled", !.events = {}]
             Named(p) == {e.name : e \in {f \in run[w].events : f.place = p}}
  <2>1. Believe(w, {e.place : e \in run[w].events}, Named) /\ run' = [run EXCEPT ![w] = r]
    BY <1>6 DEF TellSwaps
  <2>2. belief' \in [Places -> {"right", "stale", "excused"}]
    BY <2>1, BelieveFacts
  <2>3. r \in Runner
    BY RunnerType DEF Runner
  <2>4. run' \in [Runners -> Runner]
    <3> HIDE DEF r
    <3>1. QED
      BY <2>1, <2>3 DEF ChangesTypeOK
  <2>5. QED
    BY <1>6, <2>2, <2>4 DEF TellSwaps, ChangesTypeOK
<1>7. ASSUME NEW w \in Runners, ClaimField(w) PROVE ChangesTypeOK'
  <2> DEFINE r == IF run[w].fills = {} THEN AtRest
                  ELSE [run[w] EXCEPT !.pc = "stamp", !.fresh = run[w].fills \ fieldRows]
  <2>1. run' = [run EXCEPT ![w] = r] /\ fieldRows' = fieldRows \cup run[w].fills
    BY <1>7 DEF ClaimField
  <2>2. r \in Runner
    BY RunnerType DEF Runner
  <2>3. run' \in [Runners -> Runner]
    <3> HIDE DEF r
    <3>1. QED
      BY <2>1, <2>2 DEF ChangesTypeOK
  <2>4. QED
    BY <1>7, <2>1, <2>3, RunnerType DEF ClaimField, ChangesTypeOK
<1>8. ASSUME NEW w \in Runners, StampFills(w) PROVE ChangesTypeOK'
  <2> DEFINE mine == UNION {EventsOf(d, "filled") : d \in run[w].fills}
             lost == {e.place : e \in {f \in mine : FieldOf[f.place] \notin run[w].fresh}}
             r == IF mine = {} \/ run[w].fresh = {} THEN AtRest
                  ELSE [run[w] EXCEPT !.pc = "gather", !.fills = {}, !.events = mine]
  <2>1. mine \in SUBSET Event
    BY EventsOfType
  <2>2. r \in Runner
    <3> HIDE DEF mine
    <3>1. QED
      BY <2>1, RunnerType DEF Runner
  <2>3. /\ run' = [run EXCEPT ![w] = r] /\ pending' = pending \ mine /\ quiet' = Emptied(mine)
        /\ belief' = [p \in Places |-> IF p \in lost THEN "excused" ELSE belief[p]]
    BY <1>8 DEF StampFills
  <2>4. run' \in [Runners -> Runner]
    <3> HIDE DEF r
    <3>1. QED
      BY <2>2, <2>3 DEF ChangesTypeOK
  <2>5. belief' \in [Places -> {"right", "stale", "excused"}]
    <3> HIDE DEF lost
    <3>1. QED
      BY <2>3 DEF ChangesTypeOK
  <2>6. QED
    BY <1>8, <2>3, <2>4, <2>5, EmptiedType DEF StampFills, ChangesTypeOK
<1>9. ASSUME NEW w \in Runners, TellField(w) PROVE ChangesTypeOK'
  <2> DEFINE Standing(p) == {holder[p]}
  <2>1. /\ Believe(w, {p \in Qualifying : FieldOf[p] \in run[w].fresh}, Standing)
        /\ run' = [run EXCEPT ![w] = AtRest]
    BY <1>9 DEF TellField
  <2>2. belief' \in [Places -> {"right", "stale", "excused"}]
    BY <2>1, BelieveFacts
  <2>3. run' \in [Runners -> Runner]
    BY <2>1, RunnerType DEF ChangesTypeOK
  <2>4. QED
    BY <1>9, <2>2, <2>3 DEF TellField, ChangesTypeOK
<1>10. CASE ChangesRestart
  <2>1. run' \in [Runners -> Runner]
    BY <1>10 DEF ChangesRestart, AtRest, Runner
  <2>2. belief' \in [Places -> {"right", "stale", "excused"}]
    BY <1>10 DEF ChangesRestart, ChangesTypeOK
  <2>3. QED
    BY <1>10, <2>1, <2>2, ChangesAssumption DEF ChangesRestart, ChangesTypeOK
<1>11. CASE UNCHANGED changesVars
  BY <1>11 DEF changesVars, ChangesTypeOK
<1>12. QED
  BY <1>1, <1>2, <1>3, <1>4, <1>5, <1>6, <1>7, <1>8, <1>9, <1>10, <1>11, ScrapeRenames,
     NameSlotRenames DEF ChangesNext, Dispatch

\* Events, rows and runners keep their shape.
THEOREM ChangesTypes == ChangesSpec => []ChangesTypeOK
BY ChangesTypeInit, ChangesTypeStep, PTL DEF ChangesSpec

-----------------------------------------------------------------------------
(* What each step of a run does to what it has in hand.                    *)

LEMMA LookFacts ==
    ASSUME ChangesTypeOK, NEW w \in Runners, Look(w)
    PROVE  /\ UNCHANGED <<holder, over, court, pending, quiet, fieldRows, halts, belief>>
           /\ run[w].pc = "idle" /\ run'[w].pc = "replaced"
           /\ run'[w].fills # {} => Owing = {} /\ run'[w].fills = Whole
           /\ run'[w].fresh = {} /\ run'[w].events = {}
           /\ \A v \in Runners \ {w} : run'[v] = run[v]
<1> DEFINE fills == IF Owing = {} THEN Whole ELSE {}
           r == [AtRest EXCEPT !.pc = "replaced", !.fills = fills, !.swaps = Ready("replaced")]
<1>1. /\ run' = [run EXCEPT ![w] = r] /\ run[w].pc = "idle"
      /\ UNCHANGED <<holder, over, court, pending, quiet, fieldRows, halts, belief>>
  BY DEF Look
<1>2. /\ r.pc = "replaced" /\ r.fills = fills /\ r.fresh = {} /\ r.events = {}
  BY DEF AtRest
<1>3. fills # {} => Owing = {} /\ fills = Whole
  OBVIOUS
<1> HIDE DEF r, fills
<1>4. run'[w] = r /\ \A v \in Runners \ {w} : run'[v] = run[v]
  BY <1>1, RunGoes
<1>5. QED
  BY <1>1, <1>2, <1>3, <1>4

LEMMA ClaimSwapsFacts ==
    ASSUME ChangesTypeOK, NEW w \in Runners, ClaimSwaps(w)
    PROVE  /\ UNCHANGED <<holder, over, court, fieldRows, halts, belief>>
           /\ run[w].pc = "replaced" /\ run'[w].pc \in {"filled", "tell"}
           /\ run'[w].pc = "filled" => run'[w].events = {}
           /\ pending' = pending \ run'[w].events
           /\ \E S \in SUBSET Fields :
                 run'[w].events = {e \in pending : FieldOf[e.place] \in S /\ e.kind = "replaced"}
           /\ run'[w].fills = run[w].fills /\ run'[w].fresh = run[w].fresh
           /\ \A v \in Runners \ {w} : run'[v] = run[v]
<1> DEFINE mine == UNION {EventsOf(d, "replaced") : d \in run[w].swaps}
           r == [run[w] EXCEPT !.pc = IF mine = {} THEN "filled" ELSE "tell",
                               !.swaps = {}, !.events = mine]
<1>1. /\ run' = [run EXCEPT ![w] = r] /\ pending' = pending \ mine /\ run[w].pc = "replaced"
      /\ UNCHANGED <<holder, over, court, fieldRows, halts, belief>>
  BY DEF ClaimSwaps
<1>2. mine = {e \in pending : FieldOf[e.place] \in run[w].swaps /\ e.kind = "replaced"}
  BY DEF EventsOf
<1>3. /\ r.pc = (IF mine = {} THEN "filled" ELSE "tell") /\ r.events = mine
      /\ r.fills = run[w].fills /\ r.fresh = run[w].fresh
  <2> HIDE DEF mine
  <2>1. QED
    BY RunnerType DEF Runner
<1> HIDE DEF r, mine
<1>4. run'[w] = r /\ \A v \in Runners \ {w} : run'[v] = run[v]
  BY <1>1, RunGoes
<1>5. QED
  BY <1>1, <1>2, <1>3, <1>4, RunnerType

LEMMA TellSwapsFacts ==
    ASSUME ChangesTypeOK, NEW w \in Runners, TellSwaps(w)
    PROVE  /\ UNCHANGED <<holder, over, court, pending, quiet, fieldRows, halts>>
           /\ run[w].pc = "tell" /\ run'[w].pc = "filled" /\ run'[w].events = {}
           /\ run'[w].fills = run[w].fills /\ run'[w].fresh = run[w].fresh
           /\ \A v \in Runners \ {w} : run'[v] = run[v]
           /\ \A p \in Places :
                 /\ (\A e \in run[w].events : e.place # p) \/ belief[p] = "excused"
                       => belief'[p] = belief[p]
                 /\ belief'[p] # "excused" => belief[p] # "excused"
                 /\ \A e \in run[w].events :
                       e.place = p /\ belief'[p] = "stale" => e.name # holder[p]
                 /\ \A e \in run[w].events :
                       e.place = p /\ belief'[p] # "excused" => p \notin InTransit(w)
<1> DEFINE r == [run[w] EXCEPT !.pc = "filled", !.events = {}]
           P == {e.place : e \in run[w].events}
           Named(p) == {e.name : e \in {f \in run[w].events : f.place = p}}
<1>1. /\ Believe(w, P, Named) /\ run' = [run EXCEPT ![w] = r] /\ run[w].pc = "tell"
      /\ UNCHANGED <<holder, over, court, pending, quiet, fieldRows, halts>>
  BY DEF TellSwaps
<1>2. r.pc = "filled" /\ r.events = {} /\ r.fills = run[w].fills /\ r.fresh = run[w].fresh
  BY RunnerType DEF Runner
<1>3. /\ \A p : p \in P <=> \E e \in run[w].events : e.place = p
      /\ \A p : \A e \in run[w].events : e.place = p => e.name \in Named(p)
  OBVIOUS
<1>5. \A p \in Places :
         /\ p \notin P \/ belief[p] = "excused" => belief'[p] = belief[p]
         /\ belief'[p] # "excused" => belief[p] # "excused"
         /\ p \in P /\ belief'[p] = "stale" => holder[p] \notin Named(p)
         /\ p \in P /\ belief'[p] # "excused" => p \notin InTransit(w)
  BY <1>1 DEF Believe, ChangesTypeOK
<1> HIDE DEF r, P, Named
<1>4. run'[w] = r /\ \A v \in Runners \ {w} : run'[v] = run[v]
  BY <1>1, RunGoes
<1>6. QED
  BY <1>1, <1>2, <1>3, <1>4, <1>5

LEMMA ClaimFieldFacts ==
    ASSUME ChangesTypeOK, NEW w \in Runners, ClaimField(w)
    PROVE  /\ UNCHANGED <<holder, over, court, pending, quiet, halts, belief>>
           /\ fieldRows' = fieldRows \cup run[w].fills
           /\ run[w].pc = "filled"
           /\ run[w].fills = {} => run'[w] = AtRest
           /\ run[w].fills # {} =>
                 /\ run'[w].pc = "stamp" /\ run'[w].fresh = run[w].fills \ fieldRows
                 /\ run'[w].fills = run[w].fills /\ run'[w].events = run[w].events
           /\ \A v \in Runners \ {w} : run'[v] = run[v]
<1> DEFINE s == [run[w] EXCEPT !.pc = "stamp", !.fresh = run[w].fills \ fieldRows]
           r == IF run[w].fills = {} THEN AtRest ELSE s
<1>1. /\ run' = [run EXCEPT ![w] = r] /\ fieldRows' = fieldRows \cup run[w].fills
      /\ run[w].pc = "filled"
      /\ UNCHANGED <<holder, over, court, pending, quiet, halts, belief>>
  BY DEF ClaimField
<1>2. /\ s.pc = "stamp" /\ s.fresh = run[w].fills \ fieldRows
      /\ s.fills = run[w].fills /\ s.events = run[w].events
  BY RunnerType DEF Runner
<1> HIDE DEF s
<1>3. run'[w] = r /\ \A v \in Runners \ {w} : run'[v] = run[v]
  BY <1>1, RunGoes
<1>4. QED
  BY <1>1, <1>2, <1>3

LEMMA StampFillsFacts ==
    ASSUME ChangesTypeOK, NEW w \in Runners, StampFills(w)
    PROVE  /\ UNCHANGED <<holder, over, court, fieldRows, halts>>
           /\ run[w].pc = "stamp"
           /\ pending' = {e \in pending : ~(FieldOf[e.place] \in run[w].fills /\ e.kind = "filled")}
           /\ \/ run'[w] = AtRest
              \/ /\ run'[w].pc = "gather" /\ run'[w].fills = {} /\ run'[w].fresh = run[w].fresh
                 /\ run'[w].events = pending \ pending'
           /\ run'[w] = AtRest => run[w].fresh = {} \/ pending' = pending
           /\ \A v \in Runners \ {w} : run'[v] = run[v]
           /\ \A p \in Places :
                 IF \E e \in pending \ pending' : e.place = p /\ FieldOf[p] \notin run[w].fresh
                 THEN belief'[p] = "excused" ELSE belief'[p] = belief[p]
<1> DEFINE mine == UNION {EventsOf(d, "filled") : d \in run[w].fills}
           lost == {e.place : e \in {f \in mine : FieldOf[f.place] \notin run[w].fresh}}
           s == [run[w] EXCEPT !.pc = "gather", !.fills = {}, !.events = mine]
           r == IF mine = {} \/ run[w].fresh = {} THEN AtRest ELSE s
<1>1. /\ run' = [run EXCEPT ![w] = r] /\ pending' = pending \ mine /\ run[w].pc = "stamp"
      /\ belief' = [p \in Places |-> IF p \in lost THEN "excused" ELSE belief[p]]
      /\ UNCHANGED <<holder, over, court, fieldRows, halts>>
  BY DEF StampFills
<1>2. mine = {e \in pending : FieldOf[e.place] \in run[w].fills /\ e.kind = "filled"}
  BY DEF EventsOf
<1>3. pending \ pending' = mine
  <2> HIDE DEF mine
  <2>1. QED
    BY <1>1, <1>2
<1>4. \A p : p \in lost <=> \E e \in mine : e.place = p /\ FieldOf[p] \notin run[w].fresh
  <2> HIDE DEF mine
  <2>1. QED
    OBVIOUS
<1>5. /\ s.pc = "gather" /\ s.fills = {} /\ s.fresh = run[w].fresh /\ s.events = mine
  <2> HIDE DEF mine
  <2>1. QED
    BY RunnerType DEF Runner
<1> HIDE DEF s, lost, mine
<1>6. run'[w] = r /\ \A v \in Runners \ {w} : run'[v] = run[v]
  BY <1>1, RunGoes
<1>7. mine = {} => pending' = pending
  BY <1>1
<1>8. r = AtRest \/ r = s
  OBVIOUS
<1>9. r = AtRest => run[w].fresh = {} \/ mine = {}
  BY <1>5 DEF AtRest
<1>10. \A p \in Places : IF \E e \in mine : e.place = p /\ FieldOf[p] \notin run[w].fresh
                         THEN belief'[p] = "excused" ELSE belief'[p] = belief[p]
  BY <1>1, <1>4
<1> HIDE DEF r
<1>11. QED
  BY <1>1, <1>2, <1>3, <1>5, <1>6, <1>7, <1>8, <1>9, <1>10

LEMMA TellFieldFacts ==
    ASSUME ChangesTypeOK, NEW w \in Runners, TellField(w)
    PROVE  /\ UNCHANGED <<holder, over, court, pending, quiet, fieldRows, halts>>
           /\ run[w].pc = "gather" /\ run'[w] = AtRest
           /\ \A v \in Runners \ {w} : run'[v] = run[v]
           /\ \A p \in Places :
                 /\ belief'[p] # "excused" => belief[p] # "excused"
                 /\ IF p \in Qualifying /\ FieldOf[p] \in run[w].fresh
                    THEN belief'[p] # "stale" \/ belief'[p] = belief[p]
                    ELSE belief'[p] = belief[p]
                 /\ p \in Qualifying /\ FieldOf[p] \in run[w].fresh /\ belief'[p] # "excused"
                       => p \notin InTransit(w) /\ belief'[p] = "right"
<1> DEFINE P == {p \in Qualifying : FieldOf[p] \in run[w].fresh}
           Standing(p) == {holder[p]}
<1>1. /\ Believe(w, P, Standing) /\ run' = [run EXCEPT ![w] = AtRest] /\ run[w].pc = "gather"
      /\ UNCHANGED <<holder, over, court, pending, quiet, fieldRows, halts>>
  BY DEF TellField
<1>2. run'[w] = AtRest /\ \A v \in Runners \ {w} : run'[v] = run[v]
  BY <1>1, RunGoes
<1>3. /\ belief' \in [Places -> {"right", "stale", "excused"}]
      /\ \A p \in Places :
         /\ p \notin P \/ belief[p] = "excused" => belief'[p] = belief[p]
         /\ belief'[p] # "excused" => belief[p] # "excused"
         /\ p \in P /\ belief'[p] = "stale" => holder[p] \notin Standing(p)
         /\ p \in P /\ belief'[p] # "excused" => p \notin InTransit(w)
  BY <1>1 DEF Believe, ChangesTypeOK
<1>4. \A p \in Places : p \in P <=> p \in Qualifying /\ FieldOf[p] \in run[w].fresh
  OBVIOUS
<1>5. \A p : holder[p] \in Standing(p)
  OBVIOUS
<1> HIDE DEF P, Standing
<1>6. QED
  BY <1>1, <1>2, <1>3, <1>4, <1>5

LEMMA RestartFacts ==
    ASSUME ChangesTypeOK, ChangesRestart
    PROVE  /\ UNCHANGED <<holder, over, court, pending, quiet, fieldRows>>
           /\ \A w \in Runners : run'[w] = AtRest
           /\ \A p \in Places :
                 IF \E w \in Runners : \/ FieldOf[p] \in run[w].fresh
                                       \/ \E e \in run[w].events : e.place = p
                 THEN belief'[p] = "excused" ELSE belief'[p] = belief[p]
BY DEF ChangesRestart

-----------------------------------------------------------------------------
(* What a run may hold at each step of its way.                            *)

Hands(w) ==
    /\ run[w].pc \notin {"tell", "gather"} => run[w].events = {}
    /\ run[w].pc = "tell" => \A e \in run[w].events : e.kind = "replaced"
    /\ run[w].pc = "gather" => \A e \in run[w].events : e.kind = "filled"
    /\ run[w].pc \in {"stamp", "gather"} => run[w].fills \cup run[w].fresh \subseteq fieldRows
    /\ run[w].pc \notin {"stamp", "gather"} => run[w].fresh = {}
    /\ \A d \in run[w].fills \ fieldRows : EventsOf(d, "filled") # {}

HandsOK == \A w \in Runners : Hands(w)

LEMMA AtRestFacts ==
    /\ AtRest.pc = "idle" /\ AtRest.swaps = {} /\ AtRest.fills = {}
    /\ AtRest.fresh = {} /\ AtRest.events = {}
BY DEF AtRest

LEMMA HandsInit == ChangesInit => HandsOK
BY DEF ChangesInit, HandsOK, Hands, AtRest

\* A run that is not stepping keeps what it may hold, if no field not announced loses its events.
LEMMA HandsStay ==
    ASSUME NEW w \in Runners, Hands(w), run'[w] = run[w], fieldRows \subseteq fieldRows',
           \A d \in run[w].fills \ fieldRows' : EventsOf(d, "filled") # {} => EventsOf(d, "filled")' # {}
    PROVE  Hands(w)'
BY DEF Hands

LEMMA RestHands == ASSUME NEW w \in Runners, run'[w] = AtRest PROVE Hands(w)'
BY AtRestFacts DEF Hands

LEMMA HandsStep ==
    ASSUME ChangesTypeOK, HandsOK, [ChangesNext]_changesVars PROVE HandsOK'
<1>1. ASSUME run' = run, fieldRows' = fieldRows, pending \subseteq pending' PROVE HandsOK'
  BY <1>1, HandsStay DEF HandsOK, EventsOf
<1>2. ASSUME Renames PROVE HandsOK'
  BY <1>1, <1>2 DEF Renames
<1>3. ASSUME \/ \E d \in Fields : Ends(d) \/ \E k \in Kinds : Quiet(d, k)
             \/ \E m \in Matches : GoesOnCourt(m)
             \/ UNCHANGED changesVars
      PROVE  HandsOK'
  BY <1>1, <1>3 DEF Ends, Quiet, GoesOnCourt, changesVars
<1>4. ASSUME NEW w \in Runners, Look(w) PROVE HandsOK'
  <2>1. \A v \in Runners \ {w} : Hands(v)'
    BY <1>4, LookFacts, HandsStay DEF HandsOK, EventsOf
  <2>2. \A d \in run'[w].fills : EventsOf(d, "filled")' # {}
    <3>1. \A d \in Whole : EventsOf(d, "filled") # {}
      BY DEF Whole, Ready
    <3>2. \A d : EventsOf(d, "filled")' = EventsOf(d, "filled")
      BY <1>4, LookFacts DEF EventsOf
    <3>3. QED
      BY <1>4, <3>1, <3>2, LookFacts
  <2>3. Hands(w)'
    BY <1>4, <2>2, LookFacts DEF Hands
  <2>4. QED
    BY <2>1, <2>3 DEF HandsOK
<1>5. ASSUME NEW w \in Runners, ClaimSwaps(w) PROVE HandsOK'
  <2>1. \A d : EventsOf(d, "filled")' = EventsOf(d, "filled")
    BY <1>5, ClaimSwapsFacts DEF EventsOf
  <2>2. \A v \in Runners \ {w} : Hands(v)'
    BY <1>5, <2>1, ClaimSwapsFacts, HandsStay DEF HandsOK
  <2>3. Hands(w)'
    BY <1>5, <2>1, ClaimSwapsFacts DEF Hands, HandsOK
  <2>4. QED
    BY <2>2, <2>3 DEF HandsOK
<1>6. ASSUME NEW w \in Runners, TellSwaps(w) PROVE HandsOK'
  <2>1. \A v \in Runners \ {w} : Hands(v)'
    BY <1>6, TellSwapsFacts, HandsStay DEF HandsOK, EventsOf
  <2>2. Hands(w)'
    BY <1>6, TellSwapsFacts DEF Hands, HandsOK, EventsOf
  <2>3. QED
    BY <2>1, <2>2 DEF HandsOK
<1>7. ASSUME NEW w \in Runners, ClaimField(w) PROVE HandsOK'
  <2>1. \A v \in Runners \ {w} : Hands(v)'
    BY <1>7, ClaimFieldFacts, HandsStay DEF HandsOK, EventsOf
  <2>2. Hands(w)'
    <3>1. CASE run[w].fills = {}
      BY <1>7, <3>1, ClaimFieldFacts, RestHands
    <3>2. CASE run[w].fills # {}
      BY <1>7, <3>2, ClaimFieldFacts DEF Hands, HandsOK
    <3>3. QED
      BY <3>1, <3>2
  <2>3. QED
    BY <2>1, <2>2 DEF HandsOK
<1>8. ASSUME NEW w \in Runners, StampFills(w) PROVE HandsOK'
  <2>1. \A d \in Fields \ run[w].fills : EventsOf(d, "filled")' = EventsOf(d, "filled")
    BY <1>8, StampFillsFacts DEF EventsOf
  <2>2. run[w].fills \subseteq fieldRows
    BY <1>8, StampFillsFacts DEF HandsOK, Hands
  <2>3. \A v \in Runners \ {w} : Hands(v)'
    <3> TAKE v \in Runners \ {w}
    <3>1. \A d \in run[v].fills \ fieldRows : d \in Fields \ run[w].fills
      BY <2>2, RunnerType
    <3>2. QED
      BY <1>8, <2>1, <3>1, StampFillsFacts, HandsStay DEF HandsOK
  <2>4. Hands(w)'
    <3>1. CASE run'[w] = AtRest
      BY <3>1, RestHands
    <3>2. CASE run'[w] # AtRest
      BY <1>8, <3>2, StampFillsFacts DEF Hands, HandsOK
    <3>3. QED
      BY <3>1, <3>2
  <2>5. QED
    BY <2>3, <2>4 DEF HandsOK
<1>9. ASSUME NEW w \in Runners, TellField(w) PROVE HandsOK'
  BY <1>9, TellFieldFacts, HandsStay, RestHands DEF HandsOK, EventsOf
<1>10. CASE ChangesRestart
  BY <1>10, RestartFacts, RestHands DEF HandsOK
<1>11. QED
  BY <1>2, <1>3, <1>4, <1>5, <1>6, <1>7, <1>8, <1>9, <1>10, ScrapeRenames, NameSlotRenames
     DEF ChangesNext, Dispatch

\* A run of the dispatch holds events only from its claim to its mail, of the kind it
\* tells, and a field's events only after the field's row is written: for any number of
\* runs, pages and restarts.
THEOREM HandsHold == ChangesSpec => [](ChangesTypeOK /\ HandsOK)
<1>1. ChangesInit => ChangesTypeOK /\ HandsOK
  BY ChangesTypeInit, HandsInit
<1>2. (ChangesTypeOK /\ HandsOK) /\ [ChangesNext]_changesVars => (ChangesTypeOK /\ HandsOK)'
  BY ChangesTypeStep, HandsStep
<1>3. QED
  BY <1>1, <1>2, PTL DEF ChangesSpec

-----------------------------------------------------------------------------
(* A field is announced whole.                                             *)

\* From the look that finds every draw of the tournament whole, no name goes away.
StillWhole ==
    \A w \in Runners :
        run[w].fills \cup run[w].fresh # {} => \A d \in Fields \ over : Unnamed(d) = {}

LEMMA StillWholeInit == ChangesInit => StillWhole
BY AtRestFacts DEF ChangesInit, StillWhole

LEMMA StillWholeStep ==
    ASSUME ChangesTypeOK, StillWhole, [ChangesNext]_changesVars PROVE StillWhole'
<1>1. ASSUME holder' = holder, over \subseteq over',
             \A w \in Runners : run'[w].fills \cup run'[w].fresh # {}
                                    => run[w].fills \cup run[w].fresh # {}
      PROVE  StillWhole'
  BY <1>1 DEF StillWhole, Unnamed
<1>2. ASSUME Renames PROVE StillWhole'
  <2>1. \A d : Unnamed(d)' \subseteq Unnamed(d)
    BY <1>2 DEF Renames, Unnamed, PlacesOf
  <2>2. QED
    BY <1>2, <2>1 DEF Renames, StillWhole
<1>3. ASSUME \/ \E d \in Fields : Ends(d) \/ \E k \in Kinds : Quiet(d, k)
             \/ \E m \in Matches : GoesOnCourt(m)
             \/ UNCHANGED changesVars
      PROVE  StillWhole'
  BY <1>1, <1>3 DEF Ends, Quiet, GoesOnCourt, changesVars
<1>4. ASSUME NEW w \in Runners, Look(w) PROVE StillWhole'
  <2>1. run'[w].fills # {} => \A d \in Fields \ over : Unnamed(d) = {}
    BY <1>4, LookFacts DEF Owing, Whole
  <2>2. QED
    BY <1>4, <2>1, LookFacts DEF StillWhole, Unnamed
<1>5. ASSUME NEW w \in Runners, ClaimSwaps(w) PROVE StillWhole'
  BY <1>1, <1>5, ClaimSwapsFacts
<1>6. ASSUME NEW w \in Runners, TellSwaps(w) PROVE StillWhole'
  BY <1>1, <1>6, TellSwapsFacts
<1>7. ASSUME NEW w \in Runners, ClaimField(w) PROVE StillWhole'
  BY <1>1, <1>7, ClaimFieldFacts, AtRestFacts
<1>8. ASSUME NEW w \in Runners, StampFills(w) PROVE StillWhole'
  BY <1>1, <1>8, StampFillsFacts, AtRestFacts
<1>9. ASSUME NEW w \in Runners, TellField(w) PROVE StillWhole'
  BY <1>1, <1>9, TellFieldFacts, AtRestFacts
<1>10. CASE ChangesRestart
  BY <1>1, <1>10, RestartFacts, AtRestFacts
<1>11. QED
  BY <1>2, <1>3, <1>4, <1>5, <1>6, <1>7, <1>8, <1>9, <1>10, ScrapeRenames, NameSlotRenames
     DEF ChangesNext, Dispatch

\* However many runs of the dispatch overlap, and however the pages change between their
\* steps: when a field is told, no draw of the tournament still to finish has a blank
\* place, because no source of names takes one away.
THEOREM TheFieldIsWhole == ChangesSpec => []FieldAnnouncedWhole
<1>1. ChangesInit => StillWhole
  BY StillWholeInit
<1>2. ChangesTypeOK /\ StillWhole /\ [ChangesNext]_changesVars => StillWhole'
  BY StillWholeStep
<1>3. StillWhole => FieldAnnouncedWhole
  BY DEF StillWhole, FieldAnnouncedWhole
<1>4. QED
  BY <1>1, <1>2, <1>3, ChangesTypes, PTL DEF ChangesSpec

-----------------------------------------------------------------------------
(* The announcement of a field is an outbox item.                          *)

FieldNews == INSTANCE Outbox WITH Items <- Fields, state <- FieldItem

\* Somebody has the draw's row and has not told the field yet.
BeingTold(d) == \E w \in Runners : d \in run[w].fresh

LEMMA FieldMoves ==
    ASSUME ChangesTypeOK, HandsOK, HandsOK', [ChangesNext]_changesVars, NEW d \in Fields
    PROVE  FieldItem'[d] # FieldItem[d] =>
               <<FieldItem[d], FieldItem'[d]>> \in FieldNews!Moves
<1>0. /\ \A w \in Runners : run[w].fresh \subseteq fieldRows
      /\ BeingTold(d) => FieldItem[d] = "claimed" /\ d \in fieldRows
      /\ BeingTold(d)' => FieldItem'[d] = "claimed" /\ d \in fieldRows'
      /\ ~BeingTold(d) /\ d \in fieldRows => FieldItem[d] = "closed"
      /\ ~BeingTold(d)' /\ d \in fieldRows' => FieldItem'[d] = "closed"
      /\ d \notin fieldRows => FieldItem[d] \in {"waiting", "idle"}
      /\ d \notin fieldRows' => FieldItem'[d] \in {"waiting", "idle"}
      /\ d \notin fieldRows /\ EventsOf(d, "filled") # {} => FieldItem[d] = "waiting"
  <2>1. \A w \in Runners : run[w].fresh \subseteq fieldRows
    BY DEF HandsOK, Hands
  <2>2. \A w \in Runners : run'[w].fresh \subseteq fieldRows'
    BY DEF HandsOK, Hands
  <2>3. /\ BeingTold(d) => FieldItem[d] = "claimed" /\ d \in fieldRows
        /\ ~BeingTold(d) /\ d \in fieldRows => FieldItem[d] = "closed"
        /\ d \notin fieldRows
              => FieldItem[d] = IF EventsOf(d, "filled") # {} THEN "waiting" ELSE "idle"
    BY <2>1 DEF FieldItem, BeingTold
  <2>4. /\ BeingTold(d)' => FieldItem'[d] = "claimed" /\ d \in fieldRows'
        /\ ~BeingTold(d)' /\ d \in fieldRows' => FieldItem'[d] = "closed"
        /\ d \notin fieldRows' => FieldItem'[d] \in {"waiting", "idle"}
    BY <2>2 DEF FieldItem, BeingTold
  <2>5. QED
    BY <2>1, <2>3, <2>4
\* Most steps write no row and take up no field.
<1>1. ASSUME fieldRows' = fieldRows, \A w \in Runners : run'[w].fresh \subseteq run[w].fresh
      PROVE  FieldItem'[d] # FieldItem[d] =>
                 <<FieldItem[d], FieldItem'[d]>> \in FieldNews!Moves
  <2>1. BeingTold(d)' => BeingTold(d)
    BY <1>1 DEF BeingTold
  <2>2. QED
    BY <1>0, <1>1, <2>1 DEF FieldNews!Moves, FieldNews!Open
<1>2. ASSUME NEW w \in Runners, ClaimField(w)
      PROVE  FieldItem'[d] # FieldItem[d] =>
                 <<FieldItem[d], FieldItem'[d]>> \in FieldNews!Moves
  <2>1. /\ fieldRows' = fieldRows \cup run[w].fills
        /\ run[w].fresh = {}
        /\ run'[w].fresh = run[w].fills \ fieldRows
        /\ \A v \in Runners \ {w} : run'[v] = run[v]
    BY <1>2, ClaimFieldFacts, AtRestFacts DEF HandsOK, Hands
  <2>2. CASE d \in run[w].fills \ fieldRows
    <3>1. FieldItem[d] = "waiting"
      BY <1>0, <2>2 DEF HandsOK, Hands
    <3>2. BeingTold(d)'
      BY <2>1, <2>2 DEF BeingTold
    <3>3. QED
      BY <1>0, <3>1, <3>2 DEF FieldNews!Moves
  <2>3. CASE d \notin run[w].fills \ fieldRows
    <3>1. BeingTold(d)' = BeingTold(d) /\ (d \in fieldRows' <=> d \in fieldRows)
      BY <2>1, <2>3 DEF BeingTold
    <3>2. QED
      BY <1>0, <3>1 DEF FieldNews!Moves, FieldNews!Open
  <2>4. QED
    BY <2>2, <2>3
<1>3. ASSUME NEW w \in Runners, Dispatch(w), ~ClaimField(w)
      PROVE  fieldRows' = fieldRows /\ \A v \in Runners : run'[v].fresh \subseteq run[v].fresh
  <2>1. CASE Look(w)
    BY <2>1, LookFacts
  <2>2. CASE ClaimSwaps(w)
    BY <2>2, ClaimSwapsFacts
  <2>3. CASE TellSwaps(w)
    BY <2>3, TellSwapsFacts
  <2>4. CASE StampFills(w)
    BY <2>4, StampFillsFacts, AtRestFacts
  <2>5. CASE TellField(w)
    BY <2>5, TellFieldFacts, AtRestFacts
  <2>6. QED
    BY <1>3, <2>1, <2>2, <2>3, <2>4, <2>5 DEF Dispatch
<1>4. ASSUME ~\E w \in Runners : Dispatch(w)
      PROVE  fieldRows' = fieldRows /\ \A v \in Runners : run'[v].fresh \subseteq run[v].fresh
  <2>1. CASE ChangesRestart
    BY <2>1, RestartFacts, AtRestFacts
  <2>2. CASE ~ChangesRestart
    BY <1>4, <2>2, ScrapeRenames, NameSlotRenames
       DEF ChangesNext, Renames, Ends, Quiet, GoesOnCourt, changesVars
  <2>3. QED
    BY <2>1, <2>2
<1>5. QED
  BY <1>1, <1>2, <1>3, <1>4

\* The announcement of a qualifying field implements the outbox: a draw whose row is
\* written is never offered again, whichever run, scrape or restart comes after.
THEOREM FieldsAreAnOutbox == ChangesSpec => FieldNews!OutboxSpec
<1>1. ChangesInit => FieldNews!OutboxInit
  BY AtRestFacts DEF ChangesInit, FieldNews!OutboxInit, FieldItem, EventsOf
<1>2. (ChangesTypeOK /\ HandsOK) /\ (ChangesTypeOK /\ HandsOK)' /\ [ChangesNext]_changesVars
          => [FieldNews!OutboxNext]_FieldItem
  <2> SUFFICES ASSUME ChangesTypeOK, HandsOK, HandsOK', [ChangesNext]_changesVars
               PROVE  FieldNews!OutboxNext
    OBVIOUS
  <2>1. DOMAIN FieldItem' = Fields
    BY DEF FieldItem
  <2>2. QED
    BY <2>1, FieldMoves DEF FieldNews!OutboxNext
<1>3. QED
  BY <1>1, <1>2, HandsHold, PTL DEF ChangesSpec, FieldNews!OutboxSpec

-----------------------------------------------------------------------------
(* Whoever holds a place has been told, or is about to be.                 *)

\* A place that is not a qualifier's or a lucky loser's has a name from the start.  The
\* announcement of a field names only those two, yet it stamps every filled event.
OthersNamed == \A p \in Places \ Qualifying : holder[p] # Blank

\* What a run has claimed and is going to tell.
InHand(w) == {e \in run[w].events : run[w].pc = "tell" \/ FieldOf[e.place] \in run[w].fresh}
Afoot(e)  == e \in pending \/ \E w \in Runners : e \in InHand(w)

\* An event is of a place that has a name, and a filled one of a place that had none.
Origins ==
    \A e \in pending \cup UNION {run[w].events : w \in Runners} :
        holder[e.place] # Blank /\ (e.kind = "filled" => e.place \in Qualifying)

\* The swaps queued of a place tell its holder too.
SwapQueued ==
    \A p \in Places : \A e \in pending :
        belief[p] # "excused" /\ e.place = p /\ e.kind = "replaced" =>
            \E f \in pending : f.place = p /\ f.kind = "replaced" /\ f.name = holder[p]

\* And so do those in hand, unless what has happened since is queued, or another run is
\* to tell of the place.
Covered(w, p) ==
    \/ \E v \in Runners \ {w} : \E f \in InHand(v) : f.place = p
    \/ \E f \in run[w].events \cup pending : f.place = p /\ f.name = holder[p]
SwapInHand ==
    \A w \in Runners : \A e \in run[w].events :
        run[w].pc = "tell" => belief[e.place] = "excused" \/ Covered(w, e.place)

Owed ==
    \A p \in Places : belief[p] = "stale" => \E e : Afoot(e) /\ e.place = p /\ e.name = holder[p]

Books == OthersNamed /\ Origins /\ SwapQueued /\ SwapInHand /\ Owed

LEMMA BooksInit == ChangesInit /\ OthersNamed => Books
BY AtRestFacts DEF ChangesInit, Books, OthersNamed, Origins, SwapQueued, SwapInHand, Owed

\* The steps of the world, and of sources that name nobody.
LEMMA BooksStay ==
    ASSUME Books, UNCHANGED <<holder, pending, run, belief>> PROVE Books'
BY DEF Books, OthersNamed, Origins, SwapQueued, SwapInHand, Owed, Covered, Afoot, InHand

LEMMA BooksRename ==
    ASSUME ChangesTypeOK, Books, Renames PROVE Books'
<1>0. /\ run' = run /\ pending \subseteq pending' /\ pending' \subseteq Event
      /\ \A p \in Places :
          \/ /\ holder'[p] = holder[p] /\ belief'[p] = belief[p]
             /\ \A e \in pending' \ pending : e.place # p
          \/ /\ holder'[p] # Blank
             /\ \A e \in pending' \ pending : e.place = p => e = NewsOf(p)
             /\ belief'[p] = "excused" \/ NewsOf(p) \in pending'
      /\ \A p \in Places : NewsOf(p).place = p /\ NewsOf(p).name = holder'[p]
      /\ \A p \in Places : NewsOf(p).kind = IF holder[p] = Blank THEN "filled" ELSE "replaced"
      /\ \A e \in Event : e.place \in Places
  BY DEF Renames, NewsOf, Event
<1>1. OthersNamed'
  BY <1>0 DEF Books, OthersNamed
<1>2. Origins'
  <2>1. \A e \in pending \cup UNION {run[w].events : w \in Runners} : e.place \in Places
    BY RunnerType DEF ChangesTypeOK, Event
  <2>2. ASSUME NEW e \in pending' \ pending
        PROVE  holder'[e.place] # Blank /\ (e.kind = "filled" => e.place \in Qualifying)
    BY <1>0 DEF Books, OthersNamed
  <2>3. ASSUME NEW e \in pending \cup UNION {run[w].events : w \in Runners}
        PROVE  holder'[e.place] # Blank /\ (e.kind = "filled" => e.place \in Qualifying)
    BY <1>0, <2>1 DEF Books, Origins
  <2>4. QED
    BY <1>0, <2>2, <2>3 DEF Origins
<1>3. SwapQueued'
  <2> SUFFICES ASSUME NEW p \in Places, NEW e \in pending', belief'[p] # "excused",
                      e.place = p, e.kind = "replaced"
               PROVE  \E f \in pending' : f.place = p /\ f.kind = "replaced" /\ f.name = holder'[p]
    BY DEF SwapQueued
  <2>1. CASE holder'[p] = holder[p] /\ belief'[p] = belief[p] /\ e \in pending
    BY <1>0, <2>1 DEF Books, SwapQueued
  <2>2. CASE NewsOf(p) \in pending' /\ (e \in pending \/ e = NewsOf(p))
    <3>1. holder[p] # Blank
      BY <1>0, <2>2 DEF Books, Origins
    <3>2. QED
      BY <1>0, <2>2, <3>1
  <2>3. QED
    BY <1>0, <2>1, <2>2
<1>4. \A w \in Runners : InHand(w)' = InHand(w)
  BY <1>0 DEF InHand
<1>5. SwapInHand'
  <2> SUFFICES ASSUME NEW w \in Runners, NEW e \in run[w].events, run[w].pc = "tell"
               PROVE  belief'[e.place] = "excused" \/ Covered(w, e.place)'
    BY <1>0 DEF SwapInHand
  <2>1. e.place \in Places
    BY RunnerType, <1>0
  <2>2. CASE holder'[e.place] = holder[e.place] /\ belief'[e.place] = belief[e.place]
    BY <1>0, <1>4, <2>2 DEF Books, SwapInHand, Covered
  <2>3. CASE belief'[e.place] = "excused" \/ NewsOf(e.place) \in pending'
    BY <1>0, <2>1, <2>3 DEF Covered
  <2>4. QED
    BY <1>0, <2>1, <2>2, <2>3
<1>6. Owed'
  <2> SUFFICES ASSUME NEW p \in Places, belief'[p] = "stale"
               PROVE  \E e : Afoot(e)' /\ e.place = p /\ e.name = holder'[p]
    BY DEF Owed
  <2>1. CASE holder'[p] = holder[p] /\ belief'[p] = belief[p]
    BY <1>0, <1>4, <2>1 DEF Books, Owed, Afoot
  <2>2. CASE NewsOf(p) \in pending'
    BY <1>0, <2>2 DEF Afoot
  <2>3. QED
    BY <1>0, <2>1, <2>2
<1>7. QED
  BY <1>1, <1>2, <1>3, <1>5, <1>6 DEF Books

\* A step of a run names nobody, offers no new event, and excuses for good.
LEMMA OriginsKept ==
    ASSUME Books, holder' = holder, pending' \subseteq pending,
           \A v \in Runners : run'[v].events \subseteq run[v].events \cup pending
    PROVE  OthersNamed' /\ Origins'
BY DEF Books, OthersNamed, Origins

LEMMA BooksLook ==
    ASSUME ChangesTypeOK, HandsOK, Books, NEW w \in Runners, Look(w) PROVE Books'
<1>1. /\ \A v \in Runners : run'[v].events = run[v].events
      /\ \A v \in Runners : run'[v].fresh = run[v].fresh
      /\ \A v \in Runners : run'[v].pc = "tell" <=> run[v].pc = "tell"
      /\ holder' = holder /\ pending' = pending /\ belief' = belief
  BY LookFacts DEF HandsOK, Hands
<1>2. \A v \in Runners : InHand(v)' = InHand(v)
  BY <1>1 DEF InHand
<1>3. OthersNamed' /\ Origins'
  BY <1>1, OriginsKept
<1>4. SwapQueued' /\ SwapInHand' /\ Owed'
  BY <1>1, <1>2 DEF Books, SwapQueued, SwapInHand, Owed, Covered, Afoot
<1>5. QED
  BY <1>3, <1>4 DEF Books

LEMMA BooksClaimSwaps ==
    ASSUME ChangesTypeOK, HandsOK, Books, NEW w \in Runners, ClaimSwaps(w) PROVE Books'
<1>1. PICK S \in SUBSET Fields :
        run'[w].events = {e \in pending : FieldOf[e.place] \in S /\ e.kind = "replaced"}
  BY ClaimSwapsFacts
<1>2. /\ holder' = holder /\ belief' = belief
      /\ run[w].events = {} /\ run[w].fresh = {} /\ run'[w].fresh = {}
      /\ run[w].pc = "replaced"
      /\ run'[w].pc = "filled" => run'[w].events = {}
      /\ run'[w].pc \in {"filled", "tell"}
      /\ pending' = pending \ run'[w].events
      /\ \A v \in Runners \ {w} : run'[v] = run[v]
  BY ClaimSwapsFacts DEF HandsOK, Hands
<1>3. InHand(w)' = run'[w].events /\ \A v \in Runners \ {w} : InHand(v)' = InHand(v)
  BY <1>2 DEF InHand
<1>4. OthersNamed' /\ Origins'
  BY <1>1, <1>2, OriginsKept
<1>5. SwapQueued'
  \* The swaps of a place are claimed together.
  BY <1>1, <1>2 DEF Books, SwapQueued
<1>6. SwapInHand'
  <2> SUFFICES ASSUME NEW v \in Runners, NEW e \in run'[v].events, run'[v].pc = "tell"
               PROVE  belief[e.place] = "excused" \/ Covered(v, e.place)'
    BY <1>2 DEF SwapInHand
  <2>1. CASE v = w
    <3>1. e.place \in Places /\ e \in pending /\ e.kind = "replaced" /\ FieldOf[e.place] \in S
      BY <1>1, <2>1 DEF ChangesTypeOK, Event
    <3>2. belief[e.place] # "excused" =>
            \E f \in pending : f.place = e.place /\ f.kind = "replaced" /\ f.name = holder[e.place]
      BY <3>1 DEF Books, SwapQueued
    <3>3. QED
      BY <1>1, <1>2, <2>1, <3>1, <3>2 DEF Covered
  <2>2. CASE v # w
    <3>1. belief[e.place] = "excused" \/ Covered(v, e.place)
      BY <1>2, <2>2 DEF Books, SwapInHand
    <3>2. CASE \E u \in Runners \ {v} : \E f \in InHand(u) : f.place = e.place
      <4>1. InHand(w) = {}
        BY <1>2 DEF InHand
      <4>2. QED
        BY <1>3, <3>2, <4>1 DEF Covered
    <3>3. CASE \E f \in run[v].events \cup pending : f.place = e.place /\ f.name = holder[e.place]
      BY <1>2, <1>3, <2>2, <3>3 DEF Covered
    <3>4. QED
      BY <3>1, <3>2, <3>3 DEF Covered
  <2>3. QED
    BY <2>1, <2>2
<1>7. Owed'
  <2>1. \A e : Afoot(e) => Afoot(e)'
    BY <1>2, <1>3 DEF Afoot, InHand
  <2>2. QED
    BY <1>2, <2>1 DEF Books, Owed
<1>8. QED
  BY <1>4, <1>5, <1>6, <1>7 DEF Books

LEMMA BooksTellSwaps ==
    ASSUME ChangesTypeOK, HandsOK, Books, NEW w \in Runners, TellSwaps(w) PROVE Books'
<1>1. /\ holder' = holder /\ pending' = pending
      /\ run[w].pc = "tell" /\ run'[w].pc = "filled" /\ run'[w].events = {}
      /\ \A v \in Runners \ {w} : run'[v] = run[v]
      /\ \A p \in Places :
            /\ (\A e \in run[w].events : e.place # p) \/ belief[p] = "excused"
                  => belief'[p] = belief[p]
            /\ belief'[p] # "excused" => belief[p] # "excused"
            /\ \A e \in run[w].events :
                  e.place = p /\ belief'[p] = "stale" => e.name # holder[p]
            /\ \A e \in run[w].events :
                  e.place = p /\ belief'[p] # "excused" => p \notin InTransit(w)
      /\ \A v \in Runners : \A e \in run[v].events : e.place \in Places
  BY TellSwapsFacts, RunnerType DEF Event
<1>2. \A v \in Runners \ {w} : InHand(v)' = InHand(v)
  BY <1>1 DEF InHand
<1>3. \A v \in Runners \ {w} : \A e \in run[v].events : e.place \in InTransit(w)
  BY DEF InTransit
<1>4. OthersNamed' /\ Origins'
  BY <1>1, OriginsKept
<1>5. SwapQueued'
  BY <1>1 DEF Books, SwapQueued
<1>6. SwapInHand'
  <2> SUFFICES ASSUME NEW v \in Runners \ {w}, NEW e \in run[v].events, run[v].pc = "tell",
                      belief'[e.place] # "excused"
               PROVE  Covered(v, e.place)'
    BY <1>1 DEF SwapInHand
  <2>1. Covered(v, e.place)
    BY <1>1 DEF Books, SwapInHand
  \* Two runs that have the same place in hand excuse it.
  <2>2. \A f \in InHand(w) : f.place # e.place
    BY <1>1, <1>3 DEF InHand
  <2>3. QED
    BY <1>1, <1>2, <2>1, <2>2 DEF Covered
<1>7. Owed'
  <2> SUFFICES ASSUME NEW p \in Places, belief'[p] = "stale"
               PROVE  \E e : Afoot(e)' /\ e.place = p /\ e.name = holder[p]
    BY <1>1 DEF Owed
  <2>1. CASE \A e \in run[w].events : e.place # p
    <3>1. belief[p] = "stale"
      BY <1>1, <2>1
    <3>2. PICK e : Afoot(e) /\ e.place = p /\ e.name = holder[p]
      BY <3>1 DEF Books, Owed
    <3>3. e \notin InHand(w)
      BY <2>1, <3>2 DEF InHand
    <3>4. QED
      BY <1>1, <1>2, <3>2, <3>3 DEF Afoot
  \* What was told of p is not its holder, and nobody else is to tell of it.
  <2>2. CASE \E e \in run[w].events : e.place = p
    <3>1. PICK e \in run[w].events : e.place = p
      BY <2>2
    <3>2. belief[p] # "excused" /\ p \notin InTransit(w)
      BY <1>1, <3>1
    <3>3. Covered(w, p)
      BY <1>1, <3>1, <3>2 DEF Books, SwapInHand
    <3>4. \A v \in Runners \ {w} : \A f \in InHand(v) : f.place # p
      BY <1>3, <3>2 DEF InHand
    <3>5. QED
      BY <1>1, <3>3, <3>4 DEF Covered, Afoot
  <2>3. QED
    BY <2>1, <2>2
<1>8. QED
  BY <1>4, <1>5, <1>6, <1>7 DEF Books

LEMMA BooksClaimField ==
    ASSUME ChangesTypeOK, HandsOK, Books, NEW w \in Runners, ClaimField(w) PROVE Books'
<1>1. /\ holder' = holder /\ pending' = pending /\ belief' = belief
      /\ run[w].events = {} /\ run'[w].events = {}
      /\ run[w].pc = "filled" /\ run'[w].pc # "tell"
      /\ \A v \in Runners \ {w} : run'[v] = run[v]
  BY ClaimFieldFacts, AtRestFacts DEF HandsOK, Hands
<1>2. \A v \in Runners : InHand(v)' = InHand(v)
  BY <1>1 DEF InHand
<1>3. OthersNamed' /\ Origins'
  BY <1>1, OriginsKept
<1>4. SwapQueued' /\ Owed'
  BY <1>1, <1>2 DEF Books, SwapQueued, Owed, Afoot
<1>5. SwapInHand'
  BY <1>1, <1>2 DEF Books, SwapInHand, Covered
<1>6. QED
  BY <1>3, <1>4, <1>5 DEF Books

LEMMA BooksStampFills ==
    ASSUME ChangesTypeOK, HandsOK, Books, NEW w \in Runners, StampFills(w) PROVE Books'
<1>1. /\ holder' = holder /\ run[w].pc = "stamp" /\ run[w].events = {}
      /\ pending' = {e \in pending : ~(FieldOf[e.place] \in run[w].fills /\ e.kind = "filled")}
      /\ \/ run'[w] = AtRest
         \/ /\ run'[w].pc = "gather" /\ run'[w].fresh = run[w].fresh
            /\ run'[w].events = pending \ pending'
      /\ run'[w] = AtRest => run[w].fresh = {} \/ pending' = pending
      /\ \A v \in Runners \ {w} : run'[v] = run[v]
      /\ \A p \in Places :
            IF \E e \in pending \ pending' : e.place = p /\ FieldOf[p] \notin run[w].fresh
            THEN belief'[p] = "excused" ELSE belief'[p] = belief[p]
      /\ \A e \in pending : e.place \in Places
      /\ \A v \in Runners : \A e \in run[v].events : e.place \in Places
  BY StampFillsFacts, RunnerType DEF HandsOK, Hands, ChangesTypeOK, Event
<1>2. InHand(w) = {} /\ \A v \in Runners \ {w} : InHand(v)' = InHand(v)
  BY <1>1 DEF InHand
\* An event stamped is in hand, or its place is excused.
<1>3. \A e \in pending \ pending' : belief'[e.place] = "excused" \/ e \in InHand(w)'
  <2> TAKE e \in pending \ pending'
  <2>1. CASE FieldOf[e.place] \notin run[w].fresh
    BY <1>1, <2>1
  <2>2. CASE FieldOf[e.place] \in run[w].fresh
    BY <1>1, <2>2 DEF InHand
  <2>3. QED
    BY <2>1, <2>2
<1>4. \A p \in Places : belief'[p] # "excused" => belief'[p] = belief[p]
  BY <1>1
<1>5. OthersNamed' /\ Origins'
  BY <1>1, AtRestFacts, OriginsKept
<1>6. SwapQueued'
  BY <1>1, <1>4 DEF Books, SwapQueued
<1>7. SwapInHand'
  <2> SUFFICES ASSUME NEW v \in Runners \ {w}, NEW e \in run[v].events, run[v].pc = "tell",
                      belief'[e.place] # "excused"
               PROVE  Covered(v, e.place)'
    BY <1>1, AtRestFacts DEF SwapInHand
  <2>1. Covered(v, e.place)
    BY <1>1, <1>4 DEF Books, SwapInHand
  <2>2. CASE \E u \in Runners \ {v} : \E f \in InHand(u) : f.place = e.place
    BY <1>2, <2>2 DEF Covered
  <2>3. CASE \E f \in run[v].events \cup pending : f.place = e.place /\ f.name = holder[e.place]
    BY <1>1, <1>3, <2>3 DEF Covered
  <2>4. QED
    BY <2>1, <2>2, <2>3 DEF Covered
<1>8. Owed'
  <2> SUFFICES ASSUME NEW p \in Places, belief'[p] = "stale"
               PROVE  \E e : Afoot(e)' /\ e.place = p /\ e.name = holder[p]
    BY <1>1 DEF Owed
  <2>1. PICK e : Afoot(e) /\ e.place = p /\ e.name = holder[p]
    BY <1>4 DEF Books, Owed
  <2>2. QED
    BY <1>2, <1>3, <2>1 DEF Afoot
<1>9. QED
  BY <1>5, <1>6, <1>7, <1>8 DEF Books

LEMMA BooksTellField ==
    ASSUME ChangesTypeOK, HandsOK, Books, NEW w \in Runners, TellField(w) PROVE Books'
<1>1. /\ holder' = holder /\ pending' = pending
      /\ run[w].pc = "gather" /\ run'[w] = AtRest
      /\ \A v \in Runners \ {w} : run'[v] = run[v]
      /\ \A p \in Places :
            /\ belief'[p] # "excused" => belief[p] # "excused"
            /\ p \in Qualifying /\ FieldOf[p] \in run[w].fresh
                  => (belief'[p] = "right" /\ p \notin InTransit(w)) \/ belief'[p] = "excused"
            /\ ~(p \in Qualifying /\ FieldOf[p] \in run[w].fresh) => belief'[p] = belief[p]
      /\ \A v \in Runners : \A e \in run[v].events : e.place \in Places
  BY TellFieldFacts, RunnerType DEF Event
<1>2. \A v \in Runners \ {w} : InHand(v)' = InHand(v)
  BY <1>1 DEF InHand
\* What the run had in hand it has told.
<1>3. \A e \in InHand(w) : e.place \in Qualifying /\ FieldOf[e.place] \in run[w].fresh
  BY <1>1 DEF InHand, HandsOK, Hands, Books, Origins
<1>4. OthersNamed' /\ Origins'
  BY <1>1, AtRestFacts, OriginsKept
<1>5. SwapQueued'
  BY <1>1 DEF Books, SwapQueued
<1>6. SwapInHand'
  <2> SUFFICES ASSUME NEW v \in Runners \ {w}, NEW e \in run[v].events, run[v].pc = "tell",
                      belief'[e.place] # "excused"
               PROVE  Covered(v, e.place)'
    BY <1>1, AtRestFacts DEF SwapInHand
  <2>1. Covered(v, e.place)
    BY <1>1 DEF Books, SwapInHand
  <2>2. e.place \in InTransit(w)
    BY DEF InTransit
  <2>3. \A f \in InHand(w) : f.place # e.place
    BY <1>1, <1>3, <2>2
  <2>4. QED
    BY <1>1, <1>2, <2>1, <2>3 DEF Covered
<1>7. Owed'
  <2> SUFFICES ASSUME NEW p \in Places, belief'[p] = "stale"
               PROVE  \E e : Afoot(e)' /\ e.place = p /\ e.name = holder[p]
    BY <1>1 DEF Owed
  <2>1. belief[p] = "stale" /\ ~(p \in Qualifying /\ FieldOf[p] \in run[w].fresh)
    BY <1>1
  <2>2. PICK e : Afoot(e) /\ e.place = p /\ e.name = holder[p]
    BY <2>1 DEF Books, Owed
  <2>3. QED
    BY <1>1, <1>2, <1>3, <2>1, <2>2 DEF Afoot
<1>8. QED
  BY <1>4, <1>5, <1>6, <1>7 DEF Books

LEMMA BooksRestart ==
    ASSUME ChangesTypeOK, Books, ChangesRestart PROVE Books'
<1>1. /\ holder' = holder /\ pending' = pending
      /\ \A w \in Runners : run'[w] = AtRest
      /\ \A p \in Places : /\ belief'[p] # "excused" => belief'[p] = belief[p]
                           /\ (\E w \in Runners : \E e \in run[w].events : e.place = p)
                                 => belief'[p] = "excused"
  BY RestartFacts
<1>2. OthersNamed' /\ Origins'
  BY <1>1, AtRestFacts, OriginsKept
<1>3. SwapQueued' /\ SwapInHand'
  BY <1>1, AtRestFacts DEF Books, SwapQueued, SwapInHand
<1>4. Owed'
  BY <1>1 DEF Books, Owed, Afoot, InHand
<1>5. QED
  BY <1>2, <1>3, <1>4 DEF Books

\* Whatever the pages do, however many runs of the dispatch overlap and wherever a
\* restart falls: a holder of whom nothing right was told, and who is not excused, has an
\* event that names him, queued or in the hands of a run that tells it.
THEOREM HoldersGetTold == OthersNamed /\ ChangesSpec => []HoldersAreTold
<1>1. ChangesInit /\ OthersNamed => Books
  BY BooksInit
<1>2. ChangesTypeOK /\ HandsOK /\ Books /\ [ChangesNext]_changesVars => Books'
  <2> SUFFICES ASSUME ChangesTypeOK, HandsOK, Books, [ChangesNext]_changesVars PROVE Books'
    OBVIOUS
  <2>1. ASSUME NEW w \in Runners, Dispatch(w) PROVE Books'
    BY <2>1, BooksLook, BooksClaimSwaps, BooksTellSwaps, BooksClaimField, BooksStampFills,
       BooksTellField DEF Dispatch
  <2>2. ASSUME \/ \E d \in Fields : Ends(d) \/ \E k \in Kinds : Quiet(d, k)
               \/ \E m \in Matches : GoesOnCourt(m)
               \/ UNCHANGED changesVars
        PROVE  Books'
    BY <2>2, BooksStay DEF Ends, Quiet, GoesOnCourt, changesVars
  <2>3. QED
    BY <2>1, <2>2, ScrapeRenames, NameSlotRenames, BooksRename, BooksRestart DEF ChangesNext
<1>3. Books => HoldersAreTold
  BY DEF Books, Owed, Afoot, InHand, HoldersAreTold
<1>4. QED
  BY <1>1, <1>2, <1>3, HandsHold, PTL DEF ChangesSpec
=============================================================================
