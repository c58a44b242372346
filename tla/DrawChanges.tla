----------------------------- MODULE DrawChanges -----------------------------
(***************************************************************************)
(* What is told of a draw after its release: a name replaced at a place of *)
(* the bracket, and, once for each draw, that its qualifiers are in.       *)
(*                                                                         *)
(* _do_scrape writes an event for each change in the transaction of the    *)
(* change; ESPN's pairings name a blank place and write one too.           *)
(* _notify_pending_draw_changes, every five minutes and once more as a     *)
(* task at startup, dispatches the draws whose page has been quiet, and    *)
(* holds a qualifying field until it is whole and its sister draw's is.    *)
(*                                                                         *)
(* A definition named A_B just before A is A gone wrong in the way B says: *)
(* no behaviour uses it, and each property is known to catch one of them.  *)
(***************************************************************************)
EXTENDS Naturals

CONSTANTS
    Fields,         \* the draws of one tournament
    Announced,      \* those whose release has been told (draw_release_notified_at)
    Official,       \* those whose tournament publishes its own draw (the US Open's)
    Places,         \* places of their brackets, each with its entry row
    Qualifying,     \* those that belong to a qualifier or lucky loser
    FieldOf,        \* place -> its draw
    MatchOf,        \* place -> its match of the first round
    NamesAt,        \* place -> the players who may be named there
    Runners,        \* the job, and the startup task
    Blank,          \* a place without a name
    Halts           \* bound on restarts

ASSUME ChangesAssumption ==
    /\ Announced \subseteq Fields /\ Official \subseteq Fields
    /\ FieldOf \in [Places -> Fields]
    /\ Qualifying \subseteq Places
    /\ \A p \in Places : Blank \notin NamesAt[p]
    /\ Halts \in Nat

VARIABLES
    holder,     \* place -> the name stored
    over,       \* the draws completed
    court,      \* match -> whether it is under way, and who says so
    pending,    \* the events not stamped
    quiet,      \* <<draw, kind>>: its newest event has aged
    fieldRows,  \* rows of qualifiers_added_notifications
    run,        \* runner -> where it stands
    halts,
    belief      \* history: place -> whether what was told last of it names its holder,
                \* or need not

changesVars == <<holder, over, court, pending, quiet, fieldRows, run, halts, belief>>

Names  == UNION {NamesAt[p] : p \in Places}
Matches == {MatchOf[p] : p \in Places}
Kinds  == {"replaced", "filled"}
PlacesOf(d) == {p \in Places : FieldOf[p] = d}
Event  == [place : Places, name : Names, kind : Kinds]

Runner == [pc : {"idle", "replaced", "tell", "filled", "stamp", "gather"},
           swaps : SUBSET Fields,       \* the draws ready, of each kind
           fills : SUBSET Fields,
           fresh : SUBSET Fields,       \* the fields it may announce
           events : SUBSET Event]       \* the events it has claimed

AtRest == [pc |-> "idle", swaps |-> {}, fills |-> {}, fresh |-> {}, events |-> {}]

ChangesInit ==
    /\ holder \in [Places -> Names \cup {Blank}]
    /\ \A p \in Places : holder[p] \in NamesAt[p] \cup {Blank}
    /\ over = {}
    /\ court = [m \in Matches |-> "no"]
    /\ pending = {} /\ quiet = [k \in Fields \X Kinds |-> FALSE]
    /\ fieldRows = {}
    /\ run = [w \in Runners |-> AtRest]
    /\ halts = 0
    /\ belief = [p \in Places |-> "right"]

EventsOf(d, k) == {e \in pending : FieldOf[e.place] = d /\ e.kind = k}
Unnamed(d)     == {p \in PlacesOf(d) : holder[p] = Blank}

-----------------------------------------------------------------------------
(* The world.                                                              *)

\* Sofascore sees a match first; ESPN and the draw page follow.  (Of a draw that is not
\* announced nobody asks.)
GoesOnCourt(m) ==
    /\ \E p \in Places : MatchOf[p] = m /\ FieldOf[p] \in Announced /\ holder[p] # Blank
    /\ court[m] # "seen"
    /\ court' = [court EXCEPT ![m] = IF @ = "no" THEN "sofa" ELSE "seen"]
    /\ UNCHANGED <<holder, over, pending, quiet, fieldRows, run, halts, belief>>

Ends(d) ==
    /\ d \notin over
    /\ over' = over \cup {d}
    /\ UNCHANGED <<holder, court, pending, quiet, fieldRows, run, halts, belief>>

\* No event of the draw and kind for ten minutes.
Quiet(d, k) ==
    /\ EventsOf(d, k) # {} /\ ~quiet[<<d, k>>]
    /\ quiet' = [quiet EXCEPT ![<<d, k>>] = TRUE]
    /\ UNCHANGED <<holder, over, court, pending, fieldRows, run, halts, belief>>

-----------------------------------------------------------------------------
(* The sources of names.                                                   *)

\* "A source that does not know the name does not get to erase it."
Kept(p, n) == IF n = Blank THEN holder[p] ELSE n

\* "One event per change, however many times the scrape re-sees it."
Queued_Never(e)   == FALSE
Queued_ByPlace(e) == \E f \in pending : f.place = e.place
Queued(e)         == \E f \in pending : f.place = e.place /\ f.name = e.name

\* The event queued is of the other kind.
Masked(e)        == e \notin pending /\ \E f \in pending : f.place = e.place /\ f.name = e.name

Tellable(p) == FieldOf[p] \in Announced \ over /\ court[MatchOf[p]] # "seen"

\* The events of one commit restart the clock of their draw and kind.
Write(E) ==
    /\ pending' = pending \cup E
    /\ quiet' = [k \in Fields \X Kinds |->
                    quiet[k] /\ \A e \in E : <<FieldOf[e.place], e.kind>> # k]

\* fill_missing_slots: where the page leaves a place blank, the tournament's own draw
\* may name it once the events are computed, and no event is written of that.
Silent(d) == IF d \in Official THEN Unnamed(d) ELSE {}

\* A scrape of the draw reads a name, or nothing, at each place: from the tournament's
\* own draw at the places of feed, from the page at the others.
Scrape(d) ==
    \E page \in [PlacesOf(d) -> Names \cup {Blank}], feed \in SUBSET Silent(d) :
        /\ \A p \in PlacesOf(d) : page[p] \in NamesAt[p] \cup {Blank}
        /\ LET after   == [p \in Places |-> IF FieldOf[p] = d THEN Kept(p, page[p]) ELSE holder[p]]
               changed == {p \in Places : after[p] # holder[p] /\ after[p] # Blank}
               news    == {[place |-> p, name |-> after[p],
                            kind |-> IF holder[p] = Blank THEN "filled" ELSE "replaced"] :
                               p \in {q \in changed \ feed : Tellable(q)}}
           IN  /\ holder' = after
               /\ Write({e \in news : ~Queued(e)})
               /\ belief' = [p \in Places |->
                      IF p \notin changed THEN belief[p]
                      ELSE IF \E e \in news : e.place = p /\ ~Masked(e) THEN "stale" ELSE "excused"]
               /\ UNCHANGED <<over, court, fieldRows, run, halts>>

\* _fill_unnamed_slots: ESPN pairs somebody with the named player opposite the blank.
NameSlot(p, n) ==
    /\ holder[p] = Blank
    /\ \A q \in Places \ {p} : MatchOf[q] = MatchOf[p] => holder[q] # Blank
    /\ n \in NamesAt[p] /\ \A q \in Places : holder[q] # n
    /\ holder' = [holder EXCEPT ![p] = n]
    /\ Write(IF FieldOf[p] \in Announced
             THEN {[place |-> p, name |-> n, kind |-> "filled"]} ELSE {})
    /\ belief' = [belief EXCEPT ![p] = IF FieldOf[p] \in Announced THEN "stale" ELSE "excused"]
    /\ UNCHANGED <<over, court, fieldRows, run, halts>>

-----------------------------------------------------------------------------
(* _notify_pending_draw_changes.                                           *)

\* Quiet, or overtaken by a match that goes on court.
Ready(k) == {d \in Fields : /\ EventsOf(d, k) # {}
                            /\ \/ quiet[<<d, k>>]
                               \/ \E e \in EventsOf(d, k) : court[MatchOf[e.place]] # "no"}

\* "When all qualifiers are in", in every draw that still owes its field.
Whole_NotAsked == Ready("filled")
Whole          == {d \in Ready("filled") : Unnamed(d) = {}}
Owing          == {d \in Fields \ (over \cup Whole) : EventsOf(d, "filled") # {} \/ Unnamed(d) # {}}

Look(w) ==
    LET fills == IF Owing = {} THEN Whole ELSE {}
    IN  /\ run[w].pc = "idle"
        /\ Ready("replaced") \cup fills # {}
        /\ run' = [run EXCEPT ![w] = [AtRest EXCEPT !.pc = "replaced", !.fills = fills,
                                                    !.swaps = Ready("replaced")]]
        /\ UNCHANGED <<holder, over, court, pending, quiet, fieldRows, halts, belief>>

-----------------------------------------------------------------------------
(* notify_draw_change_batch, for the replaced and then for the filled.     *)

Emptied(E) == [k \in Fields \X Kinds |->
                  quiet[k] /\ \E e \in pending \ E : <<FieldOf[e.place], e.kind>> = k]

\* One conditional UPDATE takes the events; finding none ends the batch.
ClaimSwaps(w) ==
    LET mine == UNION {EventsOf(d, "replaced") : d \in run[w].swaps}
    IN  /\ run[w].pc = "replaced"
        /\ pending' = pending \ mine /\ quiet' = Emptied(mine)
        /\ run' = [run EXCEPT ![w] = [@ EXCEPT !.pc = IF mine = {} THEN "filled" ELSE "tell",
                                               !.swaps = {}, !.events = mine]]
        /\ UNCHANGED <<holder, over, court, fieldRows, halts, belief>>

\* Places about which another runner has events in hand: two mails may cross.
InTransit(w) == {e.place : e \in UNION {run[v].events : v \in Runners \ {w}}}

\* A mail about the places P names the players in N(p) for each of them.
Believe(w, P, N(_)) ==
    belief' = [p \in Places |->
                  IF p \notin P \/ belief[p] = "excused" THEN belief[p]
                  ELSE IF p \in InTransit(w) THEN "excused"
                  ELSE IF holder[p] \in N(p) THEN "right" ELSE "stale"]

TellSwaps(w) ==
    LET told     == run[w].events
        Named(p) == {e.name : e \in {f \in told : f.place = p}}
    IN  /\ run[w].pc = "tell"
        /\ Believe(w, {e.place : e \in told}, Named)
        /\ run' = [run EXCEPT ![w] = [@ EXCEPT !.pc = "filled", !.events = {}]]
        /\ UNCHANGED <<holder, over, court, pending, quiet, fieldRows, halts>>

\* "A draw announces its qualifying field exactly once": one row for each, committed.
ClaimField_Again(w) ==
    /\ run[w].pc = "filled"
    /\ fieldRows' = fieldRows \cup run[w].fills
    /\ run' = [run EXCEPT ![w] = IF run[w].fills = {} THEN AtRest
                                 ELSE [@ EXCEPT !.pc = "stamp", !.fresh = run[w].fills]]
    /\ UNCHANGED <<holder, over, court, pending, quiet, halts, belief>>

ClaimField(w) ==
    /\ run[w].pc = "filled"
    /\ fieldRows' = fieldRows \cup run[w].fills
    /\ run' = [run EXCEPT ![w] = IF run[w].fills = {} THEN AtRest
                                 ELSE [@ EXCEPT !.pc = "stamp", !.fresh = run[w].fills \ fieldRows]]
    /\ UNCHANGED <<holder, over, court, pending, quiet, halts, belief>>

\* Then the events: if another runner has stamped them this one gives up, and if the
\* row was another's nobody is told of them.
StampFills(w) ==
    LET mine == UNION {EventsOf(d, "filled") : d \in run[w].fills}
        lost == {e.place : e \in {f \in mine : FieldOf[f.place] \notin run[w].fresh}}
    IN  /\ run[w].pc = "stamp"
        /\ pending' = pending \ mine /\ quiet' = Emptied(mine)
        /\ run' = [run EXCEPT ![w] = IF mine = {} \/ run[w].fresh = {} THEN AtRest
                                     ELSE [@ EXCEPT !.pc = "gather", !.fills = {},
                                                    !.events = mine]]
        /\ belief' = [p \in Places |-> IF p \in lost THEN "excused" ELSE belief[p]]
        /\ UNCHANGED <<holder, over, court, fieldRows, halts>>

\* What is told is the field as it stands now, not the events.
TellField(w) ==
    LET Standing(p) == {holder[p]}
    IN  /\ run[w].pc = "gather"
        /\ Believe(w, {p \in Qualifying : FieldOf[p] \in run[w].fresh}, Standing)
        /\ run' = [run EXCEPT ![w] = AtRest]
        /\ UNCHANGED <<holder, over, court, pending, quiet, fieldRows, halts>>

\* A batch that was claimed and not sent is lost.
ChangesRestart ==
    /\ halts < Halts /\ halts' = halts + 1
    /\ run' = [w \in Runners |-> AtRest]
    /\ belief' = [p \in Places |->
                     IF \E w \in Runners : \/ FieldOf[p] \in run[w].fresh
                                           \/ \E e \in run[w].events : e.place = p
                     THEN "excused" ELSE belief[p]]
    /\ UNCHANGED <<holder, over, court, pending, quiet, fieldRows>>

Dispatch(w) == Look(w) \/ ClaimSwaps(w) \/ TellSwaps(w) \/ ClaimField(w)
               \/ StampFills(w) \/ TellField(w)

ChangesNext ==
    \/ \E d \in Fields : Ends(d) \/ Scrape(d) \/ \E k \in Kinds : Quiet(d, k)
    \/ \E m \in Matches : GoesOnCourt(m)
    \/ \E p \in Places, n \in Names : NameSlot(p, n)
    \/ \E w \in Runners : Dispatch(w)
    \/ ChangesRestart

\* Time passes and the job runs again and again; the pages may go on changing for ever.
ChangesFair == /\ \A d \in Fields, k \in Kinds : WF_changesVars(Quiet(d, k))
               /\ \A w \in Runners : WF_changesVars(Dispatch(w))
ChangesSpec == ChangesInit /\ [][ChangesNext]_changesVars /\ ChangesFair

-----------------------------------------------------------------------------
(* Properties.                                                             *)

\* Events, rows and runners have the shape the code gives them.
ChangesTypeOK ==
    /\ holder \in [Places -> Names \cup {Blank}]
    /\ over \subseteq Fields /\ fieldRows \subseteq Fields
    /\ court \in [Matches -> {"no", "sofa", "seen"}]
    /\ pending \subseteq Event /\ quiet \in [Fields \X Kinds -> BOOLEAN]
    /\ run \in [Runners -> Runner] /\ halts \in 0 .. Halts
    /\ belief \in [Places -> {"right", "stale", "excused"}]

\* Whoever holds a place of an announced bracket has been told, or an event that says
\* so is waiting or in hand: no change is swallowed by the events already queued, by a
\* page that flaps, or by a batch claimed meanwhile.  Excused are changes to a match
\* under way, names the tournament's own draw gives, what a crash or two crossing mails
\* lose, a field announced already, and a swap back to a name whose event, of the other
\* kind, is still queued.  (A name that comes in a new row has no event either.)
HoldersAreTold ==
    \A p \in Places :
        belief[p] = "stale" =>
            \E e \in pending \cup UNION {run[w].events : w \in Runners} :
                e.place = p /\ e.name = holder[p]

\* "A qualifying field is announced once, complete", and for all draws of the
\* tournament together: when it is told, no draw still to finish has a blank place.
FieldAnnouncedWhole ==
    \A w \in Runners :
        run[w].pc = "gather" /\ run[w].fresh # {} =>
            \A d \in Fields \ over : Unnamed(d) = {}

\* The announcement of a field as an outbox item.
FieldItem ==
    [d \in Fields |->
        IF \E w \in Runners : d \in run[w].fresh THEN "claimed"
        ELSE IF d \in fieldRows THEN "closed"
        ELSE IF EventsOf(d, "filled") # {} THEN "waiting" ELSE "idle"]

\* A swap is dispatched however the page flaps, and so is a field once every place of
\* the tournament has a name.
ChangesGoOut ==
    /\ \A d \in Fields : []<>(EventsOf(d, "replaced") = {})
    /\ []<>((\A d \in Fields : Unnamed(d) = {}) => (\A d \in Fields : EventsOf(d, "filled") = {}))
=============================================================================
