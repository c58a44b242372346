----------------------------- MODULE SofaClient -----------------------------
(***************************************************************************)
(* The one way the backend talks to Sofascore (services/sofascore.py): the *)
(* pacing gate, the circuit breaker, its copy in app_settings, and the     *)
(* choice between this host's own address and the residential proxy.       *)
(*                                                                         *)
(* Callers run in one asyncio process.  A request waits for the gate,      *)
(* which only spaces departures out, leaves it, and is then out of the     *)
(* process's hands until its answer is delivered; what the host answers is *)
(* fixed when the request leaves.                                          *)
(* Times are in ticks still to go, so a deadline is a number that Tick     *)
(* lowers, whichever clock it is kept in.                                  *)
(*                                                                         *)
(* A definition named A_B just before A is A gone wrong in the way B says: *)
(* no behaviour uses it, and each property is known to catch one of them.  *)
(***************************************************************************)
EXTENDS Naturals

CONSTANTS
    Callers,        \* tasks that ask Sofascore for something, or probe the direct route
    Proxies,        \* what may be configured as a proxy
    Base,           \* _BLOCK_COOLDOWN, in ticks
    Longest,        \* _BLOCK_COOLDOWN_MAX
    Cooloff,        \* DIRECT_COOLOFF
    RunCap,         \* bound on _consecutive_blocks; the wait no longer grows there
    Faults          \* bound on restarts, database failures and Sofascore's changes of
                    \* mind, for each choice of proxy

ASSUME SofaAssumption ==
    /\ Proxies \subseteq {"none", "fixed", "rotating"}
    /\ Base \in Nat \ {0} /\ Longest \in Nat /\ Base <= Longest
    /\ Cooloff \in Nat \ {0} /\ RunCap \in Nat \ {0}
    /\ Faults \in [Proxies -> Nat]

VARIABLES
    proxy,      \* what is configured
    refuses,    \* the routes Sofascore refuses at the moment
    breaker,    \* _blocked_until and _consecutive_blocks
    stored,     \* the same two in app_settings
    loaded,     \* _breaker_loaded
    boot,       \* where _load_sofa_egress stands
    direct,     \* _egress_direct
    banked,     \* the route in app_settings is the direct one
    aging,      \* ticks until the last direct refusal has aged
    task,       \* caller -> where its request stands
    faults,     \* faults so far
    lapse       \* history: what has happened that the stored copies do not survive

vars == <<proxy, refuses, breaker, stored, loaded, boot, direct, banked, aging,
          task, faults, lapse>>

world   == <<proxy, refuses>>
startup == <<loaded, boot>>
routing == <<direct, banked, aging>>

Routes == {"direct", "proxy"}
Codes  == {"ok", "refused", "other"}    \* 200; 403; 404, 5xx or no answer
Mark   == [shut : 0 .. Longest, run : 0 .. RunCap]
Closed == [shut |-> 0, run |-> 0]
Lapses == {"row", "route"}              \* see Save, Load, Ask, Trip, Succeed; TryDirect, Bank

Task == [pc : {"idle", "adopting", "queued", "out", "again", "asking",
               "trying", "banking", "saving"},
         code : Codes, saved : BOOLEAN, mark : Mark,
         probe : BOOLEAN,       \* this is the probe
         early : BOOLEAN]       \* history: past its last check when the breaker opened

Resting == [pc |-> "idle", code |-> "other", saved |-> FALSE, mark |-> Closed,
            probe |-> FALSE, early |-> FALSE]

Init ==
    /\ proxy \in Proxies
    /\ refuses = {}
    /\ breaker = Closed /\ stored = Closed
    /\ loaded = FALSE /\ boot = "egress"
    /\ direct = FALSE /\ banked = FALSE /\ aging = 0
    /\ task = [t \in Callers |-> Resting]
    /\ faults = 0 /\ lapse = {}

At(t, pc)  == task[t].pc = pc
Goes(t, r) == task' = [task EXCEPT ![t] = r]

\* Past its last look at the breaker, and not yet answered for good.
Underway(t) == task[t].pc \in {"out", "again", "asking", "trying"}
Trying      == {t \in Callers : At(t, "trying")}
Banking     == {t \in Callers : At(t, "banking")}
Saving      == {t \in Callers : At(t, "saving")}

\* t goes on while the breaker opens behind the others that are under way.
GoesEarly(t, r) ==
    task' = [u \in Callers |-> IF u = t THEN r
                               ELSE [task[u] EXCEPT !.early = @ \/ Underway(u)]]

RowLapses(c) == lapse' = IF c THEN lapse \cup {"row"} ELSE lapse
Fault        == faults < Faults[proxy] /\ faults' = faults + 1

Smaller(a, b) == IF a < b THEN a ELSE b

\* _current_proxy and what a route may answer: a rotating pool hands out a
\* stranger's exit, which may be refused for reasons of its own.
Route == IF direct \/ proxy = "none" THEN "direct" ELSE "proxy"
Fresh == Route = "proxy" /\ proxy = "rotating"
Answers(route) ==
    IF route \in refuses THEN {"refused"}
    ELSE {"ok", "other"} \cup (IF route = "proxy" /\ proxy = "rotating" THEN {"refused"} ELSE {})

-----------------------------------------------------------------------------
(* _get: the breaker, the gate, the request.                               *)

\* The breaker is closed, as far as this process knows.
Clear == breaker.shut = 0

\* The first task to ask adopts the stored breaker; it says so before it has.
Ask(t) ==
    /\ At(t, "idle")
    /\ \/ /\ ~loaded
          /\ loaded' = TRUE
          /\ Goes(t, [Resting EXCEPT !.pc = "adopting"])
          /\ UNCHANGED lapse
       \/ /\ loaded /\ Clear             \* perhaps before the row has been read
          /\ Goes(t, [Resting EXCEPT !.pc = "queued"])
          /\ RowLapses(boot = "breaker" \/ \E u \in Callers : At(u, "adopting"))
          /\ UNCHANGED loaded
    /\ UNCHANGED <<world, routing, breaker, stored, boot, faults>>

\* load_breaker, once the row has been read; a failure to read it is swallowed.
Adopted_Forgotten == Closed
Adopted           == stored

\* What this process had learnt meanwhile is lost.
Load == /\ breaker' = Adopted
        /\ RowLapses(Saving # {} \/ breaker \notin {Closed, stored})

Adopt(t) ==
    /\ At(t, "adopting")
    /\ \/ Load /\ UNCHANGED faults
       \/ Fault /\ RowLapses(TRUE) /\ UNCHANGED breaker
    /\ GoesEarly(t, [Resting EXCEPT !.pc = IF breaker'.shut = 0 THEN "queued" ELSE "idle"])
    /\ UNCHANGED <<world, routing, startup, stored>>

\* The second look, inside the gate and after the pacing sleep.
StillClear_NotAsked == TRUE
StillClear          == breaker.shut = 0

Leave(t) ==
    /\ At(t, "queued")
    /\ IF StillClear
       THEN \E code \in Answers(Route) : Goes(t, [Resting EXCEPT !.pc = "out", !.code = code])
       ELSE Goes(t, Resting)
    /\ UNCHANGED <<world, routing, startup, breaker, stored, faults, lapse>>

\* A refused exit of a rotating pool is exchanged for another, once.
Rotate(t) ==
    /\ At(t, "out") /\ task[t].code = "refused" /\ Fresh
    /\ \E code \in Answers("proxy") :
          Goes(t, [task[t] EXCEPT !.pc = "again", !.code = code])
    /\ UNCHANGED <<world, routing, startup, breaker, stored, faults, lapse>>

\* Only a 403 is a refusal: a 404, a 5xx or no answer leaves the breaker alone.
Refusal_AnyFailure(t) == task[t].code # "ok"
Refusal(t)            == task[t].code = "refused"

Refused(t) == Refusal(t) /\ (At(t, "again") \/ (At(t, "out") /\ ~Fresh))

\* _direct_may_be_tried starts by asking the database when direct was refused last;
\* nothing catches a failure to read it, so the refusal that led here is not counted.
AskDirect(t) ==
    /\ Refused(t) /\ Route = "proxy"
    /\ Goes(t, [task[t] EXCEPT !.pc = "asking"])
    /\ UNCHANGED <<world, routing, startup, breaker, stored, faults, lapse>>

AskFails(t) ==
    /\ At(t, "asking") /\ Fault
    /\ Goes(t, Resting)
    /\ UNCHANGED <<world, routing, startup, breaker, stored, lapse>>

-----------------------------------------------------------------------------
(* What an answer does to the breaker.                                     *)

Cooldown_Uncapped(run) == Base * 2 ^ run
Cooldown(run)          == Smaller(Base * 2 ^ (run - 1), Longest)

\* A refusal opens the breaker for longer the more of them came in a row.
Trip(t) ==
    LET run  == Smaller(breaker.run + 1, RunCap)
        mark == [shut |-> Cooldown(run), run |-> run]
    IN  /\ breaker' = mark
        /\ GoesEarly(t, [Resting EXCEPT !.pc = "saving", !.mark = mark])
        /\ RowLapses(Saving # {})                        \* two saves may land out of order

\* The first answer after a run of refusals ends the run, on the row as well.
Succeed_InMemory(t) ==
    breaker' = [breaker EXCEPT !.run = 0] /\ Goes(t, Resting) /\ UNCHANGED lapse
Succeed(t) ==
    IF breaker.run = 0
    THEN Goes(t, Resting) /\ UNCHANGED <<breaker, lapse>>
    ELSE /\ breaker' = [breaker EXCEPT !.run = 0]
         /\ Goes(t, [Resting EXCEPT !.pc = "saving"])
         /\ RowLapses(~Clear \/ Saving # {})             \* an answer later than the refusal

\* A refusal met on this host's own address, or on a proxy with no way round it.
\* _record_direct_block never switches: while direct is on there is no current proxy.
Trips(t) ==
    /\ \/ Refused(t) /\ Route = "direct"
       \/ At(t, "asking") /\ aging > 0 /\ ~task[t].probe
    /\ Trip(t)
    /\ UNCHANGED <<world, routing, startup, stored, faults>>

Answered(t) ==
    /\ At(t, "out") \/ At(t, "again")
    /\ ~Refusal(t)
    /\ IF task[t].code = "ok" THEN Succeed(t)
                              ELSE Goes(t, Resting) /\ UNCHANGED <<breaker, lapse>>
    /\ UNCHANGED <<world, routing, startup, stored, faults>>

\* _save_breaker is best effort.
Save(t) ==
    /\ At(t, "saving")
    /\ \/ stored' = task[t].mark /\ UNCHANGED <<faults, lapse>>
       \/ Fault /\ RowLapses(TRUE) /\ UNCHANGED stored
    /\ Goes(t, Resting)
    /\ UNCHANGED <<world, routing, startup, breaker>>

-----------------------------------------------------------------------------
(* The direct route: probe_direct, _try_direct.                            *)

\* The two-hourly probe looks at the breaker, then asks the database.
Probe(t) ==
    /\ At(t, "idle")
    /\ \A u \in Callers : ~task[u].probe
    /\ Route = "proxy" /\ Clear
    /\ Goes(t, [Resting EXCEPT !.pc = "asking", !.probe = TRUE])
    /\ UNCHANGED <<world, routing, startup, breaker, stored, faults, lapse>>

ProbeDeclines(t) ==
    /\ At(t, "asking") /\ aging > 0 /\ task[t].probe
    /\ Goes(t, Resting)
    /\ UNCHANGED <<world, routing, startup, breaker, stored, faults, lapse>>

\* The route is switched for everybody while the one request is out.
TryDirect(t) ==
    /\ At(t, "asking") /\ aging = 0
    /\ direct' = TRUE
    /\ \E code \in Answers("direct") :
          Goes(t, [task[t] EXCEPT !.pc = "trying", !.code = code, !.saved = direct])
    /\ lapse' = IF Trying # {} \/ boot # "done" THEN lapse \cup {"route"} ELSE lapse
    /\ UNCHANGED <<world, startup, breaker, stored, banked, aging, faults>>

\* The route the try leaves behind.
RouteAfter_Kept(t) == TRUE
RouteAfter(t)      == task[t].code = "ok" \/ task[t].saved

\* The route is settled in memory as the answer comes in ...
Tried(t) ==
    /\ At(t, "trying")
    /\ direct' = RouteAfter(t)
    /\ Goes(t, [task[t] EXCEPT !.pc = "banking"])
    /\ UNCHANGED <<world, startup, breaker, stored, banked, aging, faults, lapse>>

\* ... and then stored: the route that answered, or the time of the refusal.  A
\* refused try is the caller's refusal too; the probe's costs only its request.
Bank(t) ==
    /\ IF task[t].code = "ok" THEN banked' = TRUE /\ UNCHANGED aging
                              ELSE aging' = Cooloff /\ UNCHANGED banked
    /\ CASE ~task[t].probe /\ task[t].code = "ok"      -> Succeed(t)
         [] ~task[t].probe /\ task[t].code = "refused" -> Trip(t)
         [] OTHER -> Goes(t, Resting) /\ UNCHANGED <<breaker, lapse>>
    /\ UNCHANGED faults

\* Nothing catches a failure of that write: the caller gets its error, an adopted
\* route is on in this process only, and a refusal is neither dated nor counted.
BankFails(t) ==
    /\ Fault
    /\ Goes(t, Resting)
    /\ lapse' = IF task[t].code = "ok" THEN lapse \cup {"route"} ELSE lapse
    /\ UNCHANGED <<breaker, banked, aging>>

Banks(t) ==
    /\ At(t, "banking")
    /\ Bank(t) \/ BankFails(t)
    /\ UNCHANGED <<world, startup, stored, direct>>

-----------------------------------------------------------------------------
(* Startup, restart, and the world.                                        *)

\* _load_sofa_egress is one more task among those that start with the process.
LoadEgress ==
    /\ boot = "egress"
    /\ direct' = (proxy = "none" \/ banked)
    /\ boot' = "breaker"
    /\ loaded' = TRUE
    /\ UNCHANGED <<world, breaker, stored, banked, aging, task, faults, lapse>>

LoadBreaker ==
    /\ boot = "breaker"
    /\ Load
    /\ boot' = "done"
    /\ task' = [t \in Callers |-> [task[t] EXCEPT !.early = @ \/ Underway(t)]]
    /\ UNCHANGED <<world, routing, stored, loaded, faults>>

Restart ==
    /\ Fault
    /\ breaker' = Closed /\ loaded' = FALSE /\ boot' = "egress" /\ direct' = FALSE
    /\ RowLapses(Saving # {})
    /\ task' = [t \in Callers |-> Resting]
    /\ UNCHANGED <<world, stored, banked, aging>>

Less(n) == IF n = 0 THEN 0 ELSE n - 1

Tick ==
    /\ breaker' = [breaker EXCEPT !.shut = Less(@)]
    /\ stored' = [stored EXCEPT !.shut = Less(@)]
    /\ aging' = Less(aging)
    /\ task' = [t \in Callers |-> [task[t] EXCEPT !.mark.shut = Less(@)]]
    /\ UNCHANGED <<world, startup, direct, banked, faults, lapse>>

\* Sofascore starts or stops refusing a route.
Bans(route) ==
    /\ Fault
    /\ refuses' = IF route \in refuses THEN refuses \ {route} ELSE refuses \cup {route}
    /\ UNCHANGED <<routing, startup, proxy, breaker, stored, task, lapse>>

Moves(t) ==
    \/ Adopt(t) \/ Leave(t) \/ Rotate(t) \/ AskDirect(t) \/ AskFails(t) \/ Trips(t)
    \/ Answered(t) \/ Save(t) \/ ProbeDeclines(t) \/ TryDirect(t) \/ Tried(t) \/ Banks(t)

Next ==
    \/ \E t \in Callers : Ask(t) \/ Probe(t) \/ Moves(t)
    \/ LoadEgress \/ LoadBreaker
    \/ Restart \/ Tick
    \/ \E route \in Routes : Bans(route)

\* Time passes, and what has been started is carried on.  Nobody has to ask.
Spec == /\ Init /\ [][Next]_vars
        /\ WF_vars(Tick) /\ WF_vars(LoadEgress) /\ WF_vars(LoadBreaker)
        /\ \A t \in Callers : WF_vars(Moves(t))

-----------------------------------------------------------------------------
(* Properties.                                                             *)

\* Breaker, route and requests have the shape the code gives them.
TypeOK ==
    /\ proxy \in Proxies /\ refuses \subseteq Routes
    /\ breaker \in Mark /\ stored \in Mark /\ loaded \in BOOLEAN
    /\ boot \in {"egress", "breaker", "done"}
    /\ direct \in BOOLEAN /\ banked \in BOOLEAN /\ aging \in 0 .. Cooloff
    /\ task \in [Callers -> Task]
    /\ faults \in 0 .. Faults[proxy] /\ lapse \subseteq Lapses

\* "The first 403 stops ALL traffic": while the breaker is open, whatever is still
\* out was past its last check when it opened.  The callers queued at the gate do not
\* walk into the ban one by one, each counted as one more refusal.
OpenMeansQuiet == ~Clear => \A t \in Callers : Underway(t) => task[t].early

\* "THE BREAKER OUTLIVES THE PROCESS": the row holds what this process knows, once it
\* has read it, unless one of the lapses happened.
Settled == /\ loaded /\ boot # "breaker"
           /\ \A t \in Callers : ~At(t, "adopting") /\ ~At(t, "saving")
KeptOnRow == Settled /\ "row" \notin lapse => stored = breaker

\* "Stored so a restart cannot close it": no request leaves while the row says to
\* wait, whichever task is the first to ask after a restart.
StandsDown ==
    [][\A t \in Callers : At(t, "queued") /\ (At(t, "out"))' /\ "row" \notin lapse
            => stored.shut = 0]_vars

\* Once startup is over, and no try of the direct route is out or has its answer still
\* to store, requests go by the route that was stored: a try that was refused leaves no
\* trace, whether or not its date could be written.  The lapses are a try overlapping
\* another or startup, and an adopted route that could not be stored.
RouteIsBanked ==
    boot = "done" /\ Trying = {} /\ Banking = {} /\ "route" \notin lapse
        => (direct <=> proxy = "none" \/ banked)

\* A Sofascore that refuses nobody is believed again: the breaker closes for good, and
\* no answer that is not a refusal opens it.
Recovers == (<>[](refuses = {} /\ proxy # "rotating")) => <>[]Clear
=============================================================================
