--------------------------- MODULE SettingsCache ---------------------------
(***************************************************************************)
(* A site-wide setting read through an in-process cache                    *)
(* (services/settings.py), and the draws that stamp their own lock mode    *)
(* from it (resolve_draw_lock_mode).                                       *)
(*                                                                         *)
(* Everything runs in one asyncio process.  A reader that misses the cache *)
(* is suspended twice before it fills it: the SELECT runs in the driver's  *)
(* thread, and its answer waits for the event loop.  A writer drops the    *)
(* cached value first and commits after, which is a suspension too.        *)
(*                                                                         *)
(* A definition named A_B just before A is A gone wrong in the way B says: *)
(* no behaviour uses it, and each property is known to catch one of them.  *)
(***************************************************************************)
EXTENDS Naturals

CONSTANTS
    Values,     \* the values the setting may have (LOCK_MODES)
    Default,    \* what a missing row means
    Readers,    \* handlers that resolve a draw's mode
    Writers,    \* admin requests that change the setting
    Draws,
    None

ASSUME SettingsAssumption == Default \in Values /\ None \notin Values

VARIABLES
    stored,     \* the committed row, or None
    cache,      \* _cache[key], or None
    stamp,      \* draw -> its own pick_lock_mode, or None
    reader,     \* reader -> [pc, draw, value]
    writer,     \* writer -> the value it is about to commit, or None
    was,        \* history: every value a reader of the row could have found
    raced       \* history: some fill overlapped a write

vars == <<stored, cache, stamp, reader, writer, was, raced>>

Optional == Values \cup {None}

\* A missing row means the documented default.
Value_Bare(row) == row
Value(row)      == IF row = None THEN Default ELSE row

Resting == [pc |-> "idle", draw |-> None, value |-> None]

Init ==
    /\ stored = None /\ cache = None
    /\ stamp = [d \in Draws |-> None]
    /\ reader = [h \in Readers |-> Resting]
    /\ writer = [w \in Writers |-> None]
    /\ was = {Default}
    /\ raced = FALSE

Writing == \E w \in Writers : writer[w] # None

-----------------------------------------------------------------------------
(* resolve_draw_lock_mode and, in it, get_setting.                         *)

\* The handler loads its draw; one that carries a mode is done.
Load(h, d) ==
    /\ reader[h].pc = "idle"
    /\ stamp[d] = None
    /\ reader' = [reader EXCEPT ![h] = [pc |-> "lookup", draw |-> d, value |-> None]]
    /\ UNCHANGED <<stored, cache, stamp, writer, was, raced>>

LookUp(h) ==
    /\ reader[h].pc = "lookup"
    /\ reader' = [reader EXCEPT ![h].pc = IF cache = None THEN "select" ELSE "stamp",
                                ![h].value = cache]
    /\ UNCHANGED <<stored, cache, stamp, writer, was, raced>>

Select(h) ==
    /\ reader[h].pc = "select"
    /\ reader' = [reader EXCEPT ![h].pc = "fill", ![h].value = Value(stored)]
    /\ UNCHANGED <<stored, cache, stamp, writer, was, raced>>

Fill(h) ==
    /\ reader[h].pc = "fill"
    /\ cache' = reader[h].value
    /\ reader' = [reader EXCEPT ![h].pc = "stamp"]
    /\ raced' = (raced \/ Writing \/ reader[h].value # Value(stored))
    /\ UNCHANGED <<stored, stamp, writer, was>>

\* The draw's mode is committed; a failure to is swallowed.
Stamp(h) ==
    /\ reader[h].pc = "stamp"
    /\ \/ stamp' = [stamp EXCEPT ![reader[h].draw] = reader[h].value]
       \/ UNCHANGED stamp
    /\ reader' = [reader EXCEPT ![h] = Resting]
    /\ UNCHANGED <<stored, cache, writer, was, raced>>

-----------------------------------------------------------------------------
(* set_setting, its caller's commit, and a draw's own override.            *)

\* The row is changed in the session, and the cached read dropped.
Dropped_NotDropped(value) == cache
Dropped_Replaced(value)   == value
Dropped(value)            == None

SetSetting(w, value) ==
    /\ writer[w] = None
    /\ writer' = [writer EXCEPT ![w] = value]
    /\ cache' = Dropped(value)
    /\ UNCHANGED <<stored, stamp, reader, was, raced>>

CommitSetting(w) ==
    /\ writer[w] # None
    /\ stored' = writer[w]
    /\ was' = was \cup {writer[w]}
    /\ writer' = [writer EXCEPT ![w] = None]
    /\ UNCHANGED <<cache, stamp, reader, raced>>

\* "database is locked": the admin gets an error and the row keeps its value.
CommitFails(w) ==
    /\ writer[w] # None
    /\ writer' = [writer EXCEPT ![w] = None]
    /\ UNCHANGED <<stored, cache, stamp, reader, was, raced>>

\* An admin overrides a draw's mode.
Override(d, value) ==
    /\ stamp' = [stamp EXCEPT ![d] = value]
    /\ UNCHANGED <<stored, cache, reader, writer, was, raced>>

\* An admin clears a draw's mode; set_draw_pick_lock_mode stamps it again at once.
ClearStamp(h, d) ==
    /\ reader[h].pc = "idle"
    /\ stamp' = [stamp EXCEPT ![d] = None]
    /\ reader' = [reader EXCEPT ![h] = [pc |-> "lookup", draw |-> d, value |-> None]]
    /\ UNCHANGED <<stored, cache, writer, was, raced>>

\* "a deploy restarts everything anyway".  The migrations run again, and give every draw
\* without a mode the original rule, which is the default, whatever the row says.
Restart ==
    /\ cache' = None
    /\ stamp' = [d \in Draws |-> IF stamp[d] = None THEN Default ELSE stamp[d]]
    /\ reader' = [h \in Readers |-> Resting]
    /\ writer' = [w \in Writers |-> None]
    /\ raced' = FALSE
    /\ UNCHANGED <<stored, was>>

-----------------------------------------------------------------------------
Next == \/ \E h \in Readers : \/ LookUp(h) \/ Select(h) \/ Fill(h) \/ Stamp(h)
                              \/ \E d \in Draws : Load(h, d) \/ ClearStamp(h, d)
        \/ \E w \in Writers : \/ CommitSetting(w) \/ CommitFails(w)
                              \/ \E value \in Values : SetSetting(w, value)
        \/ \E d \in Draws, value \in Values : Override(d, value)
        \/ Restart

Spec == Init /\ [][Next]_vars

-----------------------------------------------------------------------------
(* Properties.                                                             *)

\* Rows, cache, handlers and history have the shape the code gives them, and a mode
\* a handler resolved is always a mode ("a missing row is never a caller's problem").
TypeOK ==
    /\ stored \in Optional /\ cache \in Optional
    /\ stamp \in [Draws -> Optional]
    /\ reader \in [Readers -> [pc : {"idle", "lookup", "select", "fill", "stamp"},
                               draw : Draws \cup {None}, value : Optional]]
    /\ \A h \in Readers : reader[h].pc \in {"fill", "stamp"} => reader[h].value \in Values
    /\ writer \in [Writers -> Optional]
    /\ was \subseteq Values /\ raced \in BOOLEAN

\* The cache, and what handlers are about to stamp on a draw, was really committed
\* (or is the default): a setting whose commit failed leaves no trace.
OnlyCommittedIsUsed ==
    /\ cache # None => cache \in was
    /\ \A h \in Readers : reader[h].pc = "stamp" => reader[h].value \in was

\* A write takes effect for everybody unless a reader's SELECT overlapped it.
CoherentUnlessRaced == ~raced /\ ~Writing /\ cache # None => cache = Value(stored)

\* With no write under way the cached value is the stored one: "a write
\* invalidating its own process is enough".
WriteTakesEffect == ~Writing /\ cache # None => cache = Value(stored)
=============================================================================
