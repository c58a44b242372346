------------------------------- MODULE Outbox -------------------------------
(***************************************************************************)
(* What every notification of the backend promises of each thing it tells: *)
(* it may come and go while it settles, it is claimed at most once, and a  *)
(* claim is the point of no return: what is claimed is told, or lost, and  *)
(* never offered again.  "Claim first, send second."                       *)
(***************************************************************************)
CONSTANT Items

VARIABLE state

Open == {"idle", "waiting"}

\* From waiting a claim; from idle or waiting straight to closed, when the item is
\* suppressed or a crash loses it before its claim.
Moves == (Open \X (Open \cup {"closed"})) \cup {<<"waiting", "claimed">>, <<"claimed", "closed">>}

OutboxInit == state = [i \in Items |-> "idle"]

OutboxNext ==
    /\ DOMAIN state' = Items
    /\ \A i \in Items : state'[i] # state[i] => <<state[i], state'[i]>> \in Moves

OutboxSpec == OutboxInit /\ [][OutboxNext]_state
=============================================================================
