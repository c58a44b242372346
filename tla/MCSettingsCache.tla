-------------------------- MODULE MCSettingsCache --------------------------
(***************************************************************************)
(* Two handlers, two admins and two draws around the pick-lock setting.    *)
(***************************************************************************)
EXTENDS SettingsCache, TLC

Symmetric == Permutations(Readers) \cup Permutations(Writers) \cup Permutations(Draws)
=============================================================================
