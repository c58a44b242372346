---------------------------- MODULE MCSofaClient ----------------------------
(***************************************************************************)
(* Two tasks that ask Sofascore or probe it, on a host with no proxy and   *)
(* on one with a rotating pool of exits.                                   *)
(***************************************************************************)
EXTENDS SofaClient

\* A ban that comes, goes and meets a restart where there is one way out; one fault
\* where the pool's dirty exits refuse by themselves.
Budget == [p \in Proxies |-> IF p = "none" THEN 3 ELSE 1]
=============================================================================
