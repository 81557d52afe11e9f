------------------------------ MODULE MCCalls ------------------------------
(***************************************************************************)
(* The two pools of connections that calls go through: to the strategy     *)
(* sidecars and to one backend MCP server.  They share no state, so a      *)
(* behaviour is one of either.                                             *)
(***************************************************************************)
EXTENDS SidecarPool, McpPool

VARIABLE part

MCInit ==
  /\ part \in {"sidecars", "backend"} /\ Init /\ PoolInit
  /\ part = "backend" => managed = "gateway"

MCNext ==
  \/ part = "sidecars" /\ Next /\ UNCHANGED <<part, poolVars>>
  \/ part = "backend" /\ PoolNext /\ UNCHANGED <<part, vars>>

MCSpec == MCInit /\ [][MCNext]_<<part, vars, poolVars>> /\ Fairness /\ PoolFairness
=============================================================================
