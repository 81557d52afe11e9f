------------------------------ MODULE MCAgents ------------------------------
(***************************************************************************)
(* DirectAgents for TLC: every request on one task, on a workstation and   *)
(* in a cluster, and spawns of two tasks under a limit of one.             *)
(***************************************************************************)
EXTENDS DirectAgents

MCDeployments ==
  {[kubernetes |-> FALSE, postgres |-> FALSE, max_concurrent |-> 0,
    tasks |-> {"a"}, ops |-> Ops, restarts |-> 1],
   [kubernetes |-> TRUE, postgres |-> TRUE, max_concurrent |-> 0,
    tasks |-> {"a"}, ops |-> Ops, restarts |-> 1],
   [kubernetes |-> FALSE, postgres |-> FALSE, max_concurrent |-> 1,
    tasks |-> {"a", "b"}, ops |-> {"spawn"}, restarts |-> 0]}

=============================================================================
