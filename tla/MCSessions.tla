----------------------------- MODULE MCSessions -----------------------------
(***************************************************************************)
(* Stream agents: the session with one of the five host programs, and two  *)
(* agents of one name with their sessions, pods and rows.  The two share   *)
(* no state here - the second has a session as something that is up or     *)
(* gone - so a behaviour is one of either.                                 *)
(***************************************************************************)
EXTENDS HostSession, StreamAgents

VARIABLE part

MCInit ==
  /\ part \in {"host", "agents"} /\ HostInit /\ StreamInit
  /\ IF part = "host" THEN backend = "local" ELSE kind = "claude"

MCNext ==
  \/ part = "host" /\ HostNext /\ UNCHANGED <<part, streamVars>>
  \/ part = "agents" /\ StreamNext /\ UNCHANGED <<part, hostVars>>

MCSpec == MCInit /\ [][MCNext]_<<part, hostVars, streamVars>> /\ HostFairness /\ StreamFairness
=============================================================================
