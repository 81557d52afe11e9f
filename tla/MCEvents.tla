------------------------------ MODULE MCEvents ------------------------------
(***************************************************************************)
(* The two ways of an event: from the control plane to a client that       *)
(* watches an agent, and from a remote worker to the control plane.  They  *)
(* share no state, so a behaviour is one of either.                        *)
(***************************************************************************)
EXTENDS EventFeed, RemoteBus

VARIABLE part

MCInit == part \in {"feed", "bus"} /\ Init /\ BusInit

MCNext ==
  \/ part = "feed" /\ Next /\ UNCHANGED <<part, busVars>>
  \/ part = "bus" /\ BusNext /\ UNCHANGED <<part, vars>>

MCSpec == MCInit /\ [][MCNext]_<<part, vars, busVars>> /\ Fairness /\ BusFairness
=============================================================================
