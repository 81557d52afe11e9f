----------------------------- MODULE MCStartup -----------------------------
(***************************************************************************)
(* What survives a process of Fracta on one machine: two daemons that      *)
(* start, are ensured and stopped, and the mailbox of a name that two      *)
(* agents have one after the other.  The two share no state, so a          *)
(* behaviour is one of either.                                             *)
(***************************************************************************)
EXTENDS Daemon, Mailbox

VARIABLE part

MCInit ==
  /\ part \in {"daemon", "mailbox"} /\ DaemonInit /\ MailInit
  /\ part = "daemon" => sqlite

MCNext ==
  \/ part = "daemon" /\ DaemonNext /\ UNCHANGED <<part, mailVars>>
  \/ part = "mailbox" /\ MailNext /\ UNCHANGED <<part, daemonVars>>

MCSpec == MCInit /\ [][MCNext]_<<part, daemonVars, mailVars>> /\ DaemonFairness /\ MailFairness
=============================================================================
