----------------------------- MODULE AgentStore -----------------------------
(***************************************************************************)
(* The agents table (state.Store) and the lifecycle writer on top of it    *)
(* (agentlifecycle.Writer).  A row is keyed by task name; a task without a *)
(* row is represented by a row whose status is "absent".  Every write of   *)
(* the lifecycle writer is one conditional UPDATE, hence one atomic step:  *)
(* it applies only when the row's current status is one the transition     *)
(* expects, and otherwise reports ErrTransitionSkipped and emits nothing.  *)
(***************************************************************************)
EXTENDS Naturals

CONSTANTS
  Task,       \* task names, the primary key of the agents table
  Mission     \* mission ids, the serial key of the missions table

ASSUME MissionAssumption == Mission \subseteq Nat \ {0}

VARIABLES
  agents,     \* the agents table: task -> row
  emitted     \* terminal lifecycle events emitted for the task's current row

storeVars == <<agents, emitted>>

(***************************************************************************)
(* Rows                                                                    *)
(***************************************************************************)
LiveStatus     == {"Queued", "Running", "Idle"}
TerminalStatus == {"Completed", "Failed", "Stopped"}
AgentStatus    == {"absent"} \union LiveStatus \union TerminalStatus
AgentMode      == {"none", "queued", "batch", "stream"}
NoMission      == 0

AgentRow == [status  : AgentStatus,
             mode    : AgentMode,
             mission : Mission \union {NoMission}]

Absent == [status |-> "absent", mode |-> "none", mission |-> NoMission]

Status(t) == agents[t].status

StoreTypeOK ==
  /\ agents  \in [Task -> AgentRow]
  /\ emitted \in [Task -> Nat]

StoreInit ==
  /\ agents  = [t \in Task |-> Absent]
  /\ emitted = [t \in Task |-> 0]

(***************************************************************************)
(* Store operations                                                        *)
(***************************************************************************)

\* INSERT of a row: the primary key refuses a second row for the task.
InsertAgent(t, row) ==
  /\ Status(t) = "absent"
  /\ agents'  = [agents EXCEPT ![t] = row]
  /\ emitted' = [emitted EXCEPT ![t] = 0]

\* DELETE by task, whatever the row says; deleting no row is not an error.
RemoveAgent(t) ==
  /\ agents'  = [agents EXCEPT ![t] = Absent]
  /\ emitted' = [emitted EXCEPT ![t] = 0]

\* UPDATE ... WHERE task = t AND status IN expected.
UpdateAgentStatusIf(t, expected, new) ==
  agents' = IF Status(t) \in expected
              THEN [agents EXCEPT ![t].status = new]
              ELSE agents

\* The claim of a queued agent: Queued -> Running.
Claimable(t) == Status(t) = "Queued"

ClaimAgent(t) ==
  /\ UpdateAgentStatusIf(t, {"Queued"}, "Running")
  /\ UNCHANGED emitted

(***************************************************************************)
(* Lifecycle writer: the terminal transitions.  Each is a conditional      *)
(* update followed, when it applied, by one terminal lifecycle event.      *)
(***************************************************************************)
CompletableFrom == {"Running", "Idle"}
FailableFrom    == {"Running", "Idle", "Queued"}
StoppableWhileRunning == {"Running", "Idle"}        \* mutant of the next
StoppableFrom   == {"Queued", "Running", "Idle"}

ExpectedFor(new) ==
  CASE new = "Completed" -> CompletableFrom
    [] new = "Failed"    -> FailableFrom
    [] new = "Stopped"   -> StoppableFrom

\* Mutant: the caller ignores ErrTransitionSkipped.
AppliesAlways(t, new) == TRUE

\* TRUE when the transition applies, FALSE when it is ErrTransitionSkipped.
Applies(t, new) == Status(t) \in ExpectedFor(new)

\* MarkCompleted, MarkFailed, MarkStopped: new is the terminal status.
MarkTerminal(t, new) ==
  /\ UpdateAgentStatusIf(t, ExpectedFor(new), new)
  /\ emitted' = IF Applies(t, new)
                  THEN [emitted EXCEPT ![t] = @ + 1]
                  ELSE emitted

=============================================================================
