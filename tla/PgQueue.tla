------------------------------ MODULE PgQueue -------------------------------
(***************************************************************************)
(* PostgresQueue: the missions table.  Every operation below is one SQL    *)
(* statement or one transaction, hence one atomic step; Cancel is two      *)
(* statements and therefore two steps, CancelPending and CancelClaimed.    *)
(*                                                                         *)
(* A claim carries a lease (claimed_at).  Nothing renews it.  expired says *)
(* that claimed_at is older than leaseTimeout.                             *)
(***************************************************************************)
EXTENDS AgentStore

VARIABLE missions     \* the missions table: mission id -> row

MissionEnd    == {"completed", "failed", "cancelled", "deleted"}
MissionStatus == {"none", "pending", "claimed"} \union MissionEnd

NoTask        == "none"

MissionRow == [status  : MissionStatus,
               task    : Task \union {NoTask},
               expired : BOOLEAN]

QueueTypeOK == missions \in [Mission -> MissionRow]

QueueInit ==
  missions = [m \in Mission |->
                [status |-> "none", task |-> NoTask, expired |-> FALSE]]

MStatus(m) == missions[m].status

\* Ids come from a sequence: a mission gets the next one.
NextId(m) == /\ MStatus(m) = "none"
             /\ \A k \in Mission : k < m => MStatus(k) # "none"

QueuedRow(m) == [status |-> "Queued", mode |-> "queued", mission |-> m]

\* Enqueue: mission row and agent row in one transaction.  A task that still
\* has an agent row makes the whole transaction fail, which changes nothing.
Enqueue(m, t) ==
  /\ NextId(m)
  /\ InsertAgent(t, QueuedRow(m))
  /\ missions' = [missions EXCEPT
                    ![m] = [status |-> "pending", task |-> t, expired |-> FALSE]]

\* tryClaim.  FOR UPDATE SKIP LOCKED passes over rows that another claim,
\* cancel or reclaim holds at that moment, so any pending row can be the
\* first unlocked one in (priority, created_at) order.
TryClaim(m) ==
  /\ MStatus(m) = "pending"
  /\ missions' = [missions EXCEPT ![m].status = "claimed", ![m].expired = FALSE]

\* Mutant: the statement forgets AND status = 'claimed'.
UpdateAnyStatus(m, new) ==
  missions' = [missions EXCEPT ![m].status = new]

\* UPDATE ... WHERE id = m AND status = 'claimed'.  The statement does not
\* look at claimed_by.
UpdateClaimed(m, new) ==
  missions' = IF MStatus(m) = "claimed"
                THEN [missions EXCEPT ![m].status = new]
                ELSE missions

Ack(m)  == UpdateClaimed(m, "completed")

Fail(m) == UpdateClaimed(m, "failed")

\* Cancel, first statement: DELETE ... WHERE status = 'pending'.
CancelPending(m) ==
  missions' = IF MStatus(m) = "pending"
                THEN [missions EXCEPT ![m].status = "deleted"]
                ELSE missions

\* Cancel, second statement: UPDATE ... WHERE status = 'claimed'.
CancelClaimed(m) == UpdateClaimed(m, "cancelled")

\* reclaimStuck: one transaction over every claimed mission past its lease.
\* The paired agent is found by task name and reset only if it is Running.
StuckAnyAge == {m \in Mission : MStatus(m) = "claimed"}    \* mutant of Stuck

Stuck == {m \in Mission : MStatus(m) = "claimed" /\ missions[m].expired}

\* Mutant: the agent is reset whatever its status.
ReclaimAnyAgent ==
  /\ Stuck # {}
  /\ missions' = [m \in Mission |->
                    IF m \in Stuck
                      THEN [missions[m] EXCEPT !.status = "pending",
                                               !.expired = FALSE]
                      ELSE missions[m]]
  /\ agents' = [t \in Task |->
                  IF \E m \in Stuck : missions[m].task = t
                    THEN [agents[t] EXCEPT !.status = "Queued"]
                    ELSE agents[t]]
  /\ UNCHANGED emitted

ReclaimStuck ==
  /\ Stuck # {}
  /\ missions' = [m \in Mission |->
                    IF m \in Stuck
                      THEN [missions[m] EXCEPT !.status = "pending",
                                               !.expired = FALSE]
                      ELSE missions[m]]
  /\ agents' = [t \in Task |->
                  IF /\ \E m \in Stuck : missions[m].task = t
                     /\ Status(t) = "Running"
                    THEN [agents[t] EXCEPT !.status = "Queued"]
                    ELSE agents[t]]
  /\ UNCHANGED emitted

=============================================================================
