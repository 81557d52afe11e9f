------------------------- MODULE QueuedSwarmProofs --------------------------
(***************************************************************************)
(* Theorems about QueuedSwarm, for every set of tasks, missions, workers   *)
(* and kill requests and every bound on the faults.                        *)
(***************************************************************************)
EXTENDS QueuedSwarm, TLAPS

(***************************************************************************)
(* Type correctness needs to know that a program counter that has left     *)
(* "idle" carries a real mission and task, so that the tables are only     *)
(* ever updated at their keys.                                             *)
(***************************************************************************)
MissionsShaped ==
  \A m \in Mission : MStatus(m) # "none" => missions[m].task \in Task

AgentsShaped ==
  \A t \in Task :
    Status(t) # "absent" => /\ agents[t].mission \in Mission
                            /\ MStatus(agents[t].mission) # "none"
                            /\ missions[agents[t].mission].task = t

WorkersShaped ==
  \A w \in Worker :
    ~At(w, "idle") => /\ worker[w].mission \in Mission
                      /\ MStatus(worker[w].mission) # "none"

KillersShaped ==
  \A k \in Killer :
    killer[k].pc # "idle" =>
      /\ killer[k].task \in Task
      /\ killer[k].row.mission \in Mission
      /\ killer[k].pc = "term" => killer[k].row.status \in TerminalStatus

ReaperShaped ==
  /\ reaper.pc \in {"cancel2", "stop"} => reaper.task \in Task
  /\ reaper.pc = "cancel2" => reaper.rows[reaper.task].mission \in Mission
  /\ \A t \in reaper.aged : reaper.rows[t].mission \in Mission

Shape == /\ TypeOK
         /\ MissionsShaped
         /\ AgentsShaped
         /\ WorkersShaped
         /\ KillersShaped
         /\ ReaperShaped

(***************************************************************************)
(* Lemmas about the operations of the two tables                           *)
(***************************************************************************)

\* A terminal transition changes at most the row it names, only from a live
\* status, and emits exactly when it changes the row.
LEMMA MarkTerminalEffect ==
  ASSUME StoreTypeOK, NEW t \in Task, NEW s \in TerminalStatus,
         MarkTerminal(t, s)
  PROVE  /\ StoreTypeOK'
         /\ \A u \in Task :
              /\ agents'[u].mission = agents[u].mission
              /\ \/ agents'[u].status = agents[u].status /\ emitted'[u] = emitted[u]
                 \/ /\ u = t
                    /\ agents[u].status \in LiveStatus
                    /\ agents'[u].status = s
                    /\ emitted'[u] = emitted[u] + 1
<1>1. ExpectedFor(s) \subseteq LiveStatus
  BY DEF ExpectedFor, CompletableFrom, FailableFrom, StoppableFrom,
         LiveStatus, TerminalStatus
<1>2. CASE agents[t].status \in ExpectedFor(s)
  <2>1. /\ agents' = [agents EXCEPT ![t].status = s]
        /\ emitted' = [emitted EXCEPT ![t] = @ + 1]
    BY <1>2 DEF MarkTerminal, UpdateAgentStatusIf, Applies, Status
  <2>2. QED
    BY <1>1, <1>2, <2>1
    DEF StoreTypeOK, AgentRow, AgentStatus
<1>3. CASE agents[t].status \notin ExpectedFor(s)
  BY <1>3 DEF MarkTerminal, UpdateAgentStatusIf, Applies, Status, StoreTypeOK
<1>4. QED
  BY <1>2, <1>3

\* The claim of a queued agent.
LEMMA ClaimAgentEffect ==
  ASSUME StoreTypeOK, NEW t \in Task, ClaimAgent(t)
  PROVE  /\ StoreTypeOK'
         /\ emitted' = emitted
         /\ \A u \in Task :
              /\ agents'[u].mission = agents[u].mission
              /\ \/ agents'[u].status = agents[u].status
                 \/ /\ u = t
                    /\ agents[u].status = "Queued"
                    /\ agents'[u].status = "Running"
  BY DEF ClaimAgent, UpdateAgentStatusIf, Status, StoreTypeOK, AgentRow,
         AgentStatus, LiveStatus

\* Removing a row leaves an absent row.
LEMMA RemoveAgentEffect ==
  ASSUME StoreTypeOK, NEW t \in Task, RemoveAgent(t)
  PROVE  /\ StoreTypeOK'
         /\ agents'[t].status = "absent"
         /\ \A u \in Task \ {t} : agents'[u] = agents[u] /\ emitted'[u] = emitted[u]
  BY DEF RemoveAgent, StoreTypeOK, AgentRow, AgentStatus, Absent, AgentMode,
         NoMission

\* Ack, Fail and both halves of Cancel: one row, and only from where it counts.
QueueWrite(m, from, to) ==
  missions' = IF MStatus(m) = from
                THEN [missions EXCEPT ![m].status = to] ELSE missions

\* Such a write keeps the task and moves the row only from the named status.
LEMMA QueueWriteEffect ==
  ASSUME QueueTypeOK, NEW m \in Mission, NEW from \in {"pending", "claimed"},
         NEW to \in MissionEnd, QueueWrite(m, from, to)
  PROVE  /\ QueueTypeOK'
         /\ \A n \in Mission :
              /\ missions'[n].task = missions[n].task
              /\ \/ missions'[n] = missions[n]
                 \/ n = m /\ MStatus(n) = from /\ missions'[n].status = to
         /\ missions'[m].status # from
  BY DEF QueueWrite, QueueTypeOK, MissionRow, MissionStatus, MStatus, MissionEnd

\* The four statements are such writes.
LEMMA QueueWrites ==
  ASSUME NEW m
  PROVE  /\ Ack(m) => QueueWrite(m, "claimed", "completed")
         /\ Fail(m) => QueueWrite(m, "claimed", "failed")
         /\ CancelPending(m) => QueueWrite(m, "pending", "deleted")
         /\ CancelClaimed(m) => QueueWrite(m, "claimed", "cancelled")
  BY DEF QueueWrite, Ack, Fail, CancelPending, CancelClaimed, UpdateClaimed

\* The claim of a mission and the end of its lease: one row, same task.
LEMMA TryClaimEffect ==
  ASSUME QueueTypeOK, NEW m \in Mission, TryClaim(m)
  PROVE  /\ QueueTypeOK'
         /\ MStatus(m) = "pending"
         /\ missions'[m].status = "claimed"
         /\ missions'[m].expired = FALSE
         /\ missions'[m].task = missions[m].task
         /\ \A n \in Mission \ {m} : missions'[n] = missions[n]
<1> DEFINE row == [missions[m] EXCEPT !.status = "claimed", !.expired = FALSE]
<1>1. row \in MissionRow /\ row.status = "claimed" /\ row.expired = FALSE
      /\ row.task = missions[m].task
  BY DEF QueueTypeOK, MissionRow, MissionStatus
<1>2. missions' = [missions EXCEPT ![m] = row]
  BY DEF TryClaim, QueueTypeOK
<1> HIDE DEF row
<1>3. QED
  BY <1>1, <1>2 DEF QueueTypeOK, TryClaim

\* The end of a lease changes nothing but the lease.
LEMMA ExpireEffect ==
  ASSUME QueueTypeOK, NEW m \in Mission,
         missions' = [missions EXCEPT ![m].expired = TRUE]
  PROVE  /\ QueueTypeOK'
         /\ missions'[m].expired = TRUE
         /\ missions'[m].status = missions[m].status
         /\ missions'[m].task = missions[m].task
         /\ \A n \in Mission \ {m} : missions'[n] = missions[n]
<1> DEFINE row == [missions[m] EXCEPT !.expired = TRUE]
<1>1. row \in MissionRow /\ row.status = missions[m].status
      /\ row.expired = TRUE /\ row.task = missions[m].task
  BY DEF QueueTypeOK, MissionRow
<1>2. missions' = [missions EXCEPT ![m] = row]
  BY DEF QueueTypeOK
<1> HIDE DEF row
<1>3. QED
  BY <1>1, <1>2 DEF QueueTypeOK

\* A worker that records an outcome keeps its mission.
LEMMA WorkerMoves ==
  ASSUME worker \in [Worker -> WorkerState], NEW w \in Worker,
         NEW pc \in WorkerPc \ {"idle"}, NEW o \in TerminalStatus,
         worker[w].pc # "idle",
         worker' = [worker EXCEPT ![w] = [@ EXCEPT !.pc = pc, !.outcome = o]]
  PROVE  /\ worker' \in [Worker -> WorkerState]
         /\ \A v \in Worker :
              /\ worker'[v].mission = worker[v].mission
              /\ worker[v].pc = "idle" => worker'[v].pc = "idle"
<1> DEFINE row == [worker[w] EXCEPT !.pc = pc, !.outcome = o]
<1>1. worker[w] \in WorkerState
  OBVIOUS
<1>2. row \in WorkerState /\ row.mission = worker[w].mission
  BY <1>1 DEF WorkerState
<1>3. worker' = [worker EXCEPT ![w] = row]
  OBVIOUS
<1> HIDE DEF row
<1>4. QED
  BY <1>2, <1>3

\* The locals at rest.
LEMMA IdleLocals ==
  /\ IdleKill \in KillState /\ IdleKill.pc = "idle"
  /\ IdleReap \in ReapState /\ IdleReap.pc = "idle" /\ IdleReap.aged = {}
  BY DEF IdleKill, KillState, KillPc, IdleReap, ReapState, ReapPc, Absent,
     AgentRow, AgentStatus, AgentMode, NoMission

\* Between two rows the reaper is idle or sweeping, with what is left to do.
LEMMA RestEffect ==
  ASSUME NEW r \in ReapState
  PROVE  /\ Rest(r) \in ReapState
         /\ Rest(r).pc \in {"idle", "sweep"}
         /\ \/ Rest(r).aged = {}
            \/ Rest(r).aged = r.aged /\ Rest(r).rows = r.rows
  BY IdleLocals DEF Rest, ReapState, ReapPc

\* A reclaim touches only claimed missions and Running agents.
LEMMA ReclaimEffect ==
  ASSUME StoreTypeOK, QueueTypeOK, ReclaimStuck
  PROVE  /\ StoreTypeOK'
         /\ QueueTypeOK'
         /\ emitted' = emitted
         /\ \A n \in Mission :
              /\ missions'[n].task = missions[n].task
              /\ \/ missions'[n] = missions[n]
                 \/ /\ n \in Stuck
                    /\ missions'[n].status = "pending"
                    /\ missions'[n].expired = FALSE
         /\ \A u \in Task :
              /\ agents'[u].mission = agents[u].mission
              /\ \/ agents'[u].status = agents[u].status
                 \/ /\ agents[u].status = "Running"
                    /\ agents'[u].status = "Queued"
<1>1. ASSUME NEW n \in Mission
      PROVE  /\ missions'[n] \in MissionRow
             /\ missions'[n].task = missions[n].task
             /\ \/ missions'[n] = missions[n]
                \/ /\ n \in Stuck
                   /\ missions'[n].status = "pending"
                   /\ missions'[n].expired = FALSE
  <2>1. missions[n] \in MissionRow
    BY DEF QueueTypeOK
  <2>2. missions'[n] = IF n \in Stuck
                         THEN [missions[n] EXCEPT !.status = "pending",
                                                  !.expired = FALSE]
                         ELSE missions[n]
    BY DEF ReclaimStuck
  <2>3. QED
    BY <2>1, <2>2 DEF MissionRow, MissionStatus
<1>2. ASSUME NEW u \in Task
      PROVE  /\ agents'[u] \in AgentRow
             /\ agents'[u].mission = agents[u].mission
             /\ \/ agents'[u].status = agents[u].status
                \/ /\ agents[u].status = "Running"
                   /\ agents'[u].status = "Queued"
  <2>1. agents[u] \in AgentRow
    BY DEF StoreTypeOK
  <2>2. \/ agents'[u] = agents[u]
        \/ /\ agents[u].status = "Running"
           /\ agents'[u] = [agents[u] EXCEPT !.status = "Queued"]
    BY DEF ReclaimStuck, Status
  <2>3. QED
    BY <2>1, <2>2 DEF AgentRow, AgentStatus, LiveStatus
<1>3. QED
  BY <1>1, <1>2 DEF ReclaimStuck, StoreTypeOK, QueueTypeOK

\* A fault is counted under its kind and no other count changes.
LEMMA FaultEffect ==
  ASSUME faults \in FaultCount, NEW f \in FaultKind, Fault(f)
  PROVE  /\ faults' \in FaultCount
         /\ faults'[f] > 0
         /\ \A g \in FaultKind : faults[g] > 0 => faults'[g] > 0
  BY DEF Fault, FaultCount, FaultKind

\* The reconciliation at a start changes at most the row it names, to Failed,
\* emits nothing and at most counts a store fault.
LEMMA ReconcileEffect ==
  ASSUME StoreTypeOK, faults \in FaultCount, NEW t \in Task, NEW m \in Mission,
         Reconcile(t, m)
  PROVE  /\ StoreTypeOK'
         /\ emitted' = emitted
         /\ \A u \in Task :
              /\ agents'[u].mission = agents[u].mission
              /\ \/ agents'[u].status = agents[u].status
                 \/ /\ u = t
                    /\ agents[u].status # "absent"
                    /\ agents'[u].status = "Failed"
         /\ faults' \in FaultCount
         /\ \A g \in FaultKind : faults[g] > 0 => faults'[g] > 0
         /\ faults'["overrun"] = faults["overrun"]
<1>1. /\ emitted' = emitted
      /\ \/ agents' = agents
         \/ /\ agents[t].status # "absent"
            /\ agents' = [agents EXCEPT ![t].status = "Failed"]
      /\ \/ faults' = faults
         \/ faults' = [faults EXCEPT !["store"] = @ + 1]
  BY DEF Reconcile, Status
<1>2. /\ StoreTypeOK'
      /\ \A u \in Task :
           /\ agents'[u].mission = agents[u].mission
           /\ \/ agents'[u].status = agents[u].status
              \/ /\ u = t
                 /\ agents[u].status # "absent"
                 /\ agents'[u].status = "Failed"
  BY <1>1 DEF StoreTypeOK, AgentRow, AgentStatus, TerminalStatus
<1>3. /\ faults' \in FaultCount
      /\ \A g \in FaultKind : faults[g] > 0 => faults'[g] > 0
      /\ faults'["overrun"] = faults["overrun"]
  BY <1>1 DEF FaultCount, FaultKind
<1>4. QED
  BY <1>1, <1>2, <1>3

(***************************************************************************)
(* Shape is inductive: one step per action                                 *)
(***************************************************************************)
LEMMA ShapeInit == Init => Shape
  BY SwarmAssumption
  DEF Init, StoreInit, QueueInit, Shape, TypeOK, StoreTypeOK, QueueTypeOK,
      AgentRow, AgentStatus, AgentMode, Absent, NoMission, MissionRow,
      MissionStatus, NoTask, WorkerState, IdleWorker, WorkerPc, KillState,
      IdleKill, KillPc, ReapState, IdleReap, ReapPc, FaultCount,
      FaultKind, MissionsShaped, AgentsShaped, WorkersShaped, KillersShaped,
      ReaperShaped, MStatus, Status, At

\* Every action keeps Shape.
LEMMA ShapeNext == Shape /\ [Next]_vars => Shape'
<1> SUFFICES ASSUME Shape, [Next]_vars PROVE Shape'
  OBVIOUS
<1> USE DEF MissionsShaped, AgentsShaped, WorkersShaped, KillersShaped,
            ReaperShaped, MStatus, Status, At
<1>1. ASSUME NEW m \in Mission, NEW t \in Task, Spawn(m, t) PROVE Shape'
  <2>1. /\ agents' = [agents EXCEPT ![t] = QueuedRow(m)]
        /\ emitted' = [emitted EXCEPT ![t] = 0]
        /\ agents[t].status = "absent"
        /\ missions[m].status = "none"
        /\ missions' = [missions EXCEPT
             ![m] = [status |-> "pending", task |-> t, expired |-> FALSE]]
        /\ UNCHANGED <<worker, killer, reaper, boot, faults>>
    BY <1>1 DEF Spawn, Enqueue, InsertAgent, NextId
  <2>2. TypeOK'
    BY <2>1 DEF Shape, TypeOK, StoreTypeOK, QueueTypeOK, AgentRow, AgentStatus,
       AgentMode, LiveStatus, QueuedRow, MissionRow, MissionStatus
  <2>3. AgentsShaped'
    BY <2>1 DEF Shape, TypeOK, StoreTypeOK, QueueTypeOK, QueuedRow
  <2>4. QED
    BY <2>1, <2>2, <2>3 DEF Shape, TypeOK, QueueTypeOK
<1>2. ASSUME NEW w \in Worker, NEW m \in Mission, Dequeue(w, m) PROVE Shape'
  <2>1. /\ TryClaim(m)
        /\ worker' = [worker EXCEPT ![w] = [IdleWorker EXCEPT !.pc = "claim",
                                                             !.mission = m]]
        /\ UNCHANGED <<agents, emitted, killer, reaper, boot, faults>>
    BY <1>2 DEF Dequeue
  <2>2. /\ QueueTypeOK'
        /\ \A n \in Mission :
             /\ missions'[n].task = missions[n].task
             /\ missions'[n].status = "none" <=> missions[n].status = "none"
        /\ missions[m].status = "pending"
    BY <2>1, TryClaimEffect DEF Shape, TypeOK
  <2>3. /\ worker' \in [Worker -> WorkerState]
        /\ worker'[w].mission = m
        /\ \A v \in Worker \ {w} : worker'[v] = worker[v]
    BY <2>1 DEF Shape, TypeOK, WorkerState, WorkerPc, IdleWorker
  <2>4. QED
    BY <2>1, <2>2, <2>3 DEF Shape, TypeOK, StoreTypeOK
<1>3. ASSUME NEW w \in Worker, ClaimQueuedAgent(w) PROVE Shape'
  <2>1. TaskOf(w) \in Task
    BY <1>3 DEF ClaimQueuedAgent, TaskOf, Shape
  <2>2. StoreTypeOK /\ ClaimAgent(TaskOf(w))
    BY <1>3 DEF ClaimQueuedAgent, Shape, TypeOK
  <2>3. /\ StoreTypeOK'
        /\ \A u \in Task :
             /\ agents'[u].mission = agents[u].mission
             /\ agents'[u].status # "absent" => agents[u].status # "absent"
    BY <2>1, <2>2, ClaimAgentEffect
  <2>4. QED
    BY <1>3, <2>3 DEF ClaimQueuedAgent, Goto, Shape, TypeOK, WorkerState,
       WorkerPc, QueueTypeOK
<1>4. ASSUME NEW w \in Worker, StartExecution(w) PROVE Shape'
  BY <1>4 DEF StartExecution, Goto, Shape, TypeOK, WorkerState, WorkerPc,
     StoreTypeOK, QueueTypeOK
<1>5. ASSUME NEW w \in Worker, FailMission(w) PROVE Shape'
  <2>1. PICK s \in {"Failed", "Stopped"} :
          ~At(w, "idle") /\ MarkTerminal(TaskOf(w), s)
    BY <1>5 DEF FailMission, FailReason
  <2>2. TaskOf(w) \in Task /\ s \in TerminalStatus
    BY <2>1 DEF TaskOf, Shape, TerminalStatus
  <2>3. /\ StoreTypeOK'
        /\ \A u \in Task :
             /\ agents'[u].mission = agents[u].mission
             /\ agents'[u].status # "absent" => agents[u].status # "absent"
    BY <2>1, <2>2, MarkTerminalEffect DEF Shape, TypeOK, LiveStatus
  <2>4. QED
    BY <1>5, <2>1, <2>3 DEF FailMission, Goto, Shape, TypeOK, WorkerState,
       WorkerPc, QueueTypeOK
<1>6. ASSUME NEW w \in Worker, NEW o \in Result, WriteResult(w, o) PROVE Shape'
  <2>1. TaskOf(w) \in Task /\ o \in TerminalStatus
    BY <1>6 DEF WriteResult, TaskOf, Shape, TerminalStatus, Result
  <2>2. /\ StoreTypeOK'
        /\ \A u \in Task :
             /\ agents'[u].mission = agents[u].mission
             /\ agents'[u].status # "absent" => agents[u].status # "absent"
    BY <1>6, <2>1, MarkTerminalEffect
    DEF WriteResult, Shape, TypeOK, LiveStatus
  <2>3. /\ worker' \in [Worker -> WorkerState]
        /\ \A v \in Worker :
             /\ worker'[v].mission = worker[v].mission
             /\ worker[v].pc = "idle" => worker'[v].pc = "idle"
    <3>1. PICK pc \in WorkerPc \ {"idle"} :
            worker' = [worker EXCEPT ![w] = [@ EXCEPT !.pc = pc, !.outcome = o]]
      BY <1>6 DEF WriteResult, WorkerPc, Shape, TypeOK
    <3>2. worker[w].pc = "exec"
      BY <1>6 DEF WriteResult
    <3>3. QED
      BY <2>1, <3>1, <3>2, WorkerMoves DEF Shape, TypeOK
  <2>4. QED
    BY <1>6, <2>2, <2>3 DEF WriteResult, Shape, TypeOK, QueueTypeOK
<1>7. ASSUME NEW w \in Worker, Finish(w) PROVE Shape'
  <2>1. PICK to \in MissionEnd : QueueWrite(worker[w].mission, "claimed", to)
    BY <1>7, QueueWrites DEF Finish, MissionEnd
  <2>2. worker[w].mission \in Mission
    BY <1>7 DEF Finish, Shape
  <2>3. /\ QueueTypeOK'
        /\ \A n \in Mission :
             /\ missions'[n].task = missions[n].task
             /\ missions'[n].status = "none" <=> missions[n].status = "none"
    BY <2>1, <2>2, QueueWriteEffect DEF Shape, TypeOK, MissionEnd
  <2>4. QED
    BY <1>7, <2>3, ZenonT(60) DEF Finish, Done, Shape, TypeOK, WorkerState, WorkerPc,
       IdleWorker, NoMission, StoreTypeOK
<1>8. ASSUME NEW w \in Worker, FailQueue(w) PROVE Shape'
  <2>1. QueueWrite(worker[w].mission, "claimed", "failed")
    BY <1>8, QueueWrites DEF FailQueue
  <2>2. worker[w].mission \in Mission
    BY <1>8 DEF FailQueue, Shape
  <2>3. /\ QueueTypeOK'
        /\ \A n \in Mission :
             /\ missions'[n].task = missions[n].task
             /\ missions'[n].status = "none" <=> missions[n].status = "none"
    BY <2>1, <2>2, QueueWriteEffect DEF Shape, TypeOK, MissionEnd
  <2>4. QED
    BY <1>8, <2>3 DEF FailQueue, Done, Shape, TypeOK, WorkerState, WorkerPc,
       IdleWorker, NoMission, StoreTypeOK
<1>9. ASSUME NEW w \in Worker, WorkerFault(w) PROVE Shape'
  <2>1. /\ UNCHANGED <<agents, emitted, missions, killer, reaper, boot>>
        /\ faults' \in FaultCount
    <3>1. /\ UNCHANGED <<agents, emitted, missions, killer, reaper, boot>>
          /\ \E f \in FaultKind : Fault(f)
      BY <1>9 DEF WorkerFault, ClaimStoreError, FailMissionStoreError,
         WriteResultStoreError, Crash, FaultKind
    <3>2. QED
      BY <3>1, FaultEffect DEF Shape, TypeOK
  <2>2. CASE Crash(w)
    BY <2>1, <2>2 DEF Crash, Done, Shape, TypeOK, WorkerState, WorkerPc,
       IdleWorker, NoMission, StoreTypeOK, QueueTypeOK
  <2>3. CASE ClaimStoreError(w)
    BY <2>1, <2>3 DEF ClaimStoreError, Goto, Shape, TypeOK, WorkerState,
       WorkerPc, StoreTypeOK, QueueTypeOK
  <2>4. CASE FailMissionStoreError(w)
    BY <2>1, <2>4 DEF FailMissionStoreError, FailReason, Goto, Shape, TypeOK,
       WorkerState, WorkerPc, StoreTypeOK, QueueTypeOK
  <2>5. ASSUME NEW o \in Result, WriteResultStoreError(w, o) PROVE Shape'
    <3>1. /\ worker' \in [Worker -> WorkerState]
          /\ \A v \in Worker :
               /\ worker'[v].mission = worker[v].mission
               /\ worker[v].pc = "idle" => worker'[v].pc = "idle"
      <4>1. o \in TerminalStatus /\ worker[w].pc = "exec"
        BY <2>5 DEF Result, TerminalStatus, WriteResultStoreError
      <4>2. worker' = [worker EXCEPT ![w] = [@ EXCEPT !.pc = "finish", !.outcome = o]]
        BY <2>5 DEF WriteResultStoreError, Shape, TypeOK
      <4>3. QED
        BY <4>1, <4>2, WorkerMoves DEF Shape, TypeOK, WorkerPc
    <3>2. QED
      BY <2>1, <3>1 DEF Shape, TypeOK, StoreTypeOK, QueueTypeOK
  <2>6. QED
    BY <1>9, <2>2, <2>3, <2>4, <2>5 DEF WorkerFault
<1>10. ASSUME NEW m \in Mission, LeaseExpires(m) \/ LeaseOverrun(m)
       PROVE  Shape'
  <2>1. /\ QueueTypeOK'
        /\ \A n \in Mission :
             /\ missions'[n].task = missions[n].task
             /\ missions'[n].status = missions[n].status
    BY <1>10, ExpireEffect DEF LeaseExpires, LeaseOverrun, Shape, TypeOK
  <2>2. faults' \in FaultCount
    BY <1>10, FaultEffect
    DEF LeaseExpires, LeaseOverrun, FaultKind, Shape, TypeOK
  <2>3. QED
    BY <1>10, <2>1, <2>2
    DEF LeaseExpires, LeaseOverrun, Shape, TypeOK, StoreTypeOK
<1>11. ASSUME Reclaim PROVE Shape'
  <2>1. /\ QueueTypeOK'
        /\ \A n \in Mission :
             /\ missions'[n].task = missions[n].task
             /\ missions'[n].status = "none" <=> missions[n].status = "none"
    BY <1>11, ReclaimEffect DEF Reclaim, Shape, TypeOK, Stuck
  <2>2. /\ StoreTypeOK'
        /\ \A u \in Task :
             /\ agents'[u].mission = agents[u].mission
             /\ agents'[u].status # "absent" => agents[u].status # "absent"
    BY <1>11, ReclaimEffect DEF Reclaim, Shape, TypeOK
  <2>3. QED
    BY <1>11, <2>1, <2>2 DEF Reclaim, Shape, TypeOK
<1>12. ASSUME NEW k \in Killer, NEW t \in Task, KillFind(k, t) PROVE Shape'
  BY <1>12 DEF KillFind, Shape, TypeOK, KillState, KillPc, StoreTypeOK,
     QueueTypeOK
<1>13. ASSUME NEW k \in Killer, KillCancelPending(k) \/ KillCancelClaimed(k)
       PROVE  Shape'
  <2>1. PICK from \in {"pending", "claimed"}, to \in MissionEnd :
          QueueWrite(killer[k].row.mission, from, to)
    BY <1>13, QueueWrites
    DEF KillCancelPending, KillCancelClaimed, MissionEnd
  <2>2. killer[k].row.mission \in Mission
    BY <1>13 DEF KillCancelPending, KillCancelClaimed, Shape
  <2>3. /\ QueueTypeOK'
        /\ \A n \in Mission :
             /\ missions'[n].task = missions[n].task
             /\ missions'[n].status = "none" <=> missions[n].status = "none"
    BY <2>1, <2>2, QueueWriteEffect DEF Shape, TypeOK, MissionEnd
  <2>4. /\ killer' \in [Killer -> KillState]
        /\ \A j \in Killer :
             /\ killer'[j].task = killer[j].task
             /\ killer'[j].row = killer[j].row
             /\ killer'[j].pc # killer[j].pc
                  => killer[j].pc # "idle" /\ killer'[j].pc # "term"
    BY <1>13 DEF KillCancelPending, KillCancelClaimed, Shape, TypeOK,
       KillState, KillPc
  <2>5. UNCHANGED <<agents, emitted, worker, reaper, boot, faults>>
    BY <1>13 DEF KillCancelPending, KillCancelClaimed
  <2>6. QED
    BY <2>3, <2>4, <2>5 DEF Shape, TypeOK, StoreTypeOK
<1>14. ASSUME NEW k \in Killer, KillMarkStopped(k) \/ KillTerminal(k)
       PROVE  Shape'
  <2>1. PICK s \in TerminalStatus : MarkTerminal(killer[k].task, s)
    BY <1>14 DEF KillMarkStopped, KillTerminal, Shape, TerminalStatus
  <2>2. killer[k].task \in Task
    BY <1>14 DEF KillMarkStopped, KillTerminal, Shape
  <2>3. /\ StoreTypeOK'
        /\ \A u \in Task :
             /\ agents'[u].mission = agents[u].mission
             /\ agents'[u].status # "absent" => agents[u].status # "absent"
    BY <2>1, <2>2, MarkTerminalEffect DEF Shape, TypeOK, LiveStatus
  <2>4. QED
    BY <1>14, <2>3, IdleLocals DEF KillMarkStopped, KillTerminal, Shape, TypeOK,
       KillState, KillPc, QueueTypeOK
<1>15. ASSUME NEW k \in Killer, KillCleanup(k) PROVE Shape'
  <2>1. killer[k].task \in Task /\ RemoveAgent(killer[k].task)
    BY <1>15 DEF KillCleanup, Shape
  <2>2. /\ StoreTypeOK'
        /\ \A u \in Task : agents'[u] = agents[u] \/ agents'[u].status = "absent"
    BY <2>1, RemoveAgentEffect DEF Shape, TypeOK
  <2>3. QED
    BY <1>15, <2>2, IdleLocals DEF KillCleanup, Shape, TypeOK, QueueTypeOK
<1>16. ASSUME ReapLoad PROVE Shape'
  <2>1. PICK old \in SUBSET {t \in Task : agents[t].status = "Running"} :
          reaper' = Rest([pc    |-> "sweep",
                          rows  |-> [t \in Task |-> IF t \in old THEN agents[t]
                                                               ELSE Absent],
                          clean |-> {t \in Task : agents[t].status \in TerminalStatus},
                          aged  |-> old,
                          task  |-> NoTask])
    BY <1>16 DEF ReapLoad
  <2> DEFINE rows == [t \in Task |-> IF t \in old THEN agents[t] ELSE Absent]
             clean == {t \in Task : agents[t].status \in TerminalStatus}
             r == [pc |-> "sweep", rows |-> rows, clean |-> clean,
                   aged |-> old, task |-> NoTask]
  <2>2. rows \in [Task -> AgentRow]
    BY DEF Shape, TypeOK, StoreTypeOK, Absent, AgentRow, AgentStatus,
       AgentMode, NoMission
  <2>3. r \in ReapState
    BY <2>2 DEF ReapState, ReapPc
  <2>4. \A t \in r.aged : r.rows[t].mission \in Mission
    BY DEF Shape
  <2>5. reaper' = Rest(r)
    BY <2>1
  <2>6. /\ reaper' \in ReapState
        /\ reaper'.pc \notin {"cancel2", "stop"}
        /\ \A t \in reaper'.aged : reaper'.rows[t].mission \in Mission
    <3> HIDE DEF r
    <3> QED
      BY <2>3, <2>4, <2>5, RestEffect
  <2>7. QED
    BY <1>16, <2>6 DEF ReapLoad, Shape, TypeOK, StoreTypeOK, QueueTypeOK
<1>17. ASSUME NEW t \in Task, ReapCleanup(t) PROVE Shape'
  <2>1. StoreTypeOK /\ RemoveAgent(t)
    BY <1>17 DEF ReapCleanup, Shape, TypeOK
  <2>2. /\ StoreTypeOK'
        /\ \A u \in Task : agents'[u] = agents[u] \/ agents'[u].status = "absent"
    BY <2>1, RemoveAgentEffect
  <2> DEFINE r == [reaper EXCEPT !.clean = @ \ {t}]
  <2>3. r \in ReapState /\ r.aged = reaper.aged /\ r.rows = reaper.rows
    BY DEF Shape, TypeOK, ReapState
  <2>4. /\ reaper' \in ReapState
        /\ reaper'.pc \notin {"cancel2", "stop"}
        /\ \A u \in reaper'.aged : reaper'.rows[u].mission \in Mission
    <3>1. reaper' = Rest(r)
      BY <1>17 DEF ReapCleanup
    <3>2. \A u \in r.aged : r.rows[u].mission \in Mission
      BY <2>3 DEF Shape
    <3> HIDE DEF r
    <3> QED
      BY <2>3, <3>1, <3>2, RestEffect
  <2>5. QED
    BY <1>17, <2>2, <2>4 DEF ReapCleanup, Shape, TypeOK, QueueTypeOK
<1>18. ASSUME NEW t \in Task, ReapCancelPending(t) PROVE Shape'
  <2>1. /\ t \in reaper.aged
        /\ QueueWrite(reaper.rows[t].mission, "pending", "deleted")
    BY <1>18, QueueWrites DEF ReapCancelPending
  <2>2. /\ QueueTypeOK'
        /\ \A n \in Mission :
             /\ missions'[n].task = missions[n].task
             /\ missions'[n].status = "none" <=> missions[n].status = "none"
    BY <2>1, QueueWriteEffect DEF Shape, TypeOK, MissionEnd
  <2>3. /\ reaper' \in ReapState
        /\ reaper'.task = t
        /\ reaper'.rows = reaper.rows
        /\ reaper'.aged \subseteq reaper.aged
    BY <1>18 DEF ReapCancelPending, Shape, TypeOK, ReapState, ReapPc
  <2>4. QED
    BY <1>18, <2>1, <2>2, <2>3 DEF ReapCancelPending, Shape, TypeOK, StoreTypeOK
<1>19. ASSUME ReapCancelClaimed PROVE Shape'
  <2>1. /\ reaper.pc = "cancel2"
        /\ QueueWrite(reaper.rows[reaper.task].mission, "claimed", "cancelled")
    BY <1>19, QueueWrites DEF ReapCancelClaimed
  <2>2. /\ QueueTypeOK'
        /\ \A n \in Mission :
             /\ missions'[n].task = missions[n].task
             /\ missions'[n].status = "none" <=> missions[n].status = "none"
    BY <2>1, QueueWriteEffect DEF Shape, TypeOK, MissionEnd
  <2>3. /\ reaper' \in ReapState
        /\ reaper'.pc = "stop"
        /\ reaper'.task = reaper.task
        /\ reaper'.rows = reaper.rows
        /\ reaper'.aged = reaper.aged
    BY <1>19 DEF ReapCancelClaimed, Shape, TypeOK, ReapState, ReapPc
  <2>4. QED
    BY <1>19, <2>1, <2>2, <2>3 DEF ReapCancelClaimed, Shape, TypeOK, StoreTypeOK
<1>20. ASSUME ReapMarkStopped PROVE Shape'
  <2>1. /\ reaper.task \in Task
        /\ MarkTerminal(reaper.task, "Stopped")
        /\ "Stopped" \in TerminalStatus
    BY <1>20 DEF ReapMarkStopped, Shape, TerminalStatus
  <2>2. /\ StoreTypeOK'
        /\ \A u \in Task :
             /\ agents'[u].mission = agents[u].mission
             /\ agents'[u].status # "absent" => agents[u].status # "absent"
    BY <2>1, MarkTerminalEffect DEF Shape, TypeOK, LiveStatus
  <2> DEFINE r == [reaper EXCEPT !.task = NoTask]
  <2>3. r \in ReapState /\ r.aged = reaper.aged /\ r.rows = reaper.rows
    BY DEF Shape, TypeOK, ReapState
  <2>4. /\ reaper' \in ReapState
        /\ reaper'.pc \notin {"cancel2", "stop"}
        /\ \A u \in reaper'.aged : reaper'.rows[u].mission \in Mission
    <3>1. reaper' = Rest(r)
      BY <1>20 DEF ReapMarkStopped
    <3>2. \A u \in r.aged : r.rows[u].mission \in Mission
      BY <2>3 DEF Shape
    <3> HIDE DEF r
    <3> QED
      BY <2>3, <3>1, <3>2, RestEffect
  <2>5. QED
    BY <1>20, <2>2, <2>4 DEF ReapMarkStopped, Shape, TypeOK, QueueTypeOK
<1>21. CASE Restart
  <2>1. /\ IdleKill \in KillState /\ IdleKill.pc = "idle"
        /\ IdleReap \in ReapState /\ IdleReap.pc = "idle" /\ IdleReap.aged = {}
    BY IdleLocals
  <2>2. faults' \in FaultCount
    BY <1>21, FaultEffect DEF Restart, FaultKind, Shape, TypeOK
  <2>3. boot' \subseteq Task \X Mission
    BY <1>21 DEF Restart, QueuedAgents, Shape
  <2>4. QED
    BY <1>21, <2>1, <2>2, <2>3
    DEF Restart, Shape, TypeOK, StoreTypeOK, QueueTypeOK
<1>22. ASSUME NEW t \in Task, NEW m \in Mission, Reconcile(t, m) PROVE Shape'
  <2>1. /\ StoreTypeOK'
        /\ \A u \in Task :
             /\ agents'[u].mission = agents[u].mission
             /\ agents'[u].status # "absent" => agents[u].status # "absent"
    BY <1>22, ReconcileEffect DEF Shape, TypeOK
  <2>2. boot' \subseteq Task \X Mission /\ faults' \in FaultCount
    BY <1>22, ReconcileEffect DEF Reconcile, Shape, TypeOK
  <2>3. QED
    BY <1>22, <2>1, <2>2 DEF Reconcile, Shape, TypeOK, QueueTypeOK
<1>23. CASE UNCHANGED vars
  BY <1>23 DEF vars, Shape, TypeOK, StoreTypeOK, QueueTypeOK
<1>24. QED
  BY <1>1, <1>2, <1>3, <1>4, <1>5, <1>6, <1>7, <1>8, <1>9, <1>10, <1>11,
     <1>12, <1>13, <1>14, <1>15, <1>16, <1>17, <1>18,
     <1>19, <1>20, <1>21, <1>22, <1>23
  DEF Next, WorkerStep, KillStep, ReapStep

(***************************************************************************)
(* Type correctness                                                        *)
(***************************************************************************)

\* Shape holds of every reachable state.
LEMMA ShapeInvariant == Spec => []Shape
  BY ShapeInit, ShapeNext, PTL DEF Spec

\* The tables keep their types and no handler of the worker, of Kill or of the
\* reaper ever reads or writes a row that is not there.
THEOREM TypeCorrect == Spec => []TypeOK
<1>1. Shape => TypeOK
  BY DEF Shape
<1>2. QED
  BY <1>1, ShapeInvariant, PTL

(***************************************************************************)
(* One terminal event per agent, no resurrection                           *)
(***************************************************************************)

\* What any step does to one agent row.
AgentStep(t) ==
  \/ agents'[t].status = agents[t].status /\ emitted'[t] = emitted[t]
  \/ /\ agents[t].status = "absent"
     /\ agents'[t].status = "Queued"
     /\ emitted'[t] = 0
     /\ \E m \in Mission : Spawn(m, t)
  \/ /\ agents[t].status \in LiveStatus
     /\ agents'[t].status \in {"Queued", "Running"}
     /\ emitted'[t] = emitted[t]
  \/ /\ agents[t].status \in LiveStatus
     /\ agents'[t].status \in TerminalStatus
     /\ emitted'[t] = emitted[t] + 1
  \/ agents'[t].status = "absent"
  \/ /\ \E m \in Mission : <<t, m>> \in boot
     /\ agents[t].status # "absent"
     /\ agents'[t].status = "Failed"
     /\ emitted'[t] = emitted[t]

\* Every step moves every agent row along one of these edges.
LEMMA AgentSteps ==
  ASSUME Shape, [Next]_vars, NEW t \in Task
  PROVE  AgentStep(t)
<1> USE DEF MissionsShaped, WorkersShaped, KillersShaped, ReaperShaped,
            MStatus, Status, At
<1> StoreTypeOK /\ QueueTypeOK
  BY DEF Shape, TypeOK
<1>1. ASSUME NEW u \in Task, NEW s \in TerminalStatus, MarkTerminal(u, s)
      PROVE  AgentStep(t)
  BY <1>1, MarkTerminalEffect DEF AgentStep
<1>2. ASSUME NEW u \in Task, RemoveAgent(u)
      PROVE  AgentStep(t)
  BY <1>2, RemoveAgentEffect DEF AgentStep
<1>3. CASE UNCHANGED <<agents, emitted>>
  BY <1>3 DEF AgentStep
<1>4. ASSUME NEW m \in Mission, NEW u \in Task, Spawn(m, u) PROVE AgentStep(t)
  BY <1>4 DEF Spawn, Enqueue, InsertAgent, QueuedRow, StoreTypeOK, AgentStep
<1>5. ASSUME NEW w \in Worker, WorkerStep(w) \/ WorkerFault(w)
      PROVE  AgentStep(t)
  <2>1. CASE ClaimQueuedAgent(w)
    <3>1. TaskOf(w) \in Task /\ ClaimAgent(TaskOf(w))
      BY <2>1 DEF ClaimQueuedAgent, TaskOf, Shape
    <3>2. QED
      BY <3>1, ClaimAgentEffect DEF AgentStep, LiveStatus
  <2>2. CASE FailMission(w)
    <3>1. PICK s \in {"Failed", "Stopped"} :
            ~At(w, "idle") /\ MarkTerminal(TaskOf(w), s)
      BY <2>2 DEF FailMission, FailReason
    <3>2. TaskOf(w) \in Task /\ s \in TerminalStatus
      BY <3>1 DEF TaskOf, Shape, TerminalStatus
    <3>3. QED
      BY <1>1, <3>1, <3>2
  <2>3. ASSUME NEW o \in Result, WriteResult(w, o) PROVE AgentStep(t)
    <3>1. TaskOf(w) \in Task /\ o \in TerminalStatus /\ MarkTerminal(TaskOf(w), o)
      BY <2>3 DEF WriteResult, TaskOf, Shape, TerminalStatus, Result
    <3>2. QED
      BY <1>1, <3>1
  <2>4. QED
    BY <1>3, <1>5, <2>1, <2>2, <2>3
    DEF WorkerStep, WorkerFault, Dequeue, StartExecution, Finish, FailQueue,
        ClaimStoreError, FailMissionStoreError, WriteResultStoreError, Crash
<1>6. CASE Reclaim
  BY <1>6, ReclaimEffect DEF Reclaim, AgentStep, LiveStatus
<1>7. ASSUME NEW k \in Killer, KillStep(k) PROVE AgentStep(t)
  <2>1. CASE KillMarkStopped(k) \/ KillTerminal(k)
    <3>1. PICK s \in TerminalStatus : MarkTerminal(killer[k].task, s)
      BY <2>1 DEF KillMarkStopped, KillTerminal, Shape, TerminalStatus
    <3>2. killer[k].task \in Task
      BY <2>1 DEF KillMarkStopped, KillTerminal, Shape
    <3>3. QED
      BY <1>1, <3>1, <3>2
  <2>2. CASE KillCleanup(k)
    BY <1>2, <2>2 DEF KillCleanup, Shape
  <2>3. QED
    BY <1>3, <1>7, <2>1, <2>2 DEF KillStep, KillCancelPending, KillCancelClaimed
<1>8. CASE ReapStep
  <2>1. CASE ReapMarkStopped
    BY <1>1, <2>1 DEF ReapMarkStopped, Shape, TerminalStatus
  <2>2. ASSUME NEW u \in Task, ReapCleanup(u) PROVE AgentStep(t)
    BY <1>2, <2>2 DEF ReapCleanup
  <2>3. QED
    BY <1>3, <1>8, <2>1, <2>2
    DEF ReapStep, ReapLoad, ReapCancelPending, ReapCancelClaimed
<1>9. ASSUME NEW u \in Task, NEW m \in Mission, Reconcile(u, m)
      PROVE  AgentStep(t)
  <2>1. <<u, m>> \in boot
    BY <1>9 DEF Reconcile
  <2>2. QED
    BY <1>9, <2>1, ReconcileEffect DEF AgentStep, Shape, TypeOK
<1>10. QED
  BY <1>3, <1>4, <1>5, <1>6, <1>7, <1>8, <1>9
  DEF Next, LeaseExpires, LeaseOverrun, KillFind, Restart, vars

\* Every step leaves the counts of faults as they are or raises them.
LEMMA FaultsStay ==
  ASSUME Shape, [Next]_vars, NEW f \in FaultKind, faults[f] > 0
  PROVE  faults'[f] > 0
<1>1. faults \in FaultCount
  BY DEF Shape, TypeOK
<1>2. \/ UNCHANGED faults
      \/ \E g \in FaultKind : Fault(g)
      \/ \E t \in Task, m \in Mission : Reconcile(t, m)
  BY ZenonT(60) DEF Next, Spawn, WorkerStep, Dequeue, ClaimQueuedAgent, StartExecution,
     FailMission, WriteResult, Finish, FailQueue, WorkerFault, ClaimStoreError,
     FailMissionStoreError, WriteResultStoreError, Crash, LeaseExpires,
     LeaseOverrun, Reclaim, KillFind, KillStep, KillCancelPending,
     KillCancelClaimed, KillMarkStopped, KillTerminal, KillCleanup, ReapStep,
     ReapLoad, ReapCleanup, ReapCancelPending, ReapCancelClaimed,
     ReapMarkStopped, Restart, FaultKind, vars
<1>3. QED
  BY <1>1, <1>2, FaultEffect, ReconcileEffect DEF Shape, TypeOK

\* There is something to reconcile only after a restart.
BootRestarted == boot # {} => Suffered({"restart"})

\* The list of the start is filled by a restart and only shrinks after it.
LEMMA BootRestartedNext ==
  ASSUME Shape, BootRestarted, [Next]_vars
  PROVE  BootRestarted'
<1>1. boot' \subseteq boot \/ Restart
  BY DEF Next, Spawn, WorkerStep, Dequeue, ClaimQueuedAgent, StartExecution,
     FailMission, WriteResult, Finish, FailQueue, WorkerFault, ClaimStoreError,
     FailMissionStoreError, WriteResultStoreError, Crash, LeaseExpires,
     LeaseOverrun, Reclaim, KillFind, KillStep, KillCancelPending,
     KillCancelClaimed, KillMarkStopped, KillTerminal, KillCleanup, ReapStep,
     ReapLoad, ReapCleanup, ReapCancelPending, ReapCancelClaimed,
     ReapMarkStopped, Reconcile, vars
<1>2. CASE Restart
  BY <1>2, FaultEffect DEF Restart, BootRestarted, Suffered, Shape, TypeOK,
     FaultKind
<1>3. CASE boot' \subseteq boot
  BY <1>3, FaultsStay DEF BootRestarted, Suffered, FaultKind
<1>4. QED
  BY <1>1, <1>2, <1>3

\* The terminal event is emitted exactly once however the writers race,
\* because it is emitted only by the conditional update that applied; the
\* reconciliation at a start, the one writer without a condition, emits none.
THEOREM TerminalEventsAreUnique == Spec => []TerminalEventOnce
<1>1. Init => TerminalEventOnce /\ BootRestarted
  BY DEF Init, StoreInit, TerminalEventOnce, Status, Absent, BootRestarted
<1>2. Shape /\ BootRestarted /\ TerminalEventOnce /\ [Next]_vars
        => TerminalEventOnce'
  <2> SUFFICES ASSUME Shape, BootRestarted, TerminalEventOnce, [Next]_vars,
                      NEW t \in Task, agents'[t].status # "absent"
               PROVE  \/ emitted'[t] = IF agents'[t].status \in TerminalStatus
                                         THEN 1 ELSE 0
                      \/ /\ emitted'[t] = 0
                         /\ agents'[t].status = "Failed"
                         /\ Suffered({"restart"})'
    BY DEF TerminalEventOnce, Status
  <2>1. AgentStep(t)
    BY AgentSteps
  <2>2. agents[t].status # "absent" =>
          \/ emitted[t] = IF agents[t].status \in TerminalStatus THEN 1 ELSE 0
          \/ /\ emitted[t] = 0
             /\ agents[t].status = "Failed"
             /\ Suffered({"restart"})
    BY DEF TerminalEventOnce, Status
  <2>3. Suffered({"restart"}) => Suffered({"restart"})'
    BY FaultsStay DEF Suffered, FaultKind
  <2>4. (\E m \in Mission : <<t, m>> \in boot) => Suffered({"restart"})
    BY DEF BootRestarted
  <2>5. QED
    BY <2>1, <2>2, <2>3, <2>4 DEF AgentStep, LiveStatus, TerminalStatus
<1>3. QED
  BY <1>1, <1>2, ShapeInvariant, BootRestartedNext, PTL DEF Spec

\* Nothing brings a terminal agent back: not a stale result, not a kill, not a
\* lease reclaim; a starting control plane may relabel it Failed.
THEOREM TerminalIsFinal == Spec => NoResurrection
<1>1. Shape /\ [Next]_vars
        => [\A t \in Task :
              Status(t) \in TerminalStatus =>
                \/ Status(t)' \in {Status(t), "absent"}
                \/ Status(t)' = "Failed" /\ \E m \in Mission : <<t, m>> \in boot]_vars
  BY AgentSteps DEF AgentStep, Status, LiveStatus, TerminalStatus
<1>2. QED
  BY <1>1, ShapeInvariant, PTL DEF Spec, NoResurrection

(***************************************************************************)
(* Missions: a mission that ended stays ended                              *)
(***************************************************************************)

\* What any step does to one mission row and to the workers that hold it.
MissionStep(m) ==
  \/ missions'[m].status = missions[m].status
     /\ missions'[m].expired = missions[m].expired
  \/ missions[m].status = "none" /\ missions'[m].status = "pending"
  \/ missions[m].status = "pending" /\ missions'[m].status = "deleted"
  \/ missions[m].status = "claimed" /\ missions'[m].status \in MissionEnd
  \/ /\ missions[m].status = "pending"
     /\ missions'[m].status = "claimed"
     /\ missions'[m].expired = FALSE
     /\ \E w \in Worker : Dequeue(w, m)
  \/ /\ missions[m].status = "claimed"
     /\ missions'[m].status = "claimed"
     /\ faults'["overrun"] > 0 \/ \A w \in Worker : ~Holds(w, m)
     /\ worker' = worker
  \/ /\ missions[m].status = "claimed"
     /\ missions[m].expired = TRUE
     /\ missions'[m].status = "pending"
     /\ worker' = worker

\* Every step moves every mission along one of these edges.
LEMMA MissionSteps ==
  ASSUME Shape, [Next]_vars, NEW m \in Mission
  PROVE  MissionStep(m)
<1> USE DEF MissionsShaped, WorkersShaped, KillersShaped, ReaperShaped,
            MStatus, Status, At
<1> StoreTypeOK /\ QueueTypeOK
  BY DEF Shape, TypeOK
<1>1. ASSUME NEW n \in Mission, NEW to \in MissionEnd,
             \/ QueueWrite(n, "claimed", to)
             \/ to = "deleted" /\ QueueWrite(n, "pending", to)
      PROVE  MissionStep(m)
  BY <1>1, QueueWriteEffect DEF MissionStep
<1>2. CASE UNCHANGED missions
  BY <1>2 DEF MissionStep
<1>3. ASSUME NEW n \in Mission, NEW u \in Task, Spawn(n, u)
      PROVE  MissionStep(m)
  BY <1>3 DEF Spawn, Enqueue, NextId, QueueTypeOK, MissionStep
<1>4. ASSUME NEW w \in Worker, WorkerStep(w) \/ WorkerFault(w)
      PROVE  MissionStep(m)
  <2>1. ASSUME NEW n \in Mission, Dequeue(w, n) PROVE MissionStep(m)
    <3>1. TryClaim(n)
      BY <2>1 DEF Dequeue
    <3>2. CASE m = n
      BY <2>1, <3>1, <3>2, TryClaimEffect DEF MissionStep
    <3>3. CASE m # n
      BY <3>1, <3>3, TryClaimEffect DEF MissionStep
    <3>4. QED
      BY <3>2, <3>3
  <2>2. CASE Finish(w) \/ FailQueue(w)
    <3>1. PICK to \in MissionEnd : QueueWrite(worker[w].mission, "claimed", to)
      BY <2>2, QueueWrites DEF Finish, FailQueue, MissionEnd
    <3>2. worker[w].mission \in Mission
      BY <2>2 DEF Finish, FailQueue, Shape
    <3>3. QED
      BY <1>1, <3>1, <3>2
  <2>3. QED
    BY <1>2, <1>4, <2>1, <2>2
    DEF WorkerStep, WorkerFault, ClaimQueuedAgent, StartExecution, FailMission,
        WriteResult, ClaimStoreError, FailMissionStoreError,
        WriteResultStoreError, Crash
<1>5. ASSUME NEW n \in Mission, LeaseExpires(n) \/ LeaseOverrun(n)
      PROVE  MissionStep(m)
  <2>1. /\ missions[n].status = "claimed"
        /\ missions' = [missions EXCEPT ![n].expired = TRUE]
        /\ worker' = worker
    BY <1>5 DEF LeaseExpires, LeaseOverrun
  <2>2. faults'["overrun"] > 0 \/ \A w \in Worker : ~Holds(w, n)
    BY <1>5, FaultEffect DEF LeaseExpires, LeaseOverrun, FaultKind, Shape, TypeOK
  <2>3. QED
    BY <2>1, <2>2, ExpireEffect DEF MissionStep
<1>6. CASE Reclaim
  BY <1>6, ReclaimEffect DEF Reclaim, Stuck, MissionStep
<1>7. ASSUME NEW k \in Killer, KillStep(k) PROVE MissionStep(m)
  <2>1. CASE KillCancelPending(k)
    <3>1. /\ killer[k].row.mission \in Mission
          /\ QueueWrite(killer[k].row.mission, "pending", "deleted")
      BY <2>1, QueueWrites DEF KillCancelPending, Shape
    <3>2. QED
      BY <1>1, <3>1 DEF MissionEnd
  <2>2. CASE KillCancelClaimed(k)
    <3>1. /\ killer[k].row.mission \in Mission
          /\ QueueWrite(killer[k].row.mission, "claimed", "cancelled")
      BY <2>2, QueueWrites DEF KillCancelClaimed, Shape
    <3>2. QED
      BY <1>1, <3>1 DEF MissionEnd
  <2>3. QED
    BY <1>2, <1>7, <2>1, <2>2
    DEF KillStep, KillMarkStopped, KillTerminal, KillCleanup
<1>8. CASE ReapStep
  <2>1. ASSUME NEW u \in Task, ReapCancelPending(u) PROVE MissionStep(m)
    <3>1. /\ reaper.rows[u].mission \in Mission
          /\ QueueWrite(reaper.rows[u].mission, "pending", "deleted")
      BY <2>1, QueueWrites DEF ReapCancelPending, Shape
    <3>2. QED
      BY <1>1, <3>1 DEF MissionEnd
  <2>2. CASE ReapCancelClaimed
    <3>1. /\ reaper.rows[reaper.task].mission \in Mission
          /\ QueueWrite(reaper.rows[reaper.task].mission, "claimed", "cancelled")
      BY <2>2, QueueWrites DEF ReapCancelClaimed, Shape
    <3>2. QED
      BY <1>1, <3>1 DEF MissionEnd
  <2>3. QED
    BY <1>2, <1>8, <2>1, <2>2
    DEF ReapStep, ReapLoad, ReapCleanup, ReapMarkStopped
<1>9. QED
  BY <1>2, <1>3, <1>4, <1>5, <1>6, <1>7, <1>8
  DEF Next, KillFind, Restart, Reconcile, vars

\* A late Ack, Fail, Cancel or reclaim never reopens or relabels a mission,
\* because every one of these statements is conditional on the status.
THEOREM MissionEndIsFinal == Spec => MissionEndFinal
<1>1. Shape /\ [Next]_vars
        => [\A m \in Mission :
              MStatus(m) \in MissionEnd => MStatus(m)' = MStatus(m)]_vars
  BY MissionSteps DEF MissionStep, MStatus, MissionEnd
<1>2. QED
  BY <1>1, ShapeInvariant, PTL DEF Spec, MissionEndFinal

(***************************************************************************)
(* At most one worker executes a mission.  Two Holds of one mission are    *)
(* excluded because a held mission is neither waiting nor past its lease,  *)
(* so neither Dequeue nor Reclaim can touch it.                            *)
(***************************************************************************)
HeldIsLeased ==
  ~Suffered({"overrun"}) =>
    \A w \in Worker : \A m \in Mission :
      Holds(w, m) => /\ MStatus(m) \notin {"none", "pending"}
                     /\ MStatus(m) = "claimed" => missions[m].expired = FALSE

\* An overrun, once suffered, stays on the record.
LEMMA OverrunStays ==
  ASSUME Shape, [Next]_vars, ~Suffered({"overrun"})'
  PROVE  ~Suffered({"overrun"}) /\ ~(faults'["overrun"] > 0)
<1>1. faults["overrun"] > 0 => faults'["overrun"] > 0
  BY FaultsStay DEF FaultKind
<1>2. QED
  BY <1>1 DEF Suffered

\* Only Dequeue gives a worker a mission it did not hold.
LEMMA HoldsStep ==
  ASSUME Shape, [Next]_vars, NEW w \in Worker, NEW m \in Mission,
         Holds(w, m)'
  PROVE  Holds(w, m) \/ Dequeue(w, m)
<1> USE DEF Holds, At
<1> worker \in [Worker -> WorkerState]
  BY DEF Shape, TypeOK
<1>1. CASE UNCHANGED worker
  BY <1>1
<1>2. ASSUME NEW v \in Worker, WorkerStep(v) \/ WorkerFault(v)
      PROVE  Holds(w, m) \/ Dequeue(w, m)
  <2>1. ASSUME NEW n \in Mission, Dequeue(v, n)
        PROVE  Holds(w, m) \/ Dequeue(w, m)
    <3> DEFINE row == [IdleWorker EXCEPT !.pc = "claim", !.mission = n]
    <3>1. row.mission = n
      BY DEF IdleWorker
    <3>2. worker' = [worker EXCEPT ![v] = row]
      BY <2>1 DEF Dequeue
    <3> HIDE DEF row
    <3>3. CASE w = v
      <4>1. n = m
        BY <3>1, <3>2, <3>3
      <4>2. QED
        BY <2>1, <3>3, <4>1
    <3>4. CASE w # v
      BY <3>2, <3>4
    <3>5. QED
      BY <3>3, <3>4
  <2>2. CASE Finish(v) \/ FailQueue(v) \/ Crash(v)
    BY <2>2 DEF Finish, FailQueue, Crash, Done, IdleWorker
  <2>3. ASSUME NEW o \in Result, WriteResult(v, o) \/ WriteResultStoreError(v, o)
        PROVE  Holds(w, m)
    <3>1. /\ worker[v].pc # "idle"
          /\ \A u \in Worker \ {v} : worker'[u] = worker[u]
          /\ worker'[v].mission = worker[v].mission
      BY <2>3 DEF WriteResult, WriteResultStoreError, WorkerState
    <3>2. QED
      BY <3>1
  <2>4. CASE \/ ClaimQueuedAgent(v) \/ StartExecution(v) \/ FailMission(v)
             \/ ClaimStoreError(v) \/ FailMissionStoreError(v)
    <3>1. worker[v].pc # "idle" /\ \E pc \in WorkerPc : Goto(v, pc)
      BY <2>4 DEF ClaimQueuedAgent, StartExecution, FailMission,
         ClaimStoreError, FailMissionStoreError, FailReason, WorkerPc
    <3>2. QED
      BY <3>1 DEF Goto, WorkerState
  <2>5. QED
    BY <1>2, <2>1, <2>2, <2>3, <2>4 DEF WorkerStep, WorkerFault
<1>3. QED
  BY <1>1, <1>2
  DEF Next, Spawn, LeaseExpires, LeaseOverrun, Reclaim, KillFind, KillStep,
      KillCancelPending, KillCancelClaimed, KillMarkStopped, KillTerminal,
      KillCleanup, ReapStep, ReapLoad, ReapCleanup, ReapCancelPending,
      ReapCancelClaimed, ReapMarkStopped, Restart, Reconcile, vars

\* While no lease is overrun, HeldIsLeased and ExclusiveExecution carry each
\* other over every step.
LEMMA LeaseInductive ==
  ASSUME ~Suffered({"overrun"})', Shape, HeldIsLeased, ExclusiveExecution, [Next]_vars
  PROVE  HeldIsLeased' /\ ExclusiveExecution'
<1> ~Suffered({"overrun"}) /\ ~(faults'["overrun"] > 0)
  BY OverrunStays
<1>1. HeldIsLeased'
  <2> SUFFICES ASSUME NEW w \in Worker, NEW m \in Mission, Holds(w, m)'
               PROVE  /\ missions'[m].status \notin {"none", "pending"}
                      /\ missions'[m].status = "claimed"
                           => missions'[m].expired = FALSE
    BY DEF HeldIsLeased, MStatus
  <2>1. MissionStep(m)
    BY MissionSteps
  <2>2. CASE Dequeue(w, m)
    BY <2>2, TryClaimEffect DEF Dequeue, Shape, TypeOK
  <2>3. CASE Holds(w, m)
    <3>1. /\ missions[m].status \notin {"none", "pending"}
          /\ missions[m].status = "claimed" => missions[m].expired = FALSE
      BY <2>3 DEF HeldIsLeased, MStatus
    <3>2. QED
      BY <2>1, <2>3, <3>1 DEF MissionStep, MissionEnd
  <2>4. QED
    BY <2>2, <2>3, HoldsStep
<1>2. ExclusiveExecution'
  <2> SUFFICES ASSUME NEW v \in Worker, NEW w \in Worker, NEW m \in Mission,
                      Holds(v, m)', Holds(w, m)'
               PROVE  v = w
    BY DEF ExclusiveExecution
  <2>1. CASE Holds(v, m) /\ Holds(w, m)
    BY <2>1 DEF ExclusiveExecution
  <2>2. ASSUME NEW u \in Worker, NEW x \in Worker, Dequeue(u, m), Holds(x, m)
        PROVE  FALSE
    BY <2>2 DEF Dequeue, TryClaim, HeldIsLeased
  <2>3. ASSUME Dequeue(v, m), Dequeue(w, m), v # w
        PROVE  FALSE
    <3>1. worker \in [Worker -> WorkerState]
      BY DEF Shape, TypeOK
    <3>2. worker[w].pc = "idle"
      BY <2>3 DEF Dequeue, At
    <3>3. PICK row : worker' = [worker EXCEPT ![v] = row]
      BY <2>3 DEF Dequeue
    <3>4. QED
      BY <2>3, <3>1, <3>2, <3>3 DEF Holds
  <2>4. QED
    BY <2>1, <2>2, <2>3, HoldsStep
<1>3. QED
  BY <1>1, <1>2

\* Both hold of every reachable state.
LEMMA LeaseInvariant == Spec => [](HeldIsLeased /\ ExclusiveExecution)
<1>1. Init => HeldIsLeased /\ ExclusiveExecution
  BY DEF Init, HeldIsLeased, ExclusiveExecution, Holds, IdleWorker
<1>2. Shape /\ HeldIsLeased /\ ExclusiveExecution /\ [Next]_vars
        => HeldIsLeased' /\ ExclusiveExecution'
  <2>1. Suffered({"overrun"})' => HeldIsLeased' /\ ExclusiveExecution'
    BY DEF HeldIsLeased, ExclusiveExecution
  <2>2. QED
    BY <2>1, LeaseInductive
<1>3. QED
  BY <1>1, <1>2, ShapeInvariant, PTL DEF Spec

\* Until an execution outlasts its lease, a mission is never executed by two
\* workers at a time, although neither Ack nor Fail checks claimed_by.
THEOREM ExecutionIsExclusive == Spec => []ExclusiveExecution
  BY LeaseInvariant, PTL

(***************************************************************************)
(* The two tables tell one story.  NamedOnce ties a name to one mission;   *)
(* the invariant says what a mission's status and the program counters of  *)
(* those who work on it tell of the agent, until a store call fails or an  *)
(* execution outlasts its lease.                                           *)
(***************************************************************************)
Sane == ~Suffered({"store", "overrun"})

\* Kill, the reaper and the starting control plane act on a row and on the
\* mission of that row; a name is never taken from a mission again.
Linked ==
  /\ \A k \in Killer :
       killer[k].pc # "idle" => missions[killer[k].row.mission].task = killer[k].task
  /\ \A t \in reaper.aged : missions[reaper.rows[t].mission].task = t
  /\ reaper.pc = "cancel2" => missions[reaper.rows[reaper.task].mission].task = reaper.task
  /\ \A t \in Task, m \in Mission : <<t, m>> \in boot => missions[m].task = t
  /\ \A m \in Mission : MStatus(m) = "none" => missions[m].task = NoTask

\* A queued agent is never Idle, and what Kill found terminal is not alive.
Calm ==
  /\ \A t \in Task : Status(t) # "Idle"
  /\ \A k \in Killer :
       killer[k].pc = "term" /\ NamedOnce(killer[k].task)
         => Status(killer[k].task) \notin LiveStatus

Held(m) == \E w \in Worker : Holds(w, m)

\* Kill or the reaper took the mission and is about to mark the agent.
Stopping(t) ==
  \/ \E k \in Killer : killer[k].pc = "stop" /\ killer[k].task = t
  \/ reaper.pc = "stop" /\ reaper.task = t

\* A held mission is claimed or cancelled.
OpenOf(w) ==
  ~At(w, "idle") => MStatus(worker[w].mission) \in {"claimed", "cancelled"}

\* How far the worker is tells the agent's status.
KnowsOf(w, t) ==
  ~At(w, "idle") /\ TaskOf(w) = t /\ NamedOnce(t) =>
    /\ At(w, "claim") => Status(t) # "Running"
    /\ worker[w].pc \in {"start", "exec"} => Status(t) # "Queued"
    /\ At(w, "finish") => Status(t) \in {worker[w].outcome, "absent"}
    /\ At(w, "failQueue") => Status(t) \notin LiveStatus
    /\ ~Suffered({"crash"}) /\ ~At(w, "finish") => Status(t) # "Completed"

\* While no worker died, whoever claimed a mission holds it.
ClaimedOf(m) == ~Suffered({"crash"}) /\ MStatus(m) = "claimed" => Held(m)

\* What the mission's status says of a live agent, and of the end of one.
LiveTold(s, m, t) ==
  /\ MStatus(m) \in {"pending", "claimed", "cancelled", "deleted"}
  /\ MStatus(m) \in {"pending", "deleted"} => s = "Queued"
  /\ MStatus(m) = "deleted" => Stopping(t) \/ <<t, m>> \in boot
  /\ MStatus(m) = "cancelled" /\ ~Suffered({"restart"}) => Stopping(t)
  /\ MStatus(m) = "cancelled" /\ ~Suffered({"crash"}) => Held(m)

EndTold(s, m) ==
  /\ MStatus(m) = "completed" => s = "Completed"
  /\ s = "Completed" /\ ~Suffered({"crash"})
       => MStatus(m) \in {"claimed", "completed", "cancelled"}

TellsOf(t) ==
  NamedOnce(t) =>
    /\ Status(t) \in LiveStatus => LiveTold(Status(t), agents[t].mission, t)
    /\ Status(t) # "absent" => EndTold(Status(t), agents[t].mission)

Told ==
  /\ \A w \in Worker : OpenOf(w)
  /\ \A w \in Worker, t \in Task : KnowsOf(w, t)
  /\ \A m \in Mission : ClaimedOf(m)
  /\ \A t \in Task : TellsOf(t)

Story == Linked /\ Calm /\ (Sane => Told)

\* What one step leaves behind: a name tied to one mission was so before, a
\* mission keeps its task, and no fault is forgotten.
Steady ==
  /\ \A t \in Task : NamedOnce(t)' => NamedOnce(t)
  /\ \A m \in Mission :
       missions[m].task \in Task => missions'[m].task = missions[m].task
  /\ Suffered({"crash"}) => Suffered({"crash"})'
  /\ Suffered({"restart"}) => Suffered({"restart"})'
  /\ Sane' => Sane

\* The states of the induction before a fault ends the guarantees of Told.
Now == Shape /\ HeldIsLeased /\ ExclusiveExecution /\ Linked /\ Calm /\ Sane /\ Told

(***************************************************************************)
(* The writes, row by row                                                  *)
(***************************************************************************)
AgentWrite(t, from, to) ==
  \A u \in Task :
    /\ agents'[u].mission = agents[u].mission
    /\ agents'[u].status = IF u = t /\ Status(u) \in from THEN to ELSE Status(u)

MissionWrite(m, from, to) ==
  \A n \in Mission :
    /\ missions'[n].task = missions[n].task
    /\ missions'[n].status = IF n = m /\ MStatus(n) = from THEN to ELSE MStatus(n)

WorkerWrite(w, pc) ==
  /\ \A v \in Worker \ {w} : worker'[v] = worker[v]
  /\ worker'[w].mission = worker[w].mission
  /\ worker'[w].pc = pc

\* A terminal transition, the claim of an agent and its removal.
LEMMA AgentWrites ==
  ASSUME Shape, NEW t \in Task
  PROVE  /\ \A s \in TerminalStatus :
               MarkTerminal(t, s) => AgentWrite(t, ExpectedFor(s), s)
         /\ ClaimAgent(t) => AgentWrite(t, {"Queued"}, "Running")
<1>1. agents \in [Task -> AgentRow]
  BY DEF Shape, TypeOK, StoreTypeOK
<1>2. ASSUME NEW F, NEW s, UpdateAgentStatusIf(t, F, s)
      PROVE  AgentWrite(t, F, s)
  BY <1>1, <1>2 DEF UpdateAgentStatusIf, AgentWrite, Status, AgentRow
<1>3. QED
  BY <1>2 DEF MarkTerminal, ClaimAgent

\* Ack, Fail, either half of Cancel, and the claim of a mission.
LEMMA MissionWrites ==
  ASSUME Shape, NEW m \in Mission
  PROVE  /\ \A from, to : QueueWrite(m, from, to) => MissionWrite(m, from, to)
         /\ TryClaim(m) => MissionWrite(m, "pending", "claimed") /\ MStatus(m) = "pending"
<1>1. missions \in [Mission -> MissionRow]
  BY DEF Shape, TypeOK, QueueTypeOK
<1>2. ASSUME NEW from, NEW to, QueueWrite(m, from, to)
      PROVE  MissionWrite(m, from, to)
  BY <1>1, <1>2 DEF QueueWrite, MissionWrite, MStatus, MissionRow
<1>3. TryClaim(m) => MissionWrite(m, "pending", "claimed") /\ MStatus(m) = "pending"
  BY <1>1, TryClaimEffect DEF QueueTypeOK, MissionWrite, MStatus
<1>4. QED
  BY <1>2, <1>3

\* A worker's program counter moves; a worker that is done holds nothing.
LEMMA WorkerWrites ==
  ASSUME Shape, NEW w \in Worker
  PROVE  /\ \A pc : Goto(w, pc) => /\ WorkerWrite(w, pc)
                                  /\ worker'[w].outcome = worker[w].outcome
         /\ Done(w) => /\ \A v \in Worker \ {w} : worker'[v] = worker[v]
                       /\ worker'[w].pc = "idle"
<1>1. worker \in [Worker -> WorkerState]
  BY DEF Shape, TypeOK
<1>2. ASSUME NEW pc, Goto(w, pc)
      PROVE  WorkerWrite(w, pc) /\ worker'[w].outcome = worker[w].outcome
  BY <1>1, <1>2 DEF Goto, WorkerWrite, WorkerState
<1>3. Done(w) => /\ \A v \in Worker \ {w} : worker'[v] = worker[v]
                 /\ worker'[w].pc = "idle"
  BY <1>1 DEF Done, IdleWorker
<1>4. QED
  BY <1>2, <1>3

\* A program counter of Kill moves and the row it read stays; a request that
\* is done is idle.
LEMMA KillerWrites ==
  ASSUME Shape, NEW k \in Killer
  PROVE  /\ \A pc : killer' = [killer EXCEPT ![k].pc = pc] =>
               /\ \A j \in Killer \ {k} : killer'[j] = killer[j]
               /\ killer'[k].pc = pc
               /\ killer'[k].task = killer[k].task
               /\ killer'[k].row = killer[k].row
         /\ killer' = [killer EXCEPT ![k] = IdleKill] =>
               /\ \A j \in Killer \ {k} : killer'[j] = killer[j]
               /\ killer'[k].pc = "idle"
<1>1. killer \in [Killer -> KillState]
  BY DEF Shape, TypeOK
<1>2. QED
  BY <1>1 DEF KillState, IdleKill

(***************************************************************************)
(* Names, missions and workers                                             *)
(***************************************************************************)

\* The mission of a name that was given to one mission is the agent's.
LEMMA OneMission ==
  ASSUME Shape, NEW t \in Task, NamedOnce(t), Status(t) # "absent",
         NEW m \in Mission, missions[m].task = t
  PROVE  m = agents[t].mission
  BY DEF Shape, AgentsShaped, NamedOnce

\* Two workers on one name that was given to one mission are one worker.
LEMMA OneWorker ==
  ASSUME Shape, ExclusiveExecution, Sane, NEW t \in Task, NamedOnce(t),
         NEW v \in Worker, ~At(v, "idle"), TaskOf(v) = t,
         NEW w \in Worker, ~At(w, "idle"), TaskOf(w) = t
  PROVE  v = w
<1>1. /\ worker[v].mission \in Mission
      /\ worker[w].mission \in Mission
      /\ worker[v].mission = worker[w].mission
  BY DEF Shape, WorkersShaped, NamedOnce, TaskOf
<1>2. ~Suffered({"overrun"})
  BY DEF Sane, Suffered
<1>3. QED
  BY <1>1, <1>2 DEF ExclusiveExecution, Holds, At

\* A worker's task is a task.
LEMMA WorkersTask ==
  ASSUME Shape, NEW w \in Worker, ~At(w, "idle")
  PROVE  /\ worker[w].mission \in Mission
         /\ TaskOf(w) \in Task
         /\ missions[worker[w].mission].task = TaskOf(w)
  BY DEF Shape, WorkersShaped, MissionsShaped, TaskOf

(***************************************************************************)
(* What a step that leaves the rows of a part alone keeps                  *)
(***************************************************************************)
LEMMA KnowsFrame ==
  ASSUME Shape, Steady, NEW w \in Worker, NEW t \in Task, KnowsOf(w, t),
         worker'[w] = worker[w],
         \/ agents'[t].status = Status(t)
         \/ agents'[t].status = "absent"
         \/ Status(t) \in LiveStatus /\ agents'[t].status = "Stopped"
  PROVE  KnowsOf(w, t)'
<1> SUFFICES ASSUME ~At(w, "idle")', TaskOf(w)' = t, NamedOnce(t)'
             PROVE  KnowsOf(w, t)'
  BY DEF KnowsOf
<1>1. ~At(w, "idle") /\ TaskOf(w) = t /\ NamedOnce(t)
  BY WorkersTask DEF Steady, At, TaskOf
<1>2. worker[w].outcome \in TerminalStatus \union {"none"}
  BY DEF Shape, TypeOK, WorkerState
<1>3. Status(t) \in AgentStatus
  BY DEF Shape, TypeOK, StoreTypeOK, AgentRow, Status
<1>4. QED
  BY <1>1, <1>2, <1>3
  DEF KnowsOf, At, Status, Steady, LiveStatus, TerminalStatus, AgentStatus

\* An agent whose row, mission and keepers a step leaves alone.
LEMMA TellsFrame ==
  ASSUME Shape, Steady, NEW t \in Task, TellsOf(t),
         NEW m, m = agents[t].mission,
         agents'[t].mission = m,
         agents'[t].status = Status(t),
         Status(t) # "absent" => missions'[m].status = MStatus(m),
         Stopping(t) => Stopping(t)',
         MStatus(m) = "deleted" /\ <<t, m>> \in boot => <<t, m>> \in boot',
         Held(m) => Held(m)' \/ Suffered({"crash"})'
  PROVE  TellsOf(t)'
<1> SUFFICES ASSUME NamedOnce(t)'
             PROVE  /\ Status(t)' \in LiveStatus => LiveTold(Status(t), m, t)'
                    /\ Status(t)' # "absent" => EndTold(Status(t), m)'
  BY DEF TellsOf, LiveTold, EndTold, Stopping, Held, Holds, MStatus, Status
<1>1. NamedOnce(t) /\ Status(t)' = Status(t)
  BY DEF Steady, Status
<1>2. /\ Status(t) \in LiveStatus => LiveTold(Status(t), m, t)
      /\ Status(t) # "absent" => EndTold(Status(t), m)
  BY <1>1 DEF TellsOf
<1>3. Status(t) # "absent" => MStatus(m)' = MStatus(m)
  BY DEF MStatus
<1>4. "absent" \notin LiveStatus
  BY DEF LiveStatus
<1>5. QED
  BY <1>1, <1>2, <1>3, <1>4 DEF LiveTold, EndTold, Steady

(***************************************************************************)
(* Linked: the row that Kill or the reaper read and its mission's task     *)
(***************************************************************************)

\* A mission gets its task when it is inserted and keeps it.
TaskSteps ==
  \/ \A n \in Mission :
       /\ missions'[n].task = missions[n].task
       /\ missions'[n].status = "none" => missions[n].status = "none"
  \/ \E m \in Mission, t \in Task :
       /\ Spawn(m, t)
       /\ missions[m].status = "none"
       /\ missions'[m].status = "pending"
       /\ missions'[m].task = t
       /\ \A n \in Mission \ {m} : missions'[n] = missions[n]

\* Every step moves the tasks that way: only Spawn writes one.
LEMMA TasksMove ==
  ASSUME Shape, [Next]_vars
  PROVE  TaskSteps
<1> StoreTypeOK /\ QueueTypeOK
  BY DEF Shape, TypeOK
<1> DEFINE Kept == \A n \in Mission :
                     /\ missions'[n].task = missions[n].task
                     /\ missions'[n].status = "none" => missions[n].status = "none"
<1>1. CASE UNCHANGED missions
  BY <1>1 DEF TaskSteps
<1>2. ASSUME NEW m \in Mission, NEW f \in {"pending", "claimed"},
             NEW to \in MissionEnd, QueueWrite(m, f, to)
      PROVE  Kept
  BY <1>2, QueueWriteEffect DEF MissionEnd
<1>3. ASSUME NEW m \in Mission, NEW t \in Task, Spawn(m, t) PROVE TaskSteps
  BY <1>3 DEF Spawn, Enqueue, NextId, MStatus, QueueTypeOK, TaskSteps
<1>4. ASSUME NEW w \in Worker, WorkerStep(w) \/ WorkerFault(w) PROVE TaskSteps
  <2>1. ASSUME NEW m \in Mission, Dequeue(w, m) PROVE Kept
    BY <2>1, TryClaimEffect DEF Dequeue
  <2>2. CASE Finish(w) \/ FailQueue(w)
    <3>1. PICK to \in MissionEnd : QueueWrite(worker[w].mission, "claimed", to)
      BY <2>2, QueueWrites DEF Finish, FailQueue, MissionEnd
    <3>2. worker[w].mission \in Mission
      BY <2>2, WorkersTask DEF Finish, FailQueue, At
    <3>3. QED
      BY <1>2, <3>1, <3>2 DEF TaskSteps
  <2>3. QED
    BY <1>1, <1>4, <2>1, <2>2
    DEF TaskSteps, WorkerStep, WorkerFault, ClaimQueuedAgent, StartExecution,
        FailMission, WriteResult, ClaimStoreError, FailMissionStoreError,
        WriteResultStoreError, Crash
<1>5. ASSUME NEW m \in Mission, LeaseExpires(m) \/ LeaseOverrun(m)
      PROVE  TaskSteps
  BY <1>5, ExpireEffect DEF LeaseExpires, LeaseOverrun, TaskSteps
<1>6. CASE Reclaim
  BY <1>6, ReclaimEffect DEF Reclaim, TaskSteps
<1>7. ASSUME NEW k \in Killer, KillStep(k) PROVE TaskSteps
  <2>1. CASE KillCancelPending(k)
    BY <1>2, <2>1, QueueWrites
    DEF KillCancelPending, Shape, KillersShaped, MissionEnd, TaskSteps
  <2>2. CASE KillCancelClaimed(k)
    BY <1>2, <2>2, QueueWrites
    DEF KillCancelClaimed, Shape, KillersShaped, MissionEnd, TaskSteps
  <2>3. QED
    BY <1>1, <1>7, <2>1, <2>2
    DEF KillStep, KillMarkStopped, KillTerminal, KillCleanup
<1>8. CASE ReapStep
  <2>1. ASSUME NEW t \in Task, ReapCancelPending(t) PROVE TaskSteps
    BY <1>2, <2>1, QueueWrites
    DEF ReapCancelPending, Shape, ReaperShaped, MissionEnd, TaskSteps
  <2>2. CASE ReapCancelClaimed
    BY <1>2, <2>2, QueueWrites
    DEF ReapCancelClaimed, Shape, ReaperShaped, MissionEnd, TaskSteps
  <2>3. QED
    BY <1>1, <1>8, <2>1, <2>2
    DEF ReapStep, ReapLoad, ReapCleanup, ReapMarkStopped
<1>9. QED
  BY <1>1, <1>3, <1>4, <1>5, <1>6, <1>7, <1>8
  DEF Next, KillFind, Restart, Reconcile, vars

\* So a mission that has a task keeps it.
LEMMA TasksStay ==
  ASSUME Shape, Linked, [Next]_vars
  PROVE  /\ \A m \in Mission :
              missions[m].task \in Task => /\ missions'[m].task = missions[m].task
                                           /\ missions'[m].status # "none"
         /\ \A m \in Mission : missions'[m].status = "none" => missions'[m].task = NoTask
<1>1. \A m \in Mission : missions[m].status = "none" => missions[m].task = NoTask
  BY DEF Linked, MStatus
<1>2. TaskSteps
  BY TasksMove
<1>3. QED
  BY <1>1, <1>2, SwarmAssumption DEF TaskSteps

\* Steady holds of every step.
LEMMA SteadyStep ==
  ASSUME Shape, Linked, [Next]_vars
  PROVE  Steady
<1>1. \A t \in Task : NamedOnce(t)' => NamedOnce(t)
  BY TasksStay DEF NamedOnce
<1>2. \A f \in FaultKind : faults[f] > 0 => faults'[f] > 0
  BY FaultsStay
<1>3. /\ Suffered({"crash"}) => Suffered({"crash"})'
      /\ Suffered({"restart"}) => Suffered({"restart"})'
      /\ Sane' => Sane
  BY <1>2 DEF Suffered, Sane, FaultKind
<1>4. QED
  BY <1>1, <1>3, TasksStay DEF Steady

\* A request of Kill keeps the row it read to the end.
LEMMA KillerMoves ==
  ASSUME Shape, [Next]_vars, NEW k \in Killer
  PROVE  \/ killer'[k].pc = "idle"
         \/ /\ killer[k].pc # "idle"
            /\ killer'[k].task = killer[k].task
            /\ killer'[k].row = killer[k].row
            /\ killer'[k].pc = "term" => killer[k].pc = "term"
         \/ \E t \in Task : /\ KillFind(k, t)
                            /\ killer'[k].task = t
                            /\ killer'[k].row = agents[t]
                            /\ killer'[k].pc = "term" => Status(t) \in TerminalStatus
<1>1. CASE UNCHANGED killer
  BY <1>1
<1>2. ASSUME NEW j \in Killer, KillStep(j)
      PROVE  \/ killer'[k].pc = "idle"
             \/ /\ killer[k].pc # "idle"
                /\ killer'[k].task = killer[k].task
                /\ killer'[k].row = killer[k].row
                /\ killer'[k].pc = "term" => killer[k].pc = "term"
  <2>1. \/ killer' = [killer EXCEPT ![j] = IdleKill]
        \/ /\ killer[j].pc # "idle"
           /\ \E pc : pc # "term" /\ killer' = [killer EXCEPT ![j].pc = pc]
    BY <1>2 DEF KillStep, KillCancelPending, KillCancelClaimed,
       KillMarkStopped, KillTerminal, KillCleanup
  <2>2. QED
    BY <2>1, KillerWrites
<1>3. ASSUME NEW j \in Killer, NEW t \in Task, KillFind(j, t)
      PROVE  IF j = k THEN /\ killer'[k].task = t
                           /\ killer'[k].row = agents[t]
                           /\ killer'[k].pc = "term" => Status(t) \in TerminalStatus
                      ELSE killer'[k] = killer[k]
  <2>1. killer \in [Killer -> KillState]
    BY DEF Shape, TypeOK
  <2>2. QED
    BY <1>3, <2>1 DEF KillFind
<1>4. CASE Restart
  BY <1>4 DEF Restart, IdleKill
<1>5. QED
  BY <1>1, <1>2, <1>3, <1>4, ZenonT(60)
  DEF Next, Spawn, WorkerStep, Dequeue, ClaimQueuedAgent, StartExecution,
      FailMission, WriteResult, Finish, FailQueue, WorkerFault, ClaimStoreError,
      FailMissionStoreError, WriteResultStoreError, Crash, LeaseExpires,
      LeaseOverrun, Reclaim, ReapStep, ReapLoad, ReapCleanup, ReapCancelPending,
      ReapCancelClaimed, ReapMarkStopped, Reconcile, vars

\* The reaper works on rows it loaded in this pass.
LEMMA ReaperMoves ==
  ASSUME Shape, [Next]_vars
  PROVE  /\ \A t \in reaper'.aged :
              \/ t \in reaper.aged /\ reaper'.rows = reaper.rows
              \/ Status(t) = "Running" /\ reaper'.rows[t] = agents[t]
         /\ reaper'.pc = "cancel2" =>
              /\ reaper'.rows = reaper.rows
              /\ \/ reaper.pc = "cancel2" /\ reaper'.task = reaper.task
                 \/ reaper'.task \in reaper.aged
<1> reaper \in ReapState
  BY DEF Shape, TypeOK
<1> DEFINE Goal == /\ \A t \in reaper'.aged :
                        \/ t \in reaper.aged /\ reaper'.rows = reaper.rows
                        \/ Status(t) = "Running" /\ reaper'.rows[t] = agents[t]
                   /\ reaper'.pc = "cancel2" =>
                        /\ reaper'.rows = reaper.rows
                        /\ \/ reaper.pc = "cancel2" /\ reaper'.task = reaper.task
                           \/ reaper'.task \in reaper.aged
<1>1. CASE UNCHANGED reaper
  BY <1>1
<1>2. ASSUME NEW r \in ReapState, reaper' = Rest(r), r.rows = reaper.rows,
             r.aged = reaper.aged
      PROVE  Goal
  BY <1>2, RestEffect
<1>3. CASE ReapStep
  <2>1. CASE ReapLoad
    <3>1. PICK old \in SUBSET {t \in Task : Status(t) = "Running"} :
            reaper' = Rest([pc    |-> "sweep",
                            rows  |-> [t \in Task |-> IF t \in old THEN agents[t]
                                                                 ELSE Absent],
                            clean |-> {t \in Task : Status(t) \in TerminalStatus},
                            aged  |-> old,
                            task  |-> NoTask])
      BY <2>1 DEF ReapLoad
    <3> DEFINE rows == [t \in Task |-> IF t \in old THEN agents[t] ELSE Absent]
               r == [pc |-> "sweep", rows |-> rows,
                     clean |-> {t \in Task : Status(t) \in TerminalStatus},
                     aged |-> old, task |-> NoTask]
    <3>2. rows \in [Task -> AgentRow]
      BY DEF Shape, TypeOK, StoreTypeOK, Absent, AgentRow, AgentStatus,
         AgentMode, NoMission
    <3>3. r \in ReapState /\ r.rows = rows /\ r.aged = old
      BY <3>2 DEF ReapState, ReapPc
    <3>4. reaper' = Rest(r)
      BY <3>1
    <3>5. \A t \in old : Status(t) = "Running" /\ rows[t] = agents[t]
      OBVIOUS
    <3> HIDE DEF r, rows
    <3>6. QED
      BY <3>3, <3>4, <3>5, RestEffect
  <2>2. ASSUME NEW t \in Task, ReapCleanup(t) PROVE Goal
    <3> DEFINE r == [reaper EXCEPT !.clean = @ \ {t}]
    <3>1. r \in ReapState /\ r.rows = reaper.rows /\ r.aged = reaper.aged
      BY DEF ReapState
    <3>2. reaper' = Rest(r)
      BY <2>2 DEF ReapCleanup
    <3> HIDE DEF r, Goal
    <3>3. QED
      BY <1>2, <3>1, <3>2
  <2>3. ASSUME ReapMarkStopped PROVE Goal
    <3> DEFINE r == [reaper EXCEPT !.task = NoTask]
    <3>1. r \in ReapState /\ r.rows = reaper.rows /\ r.aged = reaper.aged
      BY DEF ReapState
    <3>2. reaper' = Rest(r)
      BY <2>3 DEF ReapMarkStopped
    <3> HIDE DEF r, Goal
    <3>3. QED
      BY <1>2, <3>1, <3>2
  <2>4. ASSUME NEW t \in Task, ReapCancelPending(t) PROVE Goal
    BY <2>4 DEF ReapCancelPending, ReapState
  <2>5. CASE ReapCancelClaimed
    BY <2>5 DEF ReapCancelClaimed, ReapState
  <2>6. QED
    BY <1>3, <2>1, <2>2, <2>3, <2>4, <2>5 DEF ReapStep
<1>4. CASE Restart
  BY <1>4, IdleLocals DEF Restart
<1>5. QED
  BY <1>1, <1>3, <1>4
  DEF Next, Spawn, WorkerStep, Dequeue, ClaimQueuedAgent, StartExecution,
      FailMission, WriteResult, Finish, FailQueue, WorkerFault, ClaimStoreError,
      FailMissionStoreError, WriteResultStoreError, Crash, LeaseExpires,
      LeaseOverrun, Reclaim, KillFind, KillStep, KillCancelPending,
      KillCancelClaimed, KillMarkStopped, KillTerminal, KillCleanup,
      Reconcile, vars

\* Only a start of the control plane finds something to reconcile.
LEMMA BootMoves ==
  ASSUME [Next]_vars
  PROVE  boot' \subseteq boot \/ boot' = QueuedAgents
  BY DEF Next, Spawn, WorkerStep, Dequeue, ClaimQueuedAgent, StartExecution,
     FailMission, WriteResult, Finish, FailQueue, WorkerFault, ClaimStoreError,
     FailMissionStoreError, WriteResultStoreError, Crash, LeaseExpires,
     LeaseOverrun, Reclaim, KillFind, KillStep, KillCancelPending,
     KillCancelClaimed, KillMarkStopped, KillTerminal, KillCleanup, ReapStep,
     ReapLoad, ReapCleanup, ReapCancelPending, ReapCancelClaimed,
     ReapMarkStopped, Restart, Reconcile, vars

\* Kill, the reaper and the start look at the mission of the row they read.
LEMMA LinkedStep ==
  ASSUME Shape, Linked, [Next]_vars
  PROVE  Linked'
<1>1. \A t \in Task :
        Status(t) # "absent" => /\ agents[t].mission \in Mission
                                /\ missions[agents[t].mission].task = t
  BY DEF Shape, AgentsShaped
<1>2. ASSUME NEW k \in Killer, killer'[k].pc # "idle"
      PROVE  missions'[killer'[k].row.mission].task = killer'[k].task
  <2>1. CASE /\ killer[k].pc # "idle"
             /\ killer'[k].task = killer[k].task
             /\ killer'[k].row = killer[k].row
    BY <2>1, TasksStay DEF Linked, Shape, KillersShaped
  <2>2. ASSUME NEW t \in Task, KillFind(k, t), killer'[k].task = t,
               killer'[k].row = agents[t]
        PROVE  missions'[killer'[k].row.mission].task = killer'[k].task
    BY <1>1, <2>2 DEF KillFind
  <2>3. QED
    BY <1>2, <2>1, <2>2, KillerMoves
<1>3. ASSUME NEW t \in reaper'.aged
      PROVE  missions'[reaper'.rows[t].mission].task = t
  <2>1. t \in Task
    BY ShapeNext DEF Shape, TypeOK, ReapState
  <2>2. CASE t \in reaper.aged /\ reaper'.rows = reaper.rows
    BY <2>1, <2>2, TasksStay DEF Linked, Shape, ReaperShaped
  <2>3. CASE Status(t) = "Running" /\ reaper'.rows[t] = agents[t]
    BY <1>1, <2>1, <2>3, TasksStay
  <2>4. QED
    BY <2>2, <2>3, ReaperMoves
<1>4. ASSUME reaper'.pc = "cancel2"
      PROVE  missions'[reaper'.rows[reaper'.task].mission].task = reaper'.task
  <2>1. /\ reaper.aged \subseteq Task
        /\ reaper.pc = "cancel2" => reaper.task \in Task
    BY DEF Shape, TypeOK, ReapState, ReaperShaped
  <2>2. QED
    BY <1>4, <2>1, ReaperMoves, TasksStay DEF Linked, Shape, ReaperShaped
<1>5. ASSUME NEW t \in Task, NEW m \in Mission, <<t, m>> \in boot'
      PROVE  missions'[m].task = t
  <2>1. CASE <<t, m>> \in boot
    BY <2>1, TasksStay DEF Linked
  <2>2. CASE <<t, m>> \in QueuedAgents
    BY <1>1, <2>2, TasksStay DEF QueuedAgents
  <2>3. QED
    BY <1>5, <2>1, <2>2, BootMoves
<1>6. QED
  BY <1>2, <1>3, <1>4, <1>5, TasksStay DEF Linked, MStatus

\* A terminal agent that Kill is about to remove stays terminal or is gone:
\* the name would have to be given to a second mission to live again.
LEMMA CalmStep ==
  ASSUME Shape, Linked, Calm, [Next]_vars
  PROVE  Calm'
<1>1. ASSUME NEW t \in Task
      PROVE  agents'[t].status # "Idle"
  BY AgentSteps DEF AgentStep, Calm, Status, TerminalStatus
<1>2. ASSUME NEW k \in Killer, NEW t \in Task,
             killer'[k].pc = "term", killer'[k].task = t, NamedOnce(t)'
      PROVE  agents'[t].status \notin LiveStatus
  <2>1. CASE killer[k].pc = "term" /\ killer[k].task = t
    <3>1. Status(t) \notin LiveStatus
      BY <1>2, <2>1, SteadyStep DEF Calm, Steady
    <3>2. ASSUME NEW m \in Mission, Spawn(m, t) PROVE FALSE
      <4>1. /\ killer[k].row.mission \in Mission
            /\ missions[killer[k].row.mission].task = t
        BY <2>1 DEF Linked, Shape, KillersShaped
      <4>2. missions[m].task = NoTask /\ missions'[m].task = t
        BY <3>2 DEF Spawn, Enqueue, NextId, Linked, Shape, TypeOK, QueueTypeOK
      <4>3. missions'[killer[k].row.mission].task = t
        BY <4>1, TasksStay
      <4>4. QED
        BY <1>2, <4>1, <4>2, <4>3, SwarmAssumption DEF NamedOnce
    <3>3. QED
      BY <3>1, <3>2, AgentSteps DEF AgentStep, Status, LiveStatus, TerminalStatus
  <2>2. ASSUME NEW u \in Task, KillFind(k, u), killer'[k].task = u,
               Status(u) \in TerminalStatus
        PROVE  agents'[t].status \notin LiveStatus
    BY <1>2, <2>2 DEF KillFind, Status, TerminalStatus, LiveStatus
  <2>3. QED
    BY <1>2, <2>1, <2>2, KillerMoves
<1>3. \A k \in Killer : killer'[k].pc = "term" => killer'[k].task \in Task
  BY ShapeNext DEF Shape, KillersShaped
<1>4. ASSUME NEW k \in Killer, killer'[k].pc = "term", NamedOnce(killer[k].task)'
      PROVE  agents'[killer'[k].task].status \notin LiveStatus
  BY <1>2, <1>3, <1>4
<1>5. QED
  BY <1>1, <1>4 DEF Calm, Status

(***************************************************************************)
(* Told: one lemma per action                                              *)
(***************************************************************************)


\* A new mission and its agent: no worker holds the mission, and a worker that
\* holds another mission of the same name is not spoken of any more.
LEMMA SpawnTold ==
  ASSUME Now, Steady, NEW n \in Mission, NEW u \in Task, Spawn(n, u)
  PROVE  Told'
<1> Shape /\ Told
  BY DEF Now
<1>1. /\ UNCHANGED <<worker, killer, reaper, boot, faults>>
      /\ Status(u) = "absent" /\ MStatus(n) = "none"
      /\ agents'[u].status = "Queued" /\ agents'[u].mission = n
      /\ \A t \in Task \ {u} : agents'[t] = agents[t]
      /\ missions'[n].status = "pending" /\ missions'[n].task = u
      /\ \A m \in Mission \ {n} : missions'[m] = missions[m]
  BY DEF Spawn, Enqueue, InsertAgent, NextId, QueuedRow, Shape, TypeOK,
     StoreTypeOK, QueueTypeOK
<1>2. ASSUME NEW w \in Worker PROVE OpenOf(w)'
  BY <1>1, WorkersTask DEF Told, OpenOf, At, MStatus, Shape, WorkersShaped
<1>3. ASSUME NEW w \in Worker, NEW t \in Task PROVE KnowsOf(w, t)'
  <2>1. CASE t = u
    <3> SUFFICES ASSUME ~At(w, "idle"), TaskOf(w)' = t, NamedOnce(t)'
                 PROVE  FALSE
      BY <1>1 DEF KnowsOf, At
    <3>1. worker[w].mission \in Mission /\ worker[w].mission # n
      BY <1>1 DEF Shape, WorkersShaped
    <3>2. missions'[worker[w].mission].task = t
      BY <1>1 DEF TaskOf
    <3>3. QED
      BY <1>1, <2>1, <3>1, <3>2 DEF NamedOnce
  <2>2. CASE t # u
    BY <1>1, <2>2, KnowsFrame DEF Told, Status
  <2>3. QED
    BY <2>1, <2>2
<1>4. ASSUME NEW m \in Mission PROVE ClaimedOf(m)'
  BY <1>1 DEF Told, ClaimedOf, MStatus, Held, Holds, Suffered
<1>5. ASSUME NEW t \in Task PROVE TellsOf(t)'
  <2>1. CASE t = u
    BY <1>1, <2>1 DEF TellsOf, LiveTold, EndTold, Status, MStatus, LiveStatus
  <2>2. CASE t # u
    <3>1. Status(t) # "absent" =>
            agents[t].mission \in Mission /\ agents[t].mission # n
      BY <1>1 DEF Shape, AgentsShaped
    <3>2. PICK m : m = agents[t].mission
      OBVIOUS
    <3>3. /\ Stopping(t)' = Stopping(t)
          /\ Held(m)' = Held(m)
      BY <1>1 DEF Stopping, Held, Holds
    <3>4. /\ Status(t) # "absent" => missions'[m].status = MStatus(m)
          /\ agents'[t].mission = m
          /\ agents'[t].status = Status(t)
      BY <1>1, <2>2, <3>1, <3>2 DEF MStatus, Status
    <3>5. TellsOf(t)
      BY DEF Told
    <3>6. QED
      BY <1>1, <3>2, <3>3, <3>4, <3>5, TellsFrame
  <2>3. QED
    BY <2>1, <2>2
<1>6. QED
  BY <1>2, <1>3, <1>4, <1>5 DEF Told

\* A worker claims a mission that was waiting.
LEMMA DequeueTold ==
  ASSUME Now, Steady, NEW x \in Worker, NEW n \in Mission, Dequeue(x, n)
  PROVE  Told'
<1> Shape /\ Told /\ Calm
  BY DEF Now
<1>1. /\ UNCHANGED <<agents, emitted, killer, reaper, boot, faults>>
      /\ MStatus(n) = "pending"
      /\ missions'[n].status = "claimed"
      /\ missions'[n].task = missions[n].task
      /\ \A m \in Mission \ {n} : missions'[m] = missions[m]
  BY TryClaimEffect DEF Dequeue, Shape, TypeOK
<1>2. /\ worker[x].pc = "idle"
      /\ worker'[x].pc = "claim" /\ worker'[x].mission = n
      /\ \A v \in Worker \ {x} : worker'[v] = worker[v]
  <2> DEFINE row == [IdleWorker EXCEPT !.pc = "claim", !.mission = n]
  <2>1. row.pc = "claim" /\ row.mission = n
    BY DEF IdleWorker
  <2>2. worker \in [Worker -> WorkerState] /\ worker' = [worker EXCEPT ![x] = row]
    BY DEF Dequeue, Shape, TypeOK
  <2>3. worker[x].pc = "idle"
    BY DEF Dequeue, At
  <2> HIDE DEF row
  <2>4. QED
    BY <2>1, <2>2, <2>3
<1>3. ASSUME NEW m PROVE Held(m) => Held(m)'
  BY <1>2 DEF Held, Holds
<1>4. ASSUME NEW w \in Worker PROVE OpenOf(w)'
  BY <1>1, <1>2 DEF Told, OpenOf, At, MStatus, Shape, WorkersShaped
<1>5. ASSUME NEW w \in Worker, NEW t \in Task PROVE KnowsOf(w, t)'
  <2>1. CASE w = x
    <3> SUFFICES ASSUME TaskOf(x)' = t, NamedOnce(t)'
                 PROVE  /\ Status(t) # "Running"
                        /\ ~Suffered({"crash"}) => Status(t) # "Completed"
      BY <1>1, <1>2, <2>1 DEF KnowsOf, At, Status, Suffered
    <3>1. missions[n].task = t /\ NamedOnce(t)
      BY <1>1, <1>2 DEF TaskOf, Steady
    <3>2. Status(t) # "absent" => n = agents[t].mission
      BY <3>1, OneMission
    <3>3. QED
      BY <1>1, <3>1, <3>2 DEF Told, TellsOf, LiveTold, EndTold, LiveStatus
  <2>2. CASE w # x
    BY <1>1, <1>2, <2>2, KnowsFrame DEF Told, Status
  <2>3. QED
    BY <2>1, <2>2
<1>6. ASSUME NEW m \in Mission PROVE ClaimedOf(m)'
  <2>1. Held(n)'
    BY <1>2 DEF Held, Holds
  <2>2. m # n => missions'[m].status = MStatus(m)
    BY <1>1 DEF MStatus
  <2>3. m # n => ClaimedOf(m)'
    BY <1>1, <1>3, <2>2 DEF Told, ClaimedOf, MStatus, Suffered
  <2>4. QED
    BY <2>1, <2>3 DEF ClaimedOf
<1>7. ASSUME NEW t \in Task PROVE TellsOf(t)'
  <2>1. PICK m : m = agents[t].mission
    OBVIOUS
  <2>2. agents'[t].mission = m /\ agents'[t].status = Status(t)
    BY <1>1, <2>1 DEF Status
  <2>3. TellsOf(t) /\ Stopping(t)' = Stopping(t)
    BY <1>1 DEF Told, Stopping
  <2>4. CASE m = n
    BY <1>1, <2>1, <2>2, <2>3, <2>4
    DEF TellsOf, LiveTold, EndTold, Status, MStatus, Steady, LiveStatus, Suffered
  <2>5. CASE m # n
    <3>1. Status(t) # "absent" => m \in Mission
      BY <2>1 DEF Shape, AgentsShaped
    <3>2. Status(t) # "absent" => missions'[m].status = MStatus(m)
      BY <1>1, <2>5, <3>1 DEF MStatus
    <3>3. QED
      BY <1>1, <1>3, <2>1, <2>2, <2>3, <3>2, TellsFrame
  <2>6. QED
    BY <2>4, <2>5
<1>8. QED
  BY <1>4, <1>5, <1>6, <1>7 DEF Told

\* A worker that goes on with its mission, and writes at most its agent's row.
LEMMA WorkerActsTold ==
  ASSUME Now, Steady, NEW x \in Worker, ~At(x, "idle"),
         UNCHANGED <<missions, killer, reaper, boot, faults>>,
         NEW pc, pc # "idle", WorkerWrite(x, pc),
         NEW F \in SUBSET LiveStatus,
         NEW s \in {"Running"} \union TerminalStatus,
         AgentWrite(TaskOf(x), F, s),
         \A t \in Task : KnowsOf(x, t)'
  PROVE  Told'
<1> Shape /\ Told /\ ExclusiveExecution /\ Sane
  BY DEF Now
<1>1. ASSUME NEW m PROVE Held(m) => Held(m)'
  BY DEF Held, Holds, WorkerWrite, At
<1>2. ASSUME NEW w \in Worker PROVE OpenOf(w)'
  BY DEF Told, OpenOf, WorkerWrite, At, MStatus
<1>3. ASSUME NEW w \in Worker, NEW t \in Task PROVE KnowsOf(w, t)'
  <2>1. CASE w # x /\ TaskOf(x) = t
    <3> SUFFICES ASSUME ~At(w, "idle"), TaskOf(w) = t, NamedOnce(t)
                 PROVE  FALSE
      BY <2>1 DEF KnowsOf, WorkerWrite, At, TaskOf, NamedOnce
    <3>1. QED
      BY <2>1, OneWorker
  <2>2. CASE w # x /\ TaskOf(x) # t
    <3>1. worker'[w] = worker[w] /\ agents'[t].status = Status(t)
      BY <2>2 DEF WorkerWrite, AgentWrite
    <3>2. QED
      BY <3>1, KnowsFrame DEF Told
  <2>3. QED
    BY <2>1, <2>2
<1>4. ASSUME NEW m \in Mission PROVE ClaimedOf(m)'
  BY <1>1 DEF Told, ClaimedOf, MStatus, Suffered
<1>5. ASSUME NEW t \in Task PROVE TellsOf(t)'
  <2>1. PICK m : m = agents[t].mission
    OBVIOUS
  <2>2. /\ agents'[t].mission = m
        /\ missions'[m].status = MStatus(m)
        /\ TellsOf(t)
        /\ Stopping(t)' = Stopping(t)
    BY <2>1 DEF AgentWrite, MStatus, Told, Stopping
  <2>3. CASE t = TaskOf(x) /\ Status(t) \in F
    <3> SUFFICES ASSUME NamedOnce(t)' PROVE TellsOf(t)'
      BY DEF TellsOf
    <3>1. /\ worker[x].mission \in Mission
          /\ missions[worker[x].mission].task = t
          /\ MStatus(worker[x].mission) \in {"claimed", "cancelled"}
      BY <2>3, WorkersTask DEF Told, OpenOf
    <3>2. Status(t) \in LiveStatus /\ Status(t) # "absent" /\ NamedOnce(t)
      BY <2>3 DEF LiveStatus, Steady
    <3>3. MStatus(m) \in {"claimed", "cancelled"}
      BY <2>1, <3>1, <3>2, OneMission
    <3>4. Status(t)' = s
      BY <2>3 DEF AgentWrite, Status
    <3>5. LiveTold(Status(t), m, t)
      BY <2>1, <2>2, <3>2 DEF TellsOf
    <3>6. MStatus(m)' = MStatus(m)
      BY <2>2 DEF MStatus
    <3>7. LiveTold(Status(t), m, t)'
      BY <1>1, <2>2, <3>3, <3>5, <3>6 DEF LiveTold, Steady
    <3>8. EndTold(Status(t), m)'
      BY <3>3, <3>6 DEF EndTold
    <3>9. QED
      BY <2>2, <3>7, <3>8
      DEF TellsOf, LiveTold, EndTold, Stopping, Held, Holds, MStatus, Status
  <2>4. CASE ~(t = TaskOf(x) /\ Status(t) \in F)
    <3>1. agents'[t].status = Status(t)
      BY <2>4 DEF AgentWrite
    <3>2. QED
      BY <1>1, <2>1, <2>2, <3>1, TellsFrame
  <2>5. QED
    BY <2>3, <2>4
<1>6. QED
  BY <1>2, <1>3, <1>4, <1>5 DEF Told

\* No row changes and the program counter moves on.
LEMMA NoAgentWrite ==
  ASSUME NEW t, UNCHANGED agents
  PROVE  AgentWrite(t, {}, "Running")
  BY DEF AgentWrite, Status

\* The claim of the agent: Queued becomes Running, and a refusal means it ended.
LEMMA ClaimQueuedAgentTold ==
  ASSUME Now, Steady, NEW x \in Worker, ClaimQueuedAgent(x)
  PROVE  Told'
<1> Shape /\ Told /\ Calm
  BY DEF Now
<1>1. /\ At(x, "claim") /\ ~At(x, "idle")
      /\ UNCHANGED <<missions, killer, reaper, boot, faults>>
      /\ TaskOf(x) \in Task
      /\ ClaimAgent(TaskOf(x))
  BY WorkersTask DEF ClaimQueuedAgent, At
<1>2. AgentWrite(TaskOf(x), {"Queued"}, "Running")
  BY <1>1, AgentWrites
<1>3. PICK pc \in {"start", "failQueue"} :
        /\ pc = IF Claimable(TaskOf(x)) THEN "start" ELSE "failQueue"
        /\ Goto(x, pc)
  BY DEF ClaimQueuedAgent
<1>4. WorkerWrite(x, pc)
  BY <1>3, WorkerWrites
<1>5. ASSUME NEW t \in Task PROVE KnowsOf(x, t)'
  <2> SUFFICES ASSUME TaskOf(x)' = t, NamedOnce(t)' PROVE KnowsOf(x, t)'
    BY DEF KnowsOf
  <2>1. TaskOf(x) = t /\ NamedOnce(t)
    BY <1>1, <1>4 DEF TaskOf, WorkerWrite, Steady
  <2>2. Status(t) \notin {"Running", "Idle"}
    BY <1>1, <2>1 DEF Told, KnowsOf, Calm
  <2>3. ~Suffered({"crash"}) => Status(t) # "Completed"
    BY <1>1, <2>1 DEF Told, KnowsOf, At
  <2>4. Status(t)' = IF Status(t) = "Queued" THEN "Running" ELSE Status(t)
    BY <1>2, <2>1 DEF AgentWrite, Status
  <2>5. worker'[x].pc = pc /\ (pc = "start" <=> Status(t) = "Queued")
    BY <1>3, <1>4, <2>1 DEF WorkerWrite, Claimable
  <2>6. QED
    BY <2>2, <2>3, <2>4, <2>5 DEF KnowsOf, At, LiveStatus, Steady
<1>6. QED
  BY <1>1, <1>2, <1>4, <1>5, WorkerActsTold DEF LiveStatus

\* The spawn of the process changes neither row.
LEMMA StartExecutionTold ==
  ASSUME Now, Steady, NEW x \in Worker, StartExecution(x)
  PROVE  Told'
<1> Shape /\ Told
  BY DEF Now
<1>1. /\ At(x, "start") /\ ~At(x, "idle")
      /\ UNCHANGED <<agents, missions, killer, reaper, boot, faults>>
      /\ WorkerWrite(x, "exec")
  BY WorkerWrites DEF StartExecution, At
<1>2. AgentWrite(TaskOf(x), {}, "Running")
  BY <1>1, NoAgentWrite
<1>3. ASSUME NEW t \in Task PROVE KnowsOf(x, t)'
  <2> SUFFICES ASSUME TaskOf(x)' = t, NamedOnce(t)' PROVE KnowsOf(x, t)'
    BY DEF KnowsOf
  <2>1. TaskOf(x) = t /\ NamedOnce(t)
    BY <1>1 DEF TaskOf, WorkerWrite, Steady
  <2>2. worker'[x].pc = "exec" /\ Status(t)' = Status(t)
    BY <1>1 DEF WorkerWrite, Status
  <2>3. KnowsOf(x, t)
    BY DEF Told
  <2>4. QED
    BY <1>1, <2>1, <2>2, <2>3 DEF KnowsOf, At, Steady
<1>4. QED
  BY <1>1, <1>2, <1>3, WorkerActsTold

\* failMission, first half: after it the agent is not alive.
LEMMA FailMissionTold ==
  ASSUME Now, Steady, NEW x \in Worker, FailMission(x)
  PROVE  Told'
<1> Shape /\ Told
  BY DEF Now
<1>1. PICK s \in {"Failed", "Stopped"} :
        /\ worker[x].pc \in {"start", "exec"}
        /\ MarkTerminal(TaskOf(x), s)
  BY DEF FailMission, FailReason, At
<1>2. /\ UNCHANGED <<missions, killer, reaper, boot, faults>>
      /\ WorkerWrite(x, "failQueue")
  BY WorkerWrites DEF FailMission
<1>3. ~At(x, "idle") /\ TaskOf(x) \in Task /\ s \in TerminalStatus
  BY <1>1, WorkersTask DEF At, TerminalStatus
<1>4. AgentWrite(TaskOf(x), LiveStatus, s)
  <2>1. ExpectedFor(s) = LiveStatus
    BY DEF ExpectedFor, FailableFrom, StoppableFrom, LiveStatus
  <2>2. QED
    BY <1>1, <1>3, <2>1, AgentWrites
<1>5. ASSUME NEW t \in Task PROVE KnowsOf(x, t)'
  <2> SUFFICES ASSUME TaskOf(x)' = t, NamedOnce(t)' PROVE KnowsOf(x, t)'
    BY DEF KnowsOf
  <2>1. TaskOf(x) = t /\ NamedOnce(t)
    BY <1>2 DEF TaskOf, WorkerWrite, Steady
  <2>2. /\ worker'[x].pc = "failQueue"
        /\ Status(t)' = IF Status(t) \in LiveStatus THEN s ELSE Status(t)
    BY <1>2, <1>4, <2>1 DEF WorkerWrite, AgentWrite, Status
  <2>3. ~Suffered({"crash"}) => Status(t) # "Completed"
    BY <1>1, <1>3, <2>1 DEF Told, KnowsOf, At
  <2>4. QED
    BY <2>2, <2>3 DEF KnowsOf, At, Steady, LiveStatus
<1>6. QED
  BY <1>2, <1>3, <1>4, <1>5, WorkerActsTold

\* The result is written, or the agent had ended otherwise.
LEMMA WriteResultTold ==
  ASSUME Now, Steady, NEW x \in Worker, NEW o \in Result, WriteResult(x, o)
  PROVE  Told'
<1> Shape /\ Told
  BY DEF Now
<1>1. /\ At(x, "exec") /\ ~At(x, "idle") /\ TaskOf(x) \in Task
      /\ o \in TerminalStatus
      /\ UNCHANGED <<missions, killer, reaper, boot, faults>>
  BY WorkersTask DEF WriteResult, At, Result, TerminalStatus
<1>2. AgentWrite(TaskOf(x), ExpectedFor(o), o) /\ ExpectedFor(o) \subseteq LiveStatus
  BY <1>1, AgentWrites
  DEF WriteResult, ExpectedFor, CompletableFrom, FailableFrom, StoppableFrom,
      LiveStatus, TerminalStatus
<1>3. PICK pc \in {"finish", "failQueue"} :
        /\ pc = IF Applies(TaskOf(x), o) THEN "finish" ELSE "failQueue"
        /\ worker' = [worker EXCEPT ![x] = [@ EXCEPT !.pc = pc, !.outcome = o]]
  BY DEF WriteResult, Shape, TypeOK
<1>4. WorkerWrite(x, pc) /\ worker'[x].outcome = o
  BY <1>3 DEF WorkerWrite, Shape, TypeOK, WorkerState
<1>5. ASSUME NEW t \in Task PROVE KnowsOf(x, t)'
  <2> SUFFICES ASSUME TaskOf(x)' = t, NamedOnce(t)' PROVE KnowsOf(x, t)'
    BY DEF KnowsOf
  <2>1. TaskOf(x) = t /\ NamedOnce(t)
    BY <1>1, <1>4 DEF TaskOf, WorkerWrite, Steady
  <2>2. Status(t)' = IF Status(t) \in ExpectedFor(o) THEN o ELSE Status(t)
    BY <1>2, <2>1 DEF AgentWrite, Status
  <2>3. Status(t) # "Queued" /\ (~Suffered({"crash"}) => Status(t) # "Completed")
    BY <1>1, <2>1 DEF Told, KnowsOf, At
  <2>4. {"Running", "Idle"} \subseteq ExpectedFor(o)
    BY <1>1 DEF ExpectedFor, CompletableFrom, FailableFrom, StoppableFrom,
       TerminalStatus
  <2>5. worker'[x].pc = pc /\ (pc = "finish" <=> Status(t) \in ExpectedFor(o))
    BY <1>3, <1>4, <2>1 DEF WorkerWrite, Applies
  <2>6. QED
    BY <1>4, <2>2, <2>3, <2>4, <2>5 DEF KnowsOf, At, Steady, LiveStatus
<1>6. QED
  BY <1>1, <1>2, <1>3, <1>4, <1>5, WorkerActsTold

\* A worker that is done with its mission: the agent's status is final, so the
\* mission may end in the way that agrees with it.
LEMMA WorkerEndsTold ==
  ASSUME Now, Steady, NEW x \in Worker, ~At(x, "idle"), Done(x),
         UNCHANGED <<agents, killer, reaper, boot, faults>>,
         NEW to \in {"completed", "failed"},
         MissionWrite(worker[x].mission, "claimed", to),
         \A t \in Task :
           TaskOf(x) = t /\ NamedOnce(t) /\ Status(t) # "absent" =>
             /\ Status(t) \notin LiveStatus
             /\ to = "completed" => Status(t) = "Completed"
             /\ Status(t) = "Completed" /\ ~Suffered({"crash"}) => to = "completed"
  PROVE  Told'
<1> Shape /\ Told /\ ExclusiveExecution /\ Sane
  BY DEF Now
<1>1. /\ \A v \in Worker \ {x} : worker'[v] = worker[v]
      /\ worker'[x].pc = "idle"
      /\ worker[x].mission \in Mission
  BY WorkerWrites, WorkersTask
<1>2. ASSUME NEW m, m # worker[x].mission PROVE Held(m) => Held(m)'
  BY <1>1, <1>2 DEF Held, Holds
<1>3. ASSUME NEW w \in Worker PROVE OpenOf(w)'
  <2> SUFFICES ASSUME ~At(w, "idle")' PROVE OpenOf(w)'
    BY DEF OpenOf
  <2>1. w # x /\ worker'[w] = worker[w] /\ ~At(w, "idle")
    BY <1>1 DEF At
  <2>2. worker[w].mission \in Mission /\ worker[w].mission # worker[x].mission
    <3>1. ~Suffered({"overrun"})
      BY DEF Sane, Suffered
    <3>2. QED
      BY <1>1, <2>1, <3>1, WorkersTask DEF ExclusiveExecution, Holds, At
  <2>3. QED
    BY <2>1, <2>2 DEF Told, OpenOf, MissionWrite, MStatus, At
<1>4. ASSUME NEW w \in Worker, NEW t \in Task PROVE KnowsOf(w, t)'
  <2>1. CASE w = x
    BY <1>1, <2>1 DEF KnowsOf, At
  <2>2. CASE w # x
    BY <1>1, <2>2, KnowsFrame DEF Told, Status
  <2>3. QED
    BY <2>1, <2>2
<1>5. ASSUME NEW m \in Mission PROVE ClaimedOf(m)'
  <2>1. CASE m = worker[x].mission
    BY <2>1 DEF ClaimedOf, MissionWrite, MStatus
  <2>2. CASE m # worker[x].mission
    BY <1>2, <2>2 DEF Told, ClaimedOf, MissionWrite, MStatus, Suffered
  <2>3. QED
    BY <2>1, <2>2
<1>6. ASSUME NEW t \in Task PROVE TellsOf(t)'
  <2>1. PICK m : m = agents[t].mission
    OBVIOUS
  <2>2. /\ agents'[t].mission = m
        /\ agents'[t].status = Status(t)
        /\ TellsOf(t)
        /\ Stopping(t)' = Stopping(t)
    BY <2>1 DEF Status, Told, Stopping
  <2>3. CASE m = worker[x].mission /\ Status(t) # "absent"
    <3> SUFFICES ASSUME NamedOnce(t)' PROVE TellsOf(t)'
      BY DEF TellsOf
    <3>1. TaskOf(x) = t /\ NamedOnce(t)
      BY <2>1, <2>3 DEF Shape, AgentsShaped, TaskOf, Steady
    <3>2. EndTold(Status(t), m) /\ Status(t) \notin LiveStatus
      BY <2>1, <2>2, <2>3, <3>1 DEF TellsOf
    <3>3. MStatus(m)' = IF MStatus(m) = "claimed" THEN to ELSE MStatus(m)
      BY <1>1, <2>3 DEF MissionWrite, MStatus
    <3>4. Status(t)' = Status(t)
      BY <2>2 DEF Status
    <3>5. EndTold(Status(t), m)'
      BY <2>3, <3>1, <3>2, <3>3, <3>4 DEF EndTold, Suffered
    <3>6. QED
      BY <2>2, <3>2, <3>4, <3>5 DEF TellsOf, EndTold, MStatus, Status
  <2>4. CASE ~(m = worker[x].mission /\ Status(t) # "absent")
    <3>1. CASE Status(t) = "absent"
      BY <2>2, <3>1 DEF TellsOf, Status, LiveStatus
    <3>2. CASE Status(t) # "absent"
      <4>1. m \in Mission /\ m # worker[x].mission
        BY <2>1, <2>4, <3>2 DEF Shape, AgentsShaped
      <4>2. missions'[m].status = MStatus(m)
        BY <4>1 DEF MissionWrite
      <4>3. QED
        BY <1>2, <2>1, <2>2, <4>1, <4>2, TellsFrame
    <3>3. QED
      BY <3>1, <3>2
  <2>5. QED
    BY <2>3, <2>4
<1>7. QED
  BY <1>3, <1>4, <1>5, <1>6 DEF Told

\* Ack or Fail by the outcome, which is what the agent row says.
LEMMA FinishTold ==
  ASSUME Now, Steady, NEW x \in Worker, Finish(x)
  PROVE  Told'
<1> Shape /\ Told
  BY DEF Now
<1>1. PICK to \in {"completed", "failed"} :
        /\ to = "completed" <=> worker[x].outcome = "Completed"
        /\ QueueWrite(worker[x].mission, "claimed", to)
  BY QueueWrites DEF Finish
<1>2. /\ At(x, "finish") /\ ~At(x, "idle") /\ Done(x)
      /\ UNCHANGED <<agents, killer, reaper, boot, faults>>
  BY DEF Finish, At
<1>3. MissionWrite(worker[x].mission, "claimed", to)
  BY <1>1, <1>2, WorkersTask, MissionWrites
<1>4. ASSUME NEW t \in Task, TaskOf(x) = t, NamedOnce(t), Status(t) # "absent"
      PROVE  /\ Status(t) \notin LiveStatus
             /\ to = "completed" => Status(t) = "Completed"
             /\ Status(t) = "Completed" /\ ~Suffered({"crash"}) => to = "completed"
  <2>1. Status(t) = worker[x].outcome
    BY <1>2, <1>4 DEF Told, KnowsOf
  <2>2. Status(t) \in AgentStatus /\ worker[x].outcome \in TerminalStatus \union {"none"}
    BY DEF Shape, TypeOK, StoreTypeOK, AgentRow, Status, WorkerState
  <2>3. QED
    BY <1>1, <2>1, <2>2 DEF AgentStatus, TerminalStatus, LiveStatus
<1>5. QED
  BY <1>2, <1>3, <1>4, WorkerEndsTold

\* failMission, second half: the agent is over and did not complete.
LEMMA FailQueueTold ==
  ASSUME Now, Steady, NEW x \in Worker, FailQueue(x)
  PROVE  Told'
<1> Shape /\ Told
  BY DEF Now
<1>1. /\ At(x, "failQueue") /\ ~At(x, "idle") /\ ~At(x, "finish") /\ Done(x)
      /\ QueueWrite(worker[x].mission, "claimed", "failed")
      /\ UNCHANGED <<agents, killer, reaper, boot, faults>>
  BY QueueWrites DEF FailQueue, At
<1>2. MissionWrite(worker[x].mission, "claimed", "failed")
  BY <1>1, WorkersTask, MissionWrites
<1>3. \A t \in Task :
        TaskOf(x) = t /\ NamedOnce(t) =>
          /\ Status(t) \notin LiveStatus
          /\ ~Suffered({"crash"}) => Status(t) # "Completed"
  BY <1>1 DEF Told, KnowsOf
<1>4. QED
  BY <1>1, <1>2, <1>3, WorkerEndsTold

\* The worker dies: both rows stay as they are, and from now on a claimed
\* mission may be held by nobody.
LEMMA CrashTold ==
  ASSUME Now, Steady, NEW x \in Worker, Crash(x), Suffered({"crash"})'
  PROVE  Told'
<1> Shape /\ Told
  BY DEF Now
<1>1. /\ \A v \in Worker \ {x} : worker'[v] = worker[v]
      /\ worker'[x].pc = "idle"
      /\ UNCHANGED <<agents, missions, killer, reaper, boot>>
  BY WorkerWrites DEF Crash
<1>2. ASSUME NEW w \in Worker PROVE OpenOf(w)'
  BY <1>1 DEF Told, OpenOf, At, MStatus
<1>3. ASSUME NEW w \in Worker, NEW t \in Task PROVE KnowsOf(w, t)'
  <2>1. CASE w = x
    BY <1>1, <2>1 DEF KnowsOf, At
  <2>2. CASE w # x
    BY <1>1, <2>2, KnowsFrame DEF Told, Status
  <2>3. QED
    BY <2>1, <2>2
<1>4. ASSUME NEW m \in Mission PROVE ClaimedOf(m)'
  BY DEF ClaimedOf
<1>5. ASSUME NEW t \in Task PROVE TellsOf(t)'
  <2>1. PICK m : m = agents[t].mission
    OBVIOUS
  <2>2. TellsOf(t) /\ Stopping(t)' = Stopping(t)
    BY <1>1 DEF Told, Stopping
  <2>3. /\ agents'[t].mission = m
        /\ agents'[t].status = Status(t)
        /\ missions'[m].status = MStatus(m)
    BY <1>1, <2>1 DEF Status, MStatus
  <2>4. QED
    BY <1>1, <2>1, <2>2, <2>3, TellsFrame
<1>6. QED
  BY <1>2, <1>3, <1>4, <1>5 DEF Told

(***************************************************************************)
(* Steps of the control plane leave the workers alone                      *)
(***************************************************************************)

\* While Kill and the reaper stay where they are about to mark an agent, they
\* stay with that agent.
LEMMA KillerLeavesStopping ==
  ASSUME NEW k \in Killer, killer[k].pc # "stop", UNCHANGED reaper,
         \A j \in Killer \ {k} : killer'[j] = killer[j]
  PROVE  \A t \in Task : Stopping(t) => Stopping(t)'
  BY DEF Stopping

\* Either half of Queue.Cancel for the mission of the agent t0, by someone who
\* is about to mark t0 if the statement changed the row.
LEMMA CancelTold ==
  ASSUME Now, Steady, UNCHANGED <<agents, worker, boot, faults>>,
         NEW n \in Mission, NEW from, NEW to,
         \/ from = "pending" /\ to = "deleted"
         \/ from = "claimed" /\ to = "cancelled",
         MissionWrite(n, from, to),
         NEW t0 \in Task, missions[n].task = t0,
         MStatus(n) = from => Stopping(t0)',
         \A t \in Task : Stopping(t) => Stopping(t)'
  PROVE  Told'
<1> Shape /\ Told
  BY DEF Now
<1>1. \A m : Held(m)' <=> Held(m)
  BY DEF Held, Holds
<1>2. ASSUME NEW w \in Worker PROVE OpenOf(w)'
  BY WorkersTask DEF Told, OpenOf, MissionWrite, MStatus, At
<1>3. ASSUME NEW w \in Worker, NEW t \in Task PROVE KnowsOf(w, t)'
  BY KnowsFrame DEF Told, Status
<1>4. ASSUME NEW m \in Mission PROVE ClaimedOf(m)'
  BY <1>1 DEF Told, ClaimedOf, MissionWrite, MStatus, Suffered
<1>5. ASSUME NEW t \in Task PROVE TellsOf(t)'
  <2>1. PICK m : m = agents[t].mission
    OBVIOUS
  <2>2. /\ agents'[t].mission = m
        /\ agents'[t].status = Status(t)
        /\ TellsOf(t)
    BY <2>1 DEF Status, Told
  <2>3. CASE m = n /\ MStatus(m) = from /\ Status(t) # "absent"
    <3> SUFFICES ASSUME NamedOnce(t)' PROVE TellsOf(t)'
      BY DEF TellsOf
    <3>1. t = t0 /\ NamedOnce(t)
      BY <2>1, <2>3 DEF Shape, AgentsShaped, Steady
    <3>2. Stopping(t)' /\ MStatus(m)' = to /\ Status(t)' = Status(t)
      BY <2>2, <2>3, <3>1 DEF MissionWrite, MStatus, Status
    <3>3. /\ Status(t) \in LiveStatus => LiveTold(Status(t), m, t)
          /\ EndTold(Status(t), m)
      BY <2>1, <2>2, <2>3, <3>1 DEF TellsOf
    <3>4. to = "cancelled" /\ ~Suffered({"crash"}) => Held(m)
      BY <2>3 DEF Told, ClaimedOf
    <3>5. Status(t)' \in LiveStatus => LiveTold(Status(t), m, t)'
      BY <1>1, <2>3, <3>2, <3>3, <3>4 DEF LiveTold, Suffered
    <3>6. EndTold(Status(t), m)'
      BY <2>3, <3>2, <3>3 DEF EndTold, Suffered
    <3>7. QED
      BY <2>2, <3>5, <3>6
      DEF TellsOf, LiveTold, EndTold, Stopping, Held, Holds, MStatus, Status
  <2>4. CASE ~(m = n /\ MStatus(m) = from /\ Status(t) # "absent")
    <3>1. Status(t) # "absent" => missions'[m].status = MStatus(m)
      BY <2>1, <2>4 DEF MissionWrite, Shape, AgentsShaped
    <3>2. QED
      BY <1>1, <2>1, <2>2, <3>1, TellsFrame
  <2>5. QED
    BY <2>3, <2>4
<1>6. QED
  BY <1>2, <1>3, <1>4, <1>5 DEF Told

\* The two statements of Kill's cancel.
LEMMA KillCancelTold ==
  ASSUME Now, Steady, NEW k \in Killer, KillCancelPending(k) \/ KillCancelClaimed(k)
  PROVE  Told'
<1> Shape /\ Linked
  BY DEF Now
<1> DEFINE n == killer[k].row.mission
<1>1. PICK from, to :
        /\ \/ from = "pending" /\ to = "deleted"
           \/ from = "claimed" /\ to = "cancelled"
        /\ QueueWrite(n, from, to)
        /\ \E pc : /\ killer' = [killer EXCEPT ![k].pc = pc]
                   /\ MStatus(n) = from => pc = "stop"
  BY QueueWrites DEF KillCancelPending, KillCancelClaimed
<1>2. /\ killer[k].pc \notin {"idle", "stop"}
      /\ UNCHANGED <<agents, worker, reaper, boot, faults>>
  BY DEF KillCancelPending, KillCancelClaimed
<1>3. n \in Mission /\ killer[k].task \in Task /\ missions[n].task = killer[k].task
  BY <1>2 DEF Linked, Shape, KillersShaped
<1>4. MissionWrite(n, from, to)
  BY <1>1, <1>3, MissionWrites
<1>5. /\ \A j \in Killer \ {k} : killer'[j] = killer[j]
      /\ killer'[k].task = killer[k].task
      /\ MStatus(n) = from => killer'[k].pc = "stop"
  BY <1>1, KillerWrites
<1>6. MStatus(n) = from => Stopping(killer[k].task)'
  BY <1>5 DEF Stopping
<1>7. \A t \in Task : Stopping(t) => Stopping(t)'
  BY <1>2, <1>5, KillerLeavesStopping
<1> HIDE DEF n
<1>8. QED
  BY <1>1, <1>2, <1>3, <1>4, <1>6, <1>7, CancelTold

\* The two statements of the reaper's cancel.
LEMMA ReapCancelTold ==
  ASSUME Now, Steady, ReapCancelClaimed \/ \E t \in Task : ReapCancelPending(t)
  PROVE  Told'
<1> Shape /\ Linked
  BY DEF Now
<1>1. PICK t0 \in Task, n \in Mission, from \in {"pending", "claimed"}, to \in {"deleted", "cancelled"} :
        /\ \/ from = "pending" /\ to = "deleted"
           \/ from = "claimed" /\ to = "cancelled"
        /\ QueueWrite(n, from, to)
        /\ missions[n].task = t0
        /\ reaper'.task = t0
        /\ MStatus(n) = from => reaper'.pc = "stop"
  <2> reaper \in ReapState
    BY DEF Shape, TypeOK
  <2>1. ASSUME NEW u \in Task, ReapCancelPending(u)
        PROVE  \E t \in Task, m \in Mission, f \in {"pending", "claimed"}, s \in {"deleted", "cancelled"} :
                 /\ \/ f = "pending" /\ s = "deleted"
                    \/ f = "claimed" /\ s = "cancelled"
                 /\ QueueWrite(m, f, s)
                 /\ missions[m].task = t
                 /\ reaper'.task = t
                 /\ MStatus(m) = f => reaper'.pc = "stop"
    <3>1. /\ QueueWrite(reaper.rows[u].mission, "pending", "deleted")
          /\ reaper.rows[u].mission \in Mission
          /\ missions[reaper.rows[u].mission].task = u
      BY <2>1, QueueWrites DEF ReapCancelPending, Shape, ReaperShaped, Linked
    <3>2. /\ reaper'.task = u
          /\ MStatus(reaper.rows[u].mission) = "pending" => reaper'.pc = "stop"
      BY <2>1 DEF ReapCancelPending, ReapState
    <3>3. QED
      BY <3>1, <3>2
  <2>2. CASE ReapCancelClaimed
    <3>1. /\ QueueWrite(reaper.rows[reaper.task].mission, "claimed", "cancelled")
          /\ reaper.rows[reaper.task].mission \in Mission
          /\ missions[reaper.rows[reaper.task].mission].task = reaper.task
          /\ reaper.task \in Task
      BY <2>2, QueueWrites DEF ReapCancelClaimed, Shape, ReaperShaped, Linked
    <3>2. reaper'.task = reaper.task /\ reaper'.pc = "stop"
      BY <2>2 DEF ReapCancelClaimed, ReapState
    <3>3. QED
      BY <3>1, <3>2
  <2>3. QED
    BY <2>1, <2>2
<1>2. /\ reaper.pc # "stop"
      /\ UNCHANGED <<agents, worker, killer, boot, faults>>
  BY DEF ReapCancelPending, ReapCancelClaimed
<1>3. MissionWrite(n, from, to)
  BY <1>1, MissionWrites
<1>4. /\ MStatus(n) = from => Stopping(t0)'
      /\ \A t \in Task : Stopping(t) => Stopping(t)'
  BY <1>1, <1>2 DEF Stopping
<1>5. QED
  BY <1>1, <1>2, <1>3, <1>4, CancelTold

\* A row becomes terminal or absent, or does not change, and whoever was about
\* to mark another agent still is.
LEMMA RowEndsTold ==
  ASSUME Now, Steady, UNCHANGED <<missions, worker, boot, faults>>,
         NEW u \in Task,
         \A t \in Task \ {u} :
           /\ agents'[t].mission = agents[t].mission
           /\ agents'[t].status = Status(t)
           /\ Stopping(t) => Stopping(t)',
         NamedOnce(u) =>
           \/ agents'[u].status = "absent"
           \/ /\ Status(u) \in LiveStatus
              /\ agents'[u].status = "Stopped"
              /\ agents'[u].mission = agents[u].mission
           \/ /\ agents'[u].status = Status(u)
              /\ agents'[u].mission = agents[u].mission
              /\ Status(u) \in LiveStatus /\ Stopping(u) => Stopping(u)'
  PROVE  Told'
<1> Shape /\ Told
  BY DEF Now
<1>1. \A m : Held(m)' <=> Held(m)
  BY DEF Held, Holds
<1>2. ASSUME NEW w \in Worker PROVE OpenOf(w)'
  BY DEF Told, OpenOf, MStatus, At
<1>3. ASSUME NEW w \in Worker, NEW t \in Task PROVE KnowsOf(w, t)'
  <2> SUFFICES ASSUME NamedOnce(t) PROVE KnowsOf(w, t)'
    BY DEF KnowsOf, Steady
  <2>1. QED
    BY KnowsFrame DEF Told
<1>4. ASSUME NEW m \in Mission PROVE ClaimedOf(m)'
  BY <1>1 DEF Told, ClaimedOf, MStatus, Suffered
<1>5. ASSUME NEW t \in Task PROVE TellsOf(t)'
  <2> SUFFICES ASSUME NamedOnce(t)' PROVE TellsOf(t)'
    BY DEF TellsOf
  <2>1. PICK m : m = agents[t].mission
    OBVIOUS
  <2>2. /\ NamedOnce(t)
        /\ missions'[m].status = MStatus(m)
        /\ TellsOf(t)
    BY DEF Steady, MStatus, Told
  <2>3. CASE agents'[t].status = "absent"
    BY <2>3 DEF TellsOf, Status, LiveStatus
  <2>4. CASE /\ Status(t) \in LiveStatus
             /\ agents'[t].status = "Stopped"
             /\ agents'[t].mission = agents[t].mission
    <3>1. LiveTold(Status(t), m, t)
      BY <2>1, <2>2, <2>4 DEF TellsOf
    <3>2. EndTold(Status(t), m)'
      BY <2>2, <2>4, <3>1 DEF LiveTold, EndTold, MStatus, Status
    <3>3. QED
      BY <2>1, <2>4, <3>2 DEF TellsOf, EndTold, Status, MStatus, LiveStatus
  <2>5. CASE /\ agents'[t].status = Status(t)
             /\ agents'[t].mission = agents[t].mission
             /\ Status(t) \in LiveStatus /\ Stopping(t) => Stopping(t)'
    <3>1. Status(t)' = Status(t) /\ MStatus(m)' = MStatus(m)
      BY <2>2, <2>5 DEF Status, MStatus
    <3>2. Status(t) \in LiveStatus => LiveTold(Status(t), m, t)'
      BY <1>1, <2>1, <2>2, <2>5, <3>1 DEF TellsOf, LiveTold, Steady, Suffered
    <3>3. Status(t) # "absent" => EndTold(Status(t), m)'
      BY <2>1, <2>2, <3>1 DEF TellsOf, EndTold, Suffered
    <3>4. QED
      BY <2>1, <2>5, <3>1, <3>2, <3>3
      DEF TellsOf, LiveTold, EndTold, Stopping, Held, Holds, MStatus, Status
  <2>6. QED
    BY <2>2, <2>3, <2>4, <2>5
<1>6. QED
  BY <1>2, <1>3, <1>4, <1>5 DEF Told

\* Kill or the reaper marks the agent Stopped, whatever it has become.
LEMMA MarkStoppedTold ==
  ASSUME Now, Steady, UNCHANGED <<missions, worker, boot, faults>>,
         NEW u \in Task, MarkTerminal(u, "Stopped"),
         \A t \in Task \ {u} : Stopping(t) => Stopping(t)'
  PROVE  Told'
<1> Shape
  BY DEF Now
<1>1. "Stopped" \in TerminalStatus /\ ExpectedFor("Stopped") = LiveStatus
  BY DEF TerminalStatus, ExpectedFor, StoppableFrom, LiveStatus
<1>2. AgentWrite(u, LiveStatus, "Stopped")
  BY <1>1, AgentWrites
<1>3. /\ \A t \in Task \ {u} : /\ agents'[t].mission = agents[t].mission
                               /\ agents'[t].status = Status(t)
      /\ agents'[u].mission = agents[u].mission
      /\ \/ Status(u) \in LiveStatus /\ agents'[u].status = "Stopped"
         \/ agents'[u].status = Status(u) /\ Status(u) \notin LiveStatus
  BY <1>2 DEF AgentWrite
<1>4. QED
  BY <1>3, RowEndsTold

\* Kill or the reaper removes a row.
LEMMA RemoveTold ==
  ASSUME Now, Steady, UNCHANGED <<missions, worker, boot, faults>>,
         NEW u \in Task, RemoveAgent(u),
         \A t \in Task : Stopping(t) => Stopping(t)'
  PROVE  Told'
<1>1. /\ agents'[u].status = "absent"
      /\ \A t \in Task \ {u} : /\ agents'[t].mission = agents[t].mission
                               /\ agents'[t].status = Status(t)
  BY RemoveAgentEffect DEF Now, Shape, TypeOK, Status
<1>2. QED
  BY <1>1, RowEndsTold

\* Kill marks the agent, or finds it terminal and removes its row.
LEMMA KillEndsTold ==
  ASSUME Now, Steady, NEW k \in Killer,
         KillMarkStopped(k) \/ KillTerminal(k) \/ KillCleanup(k)
  PROVE  Told'
<1> Shape /\ Linked /\ Calm
  BY DEF Now
<1> DEFINE u == killer[k].task
<1>1. /\ u \in Task
      /\ UNCHANGED <<missions, worker, reaper, boot, faults>>
  BY DEF KillMarkStopped, KillTerminal, KillCleanup, Shape, KillersShaped
<1>2. \A j \in Killer \ {k} : killer'[j] = killer[j]
  BY KillerWrites DEF KillMarkStopped, KillTerminal, KillCleanup
<1>3. \A t \in Task \ {u} : Stopping(t) => Stopping(t)'
  BY <1>1, <1>2 DEF Stopping
<1>4. killer[k].pc # "stop" => \A t \in Task : Stopping(t) => Stopping(t)'
  BY <1>1, <1>2, KillerLeavesStopping
<1> HIDE DEF u
<1>5. CASE KillMarkStopped(k)
  <2>1. MarkTerminal(u, "Stopped")
    BY <1>5 DEF KillMarkStopped, u
  <2>2. QED
    BY <1>1, <1>3, <2>1, MarkStoppedTold
<1>6. CASE KillTerminal(k)
  <2>1. PICK s \in TerminalStatus : MarkTerminal(u, s)
    BY <1>6 DEF KillTerminal, Shape, KillersShaped, u
  <2>2. NamedOnce(u) => Status(u) \notin LiveStatus
    BY <1>6 DEF Calm, KillTerminal, u
  <2>3. AgentWrite(u, ExpectedFor(s), s)
    BY <1>1, <2>1, AgentWrites
  <2>4. ExpectedFor(s) \subseteq LiveStatus
    BY DEF ExpectedFor, CompletableFrom, FailableFrom, StoppableFrom,
       LiveStatus, TerminalStatus
  <2>5. /\ \A t \in Task \ {u} : /\ agents'[t].mission = agents[t].mission
                                 /\ agents'[t].status = Status(t)
        /\ agents'[u].mission = agents[u].mission
        /\ NamedOnce(u) => agents'[u].status = Status(u)
    BY <1>1, <2>2, <2>3, <2>4 DEF AgentWrite
  <2>6. \A t \in Task : Stopping(t) => Stopping(t)'
    BY <1>4, <1>6 DEF KillTerminal
  <2>7. QED
    BY <1>1, <2>5, <2>6, RowEndsTold
<1>7. CASE KillCleanup(k)
  <2>1. RemoveAgent(u) /\ \A t \in Task : Stopping(t) => Stopping(t)'
    BY <1>4, <1>7 DEF KillCleanup, u
  <2>2. QED
    BY <1>1, <2>1, RemoveTold
<1>8. QED
  BY <1>5, <1>6, <1>7

\* The reaper marks the agent, or removes a terminal one.
LEMMA ReapEndsTold ==
  ASSUME Now, Steady, ReapMarkStopped \/ \E t \in Task : ReapCleanup(t)
  PROVE  Told'
<1> Shape
  BY DEF Now
<1>1. UNCHANGED <<missions, worker, killer, boot, faults>>
  BY DEF ReapMarkStopped, ReapCleanup
<1>2. CASE ReapMarkStopped
  <2>1. /\ reaper.task \in Task
        /\ MarkTerminal(reaper.task, "Stopped")
    BY <1>2 DEF ReapMarkStopped, Shape, ReaperShaped
  <2>2. \A t \in Task \ {reaper.task} : Stopping(t) => Stopping(t)'
    BY <1>1 DEF Stopping
  <2>3. QED
    BY <1>1, <2>1, <2>2, MarkStoppedTold
<1>3. ASSUME NEW t \in Task, ReapCleanup(t) PROVE Told'
  <2>1. RemoveAgent(t) /\ reaper.pc = "sweep"
    BY <1>3 DEF ReapCleanup
  <2>2. \A u \in Task : Stopping(u) => Stopping(u)'
    BY <1>1, <2>1 DEF Stopping
  <2>3. QED
    BY <1>1, <2>1, <2>2, RemoveTold
<1>4. QED
  BY <1>2, <1>3

\* Reads, and the end of a lease: no status changes.
LEMMA QuietTold ==
  ASSUME Now, Steady, UNCHANGED <<agents, worker, boot, faults>>,
         \A m \in Mission : /\ missions'[m].task = missions[m].task
                            /\ missions'[m].status = MStatus(m),
         \A t \in Task : Stopping(t) => Stopping(t)'
  PROVE  Told'
<1> Shape /\ Told
  BY DEF Now
<1>1. \A m : Held(m)' <=> Held(m)
  BY DEF Held, Holds
<1>2. ASSUME NEW w \in Worker PROVE OpenOf(w)'
  BY WorkersTask DEF Told, OpenOf, MStatus, At
<1>3. ASSUME NEW w \in Worker, NEW t \in Task PROVE KnowsOf(w, t)'
  BY KnowsFrame DEF Told, Status
<1>4. ASSUME NEW m \in Mission PROVE ClaimedOf(m)'
  BY <1>1 DEF Told, ClaimedOf, MStatus, Suffered
<1>5. ASSUME NEW t \in Task PROVE TellsOf(t)'
  <2>1. PICK m : m = agents[t].mission
    OBVIOUS
  <2>2. /\ agents'[t].mission = m
        /\ agents'[t].status = Status(t)
        /\ Status(t) # "absent" => missions'[m].status = MStatus(m)
        /\ TellsOf(t)
    BY <2>1 DEF Status, Told, Shape, AgentsShaped
  <2>3. QED
    BY <1>1, <2>1, <2>2, TellsFrame
<1>6. QED
  BY <1>2, <1>3, <1>4, <1>5 DEF Told

\* Kill and the reaper read the table, a lease ends, or nothing happens.
LEMMA QuietStepsTold ==
  ASSUME Now, Steady,
         \/ \E k \in Killer, t \in Task : KillFind(k, t)
         \/ ReapLoad
         \/ \E m \in Mission : LeaseExpires(m)
         \/ UNCHANGED vars
  PROVE  Told'
<1> Shape
  BY DEF Now
<1>1. UNCHANGED <<agents, worker, boot, faults>>
  BY DEF KillFind, ReapLoad, LeaseExpires, vars
<1>2. \A m \in Mission : /\ missions'[m].task = missions[m].task
                         /\ missions'[m].status = MStatus(m)
  <2>1. CASE UNCHANGED missions
    BY <2>1 DEF MStatus
  <2>2. ASSUME NEW m \in Mission, LeaseExpires(m)
        PROVE  \A n \in Mission : /\ missions'[n].task = missions[n].task
                                 /\ missions'[n].status = MStatus(n)
    BY <2>2, ExpireEffect DEF LeaseExpires, MStatus, Shape, TypeOK
  <2>3. QED
    BY <2>1, <2>2 DEF KillFind, ReapLoad, vars
<1>3. ASSUME NEW t \in Task, Stopping(t) PROVE Stopping(t)'
  <2>1. CASE UNCHANGED <<killer, reaper>>
    BY <1>3, <2>1 DEF Stopping
  <2>2. ASSUME NEW k \in Killer, NEW u \in Task, KillFind(k, u)
        PROVE  Stopping(t)'
    <3>1. /\ killer \in [Killer -> KillState]
          /\ \E r : killer' = [killer EXCEPT ![k] = r]
          /\ killer[k].pc = "idle"
          /\ UNCHANGED reaper
      BY <2>2 DEF KillFind, Shape, TypeOK
    <3>2. QED
      BY <1>3, <3>1 DEF Stopping
  <2>3. CASE ReapLoad
    BY <1>3, <2>3 DEF ReapLoad, Stopping
  <2>4. QED
    BY <2>1, <2>2, <2>3 DEF LeaseExpires, vars
<1>4. QED
  BY <1>1, <1>2, <1>3, QuietTold

\* The lease reaper hands missions out again: no worker holds them, so while
\* no worker died there are none, and their agents wait as they do.
LEMMA ReclaimTold ==
  ASSUME Now, Steady, Reclaim
  PROVE  Told'
<1> Shape /\ Told /\ Calm /\ HeldIsLeased /\ Sane
  BY DEF Now
<1>1. UNCHANGED <<worker, killer, reaper, boot, faults>>
  BY DEF Reclaim
<1>2. \A n \in Mission :
        /\ missions'[n].task = missions[n].task
        /\ missions'[n].status = IF n \in Stuck THEN "pending" ELSE MStatus(n)
  BY DEF Reclaim, ReclaimStuck, Shape, TypeOK, QueueTypeOK, MissionRow, MStatus
<1>3. \A t \in Task :
        /\ agents'[t].mission = agents[t].mission
        /\ agents'[t].status = IF /\ \E m \in Stuck : missions[m].task = t
                                  /\ Status(t) = "Running"
                                 THEN "Queued" ELSE Status(t)
  BY DEF Reclaim, ReclaimStuck, Shape, TypeOK, StoreTypeOK, AgentRow, Status
<1>4. \A m \in Stuck : m \in Mission /\ MStatus(m) = "claimed" /\ ~Held(m)
  <2>1. ~Suffered({"overrun"})
    BY DEF Sane, Suffered
  <2>2. QED
    BY <2>1 DEF Stuck, HeldIsLeased, Held
<1>5. \A m : Held(m)' <=> Held(m)
  BY <1>1 DEF Held, Holds
<1>6. ASSUME NEW w \in Worker PROVE OpenOf(w)'
  <2>1. ~At(w, "idle") => worker[w].mission \notin Stuck
    BY <1>4 DEF Held, Holds, At
  <2>2. QED
    BY <1>1, <1>2, <2>1, WorkersTask DEF Told, OpenOf, MStatus, At
<1>7. ASSUME NEW w \in Worker, NEW t \in Task PROVE KnowsOf(w, t)'
  <2> SUFFICES ASSUME ~At(w, "idle"), TaskOf(w) = t, NamedOnce(t)
               PROVE  KnowsOf(w, t)'
    BY <1>1, <1>2, WorkersTask DEF KnowsOf, Steady, At, TaskOf
  <2>1. worker[w].mission \notin Stuck
    BY <1>4 DEF Held, Holds, At
  <2>2. \A m \in Stuck : missions[m].task # t
    BY <1>4, <2>1, WorkersTask DEF NamedOnce
  <2>3. agents'[t].status = Status(t)
    BY <1>3, <2>2
  <2>4. QED
    BY <1>1, <2>3, KnowsFrame DEF Told
<1>8. ASSUME NEW m \in Mission PROVE ClaimedOf(m)'
  BY <1>1, <1>2, <1>5 DEF Told, ClaimedOf, MStatus, Suffered
<1>9. ASSUME NEW t \in Task PROVE TellsOf(t)'
  <2> SUFFICES ASSUME NamedOnce(t)' PROVE TellsOf(t)'
    BY DEF TellsOf
  <2>1. PICK m : m = agents[t].mission
    OBVIOUS
  <2>2. NamedOnce(t) /\ TellsOf(t) /\ agents'[t].mission = m
    BY <1>3, <2>1 DEF Steady, Told
  <2>3. CASE Status(t) = "absent"
    BY <1>3, <2>3 DEF TellsOf, Status, LiveStatus
  <2>4. CASE Status(t) # "absent" /\ m \in Stuck
    <3>1. missions[m].task = t
      BY <2>1, <2>4 DEF Shape, AgentsShaped
    <3>2. MStatus(m) = "claimed" /\ MStatus(m)' = "pending"
      BY <1>2, <1>4, <2>4 DEF MStatus
    <3>3. Status(t)' = IF Status(t) = "Running" THEN "Queued" ELSE Status(t)
      BY <1>3, <2>4, <3>1 DEF Status
    <3>4. Suffered({"crash"})'
      BY <1>4, <2>4, <3>2 DEF Told, ClaimedOf, Steady
    <3>5. Status(t) # "Idle"
      BY DEF Calm
    <3>6. QED
      BY <2>2, <3>2, <3>3, <3>4, <3>5
      DEF TellsOf, LiveTold, EndTold, LiveStatus, MStatus, Status
  <2>5. CASE Status(t) # "absent" /\ m \notin Stuck
    <3>1. m \in Mission /\ missions[m].task = t
      BY <2>1, <2>5 DEF Shape, AgentsShaped
    <3>2. \A n \in Stuck : missions[n].task # t
      BY <1>4, <2>2, <2>5, <3>1 DEF NamedOnce
    <3>3. missions'[m].status = MStatus(m) /\ agents'[t].status = Status(t)
      BY <1>2, <1>3, <2>5, <3>1, <3>2
    <3>4. Stopping(t)' = Stopping(t)
      BY <1>1 DEF Stopping
    <3>5. QED
      BY <1>1, <1>5, <2>1, <2>2, <3>3, <3>4, TellsFrame
  <2>6. QED
    BY <2>3, <2>4, <2>5
<1>10. QED
  BY <1>6, <1>7, <1>8, <1>9 DEF Told

\* Kill requests and the reaper's pass are gone; the new control plane has
\* every agent that still shows as Queued on its list.
LEMMA RestartTold ==
  ASSUME Now, Steady, Restart, Suffered({"restart"})'
  PROVE  Told'
<1> Shape /\ Told
  BY DEF Now
<1>1. UNCHANGED <<agents, missions, worker>> /\ boot' = QueuedAgents
  BY DEF Restart
<1>2. \A m : Held(m)' <=> Held(m)
  BY <1>1 DEF Held, Holds
<1>3. ASSUME NEW w \in Worker PROVE OpenOf(w)'
  BY <1>1 DEF Told, OpenOf, MStatus, At
<1>4. ASSUME NEW w \in Worker, NEW t \in Task PROVE KnowsOf(w, t)'
  BY <1>1, KnowsFrame DEF Told, Status
<1>5. ASSUME NEW m \in Mission PROVE ClaimedOf(m)'
  BY <1>1, <1>2 DEF Told, ClaimedOf, MStatus, Steady
<1>6. ASSUME NEW t \in Task PROVE TellsOf(t)'
  <2> SUFFICES ASSUME NamedOnce(t)' PROVE TellsOf(t)'
    BY DEF TellsOf
  <2>1. PICK m : m = agents[t].mission
    OBVIOUS
  <2>2. /\ NamedOnce(t) /\ TellsOf(t)
        /\ agents'[t].mission = m
        /\ Status(t)' = Status(t) /\ MStatus(m)' = MStatus(m)
    BY <1>1, <2>1 DEF Steady, Told, Status, MStatus
  <2>3. Status(t) = "Queued" => <<t, m>> \in boot'
    BY <1>1, <2>1 DEF QueuedAgents
  <2>4. Status(t) \in LiveStatus => LiveTold(Status(t), m, t)'
    BY <1>2, <2>1, <2>2, <2>3 DEF TellsOf, LiveTold, Steady
  <2>5. Status(t) # "absent" => EndTold(Status(t), m)'
    BY <2>1, <2>2 DEF TellsOf, EndTold, Steady
  <2>6. QED
    BY <2>2, <2>4, <2>5
    DEF TellsOf, LiveTold, EndTold, Stopping, Held, Holds, MStatus, Status
<1>7. QED
  BY <1>3, <1>4, <1>5, <1>6 DEF Told

\* The start of the control plane looks at one agent: a mission that is gone is
\* not held, and its agent is Failed from now on.
LEMMA ReconcileTold ==
  ASSUME Now, Steady, NEW u \in Task, NEW n \in Mission, Reconcile(u, n), Sane'
  PROVE  Told'
<1> Shape /\ Told /\ Linked /\ Sane
  BY DEF Now
<1>1. /\ UNCHANGED <<emitted, missions, worker, killer, reaper>>
      /\ <<u, n>> \in boot
      /\ boot' = boot \ {<<u, n>>}
  BY DEF Reconcile
<1>2. UNCHANGED faults /\ agents' = IF MStatus(n) = "deleted" /\ Status(u) # "absent"
                                      THEN [agents EXCEPT ![u].status = "Failed"]
                                      ELSE agents
  <2>1. PICK failed \in BOOLEAN :
          /\ agents' = IF (MStatus(n) = "deleted" \/ failed) /\ Status(u) # "absent"
                         THEN [agents EXCEPT ![u].status = "Failed"] ELSE agents
          /\ faults' = IF failed THEN [faults EXCEPT !["store"] = @ + 1] ELSE faults
    BY DEF Reconcile
  <2>2. failed => faults'["store"] > 0
    BY <2>1 DEF Shape, TypeOK, FaultCount, FaultKind
  <2>3. ~failed
    BY <2>2 DEF Sane, Suffered
  <2>4. QED
    BY <2>1, <2>3
<1>3. /\ \A t \in Task :
           /\ agents'[t].mission = agents[t].mission
           /\ agents'[t].status =
                IF t = u /\ MStatus(n) = "deleted" /\ Status(t) # "absent"
                  THEN "Failed" ELSE Status(t)
      /\ missions[n].task = u
  BY <1>1, <1>2 DEF Status, Linked, Shape, TypeOK, StoreTypeOK, AgentRow
<1>4. \A m : Held(m)' <=> Held(m)
  BY <1>1 DEF Held, Holds
<1>5. ASSUME NEW w \in Worker PROVE OpenOf(w)'
  BY <1>1 DEF Told, OpenOf, MStatus, At
<1>6. ASSUME NEW w \in Worker, NEW t \in Task PROVE KnowsOf(w, t)'
  <2> SUFFICES ASSUME ~At(w, "idle"), TaskOf(w) = t, NamedOnce(t)
               PROVE  KnowsOf(w, t)'
    BY <1>1 DEF KnowsOf, Steady, At, TaskOf
  <2>1. worker[w].mission # n \/ MStatus(n) # "deleted"
    BY DEF Told, OpenOf
  <2>2. t = u => worker[w].mission = n
    BY <1>3, WorkersTask DEF NamedOnce
  <2>3. agents'[t].status = Status(t)
    BY <1>3, <2>1, <2>2
  <2>4. QED
    BY <1>1, <2>3, KnowsFrame DEF Told
<1>7. ASSUME NEW m \in Mission PROVE ClaimedOf(m)'
  BY <1>1, <1>2, <1>4 DEF Told, ClaimedOf, MStatus, Suffered
<1>8. ASSUME NEW t \in Task PROVE TellsOf(t)'
  <2> SUFFICES ASSUME NamedOnce(t)' PROVE TellsOf(t)'
    BY DEF TellsOf
  <2>1. PICK m : m = agents[t].mission
    OBVIOUS
  <2>2. /\ NamedOnce(t) /\ TellsOf(t)
        /\ agents'[t].mission = m
        /\ missions'[m].status = MStatus(m)
        /\ Stopping(t)' = Stopping(t)
    BY <1>1, <1>3, <2>1 DEF Steady, Told, MStatus, Stopping
  <2>3. t = u /\ Status(t) # "absent" => m = n
    BY <1>3, <2>1, <2>2, OneMission
  <2>4. CASE t = u /\ MStatus(n) = "deleted" /\ Status(t) # "absent"
    BY <1>3, <2>2, <2>3, <2>4
    DEF TellsOf, EndTold, LiveStatus, Status, MStatus
  <2>5. CASE ~(t = u /\ MStatus(n) = "deleted" /\ Status(t) # "absent")
    <3>1. agents'[t].status = Status(t)
      BY <1>3, <2>5
    <3>2. CASE Status(t) = "absent"
      BY <3>1, <3>2 DEF TellsOf, Status, LiveStatus
    <3>3. CASE Status(t) # "absent"
      <4>1. MStatus(m) = "deleted" /\ <<t, m>> \in boot => <<t, m>> \in boot'
        BY <1>1, <2>3, <2>5, <3>3
      <4>2. QED
        BY <1>4, <2>1, <2>2, <3>1, <4>1, TellsFrame
    <3>4. QED
      BY <3>2, <3>3
  <2>6. QED
    BY <2>4, <2>5
<1>9. QED
  BY <1>5, <1>6, <1>7, <1>8 DEF Told

(***************************************************************************)
(* The two tables agree                                                    *)
(***************************************************************************)
LEMMA ToldStep ==
  ASSUME Now, [Next]_vars, Sane'
  PROVE  Told'
<1> Shape /\ Linked
  BY DEF Now
<1> Steady
  BY SteadyStep
<1>1. ASSUME NEW f \in FaultKind, Fault(f)
      PROVE  /\ f \notin {"store", "overrun"}
             /\ Suffered({f})'
  <2>1. faults'[f] > 0
    BY <1>1, FaultEffect DEF Shape, TypeOK
  <2>2. QED
    BY <2>1 DEF Sane, Suffered
<1>2. ASSUME NEW w \in Worker, WorkerStep(w) PROVE Told'
  BY <1>2, DequeueTold, ClaimQueuedAgentTold, StartExecutionTold,
     FailMissionTold, WriteResultTold, FinishTold, FailQueueTold DEF WorkerStep
<1>3. ASSUME NEW w \in Worker, WorkerFault(w) PROVE Told'
  <2>1. Crash(w)
    BY <1>1, <1>3 DEF WorkerFault, ClaimStoreError, FailMissionStoreError,
       WriteResultStoreError, FaultKind
  <2>2. Suffered({"crash"})'
    BY <1>1, <2>1 DEF Crash, FaultKind
  <2>3. QED
    BY <2>1, <2>2, CrashTold
<1>4. ASSUME NEW m \in Mission, LeaseExpires(m) \/ LeaseOverrun(m) PROVE Told'
  BY <1>1, <1>4, QuietStepsTold DEF LeaseOverrun, FaultKind
<1>5. ASSUME NEW k \in Killer, KillStep(k) \/ \E t \in Task : KillFind(k, t)
      PROVE  Told'
  BY <1>5, KillCancelTold, KillEndsTold, QuietStepsTold DEF KillStep
<1>6. CASE ReapStep
  BY <1>6, ReapCancelTold, ReapEndsTold, QuietStepsTold DEF ReapStep
<1>7. CASE Restart
  BY <1>1, <1>7, RestartTold DEF Restart, FaultKind
<1>8. QED
  BY <1>2, <1>3, <1>4, <1>5, <1>6, <1>7, SpawnTold, ReclaimTold,
     ReconcileTold, QuietStepsTold DEF Next

\* Story holds at the start, where every mission's row is still to come.
LEMMA StoryInit == Init => Story
  BY DEF Init, StoreInit, QueueInit, Story, Linked, Calm, Told, OpenOf, KnowsOf,
     ClaimedOf, TellsOf, At, Status, MStatus, Absent, IdleWorker, IdleKill,
     IdleReap, LiveStatus

\* Every step keeps Story.
LEMMA StoryNext ==
  ASSUME Shape, HeldIsLeased, ExclusiveExecution, Story, [Next]_vars
  PROVE  Story'
<1>1. Linked' /\ Calm'
  BY LinkedStep, CalmStep DEF Story
<1>2. ASSUME Sane' PROVE Told'
  <2>1. Sane
    BY <1>2, SteadyStep DEF Steady, Story
  <2>2. QED
    BY <1>2, <2>1, ToldStep DEF Now, Story
<1>3. QED
  BY <1>1, <1>2 DEF Story

\* What Story says of the agents is what the two tables promise each other.
LEMMA StoryAgrees ==
  ASSUME Shape, Story
  PROVE  TablesAgree
<1>1. NoOrphanAgent
  <2> SUFFICES ASSUME ~Suffered({"store", "overrun"}),
                      ~(Suffered({"crash"}) /\ Suffered({"restart"})),
                      NEW t \in Task, NamedOnce(t), Status(t) \in LiveStatus,
                      NEW m, m = agents[t].mission
               PROVE  \/ MStatus(m) = "pending" /\ Status(t) = "Queued"
                      \/ MStatus(m) = "claimed"
                      \/ Stopping(t)
                      \/ MStatus(m) = "cancelled" /\ Held(m)
                      \/ MStatus(m) = "deleted" /\ <<t, m>> \in boot
    BY DEF NoOrphanAgent, Stopping, Held
  <2>1. LiveTold(Status(t), m, t)
    BY DEF Story, Sane, Told, TellsOf
  <2>2. QED
    BY <2>1 DEF LiveTold
<1>2. OutcomesAgree
  BY DEF Story, Sane, Told, TellsOf, EndTold, OutcomesAgree
<1>3. QED
  BY <1>1, <1>2 DEF TablesAgree

\* No agent is left alive without somebody to end it, and the two tables agree
\* on how it ended, whatever the order of executeMission's two writes, Kill's
\* three statements, the reaper, the lease reclaim, crashes and restarts.
THEOREM TablesTellOneStory == Spec => []TablesAgree
<1>1. Shape /\ HeldIsLeased /\ ExclusiveExecution /\ Story /\ [Next]_vars => Story'
  BY StoryNext
<1>2. Shape /\ Story => TablesAgree
  BY StoryAgrees
<1>3. QED
  BY <1>1, <1>2, StoryInit, ShapeInvariant, LeaseInvariant, PTL DEF Spec

=============================================================================
