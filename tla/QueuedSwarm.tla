---------------------------- MODULE QueuedSwarm -----------------------------
(***************************************************************************)
(* Queued agents end to end: the control plane enqueues missions, workers  *)
(* execute them, an operator kills agents, the control plane's reaper      *)
(* sweeps the agents table, the queue's lease reaper reclaims missions of  *)
(* workers that went away, and a control plane that starts looks for       *)
(* agents whose missions are gone.  All of them meet only in the two       *)
(* tables of AgentStore and PgQueue, one statement at a time.              *)
(***************************************************************************)
EXTENDS PgQueue, FiniteSets

CONSTANTS
  Worker,          \* worker processes (worker.Worker.Run)
  Killer,          \* concurrent Kill requests (orchestrator.Kill)
  MaxAgeEnabled,   \* TRUE: reaper.max_age > 0
  Hazard,          \* the kinds of fault that may occur (FaultKind)
  MaxFaults        \* bound: faults of all kinds together

\* crash: a worker process dies.  restart: the control plane does.  store: a
\* store call of a worker fails.  overrun: an execution outlasts its lease.
FaultKind == {"crash", "restart", "store", "overrun"}

ASSUME SwarmAssumption ==
  /\ NoTask \notin Task
  /\ MaxAgeEnabled \in BOOLEAN
  /\ Hazard \subseteq FaultKind
  /\ MaxFaults \in Nat

VARIABLES
  worker,          \* per worker: program counter and locals of executeMission
  killer,          \* per Kill request: program counter and the row it read
  reaper,          \* the reaper's pass: the rows it loaded and what is left
  boot,            \* what reconcileOrphanedQueuedAgents has yet to look at
  faults           \* how many faults of each kind have happened

vars == <<agents, emitted, missions, worker, killer, reaper, boot, faults>>

(***************************************************************************)
(* Locals                                                                  *)
(***************************************************************************)
WorkerPc == {"idle", "claim", "start", "exec", "finish", "failQueue"}

\* outcome: the result written to the agent, which decides Ack or Fail.
WorkerState == [pc      : WorkerPc,
                mission : Mission \union {NoMission},
                outcome : TerminalStatus \union {"none"}]

IdleWorker == [pc |-> "idle", mission |-> NoMission, outcome |-> "none"]

KillPc == {"idle", "cancel1", "cancel2", "stop", "term", "remove"}

KillState == [pc : KillPc, task : Task \union {NoTask}, row : AgentRow]

IdleKill == [pc |-> "idle", task |-> NoTask, row |-> Absent]

ReapPc == {"idle", "sweep", "cancel2", "stop"}

ReapState == [pc    : ReapPc,
              rows  : [Task -> AgentRow],
              clean : SUBSET Task,
              aged  : SUBSET Task,
              task  : Task \union {NoTask}]

IdleReap == [pc |-> "idle", rows |-> [t \in Task |-> Absent],
             clean |-> {}, aged |-> {}, task |-> NoTask]

FaultCount == [FaultKind -> Nat]

TypeOK ==
  /\ StoreTypeOK
  /\ QueueTypeOK
  /\ worker \in [Worker -> WorkerState]
  /\ killer \in [Killer -> KillState]
  /\ reaper \in ReapState
  /\ boot \subseteq Task \X Mission
  /\ faults \in FaultCount

Init ==
  /\ StoreInit
  /\ QueueInit
  /\ worker = [w \in Worker |-> IdleWorker]
  /\ killer = [k \in Killer |-> IdleKill]
  /\ reaper = IdleReap
  /\ boot = {}
  /\ faults = [f \in FaultKind |-> 0]

Holds(w, m) == worker[w].pc # "idle" /\ worker[w].mission = m

TaskOf(w) == missions[worker[w].mission].task

At(w, pc) == worker[w].pc = pc

Goto(w, pc) == worker' = [worker EXCEPT ![w].pc = pc]

Done(w) == worker' = [worker EXCEPT ![w] = IdleWorker]

Fault(f) ==
  /\ f \in Hazard
  /\ faults["crash"] + faults["restart"] + faults["store"] + faults["overrun"]
       < MaxFaults
  /\ faults' = [faults EXCEPT ![f] = @ + 1]

Suffered(F) == \E f \in F : faults[f] > 0

(***************************************************************************)
(* The control plane accepts a queued spawn; it serves once it has booted. *)
(***************************************************************************)
Spawn(m, t) ==
  /\ boot = {}
  /\ Enqueue(m, t)
  /\ UNCHANGED <<worker, killer, reaper, boot, faults>>

(***************************************************************************)
(* Worker                                                                  *)
(***************************************************************************)
Dequeue(w, m) ==
  /\ At(w, "idle")
  /\ TryClaim(m)
  /\ worker' = [worker EXCEPT ![w] = [IdleWorker EXCEPT !.pc = "claim",
                                                        !.mission = m]]
  /\ UNCHANGED <<agents, emitted, killer, reaper, boot, faults>>

\* Step 1: ClaimQueuedAgent.  Not claimable: fail the mission.
ClaimQueuedAgent(w) ==
  /\ At(w, "claim")
  /\ ClaimAgent(TaskOf(w))
  /\ Goto(w, IF Claimable(TaskOf(w)) THEN "start" ELSE "failQueue")
  /\ UNCHANGED <<missions, killer, reaper, boot, faults>>

\* The store refuses the claim for another reason: the mission is failed and
\* the agent row is left as it is.
ClaimStoreError(w) ==
  /\ At(w, "claim")
  /\ Fault("store")
  /\ Goto(w, "failQueue")
  /\ UNCHANGED <<agents, emitted, missions, killer, reaper, boot>>

\* Steps 2 to 10: the mission does not read as cancelled (a deleted row reads
\* ""), every preparation succeeds and the backend spawns the process.
StartExecution(w) ==
  /\ At(w, "start")
  /\ MStatus(worker[w].mission) # "cancelled"
  /\ Goto(w, "exec")
  /\ UNCHANGED <<agents, emitted, missions, killer, reaper, boot, faults>>

\* What failMission is called with.  Before the spawn: an invalid payload, a
\* cancelled mission, or a host, config, workspace, credential, environment
\* or spawn error.  After it: unparsable output of a mission whose context
\* monitorCancellation cancelled ("cancelled" is final, so the poll that saw
\* it and this read agree).
FailReason(w) ==
  {s \in {"Failed", "Stopped"} :
     \/ s = "Failed"  /\ At(w, "start")
     \/ s = "Stopped" /\ worker[w].pc \in {"start", "exec"}
                      /\ MStatus(worker[w].mission) = "cancelled"}

\* Mutant: failMission fails the mission and forgets the agent.
FailMissionQueueOnly(w) ==
  /\ FailReason(w) # {}
  /\ Goto(w, "failQueue")
  /\ UNCHANGED <<agents, emitted, missions, killer, reaper, boot, faults>>

\* failMission, first half: transitionWorkerToTerminal; a skip is ignored.
FailMission(w) ==
  /\ \E s \in FailReason(w) : MarkTerminal(TaskOf(w), s)
  /\ Goto(w, "failQueue")
  /\ UNCHANGED <<missions, killer, reaper, boot, faults>>

FailMissionStoreError(w) ==
  /\ FailReason(w) # {}
  /\ Fault("store")
  /\ Goto(w, "failQueue")
  /\ UNCHANGED <<agents, emitted, missions, killer, reaper, boot>>

\* Steps 10b to 12: the process ends and its result is written.  A skipped
\* transition means the agent is not in a status the result may replace:
\* the mission is failed instead.
WriteResult(w, outcome) ==
  /\ At(w, "exec")
  /\ MarkTerminal(TaskOf(w), outcome)
  /\ worker' = [worker EXCEPT
                  ![w].pc = IF Applies(TaskOf(w), outcome)
                              THEN "finish" ELSE "failQueue",
                  ![w].outcome = outcome]
  /\ UNCHANGED <<missions, killer, reaper, boot, faults>>

\* A store error is only logged: the mission is acked or failed regardless.
WriteResultStoreError(w, outcome) ==
  /\ At(w, "exec")
  /\ Fault("store")
  /\ worker' = [worker EXCEPT ![w].pc = "finish", ![w].outcome = outcome]
  /\ UNCHANGED <<agents, emitted, missions, killer, reaper, boot>>

\* Mutant: every result is acknowledged.
FinishAcks(w) ==
  /\ At(w, "finish")
  /\ Ack(worker[w].mission)
  /\ Done(w)
  /\ UNCHANGED <<agents, emitted, killer, reaper, boot, faults>>

\* Step 13: Ack or Fail, by the outcome.
Finish(w) ==
  /\ At(w, "finish")
  /\ IF worker[w].outcome = "Completed"
       THEN Ack(worker[w].mission)
       ELSE Fail(worker[w].mission)
  /\ Done(w)
  /\ UNCHANGED <<agents, emitted, killer, reaper, boot, faults>>

\* Mutant: an early return leaves the mission claimed.
ReturnWithoutFail(w) ==
  /\ At(w, "failQueue")
  /\ Done(w)
  /\ UNCHANGED <<agents, emitted, missions, killer, reaper, boot, faults>>

\* failMission, second half, and the early returns of executeMission.
FailQueue(w) ==
  /\ At(w, "failQueue")
  /\ Fail(worker[w].mission)
  /\ Done(w)
  /\ UNCHANGED <<agents, emitted, killer, reaper, boot, faults>>

\* The process dies, or is told to shut down: its context is cancelled, so
\* the writes of the error paths fail too and nothing reaches the tables.
Crash(w) ==
  /\ ~At(w, "idle")
  /\ Fault("crash")
  /\ Done(w)
  /\ UNCHANGED <<agents, emitted, missions, killer, reaper, boot>>

Result == {"Completed", "Failed"}

WorkerStep(w) ==
  \/ \E m \in Mission : Dequeue(w, m)
  \/ ClaimQueuedAgent(w)
  \/ StartExecution(w)
  \/ FailMission(w)
  \/ \E o \in Result : WriteResult(w, o)
  \/ Finish(w)
  \/ FailQueue(w)

WorkerFault(w) ==
  \/ ClaimStoreError(w)
  \/ FailMissionStoreError(w)
  \/ \E o \in Result : WriteResultStoreError(w, o)
  \/ Crash(w)

(***************************************************************************)
(* The lease: time passes, then the queue's reaper runs.                   *)
(***************************************************************************)
LeaseExpires(m) ==
  /\ MStatus(m) = "claimed"
  /\ ~missions[m].expired
  /\ \A w \in Worker : ~Holds(w, m)
  /\ missions' = [missions EXCEPT ![m].expired = TRUE]
  /\ UNCHANGED <<agents, emitted, worker, killer, reaper, boot, faults>>

\* The lease of a mission that is still being executed: the worker neither
\* renews it nor learns of it.
LeaseOverrun(m) ==
  /\ MStatus(m) = "claimed"
  /\ ~missions[m].expired
  /\ \E w \in Worker : Holds(w, m)
  /\ Fault("overrun")
  /\ missions' = [missions EXCEPT ![m].expired = TRUE]
  /\ UNCHANGED <<agents, emitted, worker, killer, reaper, boot>>

Reclaim ==
  /\ ReclaimStuck
  /\ UNCHANGED <<worker, killer, reaper, boot, faults>>

(***************************************************************************)
(* Kill: what the request does depends on the row it read first.           *)
(***************************************************************************)
KillFind(k, t) ==
  /\ killer[k].pc = "idle" /\ boot = {}
  /\ Status(t) # "absent"
  /\ killer' = [killer EXCEPT ![k] =
                  [pc   |-> IF Status(t) \in TerminalStatus
                              THEN "term" ELSE "cancel1",
                   task |-> t,
                   row  |-> agents[t]]]
  /\ UNCHANGED <<agents, emitted, missions, worker, reaper, boot, faults>>

\* Queued or Running on a worker: cancel the mission, then mark Stopped.
KillCancelPending(k) ==
  LET m == killer[k].row.mission IN
  /\ killer[k].pc = "cancel1"
  /\ CancelPending(m)
  /\ killer' = [killer EXCEPT ![k].pc =
                  IF MStatus(m) = "pending" THEN "stop" ELSE "cancel2"]
  /\ UNCHANGED <<agents, emitted, worker, reaper, boot, faults>>

KillCancelClaimed(k) ==
  /\ killer[k].pc = "cancel2"
  /\ CancelClaimed(killer[k].row.mission)
  /\ killer' = [killer EXCEPT ![k].pc = "stop"]
  /\ UNCHANGED <<agents, emitted, worker, reaper, boot, faults>>

KillMarkStopped(k) ==
  /\ killer[k].pc = "stop"
  /\ MarkTerminal(killer[k].task, "Stopped")
  /\ killer' = [killer EXCEPT ![k] = IdleKill]
  /\ UNCHANGED <<missions, worker, reaper, boot, faults>>

\* Already terminal when read: the same transition again, then cleanupAgent.
KillTerminal(k) ==
  /\ killer[k].pc = "term"
  /\ MarkTerminal(killer[k].task, killer[k].row.status)
  /\ killer' = [killer EXCEPT ![k].pc = "remove"]
  /\ UNCHANGED <<missions, worker, reaper, boot, faults>>

KillCleanup(k) ==
  /\ killer[k].pc = "remove"
  /\ RemoveAgent(killer[k].task)
  /\ killer' = [killer EXCEPT ![k] = IdleKill]
  /\ UNCHANGED <<missions, worker, reaper, boot, faults>>

KillStep(k) ==
  \/ KillCancelPending(k)
  \/ KillCancelClaimed(k)
  \/ KillMarkStopped(k)
  \/ KillTerminal(k)
  \/ KillCleanup(k)

(***************************************************************************)
(* The control plane's reaper works from the table it loaded.              *)
(***************************************************************************)
\* The pass goes on with the rows that are left and ends with the last one.
Rest(r) == IF r.clean = {} /\ r.aged = {} THEN IdleReap
                                         ELSE [r EXCEPT !.pc = "sweep"]

\* Load, and what the loop will act on: terminal queued agents to clean up,
\* Running agents that are past max_age (any of them may be).  A pass with
\* nothing to do changes nothing.
ReapLoad ==
  /\ reaper.pc = "idle"
  /\ \E old \in SUBSET {t \in Task : Status(t) = "Running"} :
       /\ MaxAgeEnabled \/ old = {}
       /\ reaper' = Rest([pc    |-> "sweep",
                          rows  |-> [t \in Task |-> IF t \in old THEN agents[t]
                                                               ELSE Absent],
                          clean |-> {t \in Task : Status(t) \in TerminalStatus},
                          aged  |-> old,
                          task  |-> NoTask])
       /\ reaper' # reaper
  /\ UNCHANGED <<agents, emitted, missions, worker, killer, boot, faults>>

\* cleanupTerminalQueuedAgent
ReapCleanup(t) ==
  /\ reaper.pc = "sweep"
  /\ t \in reaper.clean
  /\ RemoveAgent(t)
  /\ reaper' = Rest([reaper EXCEPT !.clean = @ \ {t}])
  /\ UNCHANGED <<missions, worker, killer, boot, faults>>

\* Past max_age: Queue.Cancel, first statement.
ReapCancelPending(t) ==
  LET m == reaper.rows[t].mission IN
  /\ reaper.pc = "sweep"
  /\ t \in reaper.aged
  /\ CancelPending(m)
  /\ reaper' = [reaper EXCEPT !.pc = IF MStatus(m) = "pending"
                                       THEN "stop" ELSE "cancel2",
                              !.aged = @ \ {t},
                              !.task = t]
  /\ UNCHANGED <<agents, emitted, worker, killer, boot, faults>>

ReapCancelClaimed ==
  /\ reaper.pc = "cancel2"
  /\ CancelClaimed(reaper.rows[reaper.task].mission)
  /\ reaper' = [reaper EXCEPT !.pc = "stop"]
  /\ UNCHANGED <<agents, emitted, worker, killer, boot, faults>>

\* transitionReapedAgent
ReapMarkStopped ==
  /\ reaper.pc = "stop"
  /\ MarkTerminal(reaper.task, "Stopped")
  /\ reaper' = Rest([reaper EXCEPT !.task = NoTask])
  /\ UNCHANGED <<missions, worker, killer, boot, faults>>

ReapStep ==
  \/ ReapLoad
  \/ \E t \in Task : ReapCleanup(t) \/ ReapCancelPending(t)
  \/ ReapCancelClaimed
  \/ ReapMarkStopped

(***************************************************************************)
(* The control plane restarts: Kill requests and the reaper's pass are     *)
(* gone, and the new process loads the table and looks for Queued agents   *)
(* whose mission is not in the queue before it serves requests.            *)
(***************************************************************************)
QueuedAgents == {<<t, agents[t].mission>> : t \in {u \in Task : Status(u) = "Queued"}}

Restart ==
  /\ Fault("restart")
  /\ killer' = [k \in Killer |-> IdleKill]
  /\ reaper' = IdleReap
  /\ boot' = QueuedAgents
  /\ UNCHANGED <<agents, emitted, missions, worker>>

\* reconcileOrphanedQueuedAgents, one agent: UpdateAgentStatus, unconditional
\* and without an event, when the mission is gone - or could not be read.
\* The restarts bound these errors, not MaxFaults.
Reconcile(t, m) ==
  /\ <<t, m>> \in boot
  /\ boot' = boot \ {<<t, m>>}
  /\ \E failed \in BOOLEAN :
       /\ failed => "store" \in Hazard
       /\ agents' = IF (MStatus(m) = "deleted" \/ failed) /\ Status(t) # "absent"
                      THEN [agents EXCEPT ![t].status = "Failed"] ELSE agents
       /\ faults' = IF failed THEN [faults EXCEPT !["store"] = @ + 1] ELSE faults
  /\ UNCHANGED <<emitted, missions, worker, killer, reaper>>

(***************************************************************************)
(* Specification                                                           *)
(***************************************************************************)
Next ==
  \/ \E m \in Mission, t \in Task : Spawn(m, t)
  \/ \E w \in Worker : WorkerStep(w) \/ WorkerFault(w)
  \/ \E m \in Mission : LeaseExpires(m) \/ LeaseOverrun(m)
  \/ Reclaim
  \/ \E k \in Killer : KillStep(k) \/ \E t \in Task : KillFind(k, t)
  \/ ReapStep
  \/ Restart
  \/ \E t \in Task, m \in Mission : Reconcile(t, m)

Spec == Init /\ [][Next]_vars

(***************************************************************************)
(* Fairness.  A live worker takes its next step: every call it makes       *)
(* returns, the agent process included (Wait).  Time passes, the tickers   *)
(* of the two reapers fire, and a Kill request and a start of the control  *)
(* plane run to their end.  An agent                                       *)
(* that stays Running is older than max_age in every later pass, hence the *)
(* strong fairness of ReapAged (vacuous when max_age is off).  Nothing     *)
(* makes an operator spawn or kill, and no fault is ever obliged to occur. *)
(***************************************************************************)
ReapAged(t) == ReapLoad /\ t \in reaper'.aged

Fairness ==
  /\ \A w \in Worker : WF_vars(WorkerStep(w))
  /\ \A m \in Mission : WF_vars(LeaseExpires(m))
  /\ WF_vars(Reclaim)
  /\ \A k \in Killer : WF_vars(KillStep(k))
  /\ WF_vars(ReapStep)
  /\ WF_vars(\E t \in Task, m \in Mission : Reconcile(t, m))
  /\ \A t \in Task : SF_vars(ReapAged(t))

FairSpec == Spec /\ Fairness

(***************************************************************************)
(* What holds of every behaviour                                           *)
(***************************************************************************)

\* However many writers race for an agent row (worker, Kill, reaper, a late
\* worker whose lease was reclaimed), at most one terminal lifecycle event is
\* emitted for it, and none before the row is terminal.  A terminal row had
\* its event, unless a restarted control plane marked an orphan Failed.
TerminalEventOnce ==
  \A t \in Task :
    Status(t) # "absent" =>
      \/ emitted[t] = IF Status(t) \in TerminalStatus THEN 1 ELSE 0
      \/ emitted[t] = 0 /\ Status(t) = "Failed" /\ Suffered({"restart"})

\* A terminal agent never lives again: its row keeps its status until it is
\* removed, whatever stale result, kill or lease reclaim arrives later.  Only
\* the reconciliation at a start may relabel one, as Failed.
NoResurrection ==
  [][\A t \in Task :
       Status(t) \in TerminalStatus =>
         \/ Status(t)' \in {Status(t), "absent"}
         \/ Status(t)' = "Failed" /\ \E m \in Mission : <<t, m>> \in boot]_vars

\* completed, failed, cancelled and deleted are final for a mission: a late
\* Ack, Fail, Cancel or reclaim never reopens or relabels it.
MissionEndFinal ==
  [][\A m \in Mission :
       MStatus(m) \in MissionEnd => MStatus(m)' = MStatus(m)]_vars

(***************************************************************************)
(* What holds until a fault of certain kinds occurs                        *)
(***************************************************************************)

\* No two workers execute the same mission, although a mission is handed out
\* again after a crash and neither Ack nor Fail checks who claimed it - as
\* long as no execution has outlasted its lease.
ExclusiveExecution ==
  ~Suffered({"overrun"}) =>
    \A v, w \in Worker : \A m \in Mission :
      Holds(v, m) /\ Holds(w, m) => v = w

\* Names address rows and processes everywhere, so the two properties below
\* are about an agent whose name was only ever given to one mission.
NamedOnce(t) ==
  \A m, n \in Mission : missions[m].task = t /\ missions[n].task = t => m = n

\* An agent shown as Queued or Running has a mission that will still be
\* executed, or whoever took the mission away, a worker that holds it or a
\* starting control plane is about to end it; while the mission waits for a
\* worker the agent is Queued.  (The reaper skips Queued agents, so an orphan
\* would stay until the next restart.)  A store error under a worker does
\* leave orphans, and so does a restart within Kill if the worker dies too.
NoOrphanAgent ==
  /\ ~Suffered({"store", "overrun"})
  /\ ~(Suffered({"crash"}) /\ Suffered({"restart"}))
  => \A t \in Task :
       NamedOnce(t) /\ Status(t) \in LiveStatus =>
         LET m == agents[t].mission IN
         \/ MStatus(m) = "pending" /\ Status(t) = "Queued"
         \/ MStatus(m) = "claimed"
         \/ \E k \in Killer : killer[k].pc = "stop" /\ killer[k].task = t
         \/ reaper.pc = "stop" /\ reaper.task = t
         \/ MStatus(m) = "cancelled" /\ \E w \in Worker : Holds(w, m)
         \/ MStatus(m) = "deleted" /\ <<t, m>> \in boot

\* The two tables agree on how an agent ended: a completed mission's agent is
\* Completed, and, unless a worker died between its two writes, a Completed
\* agent's mission is not recorded as failed or handed out again.
OutcomesAgree ==
  ~Suffered({"store", "overrun"}) =>
    \A t \in Task :
      NamedOnce(t) /\ Status(t) # "absent" =>
        LET m == agents[t].mission IN
        /\ MStatus(m) = "completed" => Status(t) = "Completed"
        /\ Status(t) = "Completed" /\ ~Suffered({"crash"})
             => MStatus(m) \in {"claimed", "completed", "cancelled"}

\* Agent store and mission queue, written by two calls of every handler, tell
\* one story (executeMission, failMission, the lease reclaim).
TablesAgree == NoOrphanAgent /\ OutcomesAgree

(***************************************************************************)
(* What happens eventually                                                 *)
(***************************************************************************)

\* Every accepted agent comes to an end, crashes and kills included.
EveryAgentEnds ==
  <>[](\A t \in Task : Status(t) \notin LiveStatus)

\* Every accepted mission comes to an end: none waits or stays claimed for
\* ever after the worker that claimed it has died.
EveryMissionEnds ==
  <>[](\A m \in Mission : MStatus(m) \notin {"pending", "claimed"})

\* Whatever an operator was promised ends, in both tables (the worker, the
\* lease reclaim, the reaper, the reconciliation at startup).
EverythingEnds == EveryAgentEnds /\ EveryMissionEnds

=============================================================================
