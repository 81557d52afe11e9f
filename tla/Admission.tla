----------------------------- MODULE Admission ------------------------------
(***************************************************************************)
(* An objective and the tree of missions that grows under it.  Agents      *)
(* propose child missions, the admission controller decides one proposal   *)
(* at a time, and other parts of the control plane change the objective at *)
(* the same moment: an agent resolves it, the operator unfreezes it, the   *)
(* reaper times it out, a queued spawn adds a mission to it.               *)
(*                                                                         *)
(* Every database statement is one step.  What makes this hard is that all *)
(* status changes are written back as a whole row that was read earlier.   *)
(***************************************************************************)
EXTENDS Naturals, FiniteSets

CONSTANTS
  ProposalRows,          \* bound: proposals submitted
  MissionRows,           \* bound: missions enqueued
  Key,                   \* dedupe keys
  Evidence,              \* whether proposals bring evidence: a subset of BOOLEAN
  Resolver,              \* concurrent fracta_resolve_objective calls
  Unfreezer,             \* concurrent UnfreezeObjective requests
  Spawner,               \* queued spawns into the objective, one call each
  Reaper,                \* the reaper's objective-timeout pass
  Limits,                \* the limits an objective may be created with
  MaxFindings,           \* bound: findings reported
  MaxFaults              \* bound: failing statements and restarts

Writer == Resolver \union Unfreezer \union {Reaper}

ASSUME AdmissionAssumption ==
  /\ Limits \subseteq [max_missions : Nat, max_depth : Nat, max_branching : Nat,
                       evidence : Nat, ratio : Nat]
  /\ ProposalRows \in Nat /\ MissionRows \in Nat
  /\ MaxFindings \in Nat /\ MaxFaults \in Nat
  /\ Evidence \subseteq BOOLEAN
  /\ "none" \notin Key
  /\ Resolver \cap Unfreezer = {} /\ Reaper \notin Resolver \union Unfreezer

VARIABLES
  limits,       \* its budget caps and the policy's parameters; they never change
  objective,    \* the objective's row
  proposals,    \* the proposals table
  missions,     \* the objective's rows of the missions table
  controller,   \* the admission controller: program counter and locals
  writer,       \* read-modify-write requests in flight
  spawner,      \* how far each spawn has come
  overdue,      \* max_runtime has passed since created_at
  faults        \* failing statements and restarts so far

work == <<objective, proposals, missions, controller, writer, spawner, overdue,
          faults>>

vars == <<limits, work>>

(***************************************************************************)
(* Rows and locals                                                         *)
(***************************************************************************)
Closed  == {"answered", "disproven", "exhausted", "budget_exhausted", "timed_out"}
ObjStatus == {"open", "frozen"} \union Closed

Objective == [status : ObjStatus, missions : Nat, findings : Nat]

Mission  == 1..MissionRows       \* BIGSERIAL ids
Proposal == 1..ProposalRows

NoId  == 0                       \* NULL
NoKey == "none"

ProposalRow == [status   : {"none", "pending", "approved", "rejected"},
                parent   : Mission \union {NoId},
                key      : Key \union {NoKey},
                evidence : BOOLEAN]

NoProposal == [status |-> "none", parent |-> NoId, key |-> NoKey, evidence |-> FALSE]

Active == {"pending", "claimed"}

MissionRow == [status : {"none", "ended", "cancelled", "deleted"} \union Active,
               depth  : Nat,
               parent : Mission \union {NoId},
               key    : Key \union {NoKey},
               source : Proposal \union {NoId}]

NoMission == [status |-> "none", depth |-> 0, parent |-> NoId, key |-> NoKey,
              source |-> NoId]

ControllerPc == {"idle", "next", "parent", "decide", "reject", "approve", "enqueue",
                 "count", "freeze", "freezeReject", "converge", "lastCheck",
                 "close", "closeReject"}

Controller == [pc   : ControllerPc,
               todo : SUBSET Proposal,
               prop : Proposal \union {NoId},
               obj  : Objective]

OpenObjective == [status |-> "open", missions |-> 0, findings |-> 0]

IdleController == [pc |-> "idle", todo |-> {}, prop |-> NoId, obj |-> OpenObjective]

WriterState == [busy : BOOLEAN, obj : Objective]

IdleWriter == [busy |-> FALSE, obj |-> OpenObjective]

TypeOK ==
  /\ limits     \in Limits
  /\ objective  \in Objective
  /\ proposals  \in [Proposal -> ProposalRow]
  /\ missions   \in [Mission -> MissionRow]
  /\ controller \in Controller
  /\ writer     \in [Writer -> WriterState]
  /\ spawner    \in [Spawner -> {"ready", "checked", "done"}]
  /\ overdue    \in BOOLEAN
  /\ faults     \in Nat

Init ==
  /\ limits     \in Limits
  /\ objective  = OpenObjective
  /\ proposals  = [p \in Proposal |-> NoProposal]
  /\ missions   = [m \in Mission |-> NoMission]
  /\ controller = IdleController
  /\ writer     = [w \in Writer |-> IdleWriter]
  /\ spawner    = [s \in Spawner |-> "ready"]
  /\ overdue    = FALSE
  /\ faults     = 0

\* The next value of a serial column: a new row has the lowest id not given out.
IsNext(id, row) == /\ row[id].status = "none"
                   /\ \A i \in DOMAIN row : i < id => row[i].status # "none"

Pending == {p \in Proposal : proposals[p].status = "pending"}

\* Only missions the controller materialized carry a proposal.
Children == {m \in Mission : missions[m].source # NoId}

ActiveChildren(m) ==
  {c \in Mission : missions[c].parent = m /\ missions[c].status \in Active}

\* CanTransition
AllowedTransition(from, to) ==
  \/ from = "open"   /\ to \in Closed \union {"frozen"}
  \/ from = "frozen" /\ to = "open"

(***************************************************************************)
(* Agents                                                                  *)
(***************************************************************************)

\* fracta_propose_mission: no look at the objective.  The process of a
\* cancelled mission may still be running.
Propose(p, m, k, e) ==
  /\ IsNext(p, proposals)
  /\ missions[m].status \in {"claimed", "cancelled"}
  /\ proposals' = [proposals EXCEPT ![p] = [status |-> "pending", parent |-> m,
                                            key |-> k, evidence |-> e]]
  /\ UNCHANGED <<objective, missions, controller, writer, spawner, overdue, faults>>

\* fracta_report_finding: IncrementFindingCount.
ReportFinding ==
  /\ objective.findings < MaxFindings
  /\ \E m \in Mission : missions[m].status \in {"claimed", "cancelled"}
  /\ objective' = [objective EXCEPT !.findings = @ + 1]
  /\ UNCHANGED <<proposals, missions, controller, writer, spawner, overdue, faults>>

(***************************************************************************)
(* Read-modify-write of the objective: resolve, unfreeze, time out         *)
(***************************************************************************)
Target(w) == CASE w \in Resolver  -> {"answered", "disproven"}
               [] w \in Unfreezer -> {"open"}
               [] w = Reaper      -> {"timed_out"}

\* Get (or ListByStatus) and the check of the transition on the copy.
ReadObjective(w) ==
  /\ ~writer[w].busy
  /\ w = Reaper => overdue
  /\ \E s \in Target(w) :
       /\ AllowedTransition(objective.status, s)
       /\ writer' = [writer EXCEPT ![w] = [busy |-> TRUE,
                                           obj  |-> [objective EXCEPT !.status = s]]]
  /\ UNCHANGED <<objective, proposals, missions, controller, spawner, overdue, faults>>

\* Update: every column from the copy.
UpdateObjective(w) ==
  /\ writer[w].busy
  /\ objective' = writer[w].obj
  /\ writer' = [writer EXCEPT ![w] = IdleWriter]
  /\ UNCHANGED <<proposals, missions, controller, spawner, overdue, faults>>

(***************************************************************************)
(* Queued spawn into the objective: check, then Enqueue                    *)
(***************************************************************************)
SpawnCheck(s) ==
  /\ spawner[s] = "ready"
  /\ spawner' = [spawner EXCEPT ![s] = IF objective.status = "open"
                                         THEN "checked" ELSE "done"]
  /\ UNCHANGED <<objective, proposals, missions, controller, writer, overdue, faults>>

SpawnEnqueue(s, m) ==
  /\ spawner[s] = "checked"
  /\ IsNext(m, missions)
  /\ missions' = [missions EXCEPT ![m].status = "pending"]
  /\ spawner' = [spawner EXCEPT ![s] = "done"]
  /\ UNCHANGED <<objective, proposals, controller, writer, overdue, faults>>

(***************************************************************************)
(* The queue and the clock move on.                                        *)
(***************************************************************************)
QueueStep(m) ==
  /\ \E s \in CASE missions[m].status = "pending" -> {"claimed", "deleted"}
                [] missions[m].status = "claimed" -> {"pending", "ended", "cancelled"}
                [] OTHER -> {} :
       missions' = [missions EXCEPT ![m].status = s]
  /\ UNCHANGED <<objective, proposals, controller, writer, spawner, overdue, faults>>

\* max_runtime is never zero: ApplyDefaults.
TimePasses ==
  /\ ~overdue
  /\ overdue' = TRUE
  /\ UNCHANGED <<objective, proposals, missions, controller, writer, spawner, faults>>

(***************************************************************************)
(* The policy                                                              *)
(***************************************************************************)
\* Step 8 as written: at the limit, and with a grace of one ratio.
Tripped(o) ==
  /\ limits.ratio > 0
  /\ o.missions > 0
  /\ o.missions >= IF o.findings = 0 THEN limits.ratio
                                     ELSE limits.ratio * o.findings

\* Mutants: the depth check compares the parent's depth; the mission cap is
\* off by one.
DecisionParentDepth(o, row) ==
  IF \/ o.status # "open"
     \/ o.missions >= limits.max_missions
     \/ missions[row.parent].depth > limits.max_depth
     \/ Cardinality(ActiveChildren(row.parent)) >= limits.max_branching
     \/ overdue
    THEN "reject"
    ELSE IF Tripped(o) THEN "freeze" ELSE "approve"

DecisionOneMoreMission(o, row) ==
  IF \/ o.status # "open"
     \/ o.missions > limits.max_missions
     \/ missions[row.parent].depth + 1 > limits.max_depth
     \/ Cardinality(ActiveChildren(row.parent)) >= limits.max_branching
     \/ overdue
    THEN "reject"
    ELSE IF Tripped(o) THEN "freeze" ELSE "approve"

\* Evaluate: o is the controller's copy of the objective.
Decision(o, row) ==
  IF \/ o.status # "open"
     \/ o.missions >= limits.max_missions
     \/ missions[row.parent].depth + 1 > limits.max_depth
     \/ Cardinality(ActiveChildren(row.parent)) >= limits.max_branching
     \/ overdue
     \/ limits.evidence > 0 /\ o.missions >= limits.evidence /\ ~row.evidence
    THEN "reject"
    ELSE IF Tripped(o) THEN "freeze" ELSE "approve"

(***************************************************************************)
(* The admission controller                                                *)
(***************************************************************************)
AtC(pc) == controller.pc = pc

Become(pc) == controller' = [controller EXCEPT !.pc = pc]

\* On to the next proposal of the pass; the locals of this one are dropped.
NextProposal == controller' = [IdleController EXCEPT !.pc = "next",
                                                     !.todo = controller.todo]

Cur == proposals[controller.prop]

\* tick: PendingProposals
FetchPending ==
  /\ AtC("idle")
  /\ controller' = [IdleController EXCEPT !.pc = "next", !.todo = Pending]
  /\ UNCHANGED <<objective, proposals, missions, writer, spawner, overdue, faults>>

\* evaluateOne, 1: Get the objective.
LoadProposal(p) ==
  /\ AtC("next")
  /\ p \in controller.todo
  /\ controller' = [pc |-> "parent", todo |-> controller.todo \ {p}, prop |-> p,
                    obj |-> objective]
  /\ UNCHANGED <<objective, proposals, missions, writer, spawner, overdue, faults>>

\* evaluateOne, 2: GetMission fails when the row is gone, and also when its
\* claimed_by is NULL, that is while the mission is pending.
Readable(m) == missions[m].status \notin {"pending", "deleted"}

ReadParent ==
  /\ AtC("parent")
  /\ IF Readable(Cur.parent)
       THEN Become("decide")
       ELSE controller' = [controller EXCEPT !.pc = "reject", !.obj = OpenObjective]
  /\ UNCHANGED <<objective, proposals, missions, writer, spawner, overdue, faults>>

\* evaluateOne, 3: the policy on the copy and on the active children by now.
Decide ==
  /\ AtC("decide")
  /\ LET d == Decision(controller.obj, Cur) IN
       controller' = [controller EXCEPT
                        !.pc  = d,
                        !.obj = IF d = "freeze" THEN @ ELSE OpenObjective]
  /\ UNCHANGED <<objective, proposals, missions, writer, spawner, overdue, faults>>

\* Mutant: a rejection notifies the proposer and does not update the row.
RejectNotifiesOnly ==
  /\ AtC("reject")
  /\ NextProposal
  /\ UNCHANGED <<objective, proposals, missions, writer, spawner, overdue, faults>>

Reject ==
  /\ AtC("reject")
  /\ proposals' = [proposals EXCEPT ![controller.prop].status = "rejected"]
  /\ NextProposal
  /\ UNCHANGED <<objective, missions, writer, spawner, overdue, faults>>

\* Mutant: the approval is recorded together with the count, at the end.
ApproveLate ==
  /\ AtC("approve")
  /\ Become("enqueue")
  /\ UNCHANGED <<objective, proposals, missions, writer, spawner, overdue, faults>>

\* materialize, 1: Approve, whatever the row's status is by now.
Approve ==
  /\ AtC("approve")
  /\ proposals' = [proposals EXCEPT ![controller.prop].status = "approved"]
  /\ Become("enqueue")
  /\ UNCHANGED <<objective, missions, writer, spawner, overdue, faults>>

\* The unique index on (objective_id, dedupe_key) of active missions.
DedupeHit(k) ==
  \E m \in Mission : missions[m].status \in Active /\ missions[m].key = k

\* materialize, 2 to 4: Enqueue; an error ends the materialization.
EnqueueChild ==
  /\ AtC("enqueue")
  /\ IF DedupeHit(Cur.key)
       THEN NextProposal /\ UNCHANGED missions
       ELSE /\ \E m \in Mission :
                 /\ IsNext(m, missions)
                 /\ missions' = [missions EXCEPT ![m] =
                       [status |-> "pending",
                        depth  |-> missions[Cur.parent].depth + 1,
                        parent |-> Cur.parent,
                        key    |-> Cur.key,
                        source |-> controller.prop]]
            /\ Become("count")
  /\ UNCHANGED <<objective, proposals, writer, spawner, overdue, faults>>

\* materialize, 6: IncrementMissionCount
CountMission ==
  /\ AtC("count")
  /\ objective' = [objective EXCEPT !.missions = @ + 1]
  /\ NextProposal
  /\ UNCHANGED <<proposals, missions, writer, spawner, overdue, faults>>

\* freezeObjective: Update from the copy, then RejectAllPending.
Freeze ==
  /\ AtC("freeze")
  /\ objective' = [controller.obj EXCEPT !.status = "frozen"]
  /\ Become("freezeReject")
  /\ UNCHANGED <<proposals, missions, writer, spawner, overdue, faults>>

RejectAllPending ==
  proposals' = [p \in Proposal |->
                  IF p \in Pending THEN [proposals[p] EXCEPT !.status = "rejected"]
                                   ELSE proposals[p]]

FreezeReject ==
  /\ AtC("freezeReject")
  /\ RejectAllPending
  /\ NextProposal
  /\ UNCHANGED <<objective, missions, writer, spawner, overdue, faults>>

\* checkConvergence: ListByStatus(open)
ListOpen ==
  /\ AtC("next")
  /\ controller.todo = {}
  /\ controller' = IF objective.status = "open"
                     THEN [IdleController EXCEPT !.pc = "converge", !.obj = objective]
                     ELSE IdleController
  /\ UNCHANGED <<objective, proposals, missions, writer, spawner, overdue, faults>>

CloseAs(s) == controller' = [controller EXCEPT !.pc = "close", !.obj.status = s]

\* checkObjectiveConvergence up to AllMissionsTerminal
Converge ==
  /\ AtC("converge")
  /\ IF controller.obj.missions >= limits.max_missions THEN CloseAs("budget_exhausted")
     ELSE IF overdue THEN CloseAs("timed_out")
     ELSE IF /\ \A m \in Mission : missions[m].status \notin Active
             /\ controller.obj.missions > 0
            THEN Become("lastCheck") ELSE controller' = IdleController
  /\ UNCHANGED <<objective, proposals, missions, writer, spawner, overdue, faults>>

\* PendingForObjective
LastCheck ==
  /\ AtC("lastCheck")
  /\ IF Pending = {} THEN CloseAs("exhausted") ELSE controller' = IdleController
  /\ UNCHANGED <<objective, proposals, missions, writer, spawner, overdue, faults>>

\* transitionObjective: Update from the copy, then RejectAllPending.
Close ==
  /\ AtC("close")
  /\ objective' = controller.obj
  /\ Become("closeReject")
  /\ UNCHANGED <<proposals, missions, writer, spawner, overdue, faults>>

CloseReject ==
  /\ AtC("closeReject")
  /\ RejectAllPending
  /\ controller' = IdleController
  /\ UNCHANGED <<objective, missions, writer, spawner, overdue, faults>>

ControllerStep ==
  \/ FetchPending \/ ReadParent \/ Decide \/ Reject \/ Approve \/ EnqueueChild \/ CountMission
  \/ Freeze \/ FreezeReject \/ ListOpen \/ Converge \/ LastCheck \/ Close
  \/ CloseReject
  \/ \E p \in Proposal : LoadProposal(p)

\* Where the controller goes on after an error.
AfterError ==
  CASE controller.pc \in {"parent", "decide"} ->
         [controller EXCEPT !.pc = "reject", !.obj = OpenObjective]
    [] controller.pc \in {"reject", "approve", "enqueue", "count", "freeze", "freezeReject"} ->
         [IdleController EXCEPT !.pc = "next", !.todo = controller.todo]
    [] controller.pc \in {"converge", "lastCheck", "close", "closeReject"} -> IdleController

\* A statement of the controller fails.
StatementFails ==
  /\ faults < MaxFaults
  /\ controller.pc \notin {"idle", "next"}
  /\ controller' = AfterError
  /\ faults' = faults + 1
  /\ UNCHANGED <<objective, proposals, missions, writer, spawner, overdue>>

\* The control plane restarts: everything in flight is gone.
Restart ==
  /\ faults < MaxFaults
  /\ \/ controller # IdleController
     \/ \E w \in Writer : writer[w].busy
     \/ \E s \in Spawner : spawner[s] = "checked"
  /\ faults' = faults + 1
  /\ controller' = IdleController
  /\ writer' = [w \in Writer |-> IdleWriter]
  /\ spawner' = [s \in Spawner |-> IF spawner[s] = "checked" THEN "done" ELSE spawner[s]]
  /\ UNCHANGED <<objective, proposals, missions, overdue>>

(***************************************************************************)
(* Specification                                                           *)
(***************************************************************************)
Next ==
  /\ \/ \E p \in Proposal, m \in Mission, k \in Key, e \in Evidence : Propose(p, m, k, e)
     \/ ReportFinding
     \/ \E w \in Writer : ReadObjective(w) \/ UpdateObjective(w)
     \/ \E s \in Spawner : SpawnCheck(s) \/ \E m \in Mission : SpawnEnqueue(s, m)
     \/ \E m \in Mission : QueueStep(m)
     \/ TimePasses
     \/ ControllerStep
     \/ StatementFails
     \/ Restart
  /\ UNCHANGED limits

Spec == Init /\ [][Next]_vars

\* The controller's timer fires and its calls return, the reaper's too, and
\* time passes.  Agents, operators and faults owe nothing.
FairSpec ==
  /\ Spec
  /\ WF_work(ControllerStep)
  /\ WF_work(TimePasses)
  /\ \A w \in Writer : WF_work(UpdateObjective(w))
  /\ WF_work(ReadObjective(Reaper))

(***************************************************************************)
(* Properties                                                              *)
(***************************************************************************)

\* The tree stays within max_branching and max_depth: the number of active
\* children is read long before the child is enqueued, and missions end,
\* come back from a reclaim and are proposed meanwhile.
TreeWithinCaps ==
  \A m \in Mission :
    /\ Cardinality(ActiveChildren(m)) <= limits.max_branching
    /\ missions[m].depth <= limits.max_depth

\* A proposal becomes at most one mission, a restart or a failing statement in
\* the middle of materialize included.
OneMissionPerProposal ==
  \A m, n \in Children : missions[m].source = missions[n].source => m = n

\* max_missions holds although mission_count is overwritten from stale copies,
\* up to the increments that failed or were cut off by a restart, and while no
\* two unfreezes overlap: the later would write back a count that is too low.
BudgetRespected == Cardinality(Children) <= limits.max_missions + faults

\* What the tree of missions looks like after any decisions, in any order
\* (Evaluate, materialize, the objective's counters).
AdmissionSound == TreeWithinCaps /\ OneMissionPerProposal /\ BudgetRespected

\* Every proposal is decided: none is left pending, whatever becomes of its
\* objective.
EveryProposalDecided ==
  <>[](\A p \in Proposal : proposals[p].status # "pending")

=============================================================================
